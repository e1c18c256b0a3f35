---------------------------- MODULE KHeapProofs -----------------------------
(***************************************************************************)
(* Proofs about KHeap, for every size of the heap, of its index and of     *)
(* pages, and every set of sizes and alignments callers ask for.           *)
(*                                                                         *)
(* The heap is described by the set C of its boundaries: the addresses     *)
(* where a block starts, and the end of the heap.  Two neighbours of C     *)
(* delimit one block, which is in use, a hole, or the dead part skipped in *)
(* front of a page-aligned allocation, whose size the code leaves at 0.    *)
(***************************************************************************)
EXTENDS KHeap, DataLemmas

(* The block that starts at b ends at c.                                   *)
Adj(C, b, c) == b \in C /\ c \in C /\ b < c /\ \A x \in C : x <= b \/ c <= x

Footed(m, b, c) ==
    Word(m, c - FooterWords) = KHEAP_MAGIC /\ HeaderOf(m, c - FooterWords) = b
Sized(m, b, size) == Word(m, b) = KHEAP_MAGIC /\ SizeOf(m, b) = size

Used(m, b, c) == Sized(m, b, c - b) /\ ~IsHole(m, b) /\ Footed(m, b, c)
Free(m, b, c) == Sized(m, b, c - b) /\ IsHole(m, b) /\ Footed(m, b, c)
Dead(m, b, c) == Sized(m, b, 0) /\ IsHole(m, b) /\ Footed(m, b, c)

(* The hole heap_create() makes has no footer.                             *)
Bare(m, b, c) ==
    /\ Sized(m, b, c - b) /\ IsHole(m, b) /\ b = Start /\ c = InitialEnd
    /\ Word(m, c - FooterWords) # KHEAP_MAGIC
Hole(m, b, c) == Free(m, b, c) \/ Bare(m, b, c)

Block(m, b, c) ==
    c - b >= Overhead /\ (Used(m, b, c) \/ Hole(m, b, c) \/ Dead(m, b, c))

(* What the words of the heap may hold.                                    *)
Memory == [HeapWords -> Int]

(* C cuts the heap, from its start to its end, into blocks.                *)
Layout(m, end, C) ==
    /\ m \in Memory
    /\ end \in InitialEnd .. MaxAddr /\ end % PageWords = 0
    /\ C \subseteq Start .. end /\ Start \in C /\ end \in C
    /\ \A b, c \in C : Adj(C, b, c) => Block(m, b, c)

(* Holes meet only where a page starts.                                    *)
Apart(m, C) ==
    \A b, c, d \in C : Adj(C, b, c) /\ Adj(C, c, d) /\ Hole(m, b, c) /\ Hole(m, c, d)
                         => c % PageWords = 0

(* The index lists I: all holes, and some of the dead parts.               *)
Indexed(m, ix, C, I) ==
    /\ Lists(ix, I)
    /\ \A b, c \in C : Adj(C, b, c) /\ Hole(m, b, c) => b \in I
    /\ \A b \in I : \E c \in C : Adj(C, b, c) /\ (Hole(m, b, c) \/ Dead(m, b, c))

(* Allocations and blocks in use correspond; a dead part lies in front of  *)
(* an aligned allocation.                                                  *)
Fits(m, C, p, a) ==
    /\ a.size \in Nat /\ a.align \in Aligns
    /\ \E c \in C : /\ Adj(C, p - HeaderWords, c) /\ Used(m, p - HeaderWords, c)
                    /\ c - (p - HeaderWords) >= a.size + Overhead
Owned(m, lv, C) ==
    /\ \A p \in DOMAIN lv : p \in Int /\ Fits(m, C, p, lv[p])
    /\ \A b, c \in C : Adj(C, b, c) /\ Used(m, b, c) => b + HeaderWords \in DOMAIN lv
    /\ \A b, c \in C : Adj(C, b, c) /\ Dead(m, b, c)
         => c + HeaderWords \in DOMAIN lv /\ lv[c + HeaderWords].align = TRUE

Heap(m, ix, end, lv, C, I) ==
    Layout(m, end, C) /\ Apart(m, C) /\ Indexed(m, ix, C, I) /\ Owned(m, lv, C)

(* The condition under which the kernel uses its heap: page-aligned        *)
(* allocations are never freed.                                            *)
AlignedStay == FreeAligned => TRUE \notin Aligns

IInv ==
    /\ \E C, I : Heap(mem, index, allocated_end, live, C, I)
    /\ Len(index) <= IndexSize
    /\ TRUE \notin Aligns => PanicsOnlyWhenExhausted

-----------------------------------------------------------------------------
(* The widths the proofs compute with.                                     *)
LEMMA Widths ==
    /\ HeaderWords = 3 /\ FooterWords = 2 /\ Overhead = 5 /\ KHEAP_MAGIC \in Int
    /\ PageWords \in Nat /\ PageWords > 5 /\ Start \in Nat /\ InitialEnd \in Nat
    /\ MaxAddr \in Nat /\ Start + 5 <= InitialEnd /\ InitialEnd <= MaxAddr
    /\ HeapWords \subseteq Int
    /\ InitialEnd % PageWords = 0 /\ Start % PageWords = 0
  BY HeapAssumption DEF HeaderWords, FooterWords, Overhead, KHEAP_MAGIC, HeapWords

(* Words outside lo .. hi - 1 keep their value.                            *)
Changed(m, m2, lo, hi) ==
    /\ m2 \in Memory
    /\ \A a \in Int : a < lo \/ hi <= a => Word(m2, a) = Word(m, a)

(* Writing one word.                                                       *)
Put(m, h, v) == [m EXCEPT ![h] = v]

(* A write to a word of the heap changes that word only.                   *)
LEMMA WriteWord ==
    ASSUME NEW m \in Memory, NEW h \in HeapWords, NEW v \in Int
    PROVE  /\ Put(m, h, v) \in Memory
           /\ \A a : Word(Put(m, h, v), a) = IF a = h THEN v ELSE Word(m, a)
  BY DEF Word, Put, Memory

(* Writing a header_t changes its three words only.                        *)
LEMMA WriteHeader ==
    ASSUME NEW m \in Memory, NEW h \in HeapWords, NEW size \in Int,
           h + 1 \in HeapWords, h + 2 \in HeapWords, NEW hole \in BOOLEAN,
           NEW m2, m2 = PutHeader(m, h, hole, size)
    PROVE  /\ m2 \in Memory
           /\ Sized(m2, h, size) /\ (IsHole(m2, h) <=> hole)
           /\ \A a \in Int : a # h /\ a # h + 1 /\ a # h + 2 => Word(m2, a) = Word(m, a)
<1>0. h \in Int /\ KHEAP_MAGIC \in Int
  BY Widths
<1>1. PICK m3 : m3 = Put(m, h, KHEAP_MAGIC)
  OBVIOUS
<1>2. PICK v \in Int : v = (IF hole THEN 1 ELSE 0)
  OBVIOUS
<1>3. PICK m4 : m4 = Put(m3, h+1, v)
  OBVIOUS
<1>4. m2 = Put(m4, h+2, size)
  BY <1>1, <1>2, <1>3, Zenon DEF PutHeader, Put
<1>5. /\ m3 \in Memory
      /\ \A a : Word(m3, a) = IF a = h THEN KHEAP_MAGIC ELSE Word(m, a)
  BY <1>0, <1>1, WriteWord
<1>6. /\ m4 \in Memory
      /\ \A a : Word(m4, a) = IF a = h + 1 THEN v ELSE Word(m3, a)
  BY <1>3, <1>5, WriteWord
<1>7. /\ m2 \in Memory
      /\ \A a : Word(m2, a) = IF a = h + 2 THEN size ELSE Word(m4, a)
  BY <1>4, <1>6, WriteWord
<1>8. /\ Word(m2, h) = KHEAP_MAGIC /\ Word(m2, h + 2) = size /\ Word(m2, h + 1) = v
      /\ \A a \in Int : a # h /\ a # h + 1 /\ a # h + 2 => Word(m2, a) = Word(m, a)
  BY <1>0, <1>5, <1>6, <1>7
<1>9. IsHole(m2, h) <=> hole
  BY <1>2, <1>8 DEF IsHole
<1> QED BY <1>7, <1>8, <1>9 DEF Sized, SizeOf

(* Writing a footer_t changes its two words only.                          *)
LEMMA WriteFooter ==
    ASSUME NEW m \in Memory, NEW f \in HeapWords, NEW h \in Int,
           f + 1 \in HeapWords, NEW m2, m2 = PutFooter(m, f, h)
    PROVE  /\ m2 \in Memory
           /\ Word(m2, f) = KHEAP_MAGIC /\ HeaderOf(m2, f) = h
           /\ \A a \in Int : a # f /\ a # f + 1 => Word(m2, a) = Word(m, a)
<1>0. f \in Int /\ KHEAP_MAGIC \in Int
  BY Widths
<1>1. PICK m3 : m3 = Put(m, f, KHEAP_MAGIC)
  OBVIOUS
<1>2. m2 = Put(m3, f+1, h)
  BY <1>1, Zenon DEF PutFooter, Put
<1>3. /\ m3 \in Memory
      /\ \A a : Word(m3, a) = IF a = f THEN KHEAP_MAGIC ELSE Word(m, a)
  BY <1>0, <1>1, WriteWord
<1>4. /\ m2 \in Memory
      /\ \A a : Word(m2, a) = IF a = f + 1 THEN h ELSE Word(m3, a)
  BY <1>2, <1>3, WriteWord
<1> QED BY <1>0, <1>3, <1>4 DEF HeaderOf

(* What a block is depends on its own words only.                          *)
LEMMA SameBlock ==
    ASSUME NEW m, NEW m2, NEW b \in Int, NEW c \in Int, c - b >= Overhead,
           \A a \in b .. c - 1 : Word(m2, a) = Word(m, a)
    PROVE  /\ Used(m2, b, c) <=> Used(m, b, c)
           /\ Free(m2, b, c) <=> Free(m, b, c)
           /\ Bare(m2, b, c) <=> Bare(m, b, c)
           /\ Dead(m2, b, c) <=> Dead(m, b, c)
           /\ Hole(m2, b, c) <=> Hole(m, b, c)
<1>1. /\ b \in b .. c - 1 /\ b + 1 \in b .. c - 1 /\ b + 2 \in b .. c - 1
      /\ c - FooterWords \in b .. c - 1 /\ c - FooterWords + 1 \in b .. c - 1
  BY Widths
<1>2. \A s : Sized(m2, b, s) <=> Sized(m, b, s)
  BY <1>1 DEF Sized, SizeOf
<1>3. IsHole(m2, b) <=> IsHole(m, b)
  BY <1>1 DEF IsHole
<1>4. Footed(m2, b, c) <=> Footed(m, b, c)
  BY <1>1 DEF Footed, HeaderOf
<1>5. Word(m2, c - FooterWords) = Word(m, c - FooterWords)
  BY <1>1
<1> QED BY <1>2, <1>3, <1>4, <1>5, Zenon DEF Used, Free, Bare, Dead, Hole

(* The kinds exclude each other.                                           *)
LEMMA Kinds ==
    ASSUME NEW m, NEW b \in Int, NEW c \in Int, c - b >= Overhead
    PROVE  /\ Used(m, b, c) => ~Hole(m, b, c) /\ ~Dead(m, b, c)
           /\ Hole(m, b, c) => ~Dead(m, b, c)
<1>1. c - b # 0
  BY Widths
<1> QED BY <1>1, Zenon DEF Used, Free, Bare, Dead, Hole, Sized

-----------------------------------------------------------------------------
(* The boundaries C and C2 differ between b and c only; c may be a new end.*)
Local(C, C2, b, c) ==
    /\ C \subseteq Int /\ C2 \subseteq Int
    /\ b \in C /\ b \in C2 /\ c \in C2 /\ b < c
    /\ c \in C \/ \A x \in C : x <= b
    /\ \A x \in Int : x <= b \/ c < x => (x \in C <=> x \in C2)

(* Outside the part that changes, the blocks are the same before and       *)
(* after.                                                                  *)
LEMMA OutsideBlocks ==
    ASSUME NEW C, NEW C2, NEW b, NEW c, Local(C, C2, b, c),
           NEW u \in Int, NEW v \in Int, v <= b \/ c <= u
    PROVE  Adj(C, u, v) <=> Adj(C2, u, v)
  BY DEF Local, Adj

(* No block reaches across the edge of the part that changes.              *)
LEMMA InsideBlocks ==
    ASSUME NEW C, NEW C2, NEW b, NEW c, Local(C, C2, b, c),
           NEW u \in Int, NEW v \in Int
    PROVE  /\ Adj(C2, u, v) => v <= b \/ c <= u \/ (b <= u /\ v <= c)
           /\ Adj(C, u, v) => v <= b \/ c <= u \/ (b <= u /\ v <= c)
  BY DEF Local, Adj

(* A block outside the part that changes stays what it is.                 *)
LEMMA KeptBlocks ==
    ASSUME NEW m, NEW m2, NEW end, NEW C, NEW C2, NEW b, NEW c,
           Layout(m, end, C), Local(C, C2, b, c), Changed(m, m2, b, c),
           NEW u \in Int, NEW v \in Int, v <= b \/ c <= u, Adj(C, u, v) \/ Adj(C2, u, v)
    PROVE  /\ Adj(C, u, v) /\ Adj(C2, u, v) /\ Block(m, u, v) /\ Block(m2, u, v)
           /\ v - u >= Overhead
           /\ Used(m2, u, v) <=> Used(m, u, v)
           /\ Free(m2, u, v) <=> Free(m, u, v)
           /\ Bare(m2, u, v) <=> Bare(m, u, v)
           /\ Dead(m2, u, v) <=> Dead(m, u, v)
           /\ Hole(m2, u, v) <=> Hole(m, u, v)
<1>1. Adj(C, u, v) /\ Adj(C2, u, v)
  BY OutsideBlocks
<1>2. Block(m, u, v)
  BY <1>1 DEF Layout, Adj
<1>3. v - u >= Overhead
  BY <1>2 DEF Block
<1>4. \A a \in u .. v - 1 : Word(m2, a) = Word(m, a)
  BY DEF Changed, Local
<1>5. /\ Used(m2, u, v) <=> Used(m, u, v)
      /\ Free(m2, u, v) <=> Free(m, u, v)
      /\ Bare(m2, u, v) <=> Bare(m, u, v)
      /\ Dead(m2, u, v) <=> Dead(m, u, v)
      /\ Hole(m2, u, v) <=> Hole(m, u, v)
  BY <1>3, <1>4, SameBlock
<1> QED BY <1>1, <1>2, <1>3, <1>5 DEF Block

(* What remains to be shown of a step that changes the blocks between b    *)
(* and c: one definition and one lemma for each part of the description.   *)
BlocksInside(m, C, b, c) ==
    \A u, v \in C : Adj(C, u, v) /\ b <= u /\ v <= c => Block(m, u, v)
ApartInside(m, C, b, c) ==
    \A u, v, w \in C : Adj(C, u, v) /\ Adj(C, v, w) /\ b <= v /\ v <= c
                       /\ Hole(m, u, v) /\ Hole(m, v, w) => v % PageWords = 0
IndexedInside(m, C, I, I2, b, c) ==
    /\ \A u, v \in C : Adj(C, u, v) /\ b <= u /\ v <= c /\ Hole(m, u, v) => u \in I2
    /\ \A x \in I : x < b \/ c <= x => x \in I2
    /\ \A x \in I2 : \/ x \in I /\ (x < b \/ c <= x)
                     \/ \E v \in C : Adj(C, x, v) /\ (Hole(m, x, v) \/ Dead(m, x, v))
OwnedInside(m, C, lv, lv2, b, c) ==
    /\ \A u, v \in C : Adj(C, u, v) /\ b <= u /\ v <= c =>
          /\ Used(m, u, v) => u + HeaderWords \in DOMAIN lv2
          /\ Dead(m, u, v) => /\ v + HeaderWords \in DOMAIN lv2
                              /\ lv2[v + HeaderWords].align = TRUE
    /\ \A p \in DOMAIN lv2 : \/ p \in Int /\ Fits(m, C, p, lv2[p])
                             \/ /\ p \in DOMAIN lv /\ lv2[p] = lv[p]
                                /\ p - HeaderWords < b \/ c <= p - HeaderWords
    /\ \A p \in DOMAIN lv : \/ p \in DOMAIN lv2 /\ lv2[p] = lv[p]
                            \/ /\ b <= p - HeaderWords /\ p - HeaderWords < c
                               /\ lv[p].align # TRUE

(* The four parts of Heap survive a local change if they hold inside the   *)
(* part that changes. First, that the heap is cut into blocks.             *)
LEMMA LayoutLocal ==
    ASSUME NEW m, NEW m2, NEW end, NEW end2, NEW C, NEW C2, NEW b, NEW c,
           Layout(m, end, C), Local(C, C2, b, c), Changed(m, m2, b, c),
           end2 \in InitialEnd .. MaxAddr, end2 % PageWords = 0,
           C2 \subseteq Start .. end2, end2 \in C2,
           BlocksInside(m2, C2, b, c)
    PROVE  Layout(m2, end2, C2)
<1>1. Start \in C2
  BY Widths DEF Layout, Local
<1>2. m2 \in Memory
  BY DEF Changed
<1>3. ASSUME NEW u \in C2, NEW v \in C2, Adj(C2, u, v) PROVE Block(m2, u, v)
  <2>1. u \in Int /\ v \in Int
    BY DEF Local
  <2>2. CASE b <= u /\ v <= c
    BY <1>3, <2>2 DEF BlocksInside
  <2>3. CASE v <= b \/ c <= u
    BY <1>3, <2>1, <2>3, KeptBlocks
  <2> QED BY <1>3, <2>1, <2>2, <2>3, InsideBlocks
<1> QED BY <1>1, <1>2, <1>3 DEF Layout

(* Second, that holes meet only at page boundaries.                        *)
LEMMA ApartLocal ==
    ASSUME NEW m, NEW m2, NEW end, NEW C, NEW C2, NEW b, NEW c,
           Layout(m, end, C), Local(C, C2, b, c), Changed(m, m2, b, c), Apart(m, C),
           ApartInside(m2, C2, b, c)
    PROVE  Apart(m2, C2)
<1> SUFFICES ASSUME NEW u \in C2, NEW v \in C2, NEW w \in C2, v < b \/ c < v,
                    Adj(C2, u, v), Adj(C2, v, w), Hole(m2, u, v), Hole(m2, v, w)
             PROVE  v % PageWords = 0
  <2>1. \A v \in C2 : (b <= v /\ v <= c) \/ v < b \/ c < v
    BY DEF Local
  <2> QED BY <2>1 DEF Apart, ApartInside
<1>1. u \in Int /\ v \in Int /\ w \in Int /\ b \in Int /\ c \in Int
  BY DEF Local
<1>2. (v <= b \/ c <= u) /\ (w <= b \/ c <= v)
  BY <1>1, InsideBlocks DEF Adj, Local
<1>3. Adj(C, u, v) /\ Hole(m, u, v)
  BY <1>1, <1>2, KeptBlocks
<1>4. Adj(C, v, w) /\ Hole(m, v, w)
  BY <1>1, <1>2, KeptBlocks
<1>5. u \in C /\ v \in C /\ w \in C
  BY <1>3, <1>4 DEF Adj
<1> QED BY <1>3, <1>4, <1>5 DEF Apart

(* Third, that the index lists the holes.                                  *)
LEMMA IndexedLocal ==
    ASSUME NEW m, NEW m2, NEW end, NEW C, NEW C2, NEW b, NEW c,
           Layout(m, end, C), Local(C, C2, b, c), Changed(m, m2, b, c),
           NEW ix, NEW I, Indexed(m, ix, C, I), NEW ix2, NEW I2, Lists(ix2, I2),
           IndexedInside(m2, C2, I, I2, b, c)
    PROVE  Indexed(m2, ix2, C2, I2)
<1>0. b \in Int /\ c \in Int /\ b < c
  BY DEF Local
<1>1. ASSUME NEW u \in C2, NEW v \in C2, Adj(C2, u, v), Hole(m2, u, v) PROVE u \in I2
  <2>1. u \in Int /\ v \in Int /\ u < v
    BY <1>1 DEF Local, Adj
  <2>2. CASE b <= u /\ v <= c
    BY <1>1, <2>2 DEF IndexedInside
  <2>3. CASE v <= b \/ c <= u
    <3>1. Adj(C, u, v) /\ Hole(m, u, v)
      BY <1>1, <2>1, <2>3, KeptBlocks
    <3>2. u \in I
      BY <3>1 DEF Indexed, Adj
    <3> QED BY <1>0, <2>1, <2>3, <3>2 DEF IndexedInside
  <2> QED BY <1>1, <2>1, <2>2, <2>3, InsideBlocks
<1>2. ASSUME NEW x \in I, x < b \/ c <= x
      PROVE  \E v \in C2 : Adj(C2, x, v) /\ (Hole(m2, x, v) \/ Dead(m2, x, v))
  <2>1. PICK v \in C : Adj(C, x, v) /\ (Hole(m, x, v) \/ Dead(m, x, v))
    BY DEF Indexed
  <2>2. x \in Int /\ v \in Int /\ x < v
    BY <2>1 DEF Local, Adj
  <2>3. v <= b \/ c <= x
    BY <1>0, <1>2, <2>1, <2>2, InsideBlocks
  <2>4. Adj(C2, x, v) /\ (Hole(m2, x, v) \/ Dead(m2, x, v))
    BY <2>1, <2>2, <2>3, KeptBlocks
  <2> QED BY <2>4 DEF Adj
<1> QED BY <1>1, <1>2 DEF Indexed, IndexedInside

(* Fourth, that allocations and blocks in use correspond.                  *)
LEMMA OwnedLocal ==
    ASSUME NEW m, NEW m2, NEW end, NEW C, NEW C2, NEW b, NEW c,
           Layout(m, end, C), Local(C, C2, b, c), Changed(m, m2, b, c),
           NEW lv, Owned(m, lv, C), NEW lv2,
           OwnedInside(m2, C2, lv, lv2, b, c)
    PROVE  Owned(m2, lv2, C2)
<1>0. b \in Int /\ c \in Int /\ b < c /\ HeaderWords = 3
  BY Widths DEF Local
<1>1. ASSUME NEW p \in DOMAIN lv2 PROVE p \in Int /\ Fits(m2, C2, p, lv2[p])
  <2>1. CASE /\ p \in DOMAIN lv /\ lv2[p] = lv[p]
             /\ p - HeaderWords < b \/ c <= p - HeaderWords
    <3>1. p \in Int /\ Fits(m, C, p, lv[p])
      BY <2>1 DEF Owned
    <3>2. PICK v \in C : /\ Adj(C, p - HeaderWords, v) /\ Used(m, p - HeaderWords, v)
                         /\ v - (p - HeaderWords) >= lv[p].size + Overhead
      BY <3>1 DEF Fits
    <3>3. PICK h \in Int : h = p - HeaderWords
      BY <1>0, <3>1
    <3>4. v \in Int /\ h < v
      BY <3>2, <3>3 DEF Local, Adj
    <3>5. v <= b \/ c <= h
      BY <1>0, <2>1, <3>2, <3>3, <3>4, InsideBlocks
    <3>6. Adj(C2, h, v) /\ Used(m2, h, v)
      BY <3>2, <3>3, <3>4, <3>5, KeptBlocks
    <3>7. v \in C2
      BY <3>6 DEF Adj
    <3> QED BY <2>1, <3>1, <3>2, <3>3, <3>6, <3>7 DEF Fits
  <2> QED BY <2>1 DEF OwnedInside
<1>2. ASSUME NEW u \in C2, NEW v \in C2, Adj(C2, u, v)
      PROVE  /\ Used(m2, u, v) => u + HeaderWords \in DOMAIN lv2
             /\ Dead(m2, u, v) => /\ v + HeaderWords \in DOMAIN lv2
                                  /\ lv2[v + HeaderWords].align = TRUE
  <2>1. u \in Int /\ v \in Int /\ u < v
    BY <1>2 DEF Local, Adj
  <2>2. CASE b <= u /\ v <= c
    BY <1>2, <2>2 DEF OwnedInside
  <2>3. CASE v <= b \/ c <= u
    <3>1. /\ Adj(C, u, v) /\ (Used(m2, u, v) <=> Used(m, u, v))
          /\ (Dead(m2, u, v) <=> Dead(m, u, v))
      BY <1>2, <2>1, <2>3, KeptBlocks
    <3>2. u \in C /\ v \in C
      BY <3>1 DEF Adj
    <3>3. ASSUME Used(m2, u, v) PROVE u + HeaderWords \in DOMAIN lv2
      <4>1. u + HeaderWords \in DOMAIN lv
        BY <3>1, <3>2, <3>3 DEF Owned
      <4>2. PICK p : p = u + HeaderWords
        OBVIOUS
      <4>3. p - HeaderWords = u /\ (u < b \/ c <= u)
        BY <1>0, <2>1, <2>3, <4>2
      <4>4. ~(b <= u /\ u < c)
        BY <1>0, <2>1, <4>3
      <4> QED BY <4>1, <4>2, <4>3, <4>4 DEF OwnedInside
    <3>4. ASSUME Dead(m2, u, v)
          PROVE  v + HeaderWords \in DOMAIN lv2 /\ lv2[v + HeaderWords].align = TRUE
      <4>1. v + HeaderWords \in DOMAIN lv /\ lv[v + HeaderWords].align = TRUE
        BY <3>1, <3>2, <3>4 DEF Owned
      <4>2. PICK p : p = v + HeaderWords
        OBVIOUS
      <4> QED BY <4>1, <4>2 DEF OwnedInside
    <3> QED BY <3>3, <3>4
  <2> QED BY <1>2, <2>1, <2>2, <2>3, InsideBlocks
<1> QED BY <1>1, <1>2 DEF Owned
-----------------------------------------------------------------------------
(* The ways a step changes the boundaries.                                 *)
(* Between b and c there are at most the blocks that start at b, p and q.  *)
Pieces(C, b, p, q, c) ==
    \A u, v \in C : Adj(C, u, v) /\ b <= u /\ v <= c =>
        (u = b /\ v = p) \/ (u = p /\ v = q) \/ (u = q /\ v = c)

(* A block cut at p and q, as heap_alloc() does, falls into up to three.   *)
LEMMA CutBoundaries ==
    ASSUME NEW C, C \subseteq Int, NEW b \in Int, NEW p \in Int, NEW q \in Int,
           NEW c \in Int, b <= p, p < q, q <= c, Adj(C, b, c),
           NEW C2, C2 = C \cup {p, q}
    PROVE  /\ Local(C, C2, b, c) /\ Pieces(C2, b, p, q, c) /\ Adj(C2, p, q)
           /\ p # b => Adj(C2, b, p)
           /\ q # c => Adj(C2, q, c)
<1>1. b \in C /\ c \in C /\ \A z \in C : z <= b \/ c <= z
  BY DEF Adj
<1>2. Local(C, C2, b, c)
  BY <1>1 DEF Local
<1>3. \A z \in C2 : z \in Int /\ (z <= b \/ z = p \/ z = q \/ c <= z)
  BY <1>1
<1>4. b \in C2 /\ p \in C2 /\ q \in C2 /\ c \in C2
  BY <1>1
<1>5. Adj(C2, p, q)
  BY <1>3, <1>4 DEF Adj
<1>6. p # b => Adj(C2, b, p)
  BY <1>3, <1>4 DEF Adj
<1>7. q # c => Adj(C2, q, c)
  BY <1>3, <1>4 DEF Adj
<1>8. Pieces(C2, b, p, q, c)
  <2> SUFFICES ASSUME NEW u \in C2, NEW v \in C2, Adj(C2, u, v), b <= u, v <= c
               PROVE  (u = b /\ v = p) \/ (u = p /\ v = q) \/ (u = q /\ v = c)
    BY DEF Pieces
  <2>1. u \in Int /\ v \in Int /\ u < v /\ \A z \in C2 : z <= u \/ v <= z
    BY <1>3 DEF Adj
  <2>2. u = b \/ u = p \/ u = q
    BY <1>3, <2>1
  <2>3. v = p \/ v = q \/ v = c
    BY <1>3, <2>1
  <2> QED BY <1>4, <2>1, <2>2, <2>3
<1> QED BY <1>2, <1>5, <1>6, <1>7, <1>8

Without(C, b, c) == { x \in C : x <= b \/ c <= x }

(* Without the boundaries between b and c, as heap_free() leaves them,     *)
(* there is one block from b to c.                                         *)
LEMMA Joined ==
    ASSUME NEW C, C \subseteq Int, NEW b \in C, NEW c \in C, b < c,
           NEW C2, C2 = Without(C, b, c)
    PROVE  /\ Local(C, C2, b, c) /\ Adj(C2, b, c)
           /\ Pieces(C2, b, b, c, c)
<1>1. \A x : x \in C2 <=> x \in C /\ (x <= b \/ c <= x)
  BY DEF Without
<1>0. b \in Int /\ c \in Int /\ b <= b /\ c <= c
  OBVIOUS
<1>2. /\ b \in Int /\ c \in Int /\ b \in C2 /\ c \in C2 /\ C2 \subseteq Int
      /\ \A z \in C2 : z <= b \/ c <= z
  <2>1. b \in C2 /\ c \in C2
    BY <1>0, <1>1
  <2>2. \A z \in C2 : z \in Int /\ (z <= b \/ c <= z)
    BY <1>1
  <2> QED BY <1>0, <2>1, <2>2
<1>3. Local(C, C2, b, c)
  BY <1>1, <1>2 DEF Local
<1>4. Adj(C2, b, c)
  BY <1>2 DEF Adj
<1>5. ASSUME NEW u \in C2, NEW v \in C2, Adj(C2, u, v), b <= u, v <= c
      PROVE  u = b /\ v = c
  <2>1. u < v /\ u \in Int /\ v \in Int
    BY <1>2, <1>5 DEF Adj
  <2> QED BY <1>2, <1>5, <2>1
<1> QED BY <1>3, <1>4, <1>5 DEF Pieces

(* What expand() adds is one block between the old end and the new.        *)
LEMMA NewEnd ==
    ASSUME NEW C, C \subseteq Int, NEW end \in C, \A x \in C : x <= end,
           NEW e \in Int, end < e, NEW C2, C2 = C \cup {e}
    PROVE  /\ Local(C, C2, end, e) /\ Adj(C2, end, e)
           /\ Pieces(C2, end, end, e, e)
  BY DEF Local, Adj, Pieces

(* Every boundary but the last has a next one, all but the first one       *)
(* before.                                                                 *)
LEMMA NextBoundary ==
    ASSUME NEW C, C \subseteq Int, NEW b \in C, NEW e \in C, b < e
    PROVE  \E c \in C : Adj(C, b, c)
<1> DEFINE T == { x - b : x \in { y \in C : b < y } }
<1>1. T \subseteq Nat /\ e - b \in T
  OBVIOUS
<1>2. PICK t \in T : \A s \in T : t <= s
  BY <1>1, LeastNumber
<1>3. PICK c \in C : b < c /\ t = c - b
  OBVIOUS
<1>4. ASSUME NEW x \in C PROVE x <= b \/ c <= x
  <2>1. b < x => x - b \in T
    OBVIOUS
  <2>2. b < x => c - b <= x - b
    BY <1>2, <1>3, <2>1
  <2> QED BY <1>3, <2>2
<1> QED BY <1>3, <1>4 DEF Adj

(* Every boundary but the first has one before it.                         *)
LEMMA PreviousBoundary ==
    ASSUME NEW C, C \subseteq Int, NEW s \in C, NEW c \in C, s < c
    PROVE  \E b \in C : Adj(C, b, c)
<1> DEFINE T == { c - x : x \in { y \in C : y < c } }
<1>1. T \subseteq Nat /\ c - s \in T
  OBVIOUS
<1>2. PICK t \in T : \A r \in T : t <= r
  BY <1>1, LeastNumber
<1>3. PICK b \in C : b < c /\ t = c - b
  OBVIOUS
<1>4. ASSUME NEW x \in C PROVE x <= b \/ c <= x
  <2>1. x < c => c - x \in T
    OBVIOUS
  <2>2. x < c => c - b <= c - x
    BY <1>2, <1>3, <2>1
  <2> QED BY <1>3, <2>2
<1> QED BY <1>3, <1>4 DEF Adj

(* Two blocks do not overlap.                                              *)
LEMMA BlocksDisjoint ==
    ASSUME NEW C, C \subseteq Int, NEW b, NEW c, NEW u, NEW v,
           Adj(C, b, c), Adj(C, u, v)
    PROVE  c <= u \/ v <= b \/ (b = u /\ c = v)
  BY DEF Adj

-----------------------------------------------------------------------------
(* A header and its footer, written together.                              *)
LEMMA WriteBlock ==
    ASSUME NEW m \in Memory, NEW b \in Int, NEW c \in Int, Start <= b,
           c - b >= Overhead, c <= MaxAddr, NEW size \in Int, NEW hole \in BOOLEAN,
           NEW m2, m2 = PutFooter(PutHeader(m, b, hole, size), c - FooterWords, b)
    PROVE  /\ Changed(m, m2, b, c)
           /\ Sized(m2, b, size) /\ (IsHole(m2, b) <=> hole) /\ Footed(m2, b, c)
<1>0. HeaderWords = 3 /\ FooterWords = 2 /\ Overhead = 5 /\ Start \in Int /\ MaxAddr \in Int
  BY Widths
<1>1. PICK m1 : m1 = PutHeader(m, b, hole, size)
  OBVIOUS
<1>2. b \in HeapWords /\ b + 1 \in HeapWords /\ b + 2 \in HeapWords
  BY <1>0 DEF HeapWords
<1>3. /\ m1 \in Memory
      /\ Sized(m1, b, size) /\ (IsHole(m1, b) <=> hole)
      /\ \A a \in Int : a # b /\ a # b + 1 /\ a # b + 2 => Word(m1, a) = Word(m, a)
  BY <1>1, <1>2, WriteHeader
<1>4. PICK f \in Int : f = c - FooterWords
  BY <1>0
<1>5. f \in HeapWords /\ f + 1 \in HeapWords /\ f >= b + 3 /\ f + 2 = c
  BY <1>0, <1>4 DEF HeapWords
<1>6. m2 = PutFooter(m1, f, b)
  BY <1>1, <1>4
<1>7. /\ m2 \in Memory
      /\ Word(m2, f) = KHEAP_MAGIC /\ HeaderOf(m2, f) = b
      /\ \A a \in Int : a # f /\ a # f + 1 => Word(m2, a) = Word(m1, a)
  BY <1>3, <1>5, <1>6, WriteFooter
<1>8. Word(m2, b) = Word(m1, b) /\ Word(m2, b+1) = Word(m1, b+1) /\ Word(m2, b+2) = Word(m1, b+2)
  BY <1>5, <1>7
<1>9. Changed(m, m2, b, c)
  BY <1>3, <1>5, <1>7 DEF Changed
<1>10. Footed(m2, b, c)
  BY <1>4, <1>7 DEF Footed
<1>11. Sized(m2, b, size) /\ (IsHole(m2, b) <=> hole)
  BY <1>3, <1>8 DEF Sized, SizeOf, IsHole
<1> QED BY <1>9, <1>10, <1>11

(* Header and footer of a hole, as heap_alloc() and heap_free() write      *)
(* them.                                                                   *)
LEMMA WriteFree ==
    ASSUME NEW m \in Memory, NEW b \in Int, NEW c \in Int, Start <= b,
           c - b >= Overhead, c <= MaxAddr,
           NEW m2, m2 = PutFooter(PutHeader(m, b, TRUE, c - b), c - FooterWords, b)
    PROVE  Changed(m, m2, b, c) /\ Free(m2, b, c)
<1>0. PICK size \in Int : size = c - b
  OBVIOUS
<1>1. /\ Changed(m, m2, b, c)
      /\ Sized(m2, b, size) /\ (IsHole(m2, b) <=> TRUE) /\ Footed(m2, b, c)
  BY <1>0, WriteBlock
<1> QED BY <1>0, <1>1 DEF Free

(* Header and footer of the part in front of an aligned block:             *)
(* heap_alloc() writes a size of 0.                                        *)
LEMMA WriteDead ==
    ASSUME NEW m \in Memory, NEW b \in Int, NEW c \in Int, Start <= b,
           c - b >= Overhead, c <= MaxAddr,
           NEW m2, m2 = PutFooter(PutHeader(m, b, TRUE, 0), c - FooterWords, b)
    PROVE  Changed(m, m2, b, c) /\ Dead(m2, b, c)
<1>0. PICK size \in Int : size = 0
  OBVIOUS
<1>1. /\ Changed(m, m2, b, c)
      /\ Sized(m2, b, size) /\ (IsHole(m2, b) <=> TRUE) /\ Footed(m2, b, c)
  BY <1>0, WriteBlock
<1> QED BY <1>0, <1>1 DEF Dead

(* Header and footer of a block that is handed out.                        *)
LEMMA WriteUsed ==
    ASSUME NEW m \in Memory, NEW b \in Int, NEW c \in Int, Start <= b,
           c - b >= Overhead, c <= MaxAddr,
           NEW m2, m2 = PutFooter(PutHeader(m, b, FALSE, c - b), c - FooterWords, b)
    PROVE  Changed(m, m2, b, c) /\ Used(m2, b, c)
<1>0. PICK size \in Int : size = c - b
  OBVIOUS
<1>1. PICK hole \in BOOLEAN : hole = FALSE
  OBVIOUS
<1>2. /\ Changed(m, m2, b, c)
      /\ Sized(m2, b, size) /\ (IsHole(m2, b) <=> hole) /\ Footed(m2, b, c)
  <2>1. m2 = PutFooter(PutHeader(m, b, hole, size), c - FooterWords, b)
    BY <1>0, <1>1
  <2> QED BY <1>0, <2>1, WriteBlock
<1> QED BY <1>0, <1>1, <1>2 DEF Used

(* Changes to adjacent parts.                                              *)
LEMMA ChangedTwice ==
    ASSUME NEW m, NEW m2, NEW m3, NEW b \in Int, NEW x \in Int, NEW c \in Int,
           b <= x, x <= c, Changed(m, m2, b, x), Changed(m2, m3, x, c)
    PROVE  Changed(m, m3, b, c)
  BY DEF Changed

(* The block in front of a change stays.                                   *)
LEMMA KeptBefore ==
    ASSUME NEW m, NEW m2, NEW b \in Int, NEW x \in Int, NEW c \in Int,
           x - b >= Overhead, Changed(m, m2, x, c)
    PROVE  /\ Used(m2, b, x) <=> Used(m, b, x)
           /\ Dead(m2, b, x) <=> Dead(m, b, x)
<1>1. \A a \in b .. x - 1 : Word(m2, a) = Word(m, a)
  BY DEF Changed
<1> QED BY <1>1, SameBlock
-----------------------------------------------------------------------------
(* The parts of a description, as facts about one block.                   *)
LEMMA HeapFacts ==
    ASSUME NEW m, NEW ix, NEW end, NEW lv, NEW C, NEW I, Heap(m, ix, end, lv, C, I)
    PROVE  /\ m \in Memory /\ end \in Int /\ InitialEnd <= end /\ end <= MaxAddr
           /\ end % PageWords = 0
           /\ C \subseteq Int /\ Start \in C /\ end \in C
           /\ \A x \in C : Start <= x /\ x <= end
           /\ \A b, c : Adj(C, b, c) =>
                 /\ b \in Int /\ c \in Int /\ Start <= b /\ c <= end /\ c - b >= Overhead
                 /\ Block(m, b, c)
           /\ Lists(ix, I)
<1>1. /\ m \in Memory /\ end \in Int /\ InitialEnd <= end /\ end <= MaxAddr
      /\ end % PageWords = 0
      /\ C \subseteq Int /\ Start \in C /\ end \in C
      /\ \A x \in C : Start <= x /\ x <= end
  BY Widths DEF Heap, Layout
<1>2. \A b, c : Adj(C, b, c) =>
                 /\ b \in Int /\ c \in Int /\ Start <= b /\ c <= end /\ c - b >= Overhead
                 /\ Block(m, b, c)
  BY <1>1 DEF Heap, Layout, Adj, Block
<1> QED BY <1>1, <1>2 DEF Heap, Indexed

(* No allocation lies in a hole.                                           *)
LEMMA OwnersElsewhere ==
    ASSUME NEW m, NEW ix, NEW end, NEW lv, NEW C, NEW I, Heap(m, ix, end, lv, C, I),
           NEW b, NEW c, Adj(C, b, c), Hole(m, b, c), NEW p \in DOMAIN lv
    PROVE  p \in Int /\ (p - HeaderWords < b \/ c <= p - HeaderWords)
<1>1. p \in Int /\ Fits(m, C, p, lv[p])
  BY DEF Heap, Owned
<1>2. PICK v \in C : Adj(C, p - HeaderWords, v) /\ Used(m, p - HeaderWords, v)
  BY <1>1 DEF Fits
<1>3. PICK h \in Int : h = p - HeaderWords
  BY <1>1, Widths
<1>4. Adj(C, h, v) /\ Used(m, h, v)
  BY <1>2, <1>3
<1>5. C \subseteq Int /\ b \in Int /\ c \in Int /\ c - b >= Overhead
  BY HeapFacts
<1>6. ~(h = b /\ v = c)
  BY <1>4, <1>5, Kinds
<1>7. c <= h \/ v <= b
  BY <1>4, <1>5, <1>6, BlocksDisjoint
<1> QED BY <1>1, <1>3, <1>4, <1>5, <1>7 DEF Adj

(* The hole from b to c is cut at p and q: the block handed out goes from  *)
(* p to q and has room for n words.                                        *)
Cut(b, p, q, c, n) ==
    /\ b \in Int /\ p \in Int /\ q \in Int /\ c \in Int /\ n \in Nat
    /\ p = b \/ p - b > Overhead
    /\ q - p >= n + Overhead
    /\ q = c \/ c - q > Overhead

(* The order of the four addresses at which heap_alloc() cuts a hole.      *)
LEMMA CutOrder ==
    ASSUME NEW b, NEW p, NEW q, NEW c, NEW n, Cut(b, p, q, c, n)
    PROVE  /\ b \in Int /\ p \in Int /\ q \in Int /\ c \in Int /\ n \in Nat
           /\ b <= p /\ p < q /\ q <= c /\ b < c /\ p + n + Overhead <= c
           /\ p # b => b < p /\ p - b >= Overhead
           /\ q # c => q < c /\ c - q >= Overhead
           /\ q - p >= Overhead /\ q - p >= n + Overhead
  BY Widths DEF Cut

(* What that does to the holes the index lists, and to the allocations.    *)
IndexCut(I, I2, b, p, q, c) ==
    /\ \A x \in I : x # b => x \in I2
    /\ q # c => q \in I2
    /\ \A x \in I2 : (x \in I /\ x # b) \/ (x = b /\ p # b) \/ (x = q /\ q # c)
HoleCut(m, m2, C, C2, b, p, q, c, n, align) ==
    /\ Local(C, C2, b, c) /\ Changed(m, m2, b, c) /\ Cut(b, p, q, c, n)
    /\ Adj(C2, p, q) /\ Used(m2, p, q) /\ Pieces(C2, b, p, q, c)
    /\ p # b => Adj(C2, b, p) /\ Dead(m2, b, p) /\ align = TRUE
    /\ q # c => Adj(C2, q, c) /\ Free(m2, q, c)
NewOwner(lv, p, n, align) ==
    [x \in DOMAIN lv \cup {p} |-> IF x = p THEN [size |-> n, align |-> align] ELSE lv[x]]

(* The heap once the hole from b to c, or a part of it, is taken.  The     *)
(* block that is handed out goes from p to q; a part before it is dead, a  *)
(* part behind it is a hole again.                                         *)
LEMMA HoleTaken ==
    ASSUME NEW m, NEW ix, NEW end, NEW lv, NEW C, NEW I, Heap(m, ix, end, lv, C, I),
           NEW b, NEW c, Adj(C, b, c), Hole(m, b, c),
           NEW m2, NEW C2, NEW n, NEW align \in Aligns, NEW p, NEW q,
           HoleCut(m, m2, C, C2, b, p, q, c, n, align),
           NEW ix2, NEW I2, Lists(ix2, I2), IndexCut(I, I2, b, p, q, c),
           NEW lv2, lv2 = NewOwner(lv, p + HeaderWords, n, align)
    PROVE  Heap(m2, ix2, end, lv2, C2, I2) /\ p + HeaderWords \notin DOMAIN lv
<1> USE DEF HoleCut
<1>0. HeaderWords = 3 /\ Overhead = 5
  BY Widths
<1>1. /\ end \in Int /\ InitialEnd <= end /\ end <= MaxAddr
      /\ end % PageWords = 0 /\ C \subseteq Int /\ Start \in C /\ end \in C
      /\ \A x \in C : Start <= x /\ x <= end
      /\ b \in Int /\ c \in Int /\ Start <= b /\ c <= end /\ c - b >= Overhead
      /\ b \in C /\ c \in C /\ C2 \subseteq Int
  <2>1. /\ end \in Int /\ InitialEnd <= end /\ end <= MaxAddr
        /\ end % PageWords = 0 /\ C \subseteq Int /\ Start \in C /\ end \in C
        /\ \A x \in C : Start <= x /\ x <= end
        /\ b \in Int /\ c \in Int /\ Start <= b /\ c <= end /\ c - b >= Overhead
    BY HeapFacts
  <2>2. b \in C /\ c \in C /\ C2 \subseteq Int
    BY DEF Adj, Local
  <2> QED BY <2>1, <2>2
<1>2. /\ Layout(m, end, C) /\ Apart(m, C) /\ Indexed(m, ix, C, I) /\ Owned(m, lv, C)
  BY DEF Heap
<1>a. /\ p \in Int /\ q \in Int /\ n \in Nat /\ b <= p /\ p < q /\ q <= c
      /\ p # b => p - b >= Overhead
      /\ q # c => c - q >= Overhead
      /\ q - p >= Overhead /\ q - p >= n + Overhead
  BY CutOrder
<1>b. \A u, v \in C2 : Adj(C2, u, v) /\ b <= u /\ v <= c =>
              \/ u = p /\ v = q
              \/ u = b /\ v = p /\ p - b >= Overhead /\ Dead(m2, b, p) /\ align = TRUE
              \/ u = q /\ v = c /\ c - q >= Overhead /\ Free(m2, q, c)
  <2>1. \A u, v \in C2 : Adj(C2, u, v) => u # v
    BY <1>1 DEF Adj
  <2> QED BY <1>a, <2>1 DEF Pieces
<1>c. /\ \A x \in I : x # b => x \in I2
      /\ q # c => q \in I2
      /\ \A x \in I2 : \/ x \in I /\ x # b
                       \/ x = b /\ Adj(C2, b, p) /\ Dead(m2, b, p)
                       \/ x = q /\ Adj(C2, q, c) /\ Free(m2, q, c)
  BY DEF IndexCut
<1>3. p \in C2 /\ q \in C2 /\ p < q
  BY DEF Adj
<1>4. end \in C2 /\ C2 \subseteq Start .. end
  <2>1. end \in C2
    BY <1>1 DEF Local
  <2>2. ASSUME NEW x \in C2 PROVE x \in Start .. end
    <3>1. CASE x <= b \/ c < x
      BY <1>1, <3>1 DEF Local
    <3>2. CASE b < x /\ x <= c
      BY <1>1, <3>2, Widths
    <3> QED BY <1>1, <3>1, <3>2
  <2> QED BY <2>1, <2>2
<1>5. BlocksInside(m2, C2, b, c)
  BY <1>0, <1>a, <1>b DEF Block, Hole, BlocksInside
<1>6. Layout(m2, end, C2)
  <2>1. end \in InitialEnd .. MaxAddr
    BY <1>1, Widths
  <2> QED BY <1>1, <1>2, <1>4, <1>5, <2>1, LayoutLocal
<1>7. Apart(m2, C2)
  <2>1. ApartInside(m2, C2, b, c)
    <3> SUFFICES ASSUME NEW u \in C2, NEW v \in C2, NEW w \in C2,
                        Adj(C2, u, v), Adj(C2, v, w), b <= v, v <= c,
                        Hole(m2, u, v), Hole(m2, v, w)
                 PROVE  v % PageWords = 0
      BY DEF ApartInside
    <3>1. u \in Int /\ v \in Int /\ w \in Int /\ u < v /\ v < w
      BY <1>1 DEF Adj
    <3>2. ASSUME NEW x \in C2, NEW y \in C2, Adj(C2, x, y), b <= x, y <= c, Hole(m2, x, y)
          PROVE  x = q /\ y = c /\ q # c /\ q > b
      <4>1. CASE x = p /\ y = q
        <5>1. ~Used(m2, x, y)
          BY <1>0, <1>a, <3>2, <4>1, Kinds
        <5> QED BY <4>1, <5>1
      <4>2. CASE x = b /\ y = p /\ p - b >= Overhead /\ Dead(m2, b, p)
        <5>1. ~Dead(m2, x, y)
          BY <1>1, <1>a, <3>2, <4>2, Kinds
        <5> QED BY <4>2, <5>1
      <4>3. CASE x = q /\ y = c /\ c - q >= Overhead /\ Free(m2, q, c)
        BY <1>0, <1>1, <1>3, <1>a, <4>3
      <4> QED BY <1>b, <3>2, <4>1, <4>2, <4>3
    <3>3. CASE v < c
      <4>1. w <= c
        BY <1>1, <3>1, <3>3 DEF Adj, Local
      <4>2. v = q /\ w = c /\ q > b
        BY <3>2, <4>1
      <4>3. b <= u
        BY <1>1, <3>1, <4>2 DEF Adj, Local
      <4> QED BY <1>3, <3>1, <3>2, <3>3, <4>2, <4>3
    <3>4. CASE v = c
      <4>1. b <= u
        BY <1>1, <3>1, <3>4 DEF Adj, Local
      <4>2. u = q /\ v = c
        BY <3>2, <3>4, <4>1
      <4>3. Adj(C, c, w) /\ Hole(m, c, w)
        BY <1>1, <1>2, <3>1, <3>4, KeptBlocks
      <4>4. w \in C
        BY <4>3 DEF Adj
      <4> QED BY <1>1, <1>2, <3>4, <4>3, <4>4 DEF Apart
    <3> QED BY <1>1, <3>1, <3>3, <3>4
  <2> QED BY <1>2, <2>1, ApartLocal
<1>8. Indexed(m2, ix2, C2, I2)
  <2>1. ASSUME NEW u \in C2, NEW v \in C2, Adj(C2, u, v), b <= u, v <= c, Hole(m2, u, v)
        PROVE  u \in I2
    <3>1. u \in Int /\ v \in Int /\ u < v
      BY <1>1, <2>1 DEF Adj
    <3>2. CASE u = p /\ v = q
      BY <1>0, <1>a, <2>1, <3>1, <3>2, Kinds
    <3>3. CASE u = b /\ v = p /\ p - b >= Overhead /\ Dead(m2, b, p)
      BY <1>1, <1>a, <2>1, <3>1, <3>3, Kinds
    <3>4. CASE u = q /\ v = c
      BY <1>c, <3>1, <3>4
    <3> QED BY <1>b, <2>1, <3>2, <3>3, <3>4
  <2>2. ASSUME NEW x \in I, x # b PROVE x < b \/ c <= x
    <3>1. PICK v \in C : Adj(C, x, v)
      BY <1>2 DEF Indexed
    <3>2. x \in Int
      BY <1>1, <3>1 DEF Adj
    <3> QED BY <1>1, <2>2, <3>1, <3>2 DEF Adj
  <2>3. b < b \/ c <= b => FALSE
    BY <1>0, <1>1
  <2>4. \A x \in I : x < b \/ c <= x => x \in I2
    BY <1>c, <2>3
  <2>5. \A x \in I2 : \/ x \in I /\ (x < b \/ c <= x)
                      \/ \E v \in C2 : Adj(C2, x, v) /\ (Hole(m2, x, v) \/ Dead(m2, x, v))
    BY <1>1, <1>3, <1>c, <2>2 DEF Local, Hole
  <2>6. IndexedInside(m2, C2, I, I2, b, c)
    BY <2>1, <2>4, <2>5 DEF IndexedInside
  <2> QED BY <1>2, <2>6, IndexedLocal
<1>9. p + HeaderWords \notin DOMAIN lv
  <2>1. (p + HeaderWords) - HeaderWords = p
    BY <1>0, <1>a
  <2>2. ~(p < b \/ c <= p)
    BY <1>1, <1>3, <1>a
  <2> QED BY <2>1, <2>2, OwnersElsewhere
<1>10. Owned(m2, lv2, C2)
  <2>1. /\ DOMAIN lv2 = DOMAIN lv \cup {p + HeaderWords}
        /\ lv2[p + HeaderWords] = [size |-> n, align |-> align]
        /\ \A x \in DOMAIN lv : lv2[x] = lv[x]
    BY <1>9 DEF NewOwner
  <2>2. PICK r : r = [size |-> n, align |-> align]
    OBVIOUS
  <2>3. r.size = n /\ r.align = align
    BY <2>2
  <2>4. lv2[p + HeaderWords] = r
    BY <2>1, <2>2
  <2>5. \A u, v \in C2 : Adj(C2, u, v) /\ b <= u /\ v <= c =>
               /\ Used(m2, u, v) => u + HeaderWords \in DOMAIN lv2
               /\ Dead(m2, u, v) => /\ v + HeaderWords \in DOMAIN lv2
                                    /\ lv2[v + HeaderWords].align = TRUE
    <3> SUFFICES ASSUME NEW u \in C2, NEW v \in C2, Adj(C2, u, v), b <= u, v <= c
                 PROVE  /\ Used(m2, u, v) => u + HeaderWords \in DOMAIN lv2
                        /\ Dead(m2, u, v) => /\ v + HeaderWords \in DOMAIN lv2
                                             /\ lv2[v + HeaderWords].align = TRUE
      OBVIOUS
    <3>1. CASE u = p /\ v = q
      <4>1. ~Dead(m2, u, v)
        BY <1>0, <1>a, <3>1, Kinds
      <4> QED BY <2>1, <3>1, <4>1
    <3>2. CASE u = b /\ v = p /\ p - b >= Overhead /\ Dead(m2, b, p) /\ align = TRUE
      <4>1. ~Used(m2, u, v)
        BY <1>0, <1>1, <1>a, <3>2, Kinds
      <4> QED BY <2>1, <2>3, <2>4, <3>2, <4>1
    <3>3. CASE u = q /\ v = c /\ c - q >= Overhead /\ Free(m2, q, c)
      <4>1. ~Used(m2, u, v) /\ ~Dead(m2, u, v)
        BY <1>0, <1>1, <1>a, <3>3, Kinds DEF Hole
      <4> QED BY <4>1
    <3> QED BY <1>b, <3>1, <3>2, <3>3
  <2>6. p + HeaderWords \in Int /\ Fits(m2, C2, p + HeaderWords, r)
    <3>1. (p + HeaderWords) - HeaderWords = p /\ p + HeaderWords \in Int
      BY <1>0, <1>a
    <3> QED BY <1>3, <1>a, <2>3, <3>1 DEF Fits
  <2>7. \A x \in DOMAIN lv : x - HeaderWords < b \/ c <= x - HeaderWords
    BY OwnersElsewhere
  <2>8. \A x \in DOMAIN lv2 : \/ x \in Int /\ Fits(m2, C2, x, lv2[x])
                              \/ /\ x \in DOMAIN lv /\ lv2[x] = lv[x]
                                 /\ x - HeaderWords < b \/ c <= x - HeaderWords
    BY <2>1, <2>4, <2>6, <2>7
  <2>9. \A x \in DOMAIN lv : x \in DOMAIN lv2 /\ lv2[x] = lv[x]
    BY <2>1
  <2>10. OwnedInside(m2, C2, lv, lv2, b, c)
    BY <2>5, <2>8, <2>9 DEF OwnedInside
  <2> QED BY <1>2, <2>10, OwnedLocal
<1> QED BY <1>6, <1>7, <1>8, <1>9, <1>10 DEF Heap

(* The three parts of a cut hole, written one after the other.             *)
LEMMA CutMemory ==
    ASSUME NEW m, NEW m1, NEW m2, NEW m3, NEW b \in Int, NEW p \in Int, NEW q \in Int,
           NEW c \in Int, NEW n, Cut(b, p, q, c, n),
           Changed(m, m1, b, p), p # b => Dead(m1, b, p),
           Changed(m1, m2, p, q), Used(m2, p, q),
           Changed(m2, m3, q, c), q # c => Free(m3, q, c)
    PROVE  /\ Changed(m, m3, b, c) /\ Used(m3, p, q)
           /\ p # b => Dead(m3, b, p)
           /\ q # c => Free(m3, q, c)
<1>1. /\ b <= p /\ p <= q /\ q <= c /\ p <= c
      /\ p # b => p - b >= Overhead
      /\ q - p >= Overhead
  BY CutOrder
<1>2. Changed(m1, m3, p, c)
  BY <1>1, ChangedTwice
<1>3. Changed(m, m3, b, c)
  BY <1>1, <1>2, ChangedTwice
<1>4. Used(m3, p, q)
  BY <1>1, KeptBefore
<1>5. p # b => Dead(m3, b, p)
  BY <1>1, <1>2, KeptBefore
<1> QED BY <1>3, <1>4, <1>5

(* The memory after a hole was cut.                                        *)
CutOff(m, b, p) ==
    IF p = b THEN m ELSE PutFooter(PutHeader(m, b, TRUE, 0), p - FooterWords, b)
HandOut(m, p, q) == PutFooter(PutHeader(m, p, FALSE, q - p), q - FooterWords, p)
LeaveRest(m, q, c) ==
    IF q = c THEN m ELSE PutFooter(PutHeader(m, q, TRUE, c - q), c - FooterWords, q)

(* The blocks that heap_alloc() leaves where the hole was.                 *)
LEMMA CarvedMemory ==
    ASSUME NEW m \in Memory, NEW b \in Int, NEW p \in Int, NEW q \in Int,
           NEW c \in Int, NEW n, Cut(b, p, q, c, n), Start <= b, c <= MaxAddr,
           NEW m3, m3 = LeaveRest(HandOut(CutOff(m, b, p), p, q), q, c)
    PROVE  /\ Changed(m, m3, b, c) /\ Used(m3, p, q)
           /\ p # b => Dead(m3, b, p)
           /\ q # c => Free(m3, q, c)
<1>1. /\ b \in Int /\ p \in Int /\ q \in Int /\ c \in Int
      /\ b <= p /\ p < q /\ q <= c /\ b < c
      /\ p # b => b < p /\ p - b >= Overhead
      /\ q # c => q < c /\ c - q >= Overhead
      /\ q - p >= Overhead
      /\ Start \in Int /\ MaxAddr \in Int
  BY CutOrder, Widths
<1>2. Start <= p /\ Start <= q /\ p <= MaxAddr /\ q <= MaxAddr /\ q - p \in Int /\ c - q \in Int
  BY <1>1
<1>a. PICK m1 : m1 = CutOff(m, b, p)
  OBVIOUS
<1>b. PICK m2 : m2 = HandOut(m1, p, q)
  OBVIOUS
<1>c. m3 = LeaveRest(m2, q, c)
  BY <1>a, <1>b
<1>3. Changed(m, m1, b, p) /\ (p # b => Dead(m1, b, p))
  <2>1. CASE p = b
    BY <1>a, <2>1 DEF Changed, CutOff
  <2>2. CASE p # b
    <3>1. m1 = PutFooter(PutHeader(m, b, TRUE, 0), p - FooterWords, b)
      BY <1>a, <2>2 DEF CutOff
    <3> QED BY <1>1, <1>2, <2>2, <3>1, WriteDead
  <2> QED BY <2>1, <2>2
<1>4. m1 \in Memory
  BY <1>3 DEF Changed
<1>5. Changed(m1, m2, p, q) /\ Used(m2, p, q)
  <2>1. m2 = PutFooter(PutHeader(m1, p, FALSE, q - p), q - FooterWords, p)
    BY <1>b DEF HandOut
  <2> QED BY <1>1, <1>2, <1>4, <2>1, WriteUsed
<1>6. m2 \in Memory
  BY <1>5 DEF Changed
<1>7. Changed(m2, m3, q, c) /\ (q # c => Free(m3, q, c))
  <2>1. CASE q = c
    BY <1>6, <1>c, <2>1 DEF Changed, LeaveRest
  <2>2. CASE q # c
    <3>1. m3 = PutFooter(PutHeader(m2, q, TRUE, c - q), c - FooterWords, q)
      BY <1>c, <2>2 DEF LeaveRest
    <3> QED BY <1>1, <1>2, <1>6, <2>2, <3>1, WriteFree
  <2> QED BY <2>1, <2>2
<1> QED BY <1>3, <1>5, <1>7, CutMemory

(* The index after a hole was cut.                                         *)
IndexOff(ix, i, b, p, m) ==
    IF p = b THEN ordered_array_remove(ix, i) ELSE Insert(ordered_array_remove(ix, i), b, m)
IndexRest(ix, q, c, m) == IF q = c THEN ix ELSE Insert(ix, q, m)

(* What heap_alloc() takes out of the index, and adds to it.               *)
LEMMA CarvedIndex ==
    ASSUME NEW ix, NEW I, Lists(ix, I), NEW i \in 1 .. Len(ix), NEW b, b = ix[i],
           NEW p, NEW q, NEW c, q = c \/ q \notin I, NEW m1, NEW m3,
           NEW ix3, ix3 = IndexRest(IndexOff(ix, i, b, p, m1), q, c, m3)
    PROVE  \E I2 : Lists(ix3, I2) /\ IndexCut(I, I2, b, p, q, c)
<1>1. b \in I
  <2>1. ix \in Seq(I)
    BY DEF Lists
  <2> QED BY <2>1, ElementOfSeq
<1>2. PICK r : r = ordered_array_remove(ix, i)
  OBVIOUS
<1>3. Lists(r, I \ {b})
  BY <1>2, RemoveLists
<1>4. PICK I1 : I1 = IF p = b THEN I \ {b} ELSE I
  OBVIOUS
<1>a. PICK ix1 : ix1 = IndexOff(ix, i, b, p, m1)
  OBVIOUS
<1>5. Lists(ix1, I1)
  <2>1. CASE p = b
    BY <1>2, <1>3, <1>4, <1>a, <2>1 DEF IndexOff
  <2>2. CASE p # b
    <3>1. b \notin I \ {b} /\ I1 = (I \ {b}) \cup {b}
      BY <1>1, <1>4, <2>2
    <3>2. Lists(Insert(r, b, m1), (I \ {b}) \cup {b})
      BY <1>3, <3>1, InsertLists DEF Insert
    <3> QED BY <1>2, <1>a, <2>2, <3>1, <3>2 DEF IndexOff
  <2> QED BY <2>1, <2>2
<1>6. PICK I2 : I2 = IF q = c THEN I1 ELSE I1 \cup {q}
  OBVIOUS
<1>7. Lists(ix3, I2)
  <2>1. CASE q = c
    BY <1>5, <1>6, <1>a, <2>1 DEF IndexRest
  <2>2. CASE q # c
    <3>1. q \notin I1
      BY <1>4, <2>2
    <3>2. Lists(Insert(ix1, q, m3), I1 \cup {q})
      BY <1>5, <3>1, InsertLists DEF Insert
    <3> QED BY <1>6, <1>a, <2>2, <3>2 DEF IndexRest
  <2> QED BY <2>1, <2>2
<1>8. IndexCut(I, I2, b, p, q, c)
  BY <1>4, <1>6 DEF IndexCut
<1> QED BY <1>7, <1>8
CutInto(m, ix, i, b, p, q, c, m1, m3, ix3) ==
    /\ b = ix[i]
    /\ m3 = LeaveRest(HandOut(CutOff(m, b, p), p, q), q, c)
    /\ ix3 = IndexRest(IndexOff(ix, i, b, p, m1), q, c, m3)

(* Together: when the hole from b to c is cut, a heap remains.             *)
LEMMA Carved ==
    ASSUME NEW m, NEW ix, NEW end, NEW lv, NEW C, NEW I, Heap(m, ix, end, lv, C, I),
           NEW b, NEW c, Adj(C, b, c), Hole(m, b, c),
           NEW n, NEW align \in Aligns, NEW p, NEW q, Cut(b, p, q, c, n),
           p # b => align = TRUE,
           NEW i \in 1 .. Len(ix), NEW m1, NEW m3, NEW ix3,
           CutInto(m, ix, i, b, p, q, c, m1, m3, ix3)
    PROVE  /\ \E C2, I2 : Heap(m3, ix3, end, NewOwner(lv, p + HeaderWords, n, align), C2, I2)
           /\ p + HeaderWords \notin DOMAIN lv
           /\ Changed(m, m3, b, c)
<1>1. /\ m \in Memory /\ C \subseteq Int /\ Start <= b /\ Lists(ix, I)
      /\ c <= end /\ end <= MaxAddr /\ end \in Int
  BY HeapFacts
<1>2. /\ b \in Int /\ p \in Int /\ q \in Int /\ c \in Int
      /\ b <= p /\ p < q /\ q <= c /\ b < c
      /\ q # c => q < c
  BY CutOrder
<1>3. c <= MaxAddr
  BY <1>1, <1>2, Widths
<1>4. /\ Changed(m, m3, b, c) /\ Used(m3, p, q)
      /\ p # b => Dead(m3, b, p)
      /\ q # c => Free(m3, q, c)
  BY <1>1, <1>2, <1>3, CarvedMemory DEF CutInto
<1>5. PICK C2 : C2 = C \cup {p, q}
  OBVIOUS
<1>6. /\ Local(C, C2, b, c) /\ Pieces(C2, b, p, q, c) /\ Adj(C2, p, q)
      /\ p # b => Adj(C2, b, p)
      /\ q # c => Adj(C2, q, c)
  BY <1>1, <1>2, <1>5, CutBoundaries
<1>7. q = c \/ q \notin I
  <2>1. I \subseteq C
    BY DEF Heap, Indexed, Adj
  <2>2. \A x \in C : x <= b \/ c <= x
    BY DEF Adj
  <2> QED BY <1>2, <2>1, <2>2
<1>8. PICK I2 : Lists(ix3, I2) /\ IndexCut(I, I2, b, p, q, c)
  BY <1>1, <1>7, CarvedIndex DEF CutInto
<1>9. PICK lv2 : lv2 = NewOwner(lv, p + HeaderWords, n, align)
  OBVIOUS
<1>10. Heap(m3, ix3, end, lv2, C2, I2) /\ p + HeaderWords \notin DOMAIN lv
  <2>1. HoleCut(m, m3, C, C2, b, p, q, c, n, align)
    BY <1>4, <1>6 DEF HoleCut
  <2> QED BY <1>8, <1>9, <2>1, HoleTaken
<1> QED BY <1>4, <1>9, <1>10
-----------------------------------------------------------------------------
(* What the arithmetic of kheap.c computes.                                *)
LEMMA OffsetValue ==
    ASSUME NEW h \in Nat, NEW align \in BOOLEAN
    PROVE  /\ Offset(h, align) \in Nat
           /\ Offset(h, align) = 0 \/ (Offset(h, align) > Overhead /\ align = TRUE)
           /\ align = TRUE => (h + Offset(h, align) + HeaderWords) % PageWords = 0
<1>0. HeaderWords = 3 /\ Overhead = 5 /\ PageWords \in Nat /\ PageWords > 5
  BY Widths
<1>1. align = FALSE => Offset(h, align) = 0
  BY Zenon DEF Offset
<1>2. align = TRUE => Offset(h, align) = page_align_get_offset(h)
  BY Zenon DEF Offset
<1>3. PICK a \in Nat : a = h + HeaderWords
  BY <1>0
<1>4. PICK r \in 0 .. PageWords - 1, k \in Nat : r = a % PageWords /\ a = PageWords * k + r
  <2>1. a % PageWords \in 0 .. PageWords - 1 /\ a \div PageWords \in Nat
        /\ a = PageWords * (a \div PageWords) + (a % PageWords)
    <3>1. PageWords \in Nat \ {0}
      BY <1>0
    <3> QED BY <3>1, Remainder, Division
  <2> QED BY <2>1
<1>5. PICK o : o = page_align_get_offset(h)
  OBVIOUS
<1>6. o = IF r = 0 THEN 0
          ELSE IF PageWords - r <= Overhead THEN PageWords - r + PageWords ELSE PageWords - r
  BY <1>3, <1>4, <1>5, Zenon DEF page_align_get_offset
<1>7. o \in Nat /\ (o = 0 \/ o > Overhead)
  BY <1>0, <1>6
<1>8. (a + o) % PageWords = 0
  <2>1. PICK e \in 0 .. 2 : PageWords * k + r + o = PageWords * k + PageWords * e
    BY <1>0, <1>6
  <2>2. a + o = PageWords * (k + e)
    BY <1>0, <1>4, <1>7, <2>1
  <2>3. PICK z \in Nat, t \in Nat : z = a + o /\ t = k + e
    BY <1>7
  <2>4. PageWords \in Nat \ {0} /\ z = PageWords * t
    BY <1>0, <2>2, <2>3
  <2>5. z % PageWords = 0
    BY <2>4, MultipleRemainder
  <2> QED BY <2>3, <2>5
<1>9. h + o + HeaderWords = a + o
  BY <1>0, <1>3, <1>7
<1>10. align = TRUE \/ align = FALSE
  OBVIOUS
<1> QED BY <1>1, <1>2, <1>5, <1>7, <1>8, <1>9, <1>10

(* find_hole() returns a position of the index that fits, if there is one. *)
LEMMA FirstOfMember ==
    ASSUME NEW s, s \subseteq Nat
    PROVE  s # {} => FirstOf(s) \in s
<1> SUFFICES ASSUME s # {} PROVE FirstOf(s) \in s
  OBVIOUS
<1>1. \E x \in s : \A y \in s : x <= y
  BY LeastNumber
<1>2. FirstOf(s) = CHOOSE x \in s : \A y \in s : x <= y
  BY Zenon DEF FirstOf
<1> QED BY <1>1, <1>2

(* find_hole() returns a position whose hole fits, if there is one.        *)
LEMMA FindHole ==
    ASSUME NEW m, NEW ix, Len(ix) \in Nat, NEW wanted, NEW align,
           NEW i, i = find_hole(m, ix, wanted, align)
    PROVE  /\ i # 0 => i \in 1 .. Len(ix) /\ SizeOf(m, ix[i]) - Offset(ix[i], align) >= wanted
           /\ i = 0 => \A k \in 1 .. Len(ix) :
                          ~(SizeOf(m, ix[k]) - Offset(ix[k], align) >= wanted)
<1>1. PICK s : s = { k \in 1 .. Len(ix) : SizeOf(m, ix[k]) - Offset(ix[k], align) >= wanted }
  OBVIOUS
<1>2. i = FirstOf(s)
  BY <1>1, Zenon DEF find_hole
<1>3. s \subseteq Nat /\ 0 \notin s
  BY <1>1
<1>4. CASE s = {}
  <2>1. i = 0
    BY <1>2, <1>4 DEF FirstOf
  <2> QED BY <1>1, <1>4, <2>1
<1>5. CASE s # {}
  <2>1. i \in s
    BY <1>2, <1>3, <1>5, FirstOfMember
  <2> QED BY <1>1, <1>3, <2>1
<1> QED BY <1>4, <1>5
-----------------------------------------------------------------------------
(* What a successful call makes of the memory m: it cuts the hole b to c.  *)
Granted(m, C, n, align, p, b, c) ==
    /\ Adj(C, b, c) /\ Hole(m, b, c) /\ Changed(m, mem', b, c)
    /\ p \in Int /\ Start <= b /\ b <= p /\ p + n + FooterWords <= c
    /\ p \notin DOMAIN live
    /\ live' = NewOwner(live, p, n, align)
    /\ align = TRUE => p % PageWords = 0

(* The sizes heap_alloc() computes cut the hole.                           *)
CutSizes(hole, c, n, offset, wanted, total, size, block, room, rest) ==
    /\ wanted = n + Overhead /\ total = c - hole /\ total - offset >= wanted
    /\ size = IF total - wanted <= Overhead THEN total ELSE wanted
    /\ block = hole + offset /\ room = total - offset /\ rest = block + size

(* The sizes that heap_alloc() computes are the distances between the      *)
(* addresses at which it cuts.                                             *)
LEMMA CutNumbers ==
    ASSUME NEW hole \in Int, NEW c \in Int, NEW n \in Nat, NEW offset \in Nat,
           offset = 0 \/ offset > Overhead,
           NEW wanted, NEW total, NEW size, NEW block, NEW room, NEW rest,
           CutSizes(hole, c, n, offset, wanted, total, size, block, room, rest)
    PROVE  /\ block = hole <=> offset = 0
           /\ room = size <=> rest = c
           /\ room - size = c - rest /\ block + room = c /\ size = rest - block
           /\ rest <= c /\ size >= n + Overhead
           /\ offset = 0 => room = size \/ room - size > Overhead
  BY Widths DEF CutSizes

(* The second half of heap_alloc() hands out a part of a hole and keeps    *)
(* the invariant, or panics; without alignment only because the index is   *)
(* full.                                                                   *)
LEMMA TakeHoleStep ==
    ASSUME NEW m, NEW ix, NEW end, NEW C, NEW I, Heap(m, ix, end, live, C, I),
           NEW n \in Sizes, NEW align \in Aligns, TakeHole(m, ix, end, n, align)
    PROVE  \/ /\ panic' # "" /\ UNCHANGED << mem, index, allocated_end, live >>
              /\ find_hole(m, ix, n + Overhead, align) # 0 /\ align = FALSE
                   => panic' = "full ordered_array_t"
           \/ /\ panic' = panic /\ Len(index') <= IndexSize
              /\ \E C2, I2 : Heap(mem', index', allocated_end', live', C2, I2)
              /\ \E p, b, c : Granted(m, C, n, align, p, b, c)
<1> DEFINE
      wanted == n + Overhead
      i      == find_hole(m, ix, wanted, align)
      hole   == ix[i]
      total  == SizeOf(m, hole)
      size   == IF total - wanted <= Overhead THEN total ELSE wanted
      offset == Offset(hole, align)
      block  == hole + offset
      room   == total - offset
      rest   == block + size
      m1  == IF offset = 0 THEN m
             ELSE PutFooter(PutHeader(m, hole, TRUE, 0), block - FooterWords, hole)
      ix1 == IF offset = 0 THEN ordered_array_remove(ix, i)
             ELSE Insert(ordered_array_remove(ix, i), hole, m1)
      m2  == PutFooter(PutHeader(m1, block, FALSE, size), rest - FooterWords, block)
      m4  == PutFooter(PutHeader(m2, rest, TRUE, room - size),
                       block + room - FooterWords, rest)
      m3  == IF room = size THEN m2 ELSE m4
      ix3 == IF room = size THEN ix1 ELSE Insert(ix1, rest, m3)
      lv2 == [p \in DOMAIN live \cup {block + HeaderWords} |->
                IF p = block + HeaderWords
                THEN [size |-> n, align |-> align] ELSE live[p]]
<1>1. IF i = 0 THEN Panic("Failed to find newly allocated hole")
      ELSE IF offset \in 1 .. Overhead THEN Panic("Hit a known bug")
      ELSE IF rest - FooterWords >= end \/ block + room - FooterWords >= end
        THEN Panic("Fell over the edge of the heap")
      ELSE IF room > size /\ room - size <= Overhead
        THEN Panic("not enough to make a new hole")
      ELSE IF Len(ix3) > IndexSize THEN Panic("full ordered_array_t")
      ELSE /\ mem' = m3
           /\ index' = ix3
           /\ allocated_end' = end
           /\ live' = lv2
           /\ UNCHANGED panic
  BY DEF TakeHole
<1>a. /\ wanted = n + Overhead /\ i = find_hole(m, ix, n + Overhead, align) /\ hole = ix[i]
      /\ total = SizeOf(m, hole) /\ offset = Offset(hole, align)
      /\ block = hole + offset /\ room = total - offset /\ rest = block + size
  OBVIOUS
<1>b. size = IF total - wanted <= Overhead THEN total ELSE wanted
  OBVIOUS
<1>c. m1 = IF offset = 0 THEN m
           ELSE PutFooter(PutHeader(m, hole, TRUE, 0), block - FooterWords, hole)
  OBVIOUS
<1>d. ix1 = IF offset = 0 THEN ordered_array_remove(ix, i)
            ELSE Insert(ordered_array_remove(ix, i), hole, m1)
  OBVIOUS
<1>e. m2 = PutFooter(PutHeader(m1, block, FALSE, size), rest - FooterWords, block)
  OBVIOUS
<1>f. /\ m3 = IF room = size THEN m2 ELSE m4
      /\ m4 = PutFooter(PutHeader(m2, rest, TRUE, room - size),
                        block + room - FooterWords, rest)
  OBVIOUS
<1>g. ix3 = IF room = size THEN ix1 ELSE Insert(ix1, rest, m3)
  OBVIOUS
<1>h. lv2 = NewOwner(live, block + HeaderWords, n, align)
  BY DEF NewOwner
<1> HIDE DEF wanted, i, hole, total, size, offset, block, room, rest, m1, ix1, m2, m3, m4, ix3, lv2
<1>2. \A why : why # "" /\ Panic(why) =>
               panic' # "" /\ UNCHANGED << mem, index, allocated_end, live >> /\ panic' = why
  BY DEF Panic
<1>3. CASE i = 0
  BY <1>1, <1>2, <1>3, <1>a
<1>4. CASE i # 0
  <2>0. /\ HeaderWords = 3 /\ Overhead = 5 /\ FooterWords = 2 /\ Start \in Nat
        /\ n \in Nat /\ align \in BOOLEAN
    BY Widths, HeapAssumption
  <2>1. /\ m \in Memory /\ end \in Int /\ C \subseteq Int /\ Lists(ix, I)
        /\ \A x, y : Adj(C, x, y) =>
             x \in Int /\ y \in Int /\ Start <= x /\ y <= end /\ y - x >= Overhead
    BY HeapFacts
  <2>2. Len(ix) \in Nat /\ ix \in Seq(I)
    BY <2>1 DEF Lists
  <2>3. i \in 1 .. Len(ix) /\ total - offset >= wanted
    BY <1>4, <1>a, <2>2, FindHole
  <2>4. hole \in I
    BY <1>a, <2>2, <2>3, ElementOfSeq
  <2>5. PICK c : Adj(C, hole, c) /\ (Hole(m, hole, c) \/ Dead(m, hole, c))
    BY <2>4 DEF Heap, Indexed
  <2>6. hole \in Int /\ c \in Int /\ Start <= hole /\ c <= end /\ c - hole >= Overhead
    BY <2>1, <2>5
  <2>7. /\ offset \in Nat
        /\ offset = 0 \/ (offset > Overhead /\ align = TRUE)
        /\ align = TRUE => (hole + offset + HeaderWords) % PageWords = 0
    <3>1. hole \in Nat
      BY <2>0, <2>6
    <3> QED BY <1>a, <2>0, <3>1, OffsetValue
  <2>8. Hole(m, hole, c) /\ total = c - hole
    <3>1. ~Dead(m, hole, c)
      <4>1. total # 0
        BY <1>a, <2>0, <2>3, <2>6, <2>7, Widths
      <4> QED BY <1>a, <4>1 DEF Dead, Sized
    <3> QED BY <1>a, <2>5, <3>1 DEF Hole, Free, Bare, Sized
  <2>9. /\ size \in Int /\ block \in Int /\ room \in Int /\ rest \in Int /\ total \in Int
        /\ wanted \in Int
    BY <1>a, <1>b, <2>0, <2>6, <2>7, <2>8
  <2>10. /\ block = hole <=> offset = 0
         /\ room = size <=> rest = c
         /\ room - size = c - rest /\ block + room = c /\ size = rest - block
         /\ rest <= c /\ size >= n + Overhead
         /\ offset = 0 => room = size \/ room - size > Overhead
    <3>1. CutSizes(hole, c, n, offset, wanted, total, size, block, room, rest)
      BY <1>a, <1>b, <2>3, <2>8 DEF CutSizes
    <3> QED BY <2>0, <2>6, <2>7, <3>1, CutNumbers
  <2>11. ~(offset \in 1 .. Overhead)
    BY <2>0, <2>7
  <2>12. ~(rest - FooterWords >= end \/ block + room - FooterWords >= end)
    BY <2>0, <2>1, <2>6, <2>9, <2>10
  <2>13. ~(room > size /\ room - size <= Overhead) \/ align = TRUE
    BY <2>0, <2>7, <2>9, <2>10
  <2>14. CASE (room > size /\ room - size <= Overhead) \/ Len(ix3) > IndexSize
    <3>1. \/ Panic("not enough to make a new hole") /\ align = TRUE
          \/ Panic("full ordered_array_t")
      BY <1>1, <1>4, <2>11, <2>12, <2>13, <2>14
    <3> QED BY <1>2, <3>1
  <2>15. CASE ~(room > size /\ room - size <= Overhead) /\ ~(Len(ix3) > IndexSize)
    <3>1. /\ mem' = m3 /\ index' = ix3 /\ allocated_end' = end /\ live' = lv2
          /\ panic' = panic
      BY <1>1, <1>4, <2>11, <2>12, <2>15
    <3>2. Cut(hole, block, rest, c, n)
      <4>2. rest = c \/ c - rest > Overhead
        BY <2>0, <2>9, <2>10, <2>15, <2>6
      <4>3. block = hole \/ block - hole > Overhead
        BY <1>a, <2>0, <2>6, <2>7
      <4> QED BY <2>0, <2>6, <2>9, <2>10, <4>2, <4>3 DEF Cut
    <3>3. block # hole => align = TRUE
      BY <2>7, <2>10
    <3>4. m1 = CutOff(m, hole, block)
      BY <1>c, <2>10 DEF CutOff
    <3>5. m2 = HandOut(m1, block, rest)
      <4>1. m2 = PutFooter(PutHeader(m1, block, FALSE, rest - block), rest - FooterWords, block)
        BY <1>e, <2>10
      <4> QED BY <4>1, Zenon DEF HandOut
    <3>6. m3 = LeaveRest(m2, rest, c)
      <4>1. CASE rest = c
        BY <1>f, <2>10, <4>1 DEF LeaveRest
      <4>2. CASE rest # c
        <5>1. m3 = PutFooter(PutHeader(m2, rest, TRUE, c - rest), c - FooterWords, rest)
          <6>1. room # size /\ room - size = c - rest /\ block + room = c
            BY <2>10, <4>2
          <6>2. m3 = m4
            BY <1>f, <6>1
          <6>3. m3 = PutFooter(PutHeader(m2, rest, TRUE, room - size),
                               block + room - FooterWords, rest)
            BY <1>f, <6>2
          <6>4. PutHeader(m2, rest, TRUE, room - size) = PutHeader(m2, rest, TRUE, c - rest)
            BY <6>1
          <6>5. block + room - FooterWords = c - FooterWords
            BY <2>0, <2>6, <2>9, <6>1
          <6> QED BY <6>3, <6>4, <6>5
        <5>2. LeaveRest(m2, rest, c)
                = PutFooter(PutHeader(m2, rest, TRUE, c - rest), c - FooterWords, rest)
          BY <4>2, Zenon DEF LeaveRest
        <5> QED BY <5>1, <5>2
      <4> QED BY <4>1, <4>2
    <3>7. m3 = LeaveRest(HandOut(CutOff(m, hole, block), block, rest), rest, c)
      BY <3>4, <3>5, <3>6
    <3>8. ix1 = IndexOff(ix, i, hole, block, m1)
      BY <1>d, <2>10 DEF IndexOff
    <3>9. ix3 = IndexRest(IndexOff(ix, i, hole, block, m1), rest, c, m3)
      BY <1>g, <2>10, <3>8 DEF IndexRest
    <3>10. /\ \E C2, I2 : Heap(m3, ix3, end, NewOwner(live, block + HeaderWords, n, align), C2, I2)
           /\ block + HeaderWords \notin DOMAIN live
           /\ Changed(m, m3, hole, c)
      <4>1. CutInto(m, ix, i, hole, block, rest, c, m1, m3, ix3)
        BY <1>a, <3>7, <3>9 DEF CutInto
      <4> QED BY <2>3, <2>5, <2>8, <3>2, <3>3, <4>1, Carved
    <3>11. Len(ix3) <= IndexSize
      <4>1. PICK I2 : Lists(ix3, I2)
        BY <3>10, HeapFacts
      <4>2. Len(ix3) \in Nat /\ IndexSize \in Nat
        BY <4>1, HeapAssumption DEF Lists
      <4> QED BY <2>15, <4>2
    <3>12. Granted(m, C, n, align, block + HeaderWords, hole, c)
      <4>1. PICK p : p = block + HeaderWords
        OBVIOUS
      <4>2. p \in Int /\ Start <= hole /\ hole <= p /\ p + n + FooterWords <= c
        <5>1. hole <= block /\ block + n + Overhead <= c
          BY <3>2, CutOrder
        <5> QED BY <2>0, <2>6, <2>9, <4>1, <5>1
      <4>3. align = TRUE => p % PageWords = 0
        BY <1>a, <2>7, <4>1
      <4>4. live' = NewOwner(live, p, n, align) /\ p \notin DOMAIN live /\ Changed(m, mem', hole, c)
        BY <1>h, <3>1, <3>10, <4>1
      <4>5. Granted(m, C, n, align, p, hole, c)
        BY <2>5, <2>8, <4>2, <4>3, <4>4 DEF Granted
      <4> QED BY <4>1, <4>5
    <3>13. \E C2, I2 : Heap(mem', index', allocated_end', live', C2, I2)
      BY <1>h, <3>1, <3>10
    <3> QED BY <3>1, <3>11, <3>12, <3>13
  <2> QED BY <2>14, <2>15
<1> QED BY <1>3, <1>4
-----------------------------------------------------------------------------
(* The heap as heap_create() leaves it: one hole without a footer.         *)
LEMMA Created == heap_create => Heap(mem, index, allocated_end, live,
                                     {Start, InitialEnd}, {Start})
<1> SUFFICES ASSUME heap_create
             PROVE  Heap(mem, index, allocated_end, live, {Start, InitialEnd}, {Start})
  OBVIOUS
<1> DEFINE C == {Start, InitialEnd}
<1>0. /\ HeaderWords = 3 /\ FooterWords = 2 /\ Overhead = 5
      /\ Start \in Int /\ InitialEnd \in Int /\ MaxAddr \in Int
      /\ Start + 5 <= InitialEnd /\ InitialEnd <= MaxAddr /\ InitialEnd % PageWords = 0
      /\ 0 # KHEAP_MAGIC
  BY Widths DEF KHEAP_MAGIC
<1>1. index = << Start >> /\ allocated_end = InitialEnd /\ live = << >>
  BY DEF heap_create
<1>2. PICK m : m = [a \in HeapWords |-> Fresh]
  OBVIOUS
<1>3. m \in Memory /\ \A a : Word(m, a) = 0
  BY <1>2 DEF Memory, Word, Fresh
<1>4. PICK size \in Int : size = InitialEnd - Start
  BY <1>0
<1>5. mem = PutHeader(m, Start, TRUE, size)
  BY <1>2, <1>4, Zenon DEF heap_create
<1>6. Start \in HeapWords /\ Start + 1 \in HeapWords /\ Start + 2 \in HeapWords
  BY <1>0 DEF HeapWords
<1>7. /\ mem \in Memory
      /\ Sized(mem, Start, size) /\ IsHole(mem, Start)
      /\ \A a \in Int : a # Start /\ a # Start + 1 /\ a # Start + 2 => Word(mem, a) = 0
  <2>1. PICK hole \in BOOLEAN : hole = TRUE
    OBVIOUS
  <2>2. mem = PutHeader(m, Start, hole, size)
    BY <1>5, <2>1
  <2>3. /\ mem \in Memory
        /\ Sized(mem, Start, size) /\ (IsHole(mem, Start) <=> hole)
        /\ \A a \in Int : a # Start /\ a # Start + 1 /\ a # Start + 2
                           => Word(mem, a) = Word(m, a)
    BY <1>3, <1>6, <2>2, WriteHeader
  <2> QED BY <1>3, <2>1, <2>3
<1>8. Bare(mem, Start, InitialEnd)
  <2>1. PICK f \in Int : f = InitialEnd - FooterWords
    BY <1>0
  <2>2. Word(mem, f) = 0
    BY <1>0, <1>7, <2>1
  <2> QED BY <1>0, <1>4, <1>7, <2>1, <2>2 DEF Bare
<1>9. \A b, c \in C : Adj(C, b, c) => b = Start /\ c = InitialEnd
  BY <1>0 DEF Adj
<1>10. Adj(C, Start, InitialEnd)
  BY <1>0 DEF Adj
<1> HIDE DEF C
<1>11. C = {Start, InitialEnd}
  BY DEF C
<1>12. Layout(mem, InitialEnd, C)
  <2>1. \A b, c \in C : Adj(C, b, c) => Block(mem, b, c)
    BY <1>0, <1>8, <1>9 DEF Block, Hole
  <2> QED BY <1>0, <1>7, <1>11, <2>1 DEF Layout
<1>13. Apart(mem, C)
  BY <1>0, <1>9 DEF Apart
<1>14. Lists(index, {Start})
  BY <1>1 DEF Lists
<1>15. Indexed(mem, index, C, {Start})
  BY <1>8, <1>9, <1>10, <1>11, <1>14 DEF Indexed, Hole
<1>16. Owned(mem, live, C)
  <2>1. DOMAIN live = {}
    BY <1>1
  <2>2. ~Used(mem, Start, InitialEnd) /\ ~Dead(mem, Start, InitialEnd)
    BY <1>0, <1>8, Kinds DEF Hole
  <2> QED BY <1>9, <2>1, <2>2 DEF Owned
<1> QED BY <1>1, <1>11, <1>12, <1>13, <1>15, <1>16 DEF Heap

(* expand(): the new pages become a hole, and are not merged with one      *)
(* before them.                                                            *)
Extended(m, end, e) ==
    PutFooter(PutHeader(m, end, TRUE, e - end), e - FooterWords, end)

(* expand() appends one hole, and the index lists it.                      *)
LEMMA Expanded ==
    ASSUME NEW m, NEW ix, NEW end, NEW lv, NEW C, NEW I, Heap(m, ix, end, lv, C, I),
           NEW e \in Int, e - end >= Overhead, e <= MaxAddr, e % PageWords = 0,
           NEW m2, m2 = Extended(m, end, e)
    PROVE  /\ Heap(m2, Insert(ix, end, m2), e, lv, C \cup {e}, I \cup {end})
           /\ Changed(m, m2, end, e) /\ Free(m2, end, e)
           /\ Lists(Insert(ix, end, m2), I \cup {end})
           /\ Len(Insert(ix, end, m2)) = Len(ix) + 1
           /\ \A x, y : Adj(C, x, y) => Adj(C \cup {e}, x, y)
<1>0. HeaderWords = 3 /\ Overhead = 5 /\ Start \in Int /\ InitialEnd \in Int
      /\ MaxAddr \in Int /\ Start + 5 <= InitialEnd
  BY Widths
<1>1. /\ m \in Memory /\ end \in Int /\ InitialEnd <= end /\ end <= MaxAddr
      /\ end % PageWords = 0
      /\ C \subseteq Int /\ Start \in C /\ end \in C
      /\ \A x \in C : Start <= x /\ x <= end
      /\ Lists(ix, I)
  BY HeapFacts
<1>2. Layout(m, end, C) /\ Apart(m, C) /\ Indexed(m, ix, C, I) /\ Owned(m, lv, C)
  BY DEF Heap
<1>3. Changed(m, m2, end, e) /\ Free(m2, end, e)
  BY <1>0, <1>1, WriteFree DEF Extended
<1>4. PICK C2 : C2 = C \cup {e}
  OBVIOUS
<1>5. Local(C, C2, end, e) /\ Adj(C2, end, e) /\ Pieces(C2, end, end, e, e)
  <2>1. end < e
    BY <1>0, <1>1
  <2>2. C \subseteq Int /\ end \in C /\ \A x \in C : x <= end
    BY <1>1
  <2> QED BY <1>4, <2>1, <2>2, NewEnd
<1>6. \A u, v \in C2 : Adj(C2, u, v) /\ end <= u /\ v <= e => u = end /\ v = e
  <2>1. \A u, v \in C2 : Adj(C2, u, v) => u # v
    BY <1>1, <1>4 DEF Adj
  <2> QED BY <1>5, <2>1 DEF Pieces
<1>7. Layout(m2, e, C2)
  <2>1. BlocksInside(m2, C2, end, e)
    BY <1>3, <1>6 DEF BlocksInside, Block, Hole
  <2>2. e \in InitialEnd .. MaxAddr /\ C2 \subseteq Start .. e /\ e \in C2
    BY <1>0, <1>1, <1>4
  <2> QED BY <1>2, <1>3, <1>5, <2>1, <2>2, LayoutLocal
<1>8. Apart(m2, C2)
  <2>1. ApartInside(m2, C2, end, e)
    <3>1. \A v \in C2 : end <= v => v = end \/ v = e
      BY <1>0, <1>1, <1>4
    <3> QED BY <1>1, <3>1 DEF ApartInside
  <2> QED BY <1>2, <1>3, <1>5, <2>1, ApartLocal
<1>9. PICK ix2 : ix2 = Insert(ix, end, m2)
  OBVIOUS
<1>10. I \subseteq C /\ \A x \in I : x < end
  <2> SUFFICES ASSUME NEW x \in I PROVE x \in C /\ x < end
    OBVIOUS
  <2>1. PICK v \in C : Adj(C, x, v)
    BY <1>2 DEF Indexed
  <2>2. x \in C /\ x < v
    BY <2>1 DEF Adj
  <2> QED BY <1>1, <2>2
<1>11. Lists(ix2, I \cup {end}) /\ Len(ix2) = Len(ix) + 1
  <2>1. end \notin I
    BY <1>1, <1>10
  <2>2. ix2 = ordered_array_insert(ix, end, HoleSizes(m2))
    BY <1>9 DEF Insert
  <2> QED BY <1>1, <2>1, <2>2, InsertLists
<1>12. Indexed(m2, ix2, C2, I \cup {end})
  <2>1. IndexedInside(m2, C2, I, I \cup {end}, end, e)
    <3>1. e \in C2 /\ (Hole(m2, end, e) \/ Dead(m2, end, e))
      BY <1>3, <1>4 DEF Hole
    <3> QED BY <1>5, <1>6, <1>10, <3>1 DEF IndexedInside
  <2> QED BY <1>2, <1>3, <1>5, <1>11, <2>1, IndexedLocal
<1>13. Owned(m2, lv, C2)
  <2>1. ~Used(m2, end, e) /\ ~Dead(m2, end, e)
    BY <1>1, <1>3, Kinds DEF Hole
  <2>2. \A p \in DOMAIN lv : p - HeaderWords < end
    <3> SUFFICES ASSUME NEW p \in DOMAIN lv PROVE p - HeaderWords < end
      OBVIOUS
    <3>1. PICK v \in C : Adj(C, p - HeaderWords, v)
      BY <1>2 DEF Owned, Fits
    <3>2. PICK h : h = p - HeaderWords
      OBVIOUS
    <3>3. h \in C /\ v \in C /\ h < v
      BY <3>1, <3>2 DEF Adj
    <3>4. h < end
      BY <1>1, <3>3
    <3> QED BY <3>2, <3>4
  <2>3. OwnedInside(m2, C2, lv, lv, end, e)
    BY <1>6, <2>1, <2>2 DEF OwnedInside
  <2> QED BY <1>2, <1>3, <1>5, <2>3, OwnedLocal
<1>14. \A x, y : Adj(C, x, y) => Adj(C2, x, y)
  BY <1>0, <1>1, <1>4 DEF Adj
<1> QED BY <1>3, <1>4, <1>7, <1>8, <1>9, <1>11, <1>12, <1>13, <1>14 DEF Heap
-----------------------------------------------------------------------------
(* Where an allocation lies.                                               *)
LEMMA PayloadPlace ==
    ASSUME NEW m, NEW ix, NEW end, NEW lv, NEW C, NEW I, Heap(m, ix, end, lv, C, I),
           NEW p \in DOMAIN lv
    PROVE  \E h \in Int, c \in Int :
              /\ p \in Int /\ lv[p].size \in Nat /\ h = p - HeaderWords
              /\ Adj(C, h, c) /\ Used(m, h, c)
              /\ p + lv[p].size + FooterWords <= c /\ Start <= h /\ c <= end
<1>0. HeaderWords = 3 /\ FooterWords = 2 /\ Overhead = 5 /\ Start \in Int
  BY Widths
<1>1. p \in Int /\ Fits(m, C, p, lv[p])
  BY DEF Heap, Owned
<1>2. PICK size \in Nat : size = lv[p].size
  BY <1>1 DEF Fits
<1>3. PICK c \in C : /\ Adj(C, p - HeaderWords, c) /\ Used(m, p - HeaderWords, c)
                     /\ c - (p - HeaderWords) >= size + Overhead
  BY <1>1, <1>2 DEF Fits
<1>4. PICK h \in Int : h = p - HeaderWords
  BY <1>0, <1>1
<1>5. Adj(C, h, c) /\ Used(m, h, c) /\ c - h >= size + Overhead
  BY <1>3, <1>4
<1>6. c \in Int /\ Start <= h /\ c <= end
  BY <1>5, HeapFacts
<1>7. p + size + FooterWords <= c
  BY <1>0, <1>1, <1>4, <1>5, <1>6
<1> QED BY <1>1, <1>2, <1>4, <1>5, <1>6, <1>7

(* The words of the allocations lv are the same in m and in m2.            *)
Kept(lv, m, m2) ==
    \A p \in DOMAIN lv : \A k \in 0 .. lv[p].size - 1 : m2[p + k] = m[p + k]

(* A change inside holes and dead parts leaves all allocations as they     *)
(* are.                                                                    *)
LEMMA PayloadKept ==
    ASSUME NEW m, NEW ix, NEW end, NEW lv, NEW C, NEW I, Heap(m, ix, end, lv, C, I),
           NEW b \in Int, NEW c \in Int, NEW m2, Changed(m, m2, b, c),
           \A u, v : Adj(C, u, v) /\ Used(m, u, v) => v <= b \/ c <= u
    PROVE  Kept(lv, m, m2)
<1>0. HeaderWords = 3 /\ FooterWords = 2 /\ Start \in Int /\ MaxAddr \in Int
  BY Widths
<1>1. m \in Memory /\ end \in Int /\ end <= MaxAddr
  BY HeapFacts
<1>2. m2 \in Memory
  BY DEF Changed
<1> SUFFICES ASSUME NEW p \in DOMAIN lv, NEW k \in 0 .. lv[p].size - 1
             PROVE  m2[p + k] = m[p + k]
  BY DEF Kept
<1>3. PICK h \in Int, v \in Int :
              /\ p \in Int /\ lv[p].size \in Nat /\ h = p - HeaderWords
              /\ Adj(C, h, v) /\ Used(m, h, v)
              /\ p + lv[p].size + FooterWords <= v /\ Start <= h /\ v <= end
  BY PayloadPlace
<1>4. v <= b \/ c <= h
  BY <1>3
<1>5. PICK a \in Int : a = p + k
  BY <1>3
<1>6. PICK size \in Nat : size = lv[p].size
  BY <1>3
<1>7. h <= a /\ a < v /\ Start <= a /\ a < MaxAddr
  BY <1>0, <1>1, <1>3, <1>5, <1>6
<1>8. Word(m2, a) = Word(m, a)
  BY <1>4, <1>7 DEF Changed
<1>9. a \in HeapWords
  BY <1>0, <1>7 DEF HeapWords
<1> QED BY <1>1, <1>2, <1>5, <1>8, <1>9 DEF Word, Memory

(* What the caller of heap_alloc() sees of a call that succeeds.           *)
Allocated(n, align) ==
    \E p \in HeapWords :
        /\ p .. p + n - 1 \subseteq HeapWords /\ p \notin DOMAIN live
        /\ \A q \in DOMAIN live :
              (p .. p + n - 1) \cap (q .. q + live[q].size - 1) = {}
        /\ align = TRUE => p % PageWords = 0
        /\ live' = NewOwner(live, p, n, align)
        /\ Kept(live, mem, mem')
Halts == panic' # "" /\ UNCHANGED << mem, index, allocated_end, live >>

(* What TakeHole hands out is what the contract calls an allocation.       *)
LEMMA GrantedAllocated ==
    ASSUME NEW m, NEW ix, NEW end, NEW C, NEW I, Heap(m, ix, end, live, C, I),
           Kept(live, mem, m), NEW n \in Sizes, NEW align \in Aligns,
           NEW p, NEW b, NEW c, Granted(m, C, n, align, p, b, c)
    PROVE  Allocated(n, align)
<1>0. /\ HeaderWords = 3 /\ FooterWords = 2 /\ Overhead = 5 /\ Start \in Int /\ MaxAddr \in Int
      /\ n \in Nat
  BY Widths, HeapAssumption
<1>1. /\ Adj(C, b, c) /\ Hole(m, b, c) /\ Changed(m, mem', b, c)
      /\ p \in Int /\ Start <= b /\ b <= p /\ p + n + FooterWords <= c
      /\ p \notin DOMAIN live
      /\ live' = NewOwner(live, p, n, align)
      /\ align = TRUE => p % PageWords = 0
  BY DEF Granted
<1>2. /\ b \in Int /\ c \in Int /\ c <= end /\ end \in Int /\ end <= MaxAddr /\ C \subseteq Int
      /\ c - b >= Overhead
  BY <1>1, HeapFacts
<1>3. \A u, v : Adj(C, u, v) /\ Used(m, u, v) => v <= b \/ c <= u
  <2> SUFFICES ASSUME NEW u, NEW v, Adj(C, u, v), Used(m, u, v) PROVE v <= b \/ c <= u
    OBVIOUS
  <2>1. ~(b = u /\ c = v)
    BY <1>1, <1>2, Kinds
  <2> QED BY <1>1, <1>2, <2>1, BlocksDisjoint
<1>4. Kept(live, m, mem')
  BY <1>1, <1>2, <1>3, PayloadKept
<1>5. Kept(live, mem, mem')
  BY <1>4 DEF Kept
<1>6. p \in HeapWords /\ p .. p + n - 1 \subseteq HeapWords
  BY <1>0, <1>1, <1>2 DEF HeapWords
<1>7. ASSUME NEW q \in DOMAIN live
      PROVE  (p .. p + n - 1) \cap (q .. q + live[q].size - 1) = {}
  <2>1. PICK h \in Int, v \in Int :
              /\ q \in Int /\ live[q].size \in Nat /\ h = q - HeaderWords
              /\ Adj(C, h, v) /\ Used(m, h, v)
              /\ q + live[q].size + FooterWords <= v /\ Start <= h /\ v <= end
    BY PayloadPlace
  <2>2. PICK size \in Nat : size = live[q].size
    BY <2>1
  <2>3. v <= b \/ c <= h
    BY <1>3, <2>1
  <2>4. (p .. p + n - 1) \cap (q .. q + size - 1) = {}
    BY <1>0, <1>1, <1>2, <2>1, <2>2, <2>3
  <2> QED BY <2>2, <2>4
<1> QED BY <1>1, <1>5, <1>6, <1>7 DEF Allocated

(* The second half of heap_alloc(), in the memory m.                       *)
LEMMA Served ==
    ASSUME IInv, panic = "", NEW m, NEW ix, NEW end, NEW C, NEW I,
           Heap(m, ix, end, live, C, I), Kept(live, mem, m),
           NEW n \in Sizes, NEW align \in Aligns, TakeHole(m, ix, end, n, align),
           align = FALSE => find_hole(m, ix, n + Overhead, align) # 0
    PROVE  IInv' /\ (Halts \/ (panic' = "" /\ Allocated(n, align)))
<1>1. CASE /\ panic' # "" /\ UNCHANGED << mem, index, allocated_end, live >>
           /\ find_hole(m, ix, n + Overhead, align) # 0 /\ align = FALSE
                   => panic' = "full ordered_array_t"
  <2>1. /\ \E C2, I2 : Heap(mem', index', allocated_end', live', C2, I2)
        /\ Len(index') <= IndexSize
    BY <1>1 DEF IInv
  <2>2. TRUE \notin Aligns => PanicsOnlyWhenExhausted'
    <3> SUFFICES ASSUME TRUE \notin Aligns PROVE PanicsOnlyWhenExhausted'
      OBVIOUS
    <3>1. align = FALSE
      BY HeapAssumption
    <3> QED BY <1>1, <3>1 DEF PanicsOnlyWhenExhausted
  <2> QED BY <1>1, <2>1, <2>2 DEF IInv, Halts
<1>2. CASE /\ panic' = panic /\ Len(index') <= IndexSize
           /\ \E C2, I2 : Heap(mem', index', allocated_end', live', C2, I2)
           /\ \E p, b, c : Granted(m, C, n, align, p, b, c)
  <2>1. Allocated(n, align)
    BY <1>2, GrantedAllocated
  <2>2. PanicsOnlyWhenExhausted'
    BY <1>2 DEF PanicsOnlyWhenExhausted
  <2> QED BY <1>2, <2>1, <2>2 DEF IInv
<1> QED BY <1>1, <1>2, TakeHoleStep

(* A call that a hole can serve.                                           *)
LEMMA AllocStep ==
    ASSUME IInv, NEW n \in Sizes, NEW align \in Aligns, heap_alloc(n, align)
    PROVE  IInv' /\ (Halts \/ (panic' = "" /\ Allocated(n, align)))
<1>1. PICK C, I : Heap(mem, index, allocated_end, live, C, I)
  BY DEF IInv
<1>2. Kept(live, mem, mem)
  BY DEF Kept
<1>3. /\ panic = "" /\ find_hole(mem, index, n + Overhead, align) # 0
      /\ TakeHole(mem, index, allocated_end, n, align)
  BY DEF heap_alloc, CallAlloc
<1> QED BY <1>1, <1>2, <1>3, Served

(* The end expand() computes is a page boundary, a page or more beyond     *)
(* what the request needs.                                                 *)
LEMMA ExpandedEndValue ==
    ASSUME NEW n \in Nat, allocated_end \in Nat, Start <= allocated_end
    PROVE  /\ ExpandedEnd(n) \in Nat /\ ExpandedEnd(n) % PageWords = 0
           /\ ExpandedEnd(n) - allocated_end >= n + Overhead
<1>0. /\ Overhead = 5 /\ PageWords \in Nat \ {0} /\ Start \in Nat /\ Start % PageWords = 0
  BY Widths
<1>1. PICK s \in Nat : s = (allocated_end - Start) + (n + Overhead) + PageWords
  BY <1>0
<1>2. PICK a \in Nat : a = s + PageWords - 1
  BY <1>0
<1>3. PICK q \in Nat, r \in 0 .. PageWords - 1 :
         q = a \div PageWords /\ a = PageWords * q + r
  BY <1>0, Division, Remainder
<1>4. PICK k \in Nat : Start = PageWords * k
  <2>1. Start \div PageWords \in Nat
        /\ Start = PageWords * (Start \div PageWords) + (Start % PageWords)
    BY <1>0, Division
  <2> QED BY <1>0, <2>1
<1>5. PICK y \in Nat : y = PageWords * q
  BY <1>0
<1>6. y >= s
  BY <1>0, <1>2, <1>3, <1>5
<1>7. ExpandedEnd(n) = Start + y
  <2>1. ExpandedEnd(n) = Start + RoundUp(s)
    BY <1>1 DEF ExpandedEnd
  <2>2. RoundUp(s) = (a \div PageWords) * PageWords
    BY <1>2 DEF RoundUp
  <2>3. RoundUp(s) = q * PageWords
    BY <1>3, <2>2
  <2> QED BY <1>0, <1>5, <2>1, <2>3
<1>8. PICK e \in Nat, t \in Nat : e = Start + y /\ t = k + q
  BY <1>0
<1>9. e = PageWords * t
  BY <1>0, <1>4, <1>5, <1>8
<1>10. e % PageWords = 0
  BY <1>0, <1>9, MultipleRemainder
<1>11. e - allocated_end >= n + Overhead
  BY <1>0, <1>1, <1>6, <1>8
<1> QED BY <1>7, <1>8, <1>10, <1>11

(* A call that stops the kernel.                                           *)
LEMMA PanicStep ==
    ASSUME IInv, NEW why, Panic(why),
           why \in {"Cannot expand heap", "No free frames", "full ordered_array_t"}
    PROVE  IInv' /\ Halts
<1>1. panic' = why /\ UNCHANGED << mem, index, allocated_end, live >>
  BY DEF Panic
<1> QED BY <1>1 DEF IInv, Halts, PanicsOnlyWhenExhausted

(* A call for which the heap has to grow.                                  *)
LEMMA ExpandStep ==
    ASSUME IInv, NEW n \in Sizes, NEW align \in Aligns, heap_alloc_expand(n, align)
    PROVE  IInv' /\ (Halts \/ (panic' = "" /\ Allocated(n, align)))
<1>0. Overhead = 5 /\ n \in Nat /\ Start \in Nat /\ InitialEnd \in Nat /\ MaxAddr \in Nat
      /\ Start + 5 <= InitialEnd
  BY Widths, HeapAssumption
<1>1. PICK C, I : Heap(mem, index, allocated_end, live, C, I)
  BY DEF IInv
<1>2. /\ mem \in Memory /\ allocated_end \in Int /\ InitialEnd <= allocated_end
      /\ C \subseteq Int /\ \A x \in C : Start <= x /\ x <= allocated_end
      /\ Lists(index, I)
  BY <1>1, HeapFacts
<1>a. /\ ExpandedEnd(n) \in Nat /\ ExpandedEnd(n) % PageWords = 0
      /\ ExpandedEnd(n) - allocated_end >= n + Overhead
  <2>1. allocated_end \in Nat /\ Start <= allocated_end
    BY <1>0, <1>2
  <2> QED BY <1>0, <2>1, ExpandedEndValue
<1>3. PICK e \in Int : e = ExpandedEnd(n)
  BY <1>a
<1>4. e \in Nat /\ e % PageWords = 0 /\ e - allocated_end >= n + Overhead
  BY <1>a, <1>3
<1>5. PICK m : m = PutFooter(PutHeader(mem, allocated_end, TRUE, e - allocated_end),
                             e - FooterWords, allocated_end)
  OBVIOUS
<1>6. PICK ix : ix = Insert(index, allocated_end, m)
  OBVIOUS
<1>7. /\ panic = ""
      /\ IF e > MaxAddr THEN Panic("Cannot expand heap")
         ELSE IF Len(index) + 1 > IndexSize THEN Panic("full ordered_array_t")
         ELSE TakeHole(m, ix, e, n, align)
  <2>1. panic = ""
    BY DEF heap_alloc_expand, CallAlloc
  <2>2. IF CannotExpand(n) THEN Panic("Cannot expand heap")
        ELSE IF Len(index) + 1 > IndexSize THEN Panic("full ordered_array_t")
        ELSE TakeHole(m, ix, e, n, align)
    BY <1>3, <1>5, <1>6, Zenon DEF heap_alloc_expand
  <2> QED BY <1>3, <2>1, <2>2 DEF CannotExpand
<1>8. CASE Panic("Cannot expand heap") \/ Panic("full ordered_array_t")
  BY <1>8, PanicStep
<1>9. CASE e <= MaxAddr /\ TakeHole(m, ix, e, n, align)
  <2>1. e - allocated_end >= Overhead /\ e <= MaxAddr
    BY <1>0, <1>2, <1>4, <1>9
  <2>2. /\ Heap(m, ix, e, live, C \cup {e}, I \cup {allocated_end})
        /\ Changed(mem, m, allocated_end, e) /\ Free(m, allocated_end, e)
        /\ Lists(ix, I \cup {allocated_end})
    <3>1. m = Extended(mem, allocated_end, e)
      BY <1>5, Zenon DEF Extended
    <3>2. /\ Heap(m, Insert(index, allocated_end, m), e, live, C \cup {e},
                   I \cup {allocated_end})
          /\ Changed(mem, m, allocated_end, e) /\ Free(m, allocated_end, e)
          /\ Lists(Insert(index, allocated_end, m), I \cup {allocated_end})
      BY <1>1, <1>4, <2>1, <3>1, Expanded
    <3> QED BY <1>6, <3>2
  <2>3. Kept(live, mem, m)
    <3>1. \A u, v : Adj(C, u, v) /\ Used(mem, u, v) => v <= allocated_end \/ e <= u
      BY <1>2 DEF Adj
    <3> QED BY <1>1, <1>2, <2>1, <2>2, <3>1, PayloadKept
  <2>4. align = FALSE => find_hole(m, ix, n + Overhead, align) # 0
    <3> SUFFICES ASSUME align = FALSE, find_hole(m, ix, n + Overhead, align) = 0 PROVE FALSE
      OBVIOUS
    <3>1. Len(ix) \in Nat
      BY <2>2 DEF Lists
    <3>2. PICK k \in 1 .. Len(ix) : ix[k] = allocated_end
      BY <2>2 DEF Lists
    <3>3. SizeOf(m, ix[k]) = e - allocated_end
      BY <2>2, <3>2 DEF Free, Sized
    <3>4. Offset(ix[k], align) = 0
      BY Zenon DEF Offset
    <3>5. PICK i : i = find_hole(m, ix, n + Overhead, align) /\ i = 0
      OBVIOUS
    <3>6. ~(SizeOf(m, ix[k]) - Offset(ix[k], align) >= n + Overhead)
      BY <3>1, <3>5, FindHole
    <3> QED BY <1>0, <1>2, <1>4, <3>3, <3>4, <3>6
  <2> QED BY <1>7, <1>9, <2>2, <2>3, <2>4, Served
<1>10. \/ Panic("Cannot expand heap") \/ Panic("full ordered_array_t")
       \/ e <= MaxAddr /\ TakeHole(m, ix, e, n, align)
  <2>1. e > MaxAddr \/ e <= MaxAddr
    BY <1>0, <1>4
  <2> QED BY <1>7, <2>1, Zenon
<1> QED BY <1>8, <1>9, <1>10

(* An owner writes into its allocation.                                    *)
LEMMA WriteStep ==
    ASSUME IInv, NEW p \in DOMAIN live, NEW v \in Data, UserWrite(p, v)
    PROVE  /\ IInv' /\ live' = live /\ panic = "" /\ panic' = panic
           /\ \A k \in 0 .. live[p].size - 1 : mem'[p + k] = v
           /\ \A q \in DOMAIN live : q # p =>
                 \A k \in 0 .. live[q].size - 1 : mem'[q + k] = mem[q + k]
<1>0. /\ HeaderWords = 3 /\ FooterWords = 2 /\ Overhead = 5
      /\ Start \in Int /\ MaxAddr \in Int /\ v \in Int /\ InitialEnd \in Int
  BY Widths, HeapAssumption
<1>1. PICK C, I : Heap(mem, index, allocated_end, live, C, I)
  BY DEF IInv
<1>2. /\ mem \in Memory /\ allocated_end \in Int /\ allocated_end <= MaxAddr
      /\ InitialEnd <= allocated_end /\ allocated_end % PageWords = 0
      /\ C \subseteq Int /\ allocated_end \in C
      /\ \A x \in C : Start <= x /\ x <= allocated_end
      /\ Lists(index, I)
  BY <1>1, HeapFacts
<1>3. PICK h \in Int, c \in Int :
          /\ p \in Int /\ live[p].size \in Nat /\ h = p - HeaderWords
          /\ Adj(C, h, c) /\ Used(mem, h, c)
          /\ p + live[p].size + FooterWords <= c /\ Start <= h /\ c <= allocated_end
  BY <1>1, PayloadPlace
<1>4. PICK size \in Nat : size = live[p].size
  BY <1>3
<1>5. /\ panic = "" /\ panic' = panic /\ live' = live
      /\ index' = index /\ allocated_end' = allocated_end
      /\ mem' = [a \in HeapWords |-> IF a \in p .. p + size - 1 THEN v ELSE mem[a]]
  BY <1>4 DEF UserWrite
<1>6. PICK lo \in Int, hi \in Int : lo = p /\ hi = p + size
  BY <1>3
<1>7. /\ mem' \in Memory /\ Changed(mem, mem', lo, hi)
      /\ \A a \in lo .. hi - 1 : a \in HeapWords => mem'[a] = v
  <2>1. mem' \in Memory
    BY <1>0, <1>2, <1>5 DEF Memory
  <2>2. ASSUME NEW a \in Int, a < lo \/ hi <= a PROVE Word(mem', a) = Word(mem, a)
    <3>1. a \notin p .. p + size - 1
      BY <1>3, <1>6, <2>2
    <3> QED BY <1>2, <1>5, <3>1, <2>1 DEF Word, Memory
  <2>3. ASSUME NEW a \in lo .. hi - 1, a \in HeapWords PROVE mem'[a] = v
    <3>1. a \in p .. p + size - 1
      BY <1>3, <1>6, <2>3
    <3> QED BY <1>5, <2>3, <3>1
  <2> QED BY <2>1, <2>2, <2>3 DEF Changed
<1>8. h + 3 = lo /\ lo <= hi /\ hi + 2 <= c
  BY <1>0, <1>3, <1>4, <1>6
<1>9. Used(mem', h, c)
  <2>1. /\ Word(mem', h) = Word(mem, h) /\ Word(mem', h + 1) = Word(mem, h + 1)
        /\ Word(mem', h + 2) = Word(mem, h + 2)
    BY <1>7, <1>8 DEF Changed
  <2>2. PICK f \in Int : f = c - FooterWords
    BY <1>0
  <2>3. Word(mem', f) = Word(mem, f) /\ Word(mem', f + 1) = Word(mem, f + 1)
    BY <1>0, <1>7, <1>8, <2>2 DEF Changed
  <2>4. Sized(mem, h, c - h) /\ ~IsHole(mem, h) /\ Footed(mem, h, c)
    BY <1>3 DEF Used
  <2>5. Sized(mem', h, c - h) /\ ~IsHole(mem', h)
    BY <2>1, <2>4 DEF Sized, SizeOf, IsHole
  <2>6. Footed(mem', h, c)
    BY <2>2, <2>3, <2>4 DEF Footed, HeaderOf
  <2> QED BY <2>5, <2>6 DEF Used
<1>10. Changed(mem, mem', h, c)
  BY <1>7, <1>8 DEF Changed
<1>11. Local(C, C, h, c) /\ c - h >= Overhead
  BY <1>0, <1>2, <1>3, <1>8 DEF Local, Adj
<1>12. \A x, y \in C : Adj(C, x, y) /\ h <= x /\ y <= c => x = h /\ y = c
  BY <1>2, <1>3 DEF Adj
<1>13. ~Hole(mem', h, c) /\ ~Dead(mem', h, c)
  BY <1>9, <1>11, Kinds
<1>14. PICK lv2, ix2, e2 : lv2 = live /\ ix2 = index /\ e2 = allocated_end
  OBVIOUS
<1>15. Heap(mem', index, allocated_end, live, C, I)
  <2>1. /\ Layout(mem, allocated_end, C) /\ Apart(mem, C) /\ Indexed(mem, index, C, I)
        /\ Owned(mem, live, C)
    BY <1>1 DEF Heap
  <2>2. Layout(mem', allocated_end, C)
    <3>1. BlocksInside(mem', C, h, c)
      BY <1>9, <1>11, <1>12 DEF BlocksInside, Block
    <3>2. allocated_end \in InitialEnd .. MaxAddr /\ C \subseteq Start .. allocated_end
      BY <1>0, <1>2
    <3> QED BY <1>2, <1>10, <1>11, <2>1, <3>1, <3>2, LayoutLocal
  <2>3. Apart(mem', C)
    <3>1. ApartInside(mem', C, h, c)
      <4> SUFFICES ASSUME NEW x \in C, NEW y \in C, NEW z \in C, Adj(C, x, y), Adj(C, y, z),
                          h <= y, y <= c, Hole(mem', x, y), Hole(mem', y, z)
                   PROVE  FALSE
        BY DEF ApartInside
      <4>1. y = h \/ y = c
        BY <1>3 DEF Adj
      <4>2. CASE y = h
        <5>1. z = c
          BY <1>2, <1>3, <4>2 DEF Adj
        <5> QED BY <1>13, <4>2, <5>1
      <4>3. CASE y = c
        <5>1. x = h
          BY <1>2, <1>3, <4>3 DEF Adj
        <5> QED BY <1>13, <4>3, <5>1
      <4> QED BY <4>1, <4>2, <4>3
    <3> QED BY <1>10, <1>11, <2>1, <3>1, ApartLocal
  <2>4. Indexed(mem', index, C, I)
    <3>1. ASSUME NEW x \in I PROVE x < h \/ c <= x
      <4>1. PICK y \in C : Adj(C, x, y) /\ (Hole(mem, x, y) \/ Dead(mem, x, y))
        BY <2>1 DEF Indexed
      <4>2. ~(x = h /\ y = c)
        BY <1>3, <1>11, <4>1, Kinds
      <4>3. c <= x \/ y <= h
        BY <1>2, <1>3, <4>1, <4>2, BlocksDisjoint
      <4> QED BY <1>2, <1>3, <4>1, <4>3 DEF Adj
    <3>2. IndexedInside(mem', C, I, I, h, c)
      BY <1>12, <1>13, <3>1 DEF IndexedInside
    <3> QED BY <1>2, <1>10, <1>11, <2>1, <3>2, IndexedLocal
  <2>5. Owned(mem', live, C)
    <3>1. ASSUME NEW q \in DOMAIN live
          PROVE  \/ q \in Int /\ Fits(mem', C, q, live[q])
                 \/ q - HeaderWords < h \/ c <= q - HeaderWords
      <4>1. q \in Int /\ Fits(mem, C, q, live[q])
        BY <2>1 DEF Owned
      <4>2. PICK y \in C : /\ Adj(C, q - HeaderWords, y) /\ Used(mem, q - HeaderWords, y)
                           /\ y - (q - HeaderWords) >= live[q].size + Overhead
        BY <4>1 DEF Fits
      <4>3. PICK x \in Int : x = q - HeaderWords
        BY <1>0, <4>1
      <4>4. CASE x = h /\ y = c
        BY <1>9, <4>1, <4>2, <4>3, <4>4 DEF Fits
      <4>5. CASE c <= x \/ y <= h
        BY <1>2, <4>2, <4>3, <4>5 DEF Adj
      <4> QED BY <1>2, <1>3, <4>2, <4>3, <4>4, <4>5, BlocksDisjoint
    <3>2. h + HeaderWords = p
      BY <1>0, <1>3
    <3>3. OwnedInside(mem', C, live, live, h, c)
      BY <1>12, <1>13, <3>1, <3>2 DEF OwnedInside
    <3> QED BY <1>10, <1>11, <2>1, <3>3, OwnedLocal
  <2> QED BY <2>2, <2>3, <2>4, <2>5 DEF Heap
<1>16. IInv'
  BY <1>5, <1>15 DEF IInv, PanicsOnlyWhenExhausted
<1>17. \A k \in 0 .. live[p].size - 1 : mem'[p + k] = v
  <2> SUFFICES ASSUME NEW k \in 0 .. size - 1 PROVE mem'[p + k] = v
    BY <1>4
  <2>1. PICK a \in Int : a = p + k
    BY <1>3
  <2>2. a \in lo .. hi - 1 /\ a \in HeapWords
    BY <1>0, <1>2, <1>3, <1>6, <1>8, <2>1 DEF HeapWords
  <2> QED BY <1>7, <2>1, <2>2
<1>18. ASSUME NEW q \in DOMAIN live, q # p, NEW k \in 0 .. live[q].size - 1
       PROVE  mem'[q + k] = mem[q + k]
  <2>1. PICK x \in Int, y \in Int :
          /\ q \in Int /\ live[q].size \in Nat /\ x = q - HeaderWords
          /\ Adj(C, x, y) /\ Used(mem, x, y)
          /\ q + live[q].size + FooterWords <= y /\ Start <= x /\ y <= allocated_end
    BY <1>1, PayloadPlace
  <2>2. x # h
    BY <1>0, <1>3, <1>18, <2>1
  <2>3. c <= x \/ y <= h
    BY <1>2, <1>3, <2>1, <2>2, BlocksDisjoint
  <2>4. PICK size2 \in Nat : size2 = live[q].size
    BY <2>1
  <2>5. PICK a \in Int : a = q + k
    BY <2>1
  <2>6. a \in HeapWords /\ a \notin p .. p + size - 1
    BY <1>0, <1>2, <1>3, <1>4, <1>18, <2>1, <2>3, <2>4, <2>5 DEF HeapWords
  <2> QED BY <1>5, <2>5, <2>6
<1> QED BY <1>5, <1>16, <1>17, <1>18
-----------------------------------------------------------------------------
(* heap_free() joins the freed block with the holes next to it: the blocks *)
(* from x to y, one of them the allocation p and the others holes, become  *)
(* one hole.                                                               *)
Joins(m, m2, C, lv, p, x, y) ==
    /\ x \in C /\ y \in C /\ x < y /\ y - x >= Overhead
    /\ Free(m2, x, y) /\ Changed(m, m2, x, y)
    /\ p \in DOMAIN lv /\ x <= p - HeaderWords /\ p - HeaderWords < y
    /\ lv[p].align # TRUE
    /\ \A u, v : Adj(C, u, v) /\ Used(m, u, v) /\ x <= u /\ v <= y => u = p - HeaderWords
    /\ \A u : Adj(C, u, x) /\ Hole(m, u, x) => x % PageWords = 0
    /\ \A v : Adj(C, y, v) /\ Hole(m, y, v) => y % PageWords = 0
IndexJoin(I, I2, x, y) ==
    /\ x \in I2
    /\ \A z \in I : z < x \/ y <= z => z \in I2
    /\ \A z \in I2 : z = x \/ (z \in I /\ (z < x \/ y <= z))
Disowned(lv, p) == [q \in DOMAIN lv \ {p} |-> lv[q]]

(* heap_free() of a block whose neighbours are as Joins says keeps the     *)
(* invariant.                                                              *)
LEMMA Merged ==
    ASSUME NEW m, NEW ix, NEW end, NEW lv, NEW C, NEW I, Heap(m, ix, end, lv, C, I),
           NEW m2, NEW p, NEW x, NEW y, Joins(m, m2, C, lv, p, x, y),
           NEW ix2, NEW I2, Lists(ix2, I2), IndexJoin(I, I2, x, y),
           NEW C2, C2 = Without(C, x, y)
    PROVE  Heap(m2, ix2, end, Disowned(lv, p), C2, I2)
<1>0. HeaderWords = 3 /\ Overhead = 5 /\ Start \in Int /\ InitialEnd \in Int /\ MaxAddr \in Int
  BY Widths
<1>1. /\ end \in Int /\ InitialEnd <= end /\ end <= MaxAddr
      /\ end % PageWords = 0 /\ C \subseteq Int /\ end \in C
      /\ \A z \in C : Start <= z /\ z <= end
  BY HeapFacts
<1>2. Layout(m, end, C) /\ Apart(m, C) /\ Indexed(m, ix, C, I) /\ Owned(m, lv, C)
  BY DEF Heap
<1>3. /\ x \in C /\ y \in C /\ x < y /\ y - x >= Overhead /\ x \in Int /\ y \in Int
      /\ Free(m2, x, y) /\ Changed(m, m2, x, y)
  BY <1>1 DEF Joins
<1>4. Local(C, C2, x, y) /\ Adj(C2, x, y) /\ Pieces(C2, x, x, y, y)
  BY <1>1, <1>3, Joined
<1>5. C2 \subseteq Int
  BY <1>4 DEF Local
<1>6. \A u, v \in C2 : Adj(C2, u, v) /\ x <= u /\ v <= y => u = x /\ v = y
  <2>1. \A u, v \in C2 : Adj(C2, u, v) => u # v
    BY <1>5 DEF Adj
  <2> QED BY <1>4, <2>1 DEF Pieces
<1>7. ~Used(m2, x, y) /\ ~Dead(m2, x, y) /\ Hole(m2, x, y)
  BY <1>3, Kinds DEF Hole
<1>8. Layout(m2, end, C2)
  <2>1. BlocksInside(m2, C2, x, y)
    BY <1>3, <1>6, <1>7 DEF BlocksInside, Block
  <2>2. end \in InitialEnd .. MaxAddr /\ C2 \subseteq Start .. end /\ end \in C2
    <3>1. C2 \subseteq C /\ \A z \in C : y <= z => z \in C2
      BY DEF Without
    <3>2. y <= end
      BY <1>1, <1>3
    <3>3. end \in C2
      BY <1>1, <3>1, <3>2
    <3>4. \A z \in C2 : z \in Start .. end
      BY <1>0, <1>1, <3>1
    <3>5. end \in InitialEnd .. MaxAddr
      BY <1>0, <1>1
    <3> QED BY <3>3, <3>4, <3>5
  <2> QED BY <1>1, <1>2, <1>3, <1>4, <2>1, <2>2, LayoutLocal
<1>9. Apart(m2, C2)
  <2>1. ApartInside(m2, C2, x, y)
    <3> SUFFICES ASSUME NEW u \in C2, NEW v \in C2, NEW w \in C2, Adj(C2, u, v), Adj(C2, v, w),
                        x <= v, v <= y, Hole(m2, u, v), Hole(m2, v, w)
                 PROVE  v % PageWords = 0
      BY DEF ApartInside
    <3>1. v = x \/ v = y
      BY <1>3, <1>4, <1>5 DEF Adj
    <3>2. CASE v = x
      <4>1. u \in Int /\ v \in Int /\ v <= x
        BY <1>5, <3>2
      <4>2. Adj(C, u, x) /\ Hole(m, u, x)
        BY <1>2, <1>3, <1>4, <3>2, <4>1, KeptBlocks
      <4> QED BY <3>2, <4>2 DEF Joins
    <3>3. CASE v = y
      <4>1. v \in Int /\ w \in Int /\ y <= v
        BY <1>5, <3>3
      <4>2. Adj(C, y, w) /\ Hole(m, y, w)
        BY <1>2, <1>3, <1>4, <3>3, <4>1, KeptBlocks
      <4> QED BY <3>3, <4>2 DEF Joins
    <3> QED BY <3>1, <3>2, <3>3
  <2> QED BY <1>2, <1>3, <1>4, <2>1, ApartLocal
<1>10. Indexed(m2, ix2, C2, I2)
  <2>1. IndexedInside(m2, C2, I, I2, x, y)
    <3>1. \A u, v \in C2 : Adj(C2, u, v) /\ x <= u /\ v <= y /\ Hole(m2, u, v) => u \in I2
      BY <1>6 DEF IndexJoin
    <3>2. y \in C2 /\ Adj(C2, x, y)
      BY <1>4 DEF Adj
    <3> QED BY <1>7, <3>1, <3>2 DEF IndexedInside, IndexJoin
  <2> QED BY <1>2, <1>3, <1>4, <2>1, IndexedLocal
<1>11. Owned(m2, Disowned(lv, p), C2)
  <2>1. PICK lv2 : lv2 = Disowned(lv, p)
    OBVIOUS
  <2>2. DOMAIN lv2 = DOMAIN lv \ {p} /\ \A q \in DOMAIN lv2 : lv2[q] = lv[q]
    BY <2>1 DEF Disowned
  <2>3. ASSUME NEW q \in DOMAIN lv, q # p
        PROVE  q - HeaderWords < x \/ y <= q - HeaderWords
    <3>1. PICK h \in Int, v \in Int : /\ q \in Int /\ h = q - HeaderWords
                                      /\ Adj(C, h, v) /\ Used(m, h, v)
      BY PayloadPlace
    <3>2. p \in Int
      BY <1>2 DEF Owned, Joins
    <3>3. ~(x <= h /\ v <= y)
      <4>1. h # p - HeaderWords
        BY <1>0, <2>3, <3>1, <3>2
      <4> QED BY <3>1, <4>1 DEF Joins
    <3>4. h < x \/ y <= h
      BY <1>1, <1>3, <3>1, <3>3 DEF Adj
    <3> QED BY <3>1, <3>4
  <2>4. /\ \A q \in DOMAIN lv2 : /\ q \in DOMAIN lv /\ lv2[q] = lv[q]
                                 /\ q - HeaderWords < x \/ y <= q - HeaderWords
        /\ \A q \in DOMAIN lv : \/ q \in DOMAIN lv2 /\ lv2[q] = lv[q]
                                \/ q = p
    BY <2>2, <2>3
  <2>5. x <= p - HeaderWords /\ p - HeaderWords < y /\ lv[p].align # TRUE
    BY DEF Joins
  <2>6. OwnedInside(m2, C2, lv, lv2, x, y)
    BY <1>6, <1>7, <2>4, <2>5 DEF OwnedInside
  <2>7. Owned(m2, lv2, C2)
    BY <1>2, <1>3, <1>4, <2>6, OwnedLocal
  <2> QED BY <2>1, <2>7
<1> QED BY <1>8, <1>9, <1>10, <1>11 DEF Heap

(* A dead part can leave the index.                                        *)
LEMMA DeadUnlisted ==
    ASSUME NEW m, NEW ix, NEW end, NEW lv, NEW C, NEW I, Heap(m, ix, end, lv, C, I),
           NEW b, NEW c, Adj(C, b, c), Dead(m, b, c), NEW ix2, Lists(ix2, I \ {b})
    PROVE  Heap(m, ix2, end, lv, C, I \ {b})
<1>1. C \subseteq Int /\ b \in Int /\ c \in Int /\ c - b >= Overhead
  BY HeapFacts
<1>2. ~Hole(m, b, c)
  BY <1>1, Kinds
<1>3. \A v : Adj(C, b, v) => v = c
  BY <1>1 DEF Adj
<1>4. Indexed(m, ix, C, I)
  BY DEF Heap
<1>5. Indexed(m, ix2, C, I \ {b})
  BY <1>2, <1>3, <1>4 DEF Indexed
<1> QED BY <1>5 DEF Heap

(* Growing a hole to x .. y - 1: a new size and a new footer.              *)
LEMMA Grow ==
    ASSUME NEW m \in Memory, NEW x \in Int, NEW y \in Int, Start <= x,
           y - x >= Overhead, y <= MaxAddr,
           Word(m, x) = KHEAP_MAGIC, IsHole(m, x), Word(m, y - FooterWords) = KHEAP_MAGIC,
           NEW s \in Int, s = y - x, NEW l \in Int, l = y - FooterWords + 1, NEW m2,
           \/ m2 = Put(Put(m, l, x), x + 2, s)
           \/ m2 = Put(Put(m, x + 2, s), l, x)
    PROVE  Changed(m, m2, x, y) /\ Free(m2, x, y)
<1>0. HeaderWords = 3 /\ FooterWords = 2 /\ Overhead = 5 /\ Start \in Int /\ MaxAddr \in Int
  BY Widths
<1>1. x + 2 \in HeapWords /\ l \in HeapWords
  BY <1>0 DEF HeapWords
<1>2. Put(m, l, x) \in Memory /\ \A a : Word(Put(m, l, x), a) = IF a = l THEN x ELSE Word(m, a)
  BY <1>1, WriteWord
<1>3. /\ Put(m, x + 2, s) \in Memory
      /\ \A a : Word(Put(m, x + 2, s), a) = IF a = x + 2 THEN s ELSE Word(m, a)
  BY <1>1, WriteWord
<1>4. l # x + 2
  BY <1>0
<1>5. /\ m2 \in Memory
      /\ \A a : Word(m2, a) = IF a = x + 2 THEN s ELSE IF a = l THEN x ELSE Word(m, a)
  <2>1. CASE m2 = Put(Put(m, l, x), x + 2, s)
    <3>1. PICK m1 \in Memory : m1 = Put(m, l, x)
      BY <1>2
    <3>2. m2 = Put(m1, x + 2, s)
      BY <2>1, <3>1
    <3>3. /\ m2 \in Memory
          /\ \A a : Word(m2, a) = IF a = x + 2 THEN s ELSE Word(m1, a)
      BY <1>1, <3>2, WriteWord
    <3>4. \A a : Word(m1, a) = IF a = l THEN x ELSE Word(m, a)
      BY <1>2, <3>1
    <3> QED BY <3>3, <3>4
  <2>2. CASE m2 = Put(Put(m, x + 2, s), l, x)
    <3>1. PICK m1 \in Memory : m1 = Put(m, x + 2, s)
      BY <1>3
    <3>2. m2 = Put(m1, l, x)
      BY <2>2, <3>1
    <3>3. /\ m2 \in Memory
          /\ \A a : Word(m2, a) = IF a = l THEN x ELSE Word(m1, a)
      BY <1>1, <3>2, WriteWord
    <3>4. \A a : Word(m1, a) = IF a = x + 2 THEN s ELSE Word(m, a)
      BY <1>3, <3>1
    <3> QED BY <1>4, <3>3, <3>4
  <2> QED BY <2>1, <2>2
<1>6. Changed(m, m2, x, y)
  <2>1. \A a \in Int : a < x \/ y <= a => a # x + 2 /\ a # l
    BY <1>0
  <2> QED BY <1>5, <2>1 DEF Changed
<1>7. PICK f \in Int : f = y - FooterWords
  BY <1>0
<1>8. x # x + 2 /\ x # l /\ x + 1 # x + 2 /\ x + 1 # l /\ f # x + 2 /\ f # l /\ f + 1 = l
  BY <1>0, <1>7
<1>9. Sized(m2, x, s) /\ IsHole(m2, x)
  BY <1>5, <1>8 DEF Sized, SizeOf, IsHole
<1>10. Footed(m2, x, y)
  <2>1. Word(m2, f) = KHEAP_MAGIC /\ Word(m2, f + 1) = x
    BY <1>4, <1>5, <1>7, <1>8
  <2> QED BY <1>7, <2>1 DEF Footed, HeaderOf
<1> QED BY <1>6, <1>9, <1>10 DEF Free

(* Whether heap_free() finds a hole before the block from h to c.          *)
LEMMA LeftHole ==
    ASSUME NEW m, NEW ix, NEW end, NEW lv, NEW C, NEW I, Heap(m, ix, end, lv, C, I),
           NEW h \in Int, NEW c \in Int, Adj(C, h, c), lv[h + HeaderWords].align # TRUE,
           NEW m0, Changed(m, m0, h, c)
    PROVE  \/ /\ HoleOnLeft(m0, h) = TRUE
              /\ \E a \in Int : /\ Adj(C, a, h) /\ Free(m, a, h)
                                /\ HeaderOf(m0, h - FooterWords) = a
           \/ /\ HoleOnLeft(m0, h) = FALSE
              /\ \A u : Adj(C, u, h) /\ Hole(m, u, h) => h % PageWords = 0
<1>0. /\ HeaderWords = 3 /\ FooterWords = 2 /\ Overhead = 5 /\ Start \in Int
      /\ InitialEnd % PageWords = 0
  BY Widths
<1>1. C \subseteq Int /\ Start \in C /\ \A z \in C : Start <= z
  BY HeapFacts
<1>2. h \in C
  BY DEF Adj
<1>3. CASE h = Start
  <2>1. ~HoleOnLeft(m0, h)
    BY <1>0, <1>3 DEF HoleOnLeft
  <2>2. ASSUME NEW u, Adj(C, u, h) PROVE FALSE
    <3>1. u \in C /\ u < h
      BY <2>2 DEF Adj
    <3> QED BY <1>0, <1>1, <1>3, <3>1
  <2> QED BY <2>1, <2>2
<1>4. CASE h # Start
  <2>1. PICK a \in C : Adj(C, a, h)
    <3>1. Start < h
      BY <1>0, <1>1, <1>2, <1>4
    <3> QED BY <1>1, <1>2, <3>1, PreviousBoundary
  <2>2. a \in Int /\ Start <= a /\ h - a >= Overhead /\ Block(m, a, h)
    BY <2>1, HeapFacts
  <2>3. \A u : Adj(C, u, h) => u = a
    BY <1>1, <2>1 DEF Adj
  <2>4. PICK f \in Int : f = h - FooterWords
    BY <1>0
  <2>5. /\ Word(m0, f) = Word(m, f) /\ Word(m0, f + 1) = Word(m, f + 1)
        /\ Word(m0, a + 1) = Word(m, a + 1) /\ f > Start
    BY <1>0, <2>2, <2>4 DEF Changed
  <2>6. HoleOnLeft(m0, h) <=> Word(m, f) = KHEAP_MAGIC /\ Word(m0, Word(m, f + 1) + 1) # 0
    BY <2>4, <2>5 DEF HoleOnLeft, HeaderOf, IsHole
  <2>7. Footed(m, a, h) => Word(m, f) = KHEAP_MAGIC /\ Word(m, f + 1) = a
    BY <2>4 DEF Footed, HeaderOf
  <2>8. CASE Used(m, a, h)
    <3>1. ~Hole(m, a, h)
      BY <2>2, <2>8, Kinds
    <3>2. ~HoleOnLeft(m0, h)
      BY <2>5, <2>6, <2>7, <2>8 DEF Used, IsHole
    <3> QED BY <2>3, <3>1, <3>2
  <2>9. CASE Free(m, a, h)
    <3>1. HoleOnLeft(m0, h)
      BY <2>5, <2>6, <2>7, <2>9 DEF Free, IsHole
    <3>2. HeaderOf(m0, h - FooterWords) = a
      BY <2>4, <2>5, <2>7, <2>9 DEF Free, HeaderOf
    <3> QED BY <2>1, <2>2, <2>9, <3>1, <3>2
  <2>10. CASE Bare(m, a, h)
    <3>1. ~HoleOnLeft(m0, h)
      BY <2>4, <2>6, <2>10 DEF Bare
    <3>2. h % PageWords = 0
      BY <1>0, <2>10 DEF Bare
    <3> QED BY <3>1, <3>2
  <2>11. CASE Dead(m, a, h)
    <3>1. lv[h + HeaderWords].align = TRUE
      BY <1>2, <2>1, <2>11 DEF Heap, Owned
    <3> QED BY <3>1
  <2> QED BY <2>2, <2>8, <2>9, <2>10, <2>11 DEF Block, Hole
<1> QED BY <1>3, <1>4

(* Whether it finds one behind the block that ends at c.                   *)
LEMMA RightHole ==
    ASSUME NEW m, NEW ix, NEW lv, NEW C, NEW I, Heap(m, ix, allocated_end, lv, C, I),
           NEW x \in Int, NEW c \in C, Start <= x, x < c,
           NEW m1, Changed(m, m1, x, c), SizeOf(m1, x) = c - x
    PROVE  \/ /\ HoleOnRight(m1, x) = TRUE
              /\ \E d \in Int : Adj(C, c, d) /\ (Free(m, c, d) \/ Dead(m, c, d))
           \/ /\ HoleOnRight(m1, x) = FALSE
              /\ \A d : Adj(C, c, d) => ~Hole(m, c, d)
<1>0. /\ Overhead = 5 /\ Start \in Int
  BY Widths
<1>1. /\ C \subseteq Int /\ allocated_end \in C /\ allocated_end \in Int
      /\ \A z \in C : z <= allocated_end
  BY HeapFacts
<1>2. c \in Int /\ x + SizeOf(m1, x) = c
  BY <1>1
<1>3. HoleOnRight(m1, x)
        <=> c < allocated_end /\ Word(m1, c) = KHEAP_MAGIC /\ IsHole(m1, c)
  BY <1>2 DEF HoleOnRight
<1>4. Word(m1, c) = Word(m, c) /\ (IsHole(m1, c) <=> IsHole(m, c))
  BY <1>2 DEF Changed, IsHole
<1>5. CASE c = allocated_end
  <2>1. ~HoleOnRight(m1, x)
    BY <1>1, <1>3, <1>5
  <2>2. ASSUME NEW d, Adj(C, c, d) PROVE FALSE
    <3>1. d \in C /\ c < d
      BY <2>2 DEF Adj
    <3> QED BY <1>1, <1>5, <3>1
  <2> QED BY <2>1, <2>2
<1>6. CASE c # allocated_end
  <2>1. PICK d \in C : Adj(C, c, d)
    <3>1. c < allocated_end
      BY <1>1, <1>2, <1>6
    <3> QED BY <1>1, <3>1, NextBoundary
  <2>2. d \in Int /\ d - c >= Overhead /\ Block(m, c, d) /\ c < allocated_end
    BY <1>1, <1>2, <1>6, <2>1, HeapFacts
  <2>3. \A v : Adj(C, c, v) => v = d
    BY <1>1, <2>1 DEF Adj
  <2>4. CASE Used(m, c, d)
    <3>1. ~Hole(m, c, d)
      BY <1>2, <2>2, <2>4, Kinds
    <3>2. ~HoleOnRight(m1, x)
      BY <1>3, <1>4, <2>4 DEF Used
    <3> QED BY <2>3, <3>1, <3>2
  <2>5. CASE Free(m, c, d) \/ Dead(m, c, d)
    <3>1. HoleOnRight(m1, x)
      BY <1>3, <1>4, <2>2, <2>5 DEF Free, Dead, Sized
    <3> QED BY <2>1, <2>2, <2>5, <3>1
  <2>6. ~Bare(m, c, d)
    BY <1>0, <1>2 DEF Bare
  <2> QED BY <2>2, <2>4, <2>5, <2>6 DEF Block, Hole
<1> QED BY <1>5, <1>6

(* The hole that a freed block h .. c - 1 becomes with the hole before it, *)
(* x .. h - 1, if there is one.                                            *)
JoinedLeft(m, C, left, h, c, x) ==
    \/ left = TRUE /\ Adj(C, x, h) /\ Free(m, x, h)
    \/ left = FALSE /\ x = h /\ \A u : Adj(C, u, h) /\ Hole(m, u, h) => h % PageWords = 0

(* And with the hole behind it, c .. y - 1.                                *)
JoinedRight(m, C, right, c, y) ==
    \/ right = TRUE /\ Adj(C, c, y) /\ Free(m, c, y)
    \/ right = TRUE /\ y = c /\ \E d : Adj(C, c, d) /\ Dead(m, c, d)
    \/ right = FALSE /\ y = c /\ \A d : Adj(C, c, d) => ~Hole(m, c, d)

(* Merging with the holes on the left and on the right, each if there is   *)
(* one, is a case of Joins.                                                *)
LEMMA JoinedJoins ==
    ASSUME NEW m, NEW ix, NEW end, NEW lv, NEW C, NEW I, Heap(m, ix, end, lv, C, I),
           NEW p \in DOMAIN lv, lv[p].align # TRUE,
           NEW h \in Int, NEW c \in Int, h = p - HeaderWords, Adj(C, h, c), Used(m, h, c),
           NEW left, NEW right, NEW x \in Int, NEW y \in Int,
           JoinedLeft(m, C, left, h, c, x), JoinedRight(m, C, right, c, y),
           NEW m2, Changed(m, m2, x, y), Free(m2, x, y)
    PROVE  Joins(m, m2, C, lv, p, x, y)
<1>0. Overhead = 5
  BY Widths
<1>1. C \subseteq Int /\ c - h >= Overhead /\ Apart(m, C) /\ h \in C /\ c \in C
  <2>1. C \subseteq Int /\ c - h >= Overhead
    BY HeapFacts
  <2> QED BY <2>1 DEF Heap, Adj
<1>3. x \in C /\ x <= h /\ (x = h \/ (Adj(C, x, h) /\ Free(m, x, h) /\ h - x >= Overhead))
  <2>1. CASE Adj(C, x, h) /\ Free(m, x, h)
    <3>1. h - x >= Overhead
      BY <2>1, HeapFacts
    <3>2. x \in C /\ x < h
      BY <2>1 DEF Adj
    <3> QED BY <2>1, <3>1, <3>2
  <2>2. CASE x = h
    BY <1>1, <2>2
  <2> QED BY <2>1, <2>2 DEF JoinedLeft
<1>4. y \in C /\ c <= y /\ (y = c \/ (Adj(C, c, y) /\ Free(m, c, y) /\ y - c >= Overhead))
  <2>1. CASE Adj(C, c, y) /\ Free(m, c, y)
    <3>1. y - c >= Overhead
      BY <2>1, HeapFacts
    <3>2. y \in C /\ c < y
      BY <2>1 DEF Adj
    <3> QED BY <1>1, <2>1, <3>1, <3>2
  <2>2. CASE y = c
    BY <1>1, <2>2
  <2> QED BY <2>1, <2>2 DEF JoinedRight
<1>5. ASSUME NEW u, NEW v, Adj(C, u, v), Used(m, u, v), x <= u, v <= y PROVE u = h
  <2>1. u \in Int /\ v \in Int /\ u < v
    BY <1>1, <1>5 DEF Adj
  <2>2. CASE v <= h
    <3>1. x # h
      BY <1>5, <2>1, <2>2
    <3>2. ~(x = u /\ h = v)
      BY <1>0, <1>3, <1>5, <3>1, Kinds DEF Hole
    <3>3. h <= u \/ v <= x \/ (x = u /\ h = v)
      BY <1>1, <1>3, <1>5, <3>1, BlocksDisjoint
    <3> QED BY <1>5, <2>1, <2>2, <3>2, <3>3
  <2>3. CASE c <= u
    <3>1. y # c
      BY <1>5, <2>1, <2>3
    <3>2. ~(c = u /\ y = v)
      BY <1>0, <1>4, <1>5, <3>1, Kinds DEF Hole
    <3>3. y <= u \/ v <= c \/ (c = u /\ y = v)
      BY <1>1, <1>4, <1>5, <3>1, BlocksDisjoint
    <3> QED BY <1>1, <1>5, <2>1, <2>3, <3>2, <3>3
  <2> QED BY <1>1, <1>5, <2>2, <2>3, BlocksDisjoint
<1>6. ASSUME NEW u, Adj(C, u, x), Hole(m, u, x) PROVE x % PageWords = 0
  <2>1. CASE x = h /\ \A w : Adj(C, w, h) /\ Hole(m, w, h) => h % PageWords = 0
    BY <1>6, <2>1
  <2>2. CASE Adj(C, x, h) /\ Free(m, x, h)
    <3>1. u \in C
      BY <1>6 DEF Adj
    <3> QED BY <1>1, <1>3, <1>6, <2>2, <3>1 DEF Apart, Hole
  <2> QED BY <2>1, <2>2 DEF JoinedLeft
<1>7. ASSUME NEW v, Adj(C, y, v), Hole(m, y, v) PROVE y % PageWords = 0
  <2>1. CASE Adj(C, c, y) /\ Free(m, c, y)
    <3>1. v \in C
      BY <1>7 DEF Adj
    <3> QED BY <1>1, <1>4, <1>7, <2>1, <3>1 DEF Apart, Hole
  <2>2. CASE y = c /\ \E d : Adj(C, c, d) /\ Dead(m, c, d)
    <3>1. PICK d : Adj(C, c, d) /\ Dead(m, c, d)
      BY <2>2
    <3>2. d = v
      BY <1>1, <1>7, <2>2, <3>1 DEF Adj
    <3>3. d \in Int /\ d - c >= Overhead
      BY <3>1, HeapFacts
    <3> QED BY <1>7, <2>2, <3>1, <3>2, <3>3, Kinds
  <2>3. CASE y = c /\ \A d : Adj(C, c, d) => ~Hole(m, c, d)
    BY <1>7, <2>3
  <2> QED BY <2>1, <2>2, <2>3 DEF JoinedRight
<1>8. x < y /\ y - x >= Overhead /\ h < y
  BY <1>0, <1>1, <1>3, <1>4
<1> QED BY <1>3, <1>4, <1>5, <1>6, <1>7, <1>8 DEF Joins

(* The holes the index lists afterwards.                                   *)
StillListed(I, right, c) == IF right = TRUE THEN I \ {c} ELSE I

Around(m, C, left, right, h, c, x, y) ==
    /\ h \in Int /\ c \in Int /\ x \in Int /\ y \in Int
    /\ Adj(C, h, c) /\ Used(m, h, c)
    /\ JoinedLeft(m, C, left, h, c, x) /\ JoinedRight(m, C, right, c, y)
ListedAfter(m, end, lv, C, I, J, left, right, h, c, x, y) ==
    /\ h \notin I /\ (left = TRUE => x \in J)
    /\ right = TRUE /\ c \notin I => \E d : Adj(C, c, d) /\ Dead(m, c, d)
    /\ \E B : /\ IndexJoin(B, J \cup {x}, x, y)
              /\ \A ix : Lists(ix, J) => \E ix2 : Heap(m, ix2, end, lv, C, B)

(* After heap_free() the index lists the merged hole once, and no part of  *)
(* it.                                                                     *)
LEMMA JoinedIndex ==
    ASSUME NEW m, NEW ix, NEW end, NEW lv, NEW C, NEW I, Heap(m, ix, end, lv, C, I),
           NEW left, NEW right, NEW h, NEW c, NEW x, NEW y,
           Around(m, C, left, right, h, c, x, y),
           NEW J, J = StillListed(I, right, c)
    PROVE  ListedAfter(m, end, lv, C, I, J, left, right, h, c, x, y)
<1> USE DEF StillListed, Around, ListedAfter
<1>0. Overhead = 5
  BY Widths
<1>1. C \subseteq Int /\ c - h >= Overhead /\ h \in C /\ c \in C
  <2>1. C \subseteq Int /\ c - h >= Overhead
    BY HeapFacts
  <2> QED BY <2>1 DEF Heap, Adj
<1>2. Indexed(m, ix, C, I) /\ I \subseteq C
  BY DEF Heap, Indexed, Adj
<1>3. h \notin I
  <2> SUFFICES ASSUME h \in I PROVE FALSE
    OBVIOUS
  <2>1. PICK d \in C : Adj(C, h, d) /\ (Hole(m, h, d) \/ Dead(m, h, d))
    BY <1>2 DEF Indexed
  <2>2. d = c
    BY <1>1, <2>1 DEF Adj
  <2> QED BY <1>1, <2>1, <2>2, Kinds
<1>4. x <= h /\ (left = TRUE => x \in I) /\ (x = h \/ Adj(C, x, h))
  <2>1. left = TRUE => Adj(C, x, h) /\ Free(m, x, h)
    BY DEF JoinedLeft
  <2>2. left = TRUE => x \in I
    BY <1>1, <1>2, <2>1 DEF Indexed, Hole, Adj
  <2>3. x = h \/ Adj(C, x, h)
    BY DEF JoinedLeft
  <2> QED BY <2>2, <2>3 DEF Adj
<1>5. left = TRUE => x \in J
  BY <1>0, <1>1, <1>4
<1>6. c <= y /\ (y = c \/ (right = TRUE /\ Adj(C, c, y)))
  BY DEF JoinedRight, Adj
<1>7. right = TRUE /\ c \notin I => \E d : Adj(C, c, d) /\ Dead(m, c, d)
  <2> SUFFICES ASSUME Adj(C, c, y), Free(m, c, y) PROVE c \in I
    BY DEF JoinedRight
  <2>1. y \in C
    BY DEF Adj
  <2> QED BY <1>1, <1>2, <2>1 DEF Indexed, Hole
<1>8. \A z \in I : z < x \/ z = x \/ z = c \/ y <= z
  <2> SUFFICES ASSUME NEW z \in I PROVE z < x \/ z = x \/ z = c \/ y <= z
    OBVIOUS
  <2>1. z \in C /\ z \in Int /\ z # h
    BY <1>1, <1>2, <1>3
  <2>2. z <= h \/ c <= z
    BY <2>1 DEF Adj
  <2>3. z <= x \/ h <= z
    BY <1>4, <2>1 DEF Adj
  <2>4. z <= c \/ y <= z
    BY <1>6, <2>1 DEF Adj
  <2> QED BY <1>1, <2>1, <2>2, <2>3, <2>4
<1>9. CASE right = TRUE /\ y = c /\ \E d : Adj(C, c, d) /\ Dead(m, c, d)
  <2>1. PICK d : Adj(C, c, d) /\ Dead(m, c, d)
    BY <1>9
  <2>2. \A ix2 : Lists(ix2, J) => Heap(m, ix2, end, lv, C, J)
    BY <1>9, <2>1, DeadUnlisted
  <2>3. IndexJoin(J, J \cup {x}, x, y)
    BY <1>8, <1>9 DEF IndexJoin
  <2> QED BY <1>3, <1>5, <1>7, <2>2, <2>3
<1>10. CASE ~(right = TRUE /\ y = c)
  <2>1. IndexJoin(I, J \cup {x}, x, y)
    <3>1. CASE right = TRUE
      <4>1. x < c /\ c < y
        BY <1>0, <1>1, <1>4, <1>6, <1>10, <3>1
      <4> QED BY <1>1, <1>8, <3>1, <4>1 DEF IndexJoin
    <3>2. CASE right # TRUE
      BY <1>6, <1>8, <3>2 DEF IndexJoin
    <3> QED BY <3>1, <3>2
  <2> QED BY <1>3, <1>5, <1>7, <2>1
<1>11. \/ right = TRUE /\ y = c /\ \E d : Adj(C, c, d) /\ Dead(m, c, d)
       \/ ~(right = TRUE /\ y = c)
  <2>1. Adj(C, c, y) => y # c
    BY <1>1 DEF Adj
  <2> QED BY <2>1 DEF JoinedRight
<1> QED BY <1>9, <1>10, <1>11

(* heap_free() of an allocation.                                           *)
Freed(p) == panic' = "" /\ live' = Disowned(live, p) /\ Kept(Disowned(live, p), mem, mem')

(* heap_free() keeps the invariant, and frees what it was given or panics. *)
LEMMA FreeStep ==
    ASSUME AlignedStay, IInv, NEW p \in DOMAIN live, live[p].align => FreeAligned, heap_free(p)
    PROVE  panic = "" /\ IInv' /\ (Halts \/ Freed(p))
<1> DEFINE
      header == p - HeaderWords
      footer == header + SizeOf(mem, header) - FooterWords
      m0     == [mem EXCEPT ![header+1] = 1]
      lh   == HeaderOf(m0, header - FooterWords)
      left == HoleOnLeft(m0, header)
      ml   == [m0 EXCEPT ![footer+1] = lh,
                         ![lh+2] = SizeOf(m0, lh) + SizeOf(m0, header)]
      m1   == IF left THEN ml ELSE m0
      h    == IF left THEN lh ELSE header
      ix1  == IF left THEN Update(index, m1) ELSE index
      rh   == h + SizeOf(m1, h)
      right == HoleOnRight(m1, h)
      whole == SizeOf(m1, h) + SizeOf(m1, rh)
      end_footer == h + whole - FooterWords
      mr   == [m1 EXCEPT ![h+2] = whole, ![end_footer+1] = h]
      m2   == IF right THEN mr ELSE m1
      at   == { i \in 1 .. Len(ix1) : ix1[i] = rh }
      ix2  == IF right THEN ordered_array_remove(ix1, FirstOf(at)) ELSE ix1
      ix3  == IF left THEN ix2 ELSE Insert(ix2, h, m2)
<1>1. panic = "" /\
      IF Word(mem, header) # KHEAP_MAGIC \/ Word(mem, footer) # KHEAP_MAGIC
        THEN Panic("magic does not match")
      ELSE IF left /\ Word(m0, lh) # KHEAP_MAGIC
        THEN Panic("left header magic does not match")
      ELSE IF right /\ Word(m1, end_footer) # KHEAP_MAGIC
        THEN Panic("right footer magic does not match")
      ELSE IF right /\ at = {}
        THEN Panic("Cannot find right hole in index")
      ELSE IF Len(ix3) > IndexSize
        THEN Panic("full ordered_array_t")
      ELSE /\ mem' = m2
           /\ index' = ix3
           /\ live' = [q \in DOMAIN live \ {p} |-> live[q]]
           /\ UNCHANGED << allocated_end, panic >>
  BY DEF heap_free
<1>a. /\ header = p - HeaderWords
      /\ footer = header + SizeOf(mem, header) - FooterWords
      /\ lh = HeaderOf(m0, header - FooterWords)
      /\ left = HoleOnLeft(m0, header)
      /\ rh = h + SizeOf(m1, h)
      /\ right = HoleOnRight(m1, h)
      /\ whole = SizeOf(m1, h) + SizeOf(m1, rh)
      /\ end_footer = h + whole - FooterWords
  OBVIOUS
<1>b. m0 = Put(mem, header+1, 1)
  BY Zenon DEF Put
<1>c. ml = Put(Put(m0, footer+1, lh), lh+2, SizeOf(m0, lh) + SizeOf(m0, header))
  BY Zenon DEF Put
<1>d. (left = TRUE => m1 = ml /\ h = lh) /\ (left = FALSE => m1 = m0 /\ h = header)
  OBVIOUS
<1>e. ix1 = index \/ ix1 = Update(index, m1)
  OBVIOUS
<1>f. mr = Put(Put(m1, h+2, whole), end_footer+1, h)
  BY Zenon DEF Put
<1>g. (right = TRUE => m2 = mr) /\ (right = FALSE => m2 = m1)
  OBVIOUS
<1>h. at = { i \in 1 .. Len(ix1) : ix1[i] = rh }
  OBVIOUS
<1>i. /\ right = TRUE => ix2 = ordered_array_remove(ix1, FirstOf(at))
      /\ right = FALSE => ix2 = ix1
  OBVIOUS
<1>j. (left = TRUE => ix3 = ix2) /\ (left = FALSE => ix3 = Insert(ix2, h, m2))
  OBVIOUS
<1> HIDE DEF header, footer, m0, lh, left, ml, m1, h, ix1, rh, right, whole, end_footer,
             mr, m2, at, ix2, ix3
<1>0. /\ HeaderWords = 3 /\ FooterWords = 2 /\ Overhead = 5
      /\ Start \in Int /\ MaxAddr \in Int
  BY Widths
<1>2. PICK C, I : Heap(mem, index, allocated_end, live, C, I)
  BY DEF IInv
<1>3. /\ mem \in Memory /\ allocated_end \in Int /\ allocated_end <= MaxAddr
      /\ C \subseteq Int /\ \A z \in C : Start <= z /\ z <= allocated_end
      /\ Lists(index, I)
      /\ \A b, c : Adj(C, b, c) =>
            b \in Int /\ c \in Int /\ Start <= b /\ c <= allocated_end /\ c - b >= Overhead
  BY <1>2, HeapFacts
<1>4. PICK c \in Int :
          /\ p \in Int /\ header \in Int /\ Adj(C, header, c) /\ Used(mem, header, c)
          /\ Start <= header /\ c <= allocated_end /\ c - header >= Overhead
          /\ c <= MaxAddr
  <2>1. PICK b \in Int, c \in Int :
              /\ p \in Int /\ live[p].size \in Nat /\ b = p - HeaderWords
              /\ Adj(C, b, c) /\ Used(mem, b, c)
              /\ p + live[p].size + FooterWords <= c /\ Start <= b /\ c <= allocated_end
    BY <1>2, PayloadPlace
  <2>2. b = header
    BY <1>a, <2>1
  <2> QED BY <1>0, <1>3, <2>1, <2>2
<1>5. live[p].align # TRUE
  <2>1. live[p].align \in Aligns
    BY <1>2 DEF Heap, Owned, Fits
  <2> QED BY <2>1 DEF AlignedStay
<1>6. /\ SizeOf(mem, header) = c - header /\ Word(mem, header) = KHEAP_MAGIC
      /\ footer = c - FooterWords /\ Word(mem, footer) = KHEAP_MAGIC
  <2>1. SizeOf(mem, header) = c - header /\ Word(mem, header) = KHEAP_MAGIC
    BY <1>4 DEF Used, Sized
  <2>2. footer = c - FooterWords
    BY <1>0, <1>4, <1>a, <2>1
  <2> QED BY <1>4, <2>1, <2>2 DEF Used, Footed
<1>7. /\ m0 \in Memory /\ Changed(mem, m0, header, c)
      /\ Free(m0, header, c) /\ SizeOf(m0, header) = c - header
  <2>1. header + 1 \in HeapWords
    BY <1>0, <1>4 DEF HeapWords
  <2>2. m0 \in Memory /\ \A a : Word(m0, a) = IF a = header + 1 THEN 1 ELSE Word(mem, a)
    BY <1>3, <1>b, <2>1, WriteWord
  <2>3. Changed(mem, m0, header, c)
    BY <1>0, <1>4, <2>2 DEF Changed
  <2>4. PICK f \in Int : f = c - FooterWords
    BY <1>0
  <2>5. /\ Word(m0, header) = Word(mem, header) /\ Word(m0, header + 1) = 1
        /\ Word(m0, header + 2) = Word(mem, header + 2)
        /\ Word(m0, f) = Word(mem, f) /\ Word(m0, f + 1) = Word(mem, f + 1)
    <3>1. header # header + 1 /\ header + 2 # header + 1 /\ f # header + 1 /\ f + 1 # header + 1
      BY <1>0, <1>4, <2>4
    <3> QED BY <2>2, <3>1
  <2>6. Sized(m0, header, c - header) /\ IsHole(m0, header)
    BY <1>4, <2>5 DEF Used, Sized, SizeOf, IsHole
  <2>7. Footed(m0, header, c)
    BY <1>4, <2>4, <2>5 DEF Used, Footed, HeaderOf
  <2> QED BY <2>2, <2>3, <2>6, <2>7 DEF Free, Sized
<1>8. PICK x \in Int :
         /\ JoinedLeft(mem, C, left, header, c, x) /\ h = x /\ Start <= x /\ x <= header
         /\ Changed(mem, m1, x, c) /\ Free(m1, x, c) /\ c - x >= Overhead
         /\ left = TRUE \/ left = FALSE
         /\ left = TRUE => Word(m0, lh) = KHEAP_MAGIC
  <2>1. CASE /\ left = TRUE
             /\ \E a \in Int : /\ Adj(C, a, header) /\ Free(mem, a, header)
                               /\ HeaderOf(m0, header - FooterWords) = a
    <3>1. PICK a \in Int : Adj(C, a, header) /\ Free(mem, a, header) /\ lh = a
      BY <1>a, <2>1
    <3>2. Start <= a /\ header - a >= Overhead
      BY <1>3, <3>1
    <3>3. Free(m0, a, header)
      <4>1. \A w \in a .. header - 1 : Word(m0, w) = Word(mem, w)
        BY <1>4, <1>7 DEF Changed
      <4> QED BY <1>4, <3>1, <3>2, <4>1, SameBlock
    <3>4. Word(m0, a) = KHEAP_MAGIC /\ IsHole(m0, a) /\ SizeOf(m0, a) = header - a
      BY <3>3 DEF Free, Sized
    <3>5. Word(m0, c - FooterWords) = KHEAP_MAGIC
      BY <1>7 DEF Free, Footed
    <3>6. PICK s \in Int, l \in Int : s = c - a /\ l = c - FooterWords + 1
      BY <1>0
    <3>7. m1 = Put(Put(m0, l, a), a + 2, s)
      <4>1. SizeOf(m0, a) + SizeOf(m0, header) = s
        BY <1>4, <1>7, <3>4, <3>6
      <4>2. footer + 1 = l
        BY <1>6, <3>6
      <4> QED BY <1>c, <1>d, <2>1, <3>1, <4>1, <4>2
    <3>8. c - a >= Overhead
      BY <1>0, <1>4, <3>2
    <3>9. Changed(m0, m1, a, c) /\ Free(m1, a, c)
      BY <1>4, <1>7, <3>2, <3>4, <3>5, <3>6, <3>7, <3>8, Grow
    <3>10. Changed(mem, m1, a, c)
      BY <1>0, <1>4, <1>7, <3>2, <3>9 DEF Changed
    <3>11. JoinedLeft(mem, C, left, header, c, a)
      BY <2>1, <3>1 DEF JoinedLeft
    <3>12. h = a /\ a <= header
      BY <1>0, <1>4, <1>d, <2>1, <3>1, <3>2
    <3> QED BY <2>1, <3>1, <3>2, <3>4, <3>8, <3>9, <3>10, <3>11, <3>12
  <2>2. CASE /\ left = FALSE
             /\ \A u : Adj(C, u, header) /\ Hole(mem, u, header) => header % PageWords = 0
    <3>1. JoinedLeft(mem, C, left, header, c, header)
      BY <2>2 DEF JoinedLeft
    <3>2. m1 = m0 /\ h = header
      BY <1>d, <2>2
    <3> QED BY <1>4, <1>7, <2>2, <3>1, <3>2
  <2>3. live[header + HeaderWords].align # TRUE
    <3>1. header + HeaderWords = p
      BY <1>0, <1>4, <1>a
    <3> QED BY <1>5, <3>1
  <2>4. \/ /\ left = TRUE
           /\ \E a \in Int : /\ Adj(C, a, header) /\ Free(mem, a, header)
                             /\ HeaderOf(m0, header - FooterWords) = a
        \/ /\ left = FALSE
           /\ \A u : Adj(C, u, header) /\ Hole(mem, u, header) => header % PageWords = 0
    <3>1. header \in Int /\ Adj(C, header, c) /\ Changed(mem, m0, header, c)
      BY <1>4, <1>7
    <3>2. left = HoleOnLeft(m0, header)
      BY <1>a
    <3> QED BY <1>2, <2>3, <3>1, <3>2, LeftHole
  <2> QED BY <2>1, <2>2, <2>4
<1>9. /\ SizeOf(m1, x) = c - x /\ rh = c /\ c \in C /\ x < c /\ m1 \in Memory
      /\ Word(m1, x) = KHEAP_MAGIC /\ IsHole(m1, x) /\ Word(m1, c - FooterWords) = KHEAP_MAGIC
      /\ \A a \in Int : c <= a => Word(m1, a) = Word(mem, a)
  <2>1. SizeOf(m1, x) = c - x /\ Word(m1, x) = KHEAP_MAGIC /\ IsHole(m1, x)
        /\ Word(m1, c - FooterWords) = KHEAP_MAGIC
    BY <1>8 DEF Free, Sized, Footed
  <2>2. rh = c
    BY <1>8, <1>a, <2>1
  <2>3. c \in C /\ x < c
    BY <1>0, <1>4, <1>8 DEF Adj
  <2> QED BY <1>8, <2>1, <2>2, <2>3 DEF Changed
<1>10. PICK y \in Int :
         /\ JoinedRight(mem, C, right, c, y) /\ c <= y /\ y <= MaxAddr
         /\ Changed(mem, m2, x, y) /\ Free(m2, x, y)
         /\ right = TRUE \/ right = FALSE
         /\ right = TRUE => Word(m1, end_footer) = KHEAP_MAGIC
  <2>1. ASSUME right = TRUE, NEW y \in Int, c <= y, y <= MaxAddr,
               Word(m1, y - FooterWords) = KHEAP_MAGIC, SizeOf(m1, c) = y - c
        PROVE  /\ Changed(mem, m2, x, y) /\ Free(m2, x, y)
               /\ Word(m1, end_footer) = KHEAP_MAGIC
    <3>1. PICK s \in Int, l \in Int : s = y - x /\ l = y - FooterWords + 1
      BY <1>0
    <3>2. whole = s /\ end_footer = y - FooterWords /\ end_footer + 1 = l
      BY <1>0, <1>8, <1>9, <1>a, <2>1, <3>1
    <3>3. m2 = Put(Put(m1, x + 2, s), l, x)
      BY <1>8, <1>f, <1>g, <2>1, <3>2
    <3>4. y - x >= Overhead
      BY <1>0, <1>8, <2>1
    <3>5. Changed(m1, m2, x, y) /\ Free(m2, x, y)
      BY <1>8, <1>9, <2>1, <3>1, <3>3, <3>4, Grow
    <3>6. Changed(mem, m2, x, y)
      BY <1>8, <2>1, <3>5 DEF Changed
    <3> QED BY <2>1, <3>2, <3>5, <3>6
  <2>2. CASE /\ right = TRUE
             /\ \E d \in Int : Adj(C, c, d) /\ (Free(mem, c, d) \/ Dead(mem, c, d))
    <3>1. PICK d \in Int : Adj(C, c, d) /\ (Free(mem, c, d) \/ Dead(mem, c, d))
      BY <2>2
    <3>2. d - c >= Overhead /\ d <= MaxAddr
      BY <1>0, <1>3, <3>1
    <3>3. SizeOf(m1, c) = SizeOf(mem, c)
      <4>1. Word(m1, c + 2) = Word(mem, c + 2)
        BY <1>9
      <4> QED BY <4>1 DEF SizeOf
    <3>4. CASE Free(mem, c, d)
      <4>1. SizeOf(m1, c) = d - c
        BY <3>3, <3>4 DEF Free, Sized
      <4>2. Word(m1, d - FooterWords) = KHEAP_MAGIC
        <5>1. d - FooterWords \in Int /\ c <= d - FooterWords
          BY <1>0, <3>2
        <5>2. Word(mem, d - FooterWords) = KHEAP_MAGIC
          BY <3>4 DEF Free, Footed
        <5> QED BY <1>9, <5>1, <5>2
      <4>3. c <= d
        BY <1>0, <3>2
      <4>4. JoinedRight(mem, C, right, c, d)
        BY <2>2, <3>1, <3>4 DEF JoinedRight
      <4> QED BY <2>1, <2>2, <3>2, <4>1, <4>2, <4>3, <4>4
    <3>5. CASE Dead(mem, c, d)
      <4>1. SizeOf(m1, c) = c - c
        BY <3>3, <3>5 DEF Dead, Sized
      <4>2. JoinedRight(mem, C, right, c, c)
        BY <2>2, <3>1, <3>5 DEF JoinedRight
      <4>3. /\ Changed(mem, m2, x, c) /\ Free(m2, x, c)
            /\ Word(m1, end_footer) = KHEAP_MAGIC
        <5>1. c <= c /\ c <= MaxAddr
          BY <1>4
        <5> QED BY <1>9, <2>1, <2>2, <4>1, <5>1
      <4>4. c <= c /\ c <= MaxAddr
        BY <1>4
      <4> QED BY <2>2, <4>2, <4>3, <4>4
    <3> QED BY <3>1, <3>4, <3>5
  <2>3. CASE right = FALSE /\ \A d : Adj(C, c, d) => ~Hole(mem, c, d)
    <3>1. JoinedRight(mem, C, right, c, c)
      BY <2>3 DEF JoinedRight
    <3>2. m2 = m1
      BY <1>g, <2>3
    <3> QED BY <1>4, <1>8, <2>3, <3>1, <3>2
  <2>4. right = HoleOnRight(m1, x)
    BY <1>8, <1>a
  <2> QED BY <1>2, <1>8, <1>9, <2>2, <2>3, <2>4, RightHole

<1>11. Joins(mem, m2, C, live, p, x, y)
  BY <1>2, <1>4, <1>5, <1>8, <1>10, <1>a, JoinedJoins
<1>12. PICK J : J = StillListed(I, right, c)
  OBVIOUS
<1>13. ListedAfter(mem, allocated_end, live, C, I, J, left, right, header, c, x, y)
  <2>1. Around(mem, C, left, right, header, c, x, y)
    BY <1>4, <1>8, <1>10 DEF Around
  <2> QED BY <1>2, <1>12, <2>1, JoinedIndex
<1>14. Lists(ix1, I)
  BY <1>3, <1>e, ChangedLists DEF Update
<1>15. right = TRUE /\ at = {} => \E d : Adj(C, c, d) /\ Dead(mem, c, d)
  <2>1. at = {} => c \notin I
    BY <1>9, <1>14, <1>h DEF Lists
  <2> QED BY <1>13, <2>1 DEF ListedAfter
<1>16. ~(right = TRUE /\ at = {}) => Lists(ix2, J)
  <2>1. CASE right = FALSE
    BY <1>12, <1>14, <1>i, <2>1 DEF StillListed
  <2>2. CASE right = TRUE /\ at # {}
    <3>1. PICK n : n = FirstOf(at)
      OBVIOUS
    <3>2. n \in at
      <4>1. at \subseteq Nat
        BY <1>14, <1>h DEF Lists
      <4> QED BY <2>2, <3>1, <4>1, FirstOfMember
    <3>3. n \in 1 .. Len(ix1) /\ ix1[n] = c
      BY <1>9, <1>h, <3>2
    <3>4. ix2 = ordered_array_remove(ix1, n) /\ J = I \ {ix1[n]}
      BY <1>12, <1>i, <2>2, <3>1, <3>3 DEF StillListed
    <3> QED BY <1>14, <3>3, <3>4, RemoveLists
  <2> QED BY <1>10, <2>1, <2>2
<1>17. ~(right = TRUE /\ at = {}) => Lists(ix3, J \cup {x})
  <2> SUFFICES ASSUME Lists(ix2, J) PROVE Lists(ix3, J \cup {x})
    BY <1>16
  <2>1. CASE left = TRUE
    <3>1. J \cup {x} = J
      BY <1>13, <2>1 DEF ListedAfter
    <3> QED BY <1>j, <2>1, <3>1
  <2>2. CASE left = FALSE
    <3>1. x = header /\ x \notin J
      BY <1>8, <1>12, <1>13, <2>2 DEF JoinedLeft, StillListed, ListedAfter
    <3>2. ix3 = ordered_array_insert(ix2, x, HoleSizes(m2))
      BY <1>8, <1>j, <2>2 DEF Insert
    <3> QED BY <3>1, <3>2, InsertLists
  <2> QED BY <1>8, <2>1, <2>2
<1>18. CASE /\ ~(right = TRUE /\ at = {}) /\ ~(Len(ix3) > IndexSize)
            /\ mem' = m2 /\ index' = ix3 /\ allocated_end' = allocated_end /\ panic' = panic
            /\ live' = [q \in DOMAIN live \ {p} |-> live[q]]
  <2>1. PICK lv2 : lv2 = Disowned(live, p)
    OBVIOUS
  <2>2. live' = lv2
    BY <1>18, <2>1 DEF Disowned
  <2>3. PICK C2 : C2 = Without(C, x, y)
    OBVIOUS
  <2>4. PICK I2 : I2 = J \cup {x}
    OBVIOUS
  <2>5. Lists(ix3, I2)
    BY <1>17, <1>18, <2>4
  <2>6. PICK B, ix4 : IndexJoin(B, I2, x, y) /\ Heap(mem, ix4, allocated_end, live, C, B)
    BY <1>13, <1>16, <1>18, <2>4 DEF ListedAfter
  <2>7. Heap(m2, ix3, allocated_end, lv2, C2, I2)
    BY <1>11, <2>1, <2>3, <2>5, <2>6, Merged
  <2>8. Len(ix3) <= IndexSize
    <3>1. Len(ix3) \in Nat /\ IndexSize \in Nat
      BY <2>5, HeapAssumption DEF Lists
    <3> QED BY <1>18, <3>1
  <2>9. IInv'
    <3>1. \E D, K : Heap(mem', index', allocated_end', live', D, K)
      BY <1>18, <2>2, <2>7
    <3>2. PanicsOnlyWhenExhausted'
      BY <1>1, <1>18 DEF PanicsOnlyWhenExhausted
    <3> QED BY <1>18, <2>8, <3>1, <3>2 DEF IInv
  <2>10. Kept(lv2, mem, mem')
    <3>1. C2 \subseteq Int /\ Adj(C2, x, y)
      <4>1. x \in C /\ y \in C /\ x < y
        BY <1>11 DEF Joins
      <4>2. Local(C, C2, x, y) /\ Adj(C2, x, y)
        BY <1>3, <2>3, <4>1, Joined
      <4> QED BY <4>2 DEF Local
    <3>2. \A u, v : Adj(C2, u, v) /\ Used(m2, u, v) => v <= x \/ y <= u
      <4>1. ~Used(m2, x, y)
        BY <1>10 DEF Used, Free
      <4> QED BY <3>1, <4>1, BlocksDisjoint
    <3>3. Changed(m2, mem, x, y)
      BY <1>3, <1>10 DEF Changed
    <3>4. Kept(lv2, m2, mem)
      BY <2>7, <3>2, <3>3, PayloadKept
    <3> QED BY <1>18, <3>4 DEF Kept
  <2> QED BY <1>1, <1>18, <2>1, <2>2, <2>9, <2>10 DEF Freed
<1>19. CASE Panic("full ordered_array_t")
  BY <1>1, <1>19, PanicStep
<1>20. CASE right = TRUE /\ at = {} /\ Panic("Cannot find right hole in index")
  <2>1. PICK d : Adj(C, c, d) /\ Dead(mem, c, d)
    BY <1>15, <1>20
  <2>2. TRUE \in Aligns
    <3>1. /\ d + HeaderWords \in DOMAIN live /\ live[d + HeaderWords].align = TRUE
      <4>1. c \in C /\ d \in C
        BY <2>1 DEF Adj
      <4> QED BY <1>2, <2>1, <4>1 DEF Heap, Owned
    <3>2. live[d + HeaderWords].align \in Aligns
      BY <1>2, <3>1 DEF Heap, Owned, Fits
    <3> QED BY <3>1, <3>2
  <2>3. panic' # "" /\ UNCHANGED << mem, index, allocated_end, live >>
    BY <1>20 DEF Panic
  <2>4. IInv'
    BY <2>2, <2>3 DEF IInv
  <2> QED BY <1>1, <2>3, <2>4 DEF Halts
<1>21. /\ ~(Word(mem, header) # KHEAP_MAGIC \/ Word(mem, footer) # KHEAP_MAGIC)
       /\ ~(left /\ Word(m0, lh) # KHEAP_MAGIC)
       /\ ~(right /\ Word(m1, end_footer) # KHEAP_MAGIC)
  BY <1>6, <1>8, <1>10, Zenon
<1> QED BY <1>1, <1>10, <1>18, <1>19, <1>20, <1>21
-----------------------------------------------------------------------------
(* heap_create() makes one hole of the whole heap.                         *)
LEMMA InitIInv == heap_create => IInv
<1> SUFFICES ASSUME heap_create PROVE IInv
  OBVIOUS
<1>1. \E C, I : Heap(mem, index, allocated_end, live, C, I)
  BY Created
<1>2. Len(index) <= IndexSize
  <2>1. Len(index) = 1
    BY DEF heap_create
  <2> QED BY <2>1, HeapAssumption
<1>3. PanicsOnlyWhenExhausted
  BY DEF heap_create, PanicsOnlyWhenExhausted
<1> QED BY <1>1, <1>2, <1>3 DEF IInv

(* What a step does to the allocations.                                    *)
Wrote(p, v) ==
    /\ live' = live /\ panic = "" /\ panic' = panic
    /\ \A k \in 0 .. live[p].size - 1 : mem'[p + k] = v
    /\ \A q \in DOMAIN live : q # p =>
          \A k \in 0 .. live[q].size - 1 : mem'[q + k] = mem[q + k]
Stays == UNCHANGED << mem, live, panic >>

(* Each call and each write keeps the invariant, and is a step of the      *)
(* contract.                                                               *)
LEMMA StepIInv ==
    ASSUME AlignedStay, IInv, [Next]_vars
    PROVE  /\ IInv'
           /\ \/ Stays \/ Halts
              \/ panic = "" /\ \E n \in Sizes, align \in Aligns : panic' = "" /\ Allocated(n, align)
              \/ panic = "" /\ \E p \in DOMAIN live : Freed(p)
              \/ \E p \in DOMAIN live, v \in Data : Wrote(p, v)
<1>1. ASSUME NEW n \in Sizes, NEW align \in Aligns,
             heap_alloc(n, align) \/ heap_alloc_expand(n, align)
      PROVE  IInv' /\ panic = "" /\ (Halts \/ (panic' = "" /\ Allocated(n, align)))
  <2>1. panic = ""
    BY <1>1 DEF heap_alloc, heap_alloc_expand, CallAlloc
  <2> QED BY <1>1, <2>1, AllocStep, ExpandStep
<1>2. ASSUME NEW n \in Sizes, NEW align \in Aligns, heap_alloc_no_frames(n, align)
      PROVE  IInv' /\ Halts
  <2>1. Panic("No free frames")
    BY <1>2 DEF heap_alloc_no_frames
  <2> QED BY <2>1, PanicStep
<1>3. ASSUME NEW p \in DOMAIN live, (live[p].align => FreeAligned) /\ heap_free(p)
      PROVE  panic = "" /\ IInv' /\ (Halts \/ Freed(p))
  BY <1>3, FreeStep
<1>4. ASSUME NEW p \in DOMAIN live, NEW v \in Data, UserWrite(p, v)
      PROVE  IInv' /\ Wrote(p, v)
  BY <1>4, WriteStep DEF Wrote
<1>5. CASE Halted \/ UNCHANGED vars
  <2>1. UNCHANGED vars
    BY <1>5 DEF Halted
  <2> QED BY <2>1 DEF vars, IInv, PanicsOnlyWhenExhausted, Stays
<1> QED BY <1>1, <1>2, <1>3, <1>4, <1>5 DEF Next

(* The heap stays a sequence of blocks in use, holes and dead parts, which *)
(* the index and the allocations describe, whatever callers allocate, free *)
(* and write, if page-aligned allocations are not freed.                   *)
THEOREM HeapSound == ASSUME AlignedStay PROVE Spec => []IInv
<1>1. heap_create => IInv
  BY InitIInv
<1>2. IInv /\ [Next]_vars => IInv'
  BY StepIInv
<1> QED BY <1>1, <1>2, PTL DEF Spec

(* If page-aligned allocations are not freed, nothing heap_alloc() and     *)
(* heap_free() do to other blocks damages a block in use: it keeps its     *)
(* header and footer, so that heap_free() of it passes the magic asserts,  *)
(* and the size that was asked for.                                        *)
THEOREM LiveBlocksStayIntact == ASSUME AlignedStay PROVE Spec => []LiveBlocksIntact
<1>1. IInv => LiveBlocksIntact
  <2> SUFFICES ASSUME IInv, NEW p \in DOMAIN live, NEW h, h = p - HeaderWords,
                      NEW f, f = h + SizeOf(mem, h) - FooterWords
               PROVE  /\ Word(mem, h) = KHEAP_MAGIC /\ ~IsHole(mem, h)
                      /\ Word(mem, f) = KHEAP_MAGIC /\ HeaderOf(mem, f) = h
                      /\ SizeOf(mem, h) >= live[p].size + Overhead
    BY DEF LiveBlocksIntact
  <2>0. HeaderWords = 3 /\ FooterWords = 2 /\ Overhead = 5
    BY Widths
  <2>1. PICK C, I : Heap(mem, index, allocated_end, live, C, I)
    BY DEF IInv
  <2>2. PICK b \in Int, c \in Int :
              /\ p \in Int /\ live[p].size \in Nat /\ b = p - HeaderWords
              /\ Adj(C, b, c) /\ Used(mem, b, c)
              /\ p + live[p].size + FooterWords <= c /\ Start <= b /\ c <= allocated_end
    BY <2>1, PayloadPlace
  <2>3. Sized(mem, h, c - h) /\ ~IsHole(mem, h) /\ Footed(mem, h, c) /\ h \in Int
    BY <2>2 DEF Used
  <2>4. Word(mem, h) = KHEAP_MAGIC /\ SizeOf(mem, h) = c - h
    BY <2>3 DEF Sized
  <2>5. f = c - FooterWords
    BY <2>0, <2>2, <2>3, <2>4
  <2>6. Word(mem, f) = KHEAP_MAGIC /\ HeaderOf(mem, f) = h
    BY <2>3, <2>5 DEF Footed
  <2>7. SizeOf(mem, h) >= live[p].size + Overhead
    BY <2>0, <2>2, <2>3, <2>4
  <2> QED BY <2>3, <2>4, <2>6, <2>7
<1> QED BY <1>1, HeapSound, PTL

(* If page-aligned allocations are not freed, no two allocations that      *)
(* heap_alloc() has handed out overlap.                                    *)
THEOREM LiveBlocksStayDisjoint == ASSUME AlignedStay PROVE Spec => []LiveBlocksDisjoint
<1>1. IInv => LiveBlocksDisjoint
  <2> SUFFICES ASSUME IInv, NEW p \in DOMAIN live, NEW q \in DOMAIN live, p < q
               PROVE  p + live[p].size <= q
    BY DEF LiveBlocksDisjoint
  <2>0. HeaderWords = 3 /\ FooterWords = 2 /\ Overhead = 5
    BY Widths
  <2>1. PICK C, I : Heap(mem, index, allocated_end, live, C, I)
    BY DEF IInv
  <2>2. PICK b \in Int, c \in Int :
              /\ p \in Int /\ live[p].size \in Nat /\ b = p - HeaderWords
              /\ Adj(C, b, c) /\ Used(mem, b, c)
              /\ p + live[p].size + FooterWords <= c /\ Start <= b /\ c <= allocated_end
    BY <2>1, PayloadPlace
  <2>3. PICK u \in Int, v \in Int :
              /\ q \in Int /\ live[q].size \in Nat /\ u = q - HeaderWords
              /\ Adj(C, u, v) /\ Used(mem, u, v)
              /\ q + live[q].size + FooterWords <= v /\ Start <= u /\ v <= allocated_end
    BY <2>1, PayloadPlace
  <2>4. b < u /\ C \subseteq Int
    BY <2>0, <2>1, <2>2, <2>3, HeapFacts
  <2>5. c <= u
    BY <2>2, <2>3, <2>4 DEF Adj
  <2> QED BY <2>0, <2>2, <2>3, <2>5
<1> QED BY <1>1, HeapSound, PTL
-----------------------------------------------------------------------------
(* What the owners of the allocations lv see in the memory m.              *)
Seen(lv, m) == [p \in DOMAIN lv |-> [k \in 0 .. lv[p].size - 1 |-> m[p + k]]]

(* An allocation whose words are unchanged reads the same.                 *)
LEMMA SameSeen ==
    ASSUME NEW lv, NEW m, NEW lv2, NEW m2, NEW p \in DOMAIN lv, p \in DOMAIN lv2,
           lv2[p] = lv[p], \A k \in 0 .. lv[p].size - 1 : m2[p + k] = m[p + k]
    PROVE  Seen(lv2, m2)[p] = Seen(lv, m)[p]
<1>1. PICK n : n = lv[p].size
  OBVIOUS
<1>2. [k \in 0 .. n - 1 |-> m2[p + k]] = [k \in 0 .. n - 1 |-> m[p + k]]
  BY <1>1
<1>3. Seen(lv2, m2)[p] = [k \in 0 .. n - 1 |-> m2[p + k]]
  BY <1>1, Zenon DEF Seen
<1>4. Seen(lv, m)[p] = [k \in 0 .. n - 1 |-> m[p + k]]
  BY <1>1, Zenon DEF Seen
<1> QED BY <1>2, <1>3, <1>4

(* If page-aligned allocations are not freed, heap_alloc() and heap_free() *)
(* implement the contract their callers rely on: they hand out memory      *)
(* nobody owns, and what an allocation holds changes by its owner's writes *)
(* only.                                                                   *)
THEOREM HeapImplementsContract == ASSUME AlignedStay PROVE Spec => ImplementsContract
<1>1. heap_create => Contract!Init
  <2> SUFFICES ASSUME heap_create PROVE Contract!Init
    OBVIOUS
  <2>1. live = << >> /\ panic = ""
    BY DEF heap_create
  <2>2. DOMAIN live = {}
    <3>1. live = << >>
      BY <2>1
    <3> QED BY <3>1
  <2>3. [p \in DOMAIN live |-> [k \in 0 .. live[p].size - 1 |-> mem[p + k]]] = << >>
    BY <2>2
  <2> QED BY <2>1, <2>3 DEF Contract!Init
<1>2. ASSUME IInv, [Next]_vars PROVE [Contract!Next]_(Contract!vars)
  <2>a. PICK c1 : c1 = Seen(live, mem)
    OBVIOUS
  <2>b. PICK c2 : c2 = Seen(live', mem')
    OBVIOUS
  <2>f. ASSUME NEW q \in DOMAIN live, q \in DOMAIN live', live'[q] = live[q],
               \A k \in 0 .. live[q].size - 1 : mem'[q + k] = mem[q + k]
        PROVE  c2[q] = c1[q]
    <3>1. PICK lv, lv2, m, m2 : lv = live /\ lv2 = live' /\ m = mem /\ m2 = mem'
      OBVIOUS
    <3>2. Seen(lv2, m2)[q] = Seen(lv, m)[q]
      BY <2>f, <3>1, SameSeen
    <3> QED BY <2>a, <2>b, <3>1, <3>2
  <2>c. c1 = [p \in DOMAIN live |-> [k \in 0 .. live[p].size - 1 |-> mem[p + k]]]
    BY <2>a DEF Seen
  <2>d. c2 = [p \in DOMAIN live' |-> [k \in 0 .. live'[p].size - 1 |-> mem'[p + k]]]
    BY <2>b DEF Seen
  <2>e. DOMAIN c1 = DOMAIN live /\ DOMAIN c2 = DOMAIN live'
    BY <2>a, <2>b DEF Seen
  <2>1. CASE Stays
    <3>1. live' = live /\ mem' = mem /\ panic' = panic
      BY <2>1 DEF Stays
    <3> QED BY <3>1 DEF Contract!vars
  <2>2. CASE Halts
    <3>1. live' = live /\ mem' = mem /\ panic' # ""
      BY <2>2 DEF Halts
    <3>2. Contract!Halt
      BY <3>1 DEF Contract!Halt
    <3> QED BY <3>2 DEF Contract!Next
  <2>3. ASSUME NEW n \in Sizes, NEW align \in Aligns, panic = "", panic' = "", Allocated(n, align)
        PROVE  Contract!Alloc(n, align)
    <3>1. PICK p \in HeapWords :
        /\ p .. p + n - 1 \subseteq HeapWords /\ p \notin DOMAIN live
        /\ \A q \in DOMAIN live :
              (p .. p + n - 1) \cap (q .. q + live[q].size - 1) = {}
        /\ align = TRUE => p % PageWords = 0
        /\ live' = NewOwner(live, p, n, align)
        /\ Kept(live, mem, mem')
      BY <2>3 DEF Allocated
    <3>2. /\ DOMAIN live' = DOMAIN live \cup {p}
          /\ \A q \in DOMAIN live : live'[q] = live[q]
      BY <3>1 DEF NewOwner
    <3>3. \A q \in DOMAIN live : c2[q] = c1[q]
      <4> SUFFICES ASSUME NEW q \in DOMAIN live PROVE c2[q] = c1[q]
        OBVIOUS
      <4>1. q \in DOMAIN live' /\ live'[q] = live[q]
        BY <3>2
      <4>2. \A k \in 0 .. live[q].size - 1 : mem'[q + k] = mem[q + k]
        BY <3>1 DEF Kept
      <4> QED BY <2>f, <4>1, <4>2
    <3>4. live' = [q \in DOMAIN live \cup {p} |->
                      IF q = p THEN [size |-> n, align |-> align] ELSE live[q]]
      BY <3>1 DEF NewOwner
    <3>5. align => p % PageWords = 0
      BY <3>1
    <3>6. /\ Contract!Payload(p, n) \subseteq HeapWords
          /\ \A q \in DOMAIN live :
                Contract!Payload(p, n) \cap Contract!Payload(q, live[q].size) = {}
      BY <3>1 DEF Contract!Payload
    <3> QED BY <2>3, <2>c, <2>d, <2>e, <3>3, <3>4, <3>5, <3>6, Zenon DEF Contract!Alloc
  <2>4. ASSUME NEW p \in DOMAIN live, panic = "", Freed(p) PROVE Contract!Free(p)
    <3>1. /\ panic' = "" /\ live' = Disowned(live, p)
          /\ Kept(Disowned(live, p), mem, mem')
      BY <2>4 DEF Freed
    <3>2. /\ DOMAIN live' = DOMAIN live \ {p}
          /\ \A q \in DOMAIN live \ {p} : live'[q] = live[q]
      BY <3>1 DEF Disowned
    <3>3. \A q \in DOMAIN live \ {p} : c2[q] = c1[q]
      <4> SUFFICES ASSUME NEW q \in DOMAIN live, q # p PROVE c2[q] = c1[q]
        OBVIOUS
      <4>1. q \in DOMAIN live' /\ live'[q] = live[q]
        BY <3>2
      <4>2. \A k \in 0 .. live[q].size - 1 : mem'[q + k] = mem[q + k]
        BY <3>1, <4>1 DEF Kept
      <4> QED BY <2>f, <4>1, <4>2
    <3>4. live' = [q \in DOMAIN live \ {p} |-> live[q]]
      BY <3>1 DEF Disowned
    <3>5. c2 = [q \in DOMAIN live \ {p} |-> c1[q]]
      <4>1. c2 = [q \in DOMAIN live' |-> c2[q]]
        BY <2>e, <2>b DEF Seen
      <4> QED BY <3>2, <3>3, <4>1
    <3> QED BY <2>4, <2>c, <2>d, <3>1, <3>4, <3>5, Zenon DEF Contract!Free
  <2>5. ASSUME NEW p \in DOMAIN live, NEW v \in Data, Wrote(p, v) PROVE Contract!Write(p, v)
    <3>1. /\ live' = live /\ panic = "" /\ panic' = panic
          /\ \A k \in 0 .. live[p].size - 1 : mem'[p + k] = v
          /\ \A q \in DOMAIN live : q # p =>
                \A k \in 0 .. live[q].size - 1 : mem'[q + k] = mem[q + k]
      BY <2>5 DEF Wrote
    <3>2. ASSUME NEW q \in DOMAIN live, q # p PROVE c2[q] = c1[q]
      BY <2>f, <3>1, <3>2
    <3>3. PICK w : w = [k \in 0 .. live[p].size - 1 |-> v]
      OBVIOUS
    <3>4. c2[p] = w
      <4>1. c2[p] = [k \in 0 .. live[p].size - 1 |-> mem'[p + k]]
        BY <2>d, <3>1
      <4> QED BY <3>1, <3>3, <4>1
    <3>5. c2 = [c1 EXCEPT ![p] = w]
      <4>1. c2 = [q \in DOMAIN live |-> c2[q]]
        BY <2>b, <3>1 DEF Seen
      <4>2. [c1 EXCEPT ![p] = w] = [q \in DOMAIN live |-> IF q = p THEN w ELSE c1[q]]
        BY <2>e
      <4> QED BY <3>2, <3>4, <4>1, <4>2
    <3> QED BY <2>c, <2>d, <3>1, <3>3, <3>5, Zenon DEF Contract!Write
  <2> QED BY <1>2, <2>1, <2>2, <2>3, <2>4, <2>5, StepIInv DEF Contract!Next
<1> QED BY <1>1, <1>2, HeapSound, PTL DEF Spec, ImplementsContract, Contract!Spec
-----------------------------------------------------------------------------
(* Walking the headers, as Starts does, where no allocation is aligned.    *)
Walk(m, end, b) == IF b < end /\ SizeOf(m, b) >= Overhead THEN b + SizeOf(m, b) ELSE b
WalkAt(f, m, end, k) == IF k = 0 THEN Start ELSE Walk(m, end, f[k-1])

Walked(m, end, n) == \E f : \A k \in 0 .. n : f[k] = WalkAt(f, m, end, k)

(* The walk is a function with these values, up to every number of steps.  *)
LEMMA WalkExists == ASSUME NEW m, NEW end, NEW n \in Nat PROVE Walked(m, end, n)
<1> DEFINE Solved(j) == \E f : \A k \in 0 .. j : f[k] = WalkAt(f, m, end, k)
           Bad == { j \in Nat : ~Solved(j) }
<1>1. Solved(0)
  <2> DEFINE f == [k \in Nat |-> Start]
  <2>1. \A k \in 0 .. 0 : f[k] = WalkAt(f, m, end, k)
    BY DEF WalkAt
  <2> QED BY <2>1
<1>2. ASSUME NEW j \in Nat, j # 0, Solved(j - 1) PROVE Solved(j)
  <2>1. PICK f : \A k \in 0 .. j - 1 : f[k] = WalkAt(f, m, end, k)
    BY <1>2
  <2>2. PICK e : e = Walk(m, end, f[j-1])
    OBVIOUS
  <2> DEFINE g == [k \in Nat |-> IF k = j THEN e ELSE f[k]]
  <2>3. \A k \in Nat : g[k] = IF k = j THEN e ELSE f[k]
    OBVIOUS
  <2> HIDE DEF g
  <2>4. ASSUME NEW k \in 0 .. j PROVE g[k] = WalkAt(g, m, end, k)
    <3>1. CASE k = j
      <4>1. j - 1 \in Nat /\ j - 1 # j
        BY <1>2
      <4>2. g[k] = e /\ g[j-1] = f[j-1]
        BY <2>3, <3>1, <4>1
      <4> QED BY <1>2, <2>2, <3>1, <4>2 DEF WalkAt
    <3>2. CASE k # j
      <4>1. k \in 0 .. j - 1 /\ k \in Nat
        BY <3>2
      <4>2. f[k] = WalkAt(f, m, end, k) /\ g[k] = f[k]
        BY <2>1, <2>3, <3>2, <4>1
      <4>3. k # 0 => g[k-1] = f[k-1]
        <5>1. k # 0 => k - 1 \in Nat /\ k - 1 # j
          BY <4>1
        <5> QED BY <2>3, <5>1
      <4> QED BY <4>2, <4>3 DEF WalkAt
    <3> QED BY <3>1, <3>2
  <2>5. Solved(j)
    BY <2>4
  <2> QED BY <2>5
<1> HIDE DEF Solved
<1>3. Bad = {}
  <2> SUFFICES ASSUME Bad # {} PROVE FALSE
    OBVIOUS
  <2>1. Bad \subseteq Nat
    OBVIOUS
  <2>2. PICK j \in Bad : \A i \in Bad : j <= i
    BY <2>1, LeastNumber
  <2>3. j # 0
    BY <1>1, <2>2
  <2>4. j \in Nat /\ j - 1 \in Nat
    BY <2>2, <2>3
  <2>5. j - 1 \notin Bad
    BY <2>2, <2>4
  <2>6. Solved(j - 1)
    BY <2>4, <2>5
  <2> QED BY <1>2, <2>2, <2>3, <2>4, <2>6
<1>4. Solved(n)
  BY <1>3
<1> QED BY <1>4 DEF Solved, Walked

(* So Starts is what its recursive definition says.                        *)
LEMMA StartsValues ==
    ASSUME NEW K \in Nat, K = (allocated_end - Start) \div Overhead
    PROVE  \E f : /\ Starts = { f[k] : k \in 0 .. K }
                  /\ \A k \in 0 .. K : f[k] = WalkAt(f, mem, allocated_end, k)
<1>1. PICK f : \A k \in 0 .. K : f[k] = WalkAt(f, mem, allocated_end, k)
  <2>1. Walked(mem, allocated_end, K)
    BY WalkExists
  <2> QED BY <2>1 DEF Walked
<1> DEFINE D == 0 .. K
           g == [k \in D |-> f[k]]
<1>a. \A k \in D : g[k] = f[k]
  OBVIOUS
<1>b. g = [k \in D |-> g[k]]
  OBVIOUS
<1> HIDE DEF g
<1>2. \A k \in D : g[k] = WalkAt(g, mem, allocated_end, k)
  <2> TAKE k \in D
  <2>1. k # 0 => k - 1 \in D
    OBVIOUS
  <2>2. f[k] = WalkAt(f, mem, allocated_end, k)
    BY <1>1
  <2>3. k # 0 => g[k-1] = f[k-1]
    BY <1>a, <2>1
  <2> QED BY <1>a, <2>2, <2>3 DEF WalkAt
<1>3. g = [k \in D |-> WalkAt(g, mem, allocated_end, k)]
  BY <1>b, <1>2
<1>4. g = [k \in D |-> IF k = 0 THEN Start
                       ELSE IF g[k-1] < allocated_end /\ SizeOf(mem, g[k-1]) >= Overhead
                            THEN g[k-1] + SizeOf(mem, g[k-1]) ELSE g[k-1]]
  BY <1>3, Zenon DEF WalkAt, Walk
<1> DEFINE at == CHOOSE at : at =
              [k \in 0 .. (allocated_end - Start) \div Overhead |->
                       IF k = 0 THEN Start
                       ELSE IF at[k-1] < allocated_end /\ SizeOf(mem, at[k-1]) >= Overhead
                            THEN at[k-1] + SizeOf(mem, at[k-1]) ELSE at[k-1]]
<1>5. Starts = { at[k] : k \in DOMAIN at }
  BY Zenon DEF Starts
<1>6. at = [k \in D |-> IF k = 0 THEN Start
                       ELSE IF at[k-1] < allocated_end /\ SizeOf(mem, at[k-1]) >= Overhead
                            THEN at[k-1] + SizeOf(mem, at[k-1]) ELSE at[k-1]]
  BY <1>4, Zenon
<1> HIDE DEF at
<1>7. at = [k \in D |-> WalkAt(at, mem, allocated_end, k)]
  BY <1>6, Zenon DEF WalkAt, Walk
<1>8. DOMAIN at = D /\ \A k \in D : at[k] = WalkAt(at, mem, allocated_end, k)
  BY <1>7
<1>9. Starts = { at[k] : k \in D }
  BY <1>5, <1>8
<1> QED BY <1>8, <1>9

(* Without aligned allocations a block is in use or a hole, as its header  *)
(* says.                                                                   *)
LEMMA NoDead ==
    ASSUME TRUE \notin Aligns,
           NEW m, NEW ix, NEW end, NEW lv, NEW C, NEW I, Heap(m, ix, end, lv, C, I),
           NEW b, NEW c, Adj(C, b, c)
    PROVE  /\ Used(m, b, c) \/ Hole(m, b, c)
           /\ Sized(m, b, c - b) /\ (Used(m, b, c) <=> ~IsHole(m, b))
           /\ (Hole(m, b, c) <=> IsHole(m, b))
<1>1. Block(m, b, c) /\ b \in C /\ c \in C
  BY HeapFacts DEF Adj
<1>2. ~Dead(m, b, c)
  <2> SUFFICES ASSUME Dead(m, b, c) PROVE FALSE
    OBVIOUS
  <2>1. c + HeaderWords \in DOMAIN lv /\ lv[c + HeaderWords].align = TRUE
    BY <1>1 DEF Heap, Owned
  <2>2. lv[c + HeaderWords].align \in Aligns
    BY <2>1 DEF Heap, Owned, Fits
  <2> QED BY <2>1, <2>2
<1> QED BY <1>1, <1>2, Zenon DEF Block, Hole, Used, Free, Bare

(* The walk visits every boundary, and nothing else.                       *)
LEMMA StartsAreBoundaries ==
    ASSUME TRUE \notin Aligns, NEW C, NEW I, Heap(mem, index, allocated_end, live, C, I)
    PROVE  Starts = C
<1>0. Overhead = 5 /\ Start \in Nat /\ InitialEnd \in Nat /\ Start + 5 <= InitialEnd
  BY Widths
<1>1. /\ allocated_end \in Int /\ InitialEnd <= allocated_end
      /\ C \subseteq Int /\ Start \in C /\ allocated_end \in C
      /\ \A z \in C : Start <= z /\ z <= allocated_end
      /\ \A b, c : Adj(C, b, c) => b \in Int /\ c \in Int /\ c - b >= Overhead
  BY HeapFacts
<1>2. PICK K \in Nat : /\ K = (allocated_end - Start) \div Overhead
                       /\ allocated_end - Start < 5 * (K + 1)
  <2>1. PICK a \in Nat : a = allocated_end - Start
    BY <1>0, <1>1
  <2>2. a \div 5 \in Nat /\ a = 5 * (a \div 5) + (a % 5) /\ a % 5 \in 0 .. 4
    BY <2>1
  <2> QED BY <1>0, <2>1, <2>2
<1>3. PICK f : /\ Starts = { f[k] : k \in 0 .. K }
               /\ \A k \in 0 .. K : f[k] = WalkAt(f, mem, allocated_end, k)
  BY <1>2, StartsValues
<1>4. ASSUME NEW b \in C, b # allocated_end
      PROVE  /\ Adj(C, b, Walk(mem, allocated_end, b)) /\ b < allocated_end
             /\ Walk(mem, allocated_end, b) - b >= 5
  <2>1. b < allocated_end
    BY <1>1, <1>4
  <2>2. PICK c \in C : Adj(C, b, c)
    BY <1>1, <2>1, NextBoundary
  <2>3. SizeOf(mem, b) = c - b
    BY <2>2, NoDead DEF Sized
  <2>4. Walk(mem, allocated_end, b) = c
    BY <1>0, <1>1, <2>1, <2>2, <2>3 DEF Walk
  <2> QED BY <1>0, <1>1, <2>1, <2>2, <2>4
<1>5. Walk(mem, allocated_end, allocated_end) = allocated_end
  BY <1>1 DEF Walk
<1> DEFINE Good(k) == f[k] \in C /\ (f[k] = allocated_end \/ f[k] - Start >= 5 * k)
           Bad == { k \in 0 .. K : ~Good(k) }
<1>6. f[0] = Start
  BY <1>3 DEF WalkAt
<1>7. \A k \in 1 .. K : f[k] = Walk(mem, allocated_end, f[k-1])
  BY <1>3 DEF WalkAt
<1>8. Good(0)
  BY <1>1, <1>6
<1>9. ASSUME NEW k \in 1 .. K, Good(k - 1) PROVE Good(k)
  <2>1. PICK b \in C : b = f[k-1]
    BY <1>9
  <2>2. f[k] = Walk(mem, allocated_end, b)
    BY <1>7, <2>1
  <2>3. CASE b = allocated_end
    BY <1>5, <2>1, <2>2, <2>3
  <2>4. CASE b # allocated_end
    <3>1. PICK c \in Int : c = Walk(mem, allocated_end, b)
      BY <1>1, <1>4, <2>4
    <3>2. c \in C /\ c - b >= 5
      BY <1>4, <2>4, <3>1 DEF Adj
    <3>3. b - Start >= 5 * (k - 1) /\ b \in Int
      BY <1>1, <1>9, <2>1, <2>4
    <3>4. c - Start >= 5 * k
      BY <1>0, <3>2, <3>3
    <3> QED BY <2>2, <3>1, <3>2, <3>4
  <2> QED BY <2>3, <2>4
<1> HIDE DEF Good
<1>10. Bad = {}
  <2> SUFFICES ASSUME Bad # {} PROVE FALSE
    OBVIOUS
  <2>1. Bad \subseteq Nat
    OBVIOUS
  <2>2. PICK j \in Bad : \A i \in Bad : j <= i
    BY <2>1, LeastNumber
  <2>3. j # 0
    BY <1>8, <2>2
  <2>4. j \in 1 .. K /\ j - 1 \in 0 .. K
    BY <2>2, <2>3
  <2>5. j - 1 \notin Bad
    BY <2>2, <2>4
  <2>6. Good(j - 1)
    BY <2>4, <2>5
  <2> QED BY <1>9, <2>2, <2>4, <2>6
<1>11. \A k \in 0 .. K : f[k] \in C /\ (f[k] = allocated_end \/ f[k] - Start >= 5 * k)
  BY <1>10 DEF Good
<1>12. Starts \subseteq C
  BY <1>3, <1>11
<1> DEFINE Lost == { x - Start : x \in C \ Starts }
<1>13. Lost = {}
  <2> SUFFICES ASSUME Lost # {} PROVE FALSE
    OBVIOUS
  <2>1. Lost \subseteq Nat
    BY <1>0, <1>1
  <2>2. PICK l \in Lost : \A i \in Lost : l <= i
    BY <2>1, LeastNumber
  <2>3. PICK x \in C \ Starts : l = x - Start
    OBVIOUS
  <2>4. x # Start
    BY <1>3, <1>6
  <2>5. PICK b \in C : Adj(C, b, x)
    <3>1. Start < x
      BY <1>0, <1>1, <2>4
    <3> QED BY <1>1, <3>1, PreviousBoundary
  <2>6. b \in Int /\ x \in Int /\ b < x /\ b # allocated_end /\ x - b >= 5
    BY <1>0, <1>1, <2>5
  <2>7. b \in Starts
    <3>1. b \notin Starts => b - Start \in Lost
      OBVIOUS
    <3>2. ~(l <= b - Start)
      BY <1>0, <2>3, <2>6
    <3> QED BY <2>2, <3>1, <3>2
  <2>8. PICK k \in 0 .. K : b = f[k]
    BY <1>3, <2>7
  <2>9. Walk(mem, allocated_end, b) = x
    <3>1. PICK c : c = Walk(mem, allocated_end, b)
      OBVIOUS
    <3>2. Adj(C, b, c)
      BY <1>4, <2>6, <3>1
    <3>3. c = x
      BY <1>1, <2>5, <3>2 DEF Adj
    <3> QED BY <3>1, <3>3
  <2>10. k + 1 \in 1 .. K
    <3>1. b - Start >= 5 * k
      BY <1>11, <2>6, <2>8
    <3>2. x <= allocated_end
      BY <1>1
    <3>3. 5 * (k + 1) < 5 * (K + 1)
      BY <1>0, <1>1, <1>2, <2>6, <3>1, <3>2
    <3> QED BY <3>3
  <2>11. f[k+1] = x
    <3>1. (k + 1) - 1 = k
      OBVIOUS
    <3> QED BY <1>7, <2>8, <2>9, <2>10, <3>1
  <2>12. x \in Starts
    <3>1. k + 1 \in 0 .. K
      BY <2>10
    <3> QED BY <1>3, <2>11, <3>1
  <2> QED BY <2>12
<1>14. C \subseteq Starts
  <2>1. \A x \in C : x \notin Starts => x - Start \in Lost
    OBVIOUS
  <2> QED BY <1>13, <2>1
<1> QED BY <1>12, <1>14

(* The blocks of the walk are the blocks of the description.               *)
LEMMA BlocksAdjacent ==
    ASSUME TRUE \notin Aligns, NEW C, NEW I, Heap(mem, index, allocated_end, live, C, I)
    PROVE  /\ \A b \in Blocks : \E c \in Int :
                 Adj(C, b, c) /\ b \in Int /\ Sized(mem, b, c - b) /\ c - b >= Overhead
           /\ \A b, c : Adj(C, b, c) => b \in Blocks
<1>1. Starts = C
  BY StartsAreBoundaries
<1>2. /\ allocated_end \in C /\ C \subseteq Int /\ \A z \in C : z <= allocated_end
  BY HeapFacts
<1>3. ASSUME NEW b \in Blocks
      PROVE  \E c \in Int : /\ Adj(C, b, c) /\ b \in Int /\ Sized(mem, b, c - b)
                            /\ c - b >= Overhead
  <2>1. b \in C /\ b < allocated_end
    BY <1>1, <1>2 DEF Blocks
  <2>2. PICK c \in C : Adj(C, b, c)
    BY <1>2, <2>1, NextBoundary
  <2>3. Sized(mem, b, c - b)
    BY <2>2, NoDead
  <2>4. c \in Int /\ b \in Int /\ c - b >= Overhead
    BY <2>2, HeapFacts
  <2> QED BY <2>2, <2>3, <2>4
<1>4. ASSUME NEW b, NEW c, Adj(C, b, c) PROVE b \in Blocks
  <2>1. b \in C /\ c \in C /\ b < c
    BY <1>4 DEF Adj
  <2>2. b # allocated_end
    BY <1>2, <2>1
  <2> QED BY <1>1, <2>1, <2>2 DEF Blocks
<1> QED BY <1>3, <1>4

(* Where no allocation is page aligned, every word of the heap belongs to  *)
(* one block with its own header and footer, after any sequence of calls.  *)
THEOREM HeapStaysTiled == ASSUME TRUE \notin Aligns PROVE Spec => []Tiled
<1>1. IInv => Tiled
  <2> SUFFICES ASSUME IInv PROVE Tiled
    OBVIOUS
  <2>0. FooterWords = 2
    BY Widths
  <2>1. PICK C, I : Heap(mem, index, allocated_end, live, C, I)
    BY DEF IInv
  <2>2. allocated_end \in Starts /\ allocated_end \in InitialEnd .. MaxAddr
    BY <2>1, StartsAreBoundaries DEF Heap, Layout
  <2>3. ASSUME NEW b \in Blocks, NEW f, f = b + SizeOf(mem, b) - FooterWords
        PROVE  /\ Word(mem, b) = KHEAP_MAGIC
               /\ \/ Word(mem, f) = KHEAP_MAGIC /\ HeaderOf(mem, f) = b
                  \/ b = Start /\ b + SizeOf(mem, b) = InitialEnd /\ IsHole(mem, b)
    <3>1. PICK c \in Int : /\ Adj(C, b, c) /\ b \in Int /\ Sized(mem, b, c - b)
                           /\ c - b >= Overhead
      BY <2>1, BlocksAdjacent
    <3>2. Word(mem, b) = KHEAP_MAGIC /\ SizeOf(mem, b) = c - b
      BY <3>1 DEF Sized
    <3>3. b + SizeOf(mem, b) = c /\ f = c - FooterWords
      BY <2>0, <2>3, <3>1, <3>2
    <3>4. Footed(mem, b, c) \/ Bare(mem, b, c)
      BY <2>1, <3>1, NoDead DEF Used, Hole, Free
    <3> QED BY <3>2, <3>3, <3>4 DEF Footed, Bare
  <2> QED BY <2>2, <2>3 DEF Tiled
<1>2. AlignedStay
  BY DEF AlignedStay
<1> QED BY <1>1, <1>2, HeapSound, PTL

(* Where no allocation is page aligned, every block is a hole that the     *)
(* index lists, or belongs to exactly one allocation, for which            *)
(* heap_alloc() made it large enough.                                      *)
THEOREM BlocksStayAccounted == ASSUME TRUE \notin Aligns PROVE Spec => []BlocksAccounted
<1>1. IInv => BlocksAccounted
  <2> SUFFICES ASSUME IInv PROVE BlocksAccounted
    OBVIOUS
  <2>0. HeaderWords = 3 /\ FooterWords = 2 /\ Overhead = 5
    BY Widths
  <2>1. PICK C, I : Heap(mem, index, allocated_end, live, C, I)
    BY DEF IInv
  <2>2. /\ Lists(index, I) /\ C \subseteq Int
        /\ \A b \in C : \A c \in C : Adj(C, b, c) /\ Hole(mem, b, c) => b \in I
        /\ \A b \in I : \E c \in C : Adj(C, b, c) /\ (Hole(mem, b, c) \/ Dead(mem, b, c))
        /\ \A b \in C : \A c \in C : Adj(C, b, c) /\ Used(mem, b, c)
                                       => b + HeaderWords \in DOMAIN live
    BY <2>1, HeapFacts DEF Heap, Indexed, Owned
  <2>3. I = Holes
    <3>1. ASSUME NEW b \in I PROVE b \in Holes
      <4>1. PICK c \in C : Adj(C, b, c) /\ (Hole(mem, b, c) \/ Dead(mem, b, c))
        BY <2>2
      <4>2. b \in Blocks
        BY <2>1, <4>1, BlocksAdjacent
      <4>3. IsHole(mem, b)
        BY <4>1 DEF Hole, Free, Bare, Dead
      <4> QED BY <4>2, <4>3 DEF Holes
    <3>2. ASSUME NEW b \in Holes PROVE b \in I
      <4>1. b \in Blocks /\ IsHole(mem, b)
        BY DEF Holes
      <4>2. PICK c \in Int : Adj(C, b, c)
        BY <2>1, <4>1, BlocksAdjacent
      <4>3. Hole(mem, b, c)
        BY <2>1, <4>1, <4>2, NoDead
      <4> QED BY <2>2, <4>2, <4>3 DEF Adj
    <3> QED BY <3>1, <3>2
  <2>4. IndexIsHoles
    <3>1. { index[i] : i \in 1 .. Len(index) } = I
      <4>1. \A i \in 1 .. Len(index) : index[i] \in I
        BY <2>2, ElementOfSeq DEF Lists
      <4>2. \A b \in I : \E i \in 1 .. Len(index) : index[i] = b
        BY <2>2 DEF Lists
      <4> QED BY <4>1, <4>2, Zenon
    <3>2. Cardinality(I) = Len(index)
      BY <2>2, ListsCardinality
    <3>3. Len(index) <= IndexSize
      BY DEF IInv
    <3> QED BY <2>3, <3>1, <3>2, <3>3 DEF IndexIsHoles
  <2>5. ASSUME NEW p \in DOMAIN live
        PROVE  /\ p - HeaderWords \in Blocks \ Holes
               /\ SizeOf(mem, p - HeaderWords) >= live[p].size + Overhead
    <3>1. PICK b \in Int, c \in Int :
              /\ p \in Int /\ live[p].size \in Nat /\ b = p - HeaderWords
              /\ Adj(C, b, c) /\ Used(mem, b, c)
              /\ p + live[p].size + FooterWords <= c
      BY <2>1, PayloadPlace
    <3>2. b \in Blocks /\ ~IsHole(mem, b)
      BY <2>1, <3>1, BlocksAdjacent DEF Used
    <3>3. SizeOf(mem, b) = c - b
      BY <3>1 DEF Used, Sized
    <3>4. SizeOf(mem, b) >= live[p].size + Overhead
      BY <2>0, <3>1, <3>3
    <3> QED BY <3>1, <3>2, <3>4 DEF Holes
  <2>6. ASSUME NEW b \in Blocks \ Holes PROVE \E p \in DOMAIN live : b = p - HeaderWords
    <3>1. PICK c \in Int : Adj(C, b, c) /\ b \in Int
      BY <2>1, BlocksAdjacent
    <3>2. Used(mem, b, c)
      BY <2>1, <3>1, NoDead DEF Holes
    <3>3. b + HeaderWords \in DOMAIN live
      BY <2>2, <3>1, <3>2 DEF Adj
    <3>4. b = (b + HeaderWords) - HeaderWords
      BY <2>0, <3>1
    <3> QED BY <3>3, <3>4
  <2>7. { p - HeaderWords : p \in DOMAIN live } = Blocks \ Holes
    BY <2>5, <2>6
  <2> QED BY <2>4, <2>5, <2>7 DEF BlocksAccounted
<1>2. AlignedStay
  BY DEF AlignedStay
<1> QED BY <1>1, <1>2, HeapSound, PTL

(* Where no allocation is page aligned, two holes meet only where expand() *)
(* added pages: heap_free() merges what it frees with the holes on both    *)
(* sides.                                                                  *)
THEOREM HolesStayCoalesced == ASSUME TRUE \notin Aligns PROVE Spec => []Coalesced
<1>1. IInv => Coalesced
  <2> SUFFICES ASSUME IInv, NEW b \in Holes, NEW next, next = b + SizeOf(mem, b), next \in Holes
               PROVE  next % PageWords = 0
    BY DEF Coalesced
  <2>1. PICK C, I : Heap(mem, index, allocated_end, live, C, I)
    BY DEF IInv
  <2>2. b \in Blocks /\ IsHole(mem, b) /\ next \in Blocks /\ IsHole(mem, next)
    BY DEF Holes
  <2>3. PICK c \in Int : Adj(C, b, c) /\ b \in Int /\ Sized(mem, b, c - b)
    BY <2>1, <2>2, BlocksAdjacent
  <2>4. next = c
    <3>1. SizeOf(mem, b) = c - b
      BY <2>3 DEF Sized
    <3> QED BY <2>3, <3>1
  <2>5. PICK d \in Int : Adj(C, c, d)
    BY <2>1, <2>2, <2>4, BlocksAdjacent
  <2>6. Hole(mem, b, c) /\ Hole(mem, c, d)
    BY <2>1, <2>2, <2>3, <2>4, <2>5, NoDead
  <2>7. Apart(mem, C) /\ b \in C /\ c \in C /\ d \in C
    BY <2>1, <2>3, <2>5 DEF Heap, Adj
  <2> QED BY <2>3, <2>4, <2>5, <2>6, <2>7 DEF Apart
<1>2. AlignedStay
  BY DEF AlignedStay
<1> QED BY <1>1, <1>2, HeapSound, PTL

(* Where no allocation is page aligned, the kernel stops in heap_alloc()   *)
(* and heap_free() only when memory, or the index, is exhausted: their     *)
(* consistency checks never fail.                                          *)
THEOREM PanicsAreExhaustion ==
    ASSUME TRUE \notin Aligns PROVE Spec => []PanicsOnlyWhenExhausted
<1>1. IInv => PanicsOnlyWhenExhausted
  BY DEF IInv
<1>2. AlignedStay
  BY DEF AlignedStay
<1> QED BY <1>1, <1>2, HeapSound, PTL
=============================================================================
