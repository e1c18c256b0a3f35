------------------------------- MODULE KHeap --------------------------------
(***************************************************************************)
(* The kernel heap of kheap.c.  Memory is modelled word by word: blocks    *)
(* carry a header (magic, is_hole, size) and a footer (magic, header) in   *)
(* the same words their neighbours and their owners use, and a word keeps  *)
(* its last value, so stale headers stay behind in merged holes exactly as *)
(* in the code.  Addresses and sizes count 4-byte words.                   *)
(*                                                                         *)
(* One action per call: nothing else touches the heap while heap_alloc()   *)
(* or heap_free() runs.  A failed assert() or panic() halts the kernel.    *)
(***************************************************************************)
EXTENDS Integers, Sequences, FiniteSets, OrderedArray

CONSTANTS
    PageWords,      \* PAGE_SIZE / 4
    Start,          \* allocated_start: the page after the index
    InitialEnd,     \* allocated_end as heap_create() leaves it
    MaxAddr,        \* max_addr
    IndexSize,      \* KHEAP_INDEX_SIZE, the capacity of the index
    Sizes,          \* the sizes callers ask for, in words
    Aligns,         \* the page_align arguments callers pass
    FreeAligned,    \* whether callers also free page-aligned allocations
    Data,           \* what callers write into their allocations
    MaxAllocs       \* bound: calls of heap_alloc() in a behaviour

HeaderWords == 3    \* sizeof(header_t) / 4
FooterWords == 2    \* sizeof(footer_t) / 4
Overhead    == HeaderWords + FooterWords
KHEAP_MAGIC == -559038737       \* 0xDEADBEEF as an int32_t
Fresh       == 0                \* a word of a page that was just mapped

ASSUME HeapAssumption ==
    /\ PageWords \in Nat /\ PageWords > Overhead
    /\ Start \in Nat /\ InitialEnd \in Nat /\ MaxAddr \in Nat
    /\ Start % PageWords = 0 /\ InitialEnd % PageWords = 0
    /\ Start + Overhead <= InitialEnd /\ InitialEnd <= MaxAddr
    /\ IndexSize \in Nat \ {0} /\ MaxAllocs \in Nat
    /\ Sizes \subseteq Nat /\ Aligns \subseteq BOOLEAN
    /\ FreeAligned \in BOOLEAN /\ KHEAP_MAGIC \notin Data /\ Data \subseteq Int

VARIABLES
    mem,            \* the words of the heap
    index,          \* heap->index: the holes, ordered by size
    allocated_end,
    live,           \* history: pointer |-> [size, align] of live allocations
    panic,          \* "" while the kernel runs, else why it stopped
    allocs          \* calls of heap_alloc() so far

vars == << mem, index, allocated_end, live, panic, allocs >>

HeapWords == Start .. MaxAddr - 1

(* Reading and writing the two structures.                                 *)
Word(m, a)     == IF a \in DOMAIN m THEN m[a] ELSE Fresh
IsHole(m, h)   == Word(m, h + 1) # 0
SizeOf(m, h)   == Word(m, h + 2)
HeaderOf(m, f) == Word(m, f + 1)

PutHeader(m, h, hole, size) ==
    [m EXCEPT ![h] = KHEAP_MAGIC, ![h+1] = IF hole THEN 1 ELSE 0, ![h+2] = size]
MutPutFooterSelf(m, f, h) == [m EXCEPT ![f] = KHEAP_MAGIC, ![f+1] = f]
MutPutFooterNoMagic(m, f, h) == [m EXCEPT ![f+1] = h]
PutFooter(m, f, h) == [m EXCEPT ![f] = KHEAP_MAGIC, ![f+1] = h]

(* header_t_cmp() compares the sizes the two headers hold now.             *)
HoleSizes(m) == [h \in HeapWords |-> SizeOf(m, h)]
MutInsertLost(ix, h, m) == ix
Insert(ix, h, m) == ordered_array_insert(ix, h, HoleSizes(m))
Update(ix, m)    == ordered_array_changed_element(ix, HoleSizes(m))

RoundUp(n) == ((n + PageWords - 1) \div PageWords) * PageWords

(* The distance to skip so that the usable region is page aligned and the  *)
(* skipped part can hold a header and a footer.                            *)
MutOffsetNoHeader(addr) ==
    LET offset == PageWords - (addr % PageWords)
    IN  IF addr % PageWords = 0 THEN 0
        ELSE IF offset <= Overhead THEN offset + PageWords ELSE offset
page_align_get_offset(addr) ==
    LET r == (addr + HeaderWords) % PageWords
        offset == PageWords - r
    IN  IF r = 0 THEN 0
        ELSE IF offset <= Overhead THEN offset + PageWords ELSE offset

Offset(h, align) == IF align THEN page_align_get_offset(h) ELSE 0

(* The first position of the index whose hole fits; 0 for the code's -1.   *)
FirstOf(s) == IF s = {} THEN 0 ELSE CHOOSE i \in s : \A j \in s : i <= j

MutFindHoleNoSize(m, ix, size, align) == IF ix = << >> THEN 0 ELSE 1
MutFindHoleNoOffset(m, ix, size, align) ==
    FirstOf({ i \in 1 .. Len(ix) : SizeOf(m, ix[i]) >= size })
find_hole(m, ix, size, align) ==
    FirstOf({ i \in 1 .. Len(ix) :
                SizeOf(m, ix[i]) - Offset(ix[i], align) >= size })

-----------------------------------------------------------------------------
(* heap_create(): one hole over the whole heap; it has no footer yet.      *)
heap_create ==
    /\ mem = PutHeader([a \in HeapWords |-> Fresh], Start, TRUE, InitialEnd - Start)
    /\ index = << Start >>
    /\ allocated_end = InitialEnd
    /\ live = << >>
    /\ panic = ""
    /\ allocs = 0

Panic(why) ==
    /\ panic' = why
    /\ UNCHANGED << mem, index, allocated_end, live >>

(* The second half of heap_alloc(): take the hole find_hole() picks in the *)
(* memory m, index ix and heap end `end', split it, return the block.  In  *)
(* the aligned case left_header and orig_hole_header are one pointer, so   *)
(* the size stored in the left hole is at once decremented to 0.           *)
TakeHole(m, ix, end, n, align) ==
    LET wanted == n + Overhead
        i      == find_hole(m, ix, wanted, align)
        hole   == ix[i]
        total  == SizeOf(m, hole)
        size   == IF total - wanted <= Overhead THEN total ELSE wanted
        offset == Offset(hole, align)
        block  == hole + offset
        room   == total - offset
        rest   == block + size
        m1  == IF offset = 0 THEN m
               ELSE PutFooter(PutHeader(m, hole, TRUE, 0), block - FooterWords, hole)
        ix1 == IF offset = 0 THEN ordered_array_remove(ix, i)
               ELSE Insert(ordered_array_remove(ix, i), hole, m1)
        m2  == PutFooter(PutHeader(m1, block, FALSE, size), rest - FooterWords, block)
        m3  == IF room = size THEN m2
               ELSE PutFooter(PutHeader(m2, rest, TRUE, room - size),
                              block + room - FooterWords, rest)
        ix3 == IF room = size THEN ix1 ELSE Insert(ix1, rest, m3)
    IN  IF i = 0 THEN Panic("Failed to find newly allocated hole")
        ELSE IF offset \in 1 .. Overhead THEN Panic("Hit a known bug")
        ELSE IF rest - FooterWords >= end \/ block + room - FooterWords >= end
          THEN Panic("Fell over the edge of the heap")
        ELSE IF room > size /\ room - size <= Overhead
          THEN Panic("not enough to make a new hole")
        ELSE IF Len(ix3) > IndexSize THEN Panic("full ordered_array_t")
        ELSE /\ mem' = m3
             /\ index' = ix3
             /\ allocated_end' = end
             /\ live' = [p \in DOMAIN live \cup {block + HeaderWords} |->
                           IF p = block + HeaderWords
                           THEN [size |-> n, align |-> align] ELSE live[p]]
             /\ UNCHANGED panic

(* A call of heap_alloc().                                                 *)
CallAlloc == panic = "" /\ allocs < MaxAllocs /\ allocs' = allocs + 1

heap_alloc(n, align) ==
    /\ CallAlloc
    /\ find_hole(mem, index, n + Overhead, align) # 0
    /\ TakeHole(mem, index, allocated_end, n, align)

(* No hole fits: expand() maps more pages, the new part becomes a hole     *)
(* (not merged with a hole before it), then the request is served.         *)
ExpandedEnd(n) ==
    Start + RoundUp((allocated_end - Start) + (n + Overhead) + PageWords)
CannotExpand(n) == ExpandedEnd(n) > MaxAddr

heap_alloc_expand(n, align) ==
    /\ CallAlloc
    /\ find_hole(mem, index, n + Overhead, align) = 0
    /\ LET end == ExpandedEnd(n)
           m   == PutFooter(PutHeader(mem, allocated_end, TRUE, end - allocated_end),
                            end - FooterWords, allocated_end)
       IN  IF CannotExpand(n)
             THEN Panic("Cannot expand heap")
           ELSE IF Len(index) + 1 > IndexSize
             THEN Panic("full ordered_array_t")
           ELSE TakeHole(m, Insert(index, allocated_end, m), end, n, align)

(* page_alloc() in expand() finds no free frame.                           *)
heap_alloc_no_frames(n, align) ==
    /\ CallAlloc
    /\ find_hole(mem, index, n + Overhead, align) = 0
    /\ ~CannotExpand(n)
    /\ Panic("No free frames")

(* Whether the block before, and the block after, the header h is a hole.  *)
HoleOnLeft(m, h) ==
    /\ h - FooterWords > Start
    /\ Word(m, h - FooterWords) = KHEAP_MAGIC
    /\ IsHole(m, HeaderOf(m, h - FooterWords))
MutHoleOnRightNever(m, h) == FALSE
HoleOnRight(m, h) ==
    LET rh == h + SizeOf(m, h)
    IN  rh < allocated_end /\ Word(m, rh) = KHEAP_MAGIC /\ IsHole(m, rh)

(* heap_free() of a live allocation (a null pointer is ignored).  An       *)
(* allocation is freed at most once.                                       *)
heap_free(ptr) ==
    LET header == ptr - HeaderWords
        footer == header + SizeOf(mem, header) - FooterWords
        m0     == [mem EXCEPT ![header+1] = 1]
        \* merge left
        lh   == HeaderOf(m0, header - FooterWords)
        left == HoleOnLeft(m0, header)
        m1   == IF left
                THEN [m0 EXCEPT ![footer+1] = lh,
                                ![lh+2] = SizeOf(m0, lh) + SizeOf(m0, header)]
                ELSE m0
        h    == IF left THEN lh ELSE header
        ix1  == IF left THEN Update(index, m1) ELSE index
        \* merge right
        rh   == h + SizeOf(m1, h)
        right == HoleOnRight(m1, h)
        whole == SizeOf(m1, h) + SizeOf(m1, rh)
        end_footer == h + whole - FooterWords
        m2   == IF right
                THEN [m1 EXCEPT ![h+2] = whole, ![end_footer+1] = h]
                ELSE m1
        at   == { i \in 1 .. Len(ix1) : ix1[i] = rh }
        ix2  == IF right THEN ordered_array_remove(ix1, FirstOf(at)) ELSE ix1
        ix3  == IF left THEN ix2 ELSE Insert(ix2, h, m2)
    IN  /\ panic = ""
        /\ UNCHANGED allocs
        /\ IF Word(mem, header) # KHEAP_MAGIC \/ Word(mem, footer) # KHEAP_MAGIC
             THEN Panic("magic does not match")
           ELSE IF left /\ Word(m0, lh) # KHEAP_MAGIC
             THEN Panic("left header magic does not match")
           ELSE IF right /\ Word(m1, end_footer) # KHEAP_MAGIC
             THEN Panic("right footer magic does not match")
           ELSE IF right /\ at = {}
             THEN Panic("Cannot find right hole in index")
           ELSE IF Len(ix3) > IndexSize
             THEN Panic("full ordered_array_t")
           ELSE /\ mem' = m2
                /\ index' = ix3
                /\ live' = [p \in DOMAIN live \ {ptr} |-> live[p]]
                /\ UNCHANGED << allocated_end, panic >>

(* An owner fills its allocation.                                          *)
UserWrite(p, v) ==
    /\ panic = ""
    /\ mem' = [a \in HeapWords |-> IF a \in p .. p + live[p].size - 1
                                   THEN v ELSE mem[a]]
    /\ UNCHANGED << index, allocated_end, live, panic, allocs >>

(* __panic() disables interrupts and spins; or the bound is reached.       *)
Halted == (panic # "" \/ allocs = MaxAllocs) /\ UNCHANGED vars

Next ==
    \/ \E n \in Sizes, align \in Aligns : heap_alloc(n, align)
    \/ \E n \in Sizes, align \in Aligns : heap_alloc_expand(n, align)
    \/ \E n \in Sizes, align \in Aligns : heap_alloc_no_frames(n, align)
    \/ \E p \in DOMAIN live : (live[p].align => FreeAligned) /\ heap_free(p)
    \/ \E p \in DOMAIN live, v \in Data : UserWrite(p, v)
    \/ Halted

Spec == heap_create /\ [][Next]_vars

-----------------------------------------------------------------------------
(* The block starting at h ends where the next one starts: walk the sizes  *)
(* from the first header; stop at the end of the heap or at a bad size.    *)
Starts ==
    LET at[k \in 0 .. (allocated_end - Start) \div Overhead] ==
            IF k = 0 THEN Start
            ELSE LET b == at[k-1]
                 IN  IF b < allocated_end /\ SizeOf(mem, b) >= Overhead
                     THEN b + SizeOf(mem, b) ELSE b
    IN  { at[k] : k \in DOMAIN at }
Blocks == Starts \ {allocated_end}
Holes  == { b \in Blocks : IsHole(mem, b) }

(* The headers chain from the start of the heap exactly to its end, and    *)
(* every block's footer leads back to its header: no sequence of calls to  *)
(* heap_alloc() and heap_free(), and no write by an owner, damages the     *)
(* metadata.  (The hole heap_create() makes has no footer until it is      *)
(* first split.)  The end stays in the range the heap was created for.     *)
Tiled ==
    /\ allocated_end \in Starts /\ allocated_end \in InitialEnd .. MaxAddr
    /\ \A b \in Blocks :
         LET f == b + SizeOf(mem, b) - FooterWords
         IN  /\ Word(mem, b) = KHEAP_MAGIC
             /\ \/ Word(mem, f) = KHEAP_MAGIC /\ HeaderOf(mem, f) = b
                \/ b = Start /\ b + SizeOf(mem, b) = InitialEnd /\ IsHole(mem, b)

(* The index lists the holes, each once, and has room for them: heap_free()*)
(* finds every hole it merges.                                             *)
IndexIsHoles ==
    /\ { index[i] : i \in 1 .. Len(index) } = Holes
    /\ Len(index) = Cardinality(Holes) /\ Len(index) <= IndexSize

(* Every block is either a hole that the index lists or a live allocation  *)
(* with room for its size: heap_alloc() never hands out a block in use.    *)
BlocksAccounted ==
    /\ IndexIsHoles
    /\ { p - HeaderWords : p \in DOMAIN live } = Blocks \ Holes
    /\ \A p \in DOMAIN live :
         SizeOf(mem, p - HeaderWords) >= live[p].size + Overhead

(* test_kmalloc() in main.c frees everything and expects the next block at *)
(* the first address again: freed neighbours become one hole.  Two holes   *)
(* meet on a page boundary at most: expand() adds its hole on one, without *)
(* joining it to a hole that ends there.                                   *)
Coalesced ==
    \A b \in Holes : LET next == b + SizeOf(mem, b)
                     IN  next \in Holes => next % PageWords = 0

(* The consistency asserts of heap_alloc() and heap_free() never fire; the *)
(* kernel only stops when memory or the index is really exhausted.         *)
PanicsOnlyWhenExhausted ==
    panic \in {"", "Cannot expand heap", "No free frames", "full ordered_array_t"}

(* heap_alloc() and heap_free() implement the contract callers rely on.    *)
Contract == INSTANCE HeapContract WITH
    contents <- [p \in DOMAIN live |->
                   [k \in 0 .. live[p].size - 1 |-> mem[p + k]]],
    halted   <- panic # ""
ImplementsContract == Contract!Spec

(* Whatever is aligned, split, merged or lost, the header and the footer   *)
(* of a live allocation stay intact, so kfree() of it passes the magic     *)
(* asserts and gives back at least what was asked for.                     *)
LiveBlocksIntact ==
    \A p \in DOMAIN live :
        LET h == p - HeaderWords
            f == h + SizeOf(mem, h) - FooterWords
        IN  /\ Word(mem, h) = KHEAP_MAGIC /\ ~IsHole(mem, h)
            /\ Word(mem, f) = KHEAP_MAGIC /\ HeaderOf(mem, f) = h
            /\ SizeOf(mem, h) >= live[p].size + Overhead

(* "Free previously-kmalloc-ed memory" (kfree()): freed memory may be      *)
(* handed out again, memory that is still allocated may not.               *)
LiveBlocksDisjoint ==
    \A p, q \in DOMAIN live :
        p < q => p + live[p].size <= q
=============================================================================
