-------------------------- MODULE BootMemoryProofs --------------------------
(***************************************************************************)
(* Proofs about BootMemory, for every memory map, every width of addresses *)
(* and every layout that satisfies the assumptions.                        *)
(***************************************************************************)
EXTENDS BootMemory, DataLemmas

Early  == {"backtrace", "mmap", "regions"}
Paging == {"heap_tables", "identity", "heap_pages", "buffer", "heap_create", "heap"}
Stopped == {"panic", "overwritten"}
Steps  == Early \cup {"init_frames", "directory"} \cup Paging \cup Stopped

Extents == [from : Nat, to : Nat]
Linears == [first : Nat, blocks : Seq(Extents)]
TypeOK ==
    /\ mboot \in [valid : BOOLEAN, mmap : MemoryMaps, strtab : StrtabSizes]
    /\ pc \in Steps
    /\ k \in 1 .. Len(mboot.mmap) + 1
    /\ base \in Nat /\ len \in Nat /\ total \in 0 .. 2 ^ W - 1
    /\ linear \in Linears
    /\ tables \subseteq Nat /\ DOMAIN page \subseteq Nat /\ i \in Nat

(* The loop over the memory map: (base, len) is the largest piece that the *)
(* entries before k offer.                                                 *)
NoPanic == panic = ""
Passed == { mboot.mmap[n] : n \in 1 .. k - 1 }
RegionSoFar ==
    pc \in Early =>
        /\ NoPanic
        /\ pc # "regions" => k = 1
        /\ \A e \in Passed : ~Over32Bits(e) /\ (e.free => Clamped(e).len <= len)
        /\ len = 0 \/ \E e \in Passed : /\ e.free
                                        /\ base = Clamped(e).base /\ len = Clamped(e).len

(* From init_frames() on.                                                  *)
RegionChosen ==
    pc \notin Early \cup Stopped =>
        ImageEnd <= base /\ base + len < 2 ^ W /\ MinRegion < len

(* Linear allocations are in ascending order; only the string table may be *)
(* below the image.                                                        *)
Ascending(blocks, top) ==
    /\ \A m, n \in DOMAIN blocks : m < n => blocks[m].to <= blocks[n].from
    /\ \A n \in DOMAIN blocks :
          /\ blocks[n].from <= blocks[n].to /\ blocks[n].to <= top
          /\ blocks[n].to <= ImageStart \/ ImageEnd <= blocks[n].from
BlocksAscend ==
    /\ pc = "backtrace" => linear = [first |-> 0, blocks |-> << >>]
    /\ pc \in Early => Ascending(linear.blocks, ImageStart)
    /\ pc \notin Early \cup Stopped => Ascending(linear.blocks, linear.first)
    /\ pc \in Stopped => Ascending(linear.blocks, 2 ^ W)

(* How much of the region is used up: by the bitset, by the directory, and *)
(* by the page tables, of which there are no more than addresses need.     *)
PageStart(n) == n * PAGE_SIZE
AfterDirectory == base + Items + DirectorySize + PAGE_SIZE
TableIndices == 0 .. ((2 ^ W - 1) \div PAGE_SIZE) \div PAGES_PER_TABLE
Aligned(n) == n % PAGE_SIZE = 0
Spent(l, T) ==
    /\ T \subseteq TableIndices /\ base <= l.first
    /\ T = {} => l.first <= AfterDirectory
    /\ T # {} => /\ Aligned(l.first)
                 /\ l.first <= AfterDirectory + PAGE_SIZE + PageStart(Cardinality(T))
Budget ==
    /\ pc = "init_frames" => linear.first = base
    /\ pc = "directory" => linear.first = base + Items
    /\ pc \in Early \cup {"init_frames", "directory"} => tables = {}
    /\ pc \in Paging \ {"heap"} => Spent(linear, tables)
    /\ pc = "heap" => base <= linear.first

(* The frames with a cleared bit are handed out in order: M of them so     *)
(* far, which are all of them once there is a frame without.               *)
FramesInOrder(M) ==
    /\ M \in 0 .. Zeroed /\ Used \subseteq Nat /\ 0 .. M - 1 \subseteq Used
    /\ M = Zeroed \/ \A f \in Used : f < M

(* The first n pages have the frames of the same number, and no other page *)
(* has one yet; the first N have those, and other pages have later ones.   *)
IdentitySoFar(n) ==
    /\ i = PageStart(n) /\ (n > 0 => tables # {})
    /\ DOMAIN page = 0 .. n - 1 /\ \A p \in 0 .. n - 1 : page[p] = p
Identity(N) ==
    /\ \A p \in 0 .. N - 1 : p \in DOMAIN page /\ page[p] = p
    /\ \A p \in DOMAIN page : p \in 0 .. N - 1 \/ N <= page[p]

(* The heap's pages, from N frames on; and everything once paging is on.   *)
HeapMapping(N, M) ==
    /\ Identity(N) /\ FramesInOrder(M) /\ tables # {}
    /\ IdentityLimit <= PageStart(N) /\ PageStart(N) < IdentityLimit + PAGE_SIZE
    /\ PageStart(M) + KHEAP_START <= PageStart(N) + i
    /\ i < HeapEnd + PAGE_SIZE
    /\ \A p \in HeapPages : PageStart(p) < i => p \in DOMAIN page
    /\ pc = "buffer" => HeapEnd <= i
BootMapping(N, M) ==
    /\ Identity(N) /\ FramesInOrder(M)
    /\ pc = "heap_create" => linear.first + HeapSize <= PageStart(N)
    /\ linear.first <= PageStart(N) /\ PageStart(N) < IdentityLimit + PAGE_SIZE
    /\ PageStart(N) <= base + len /\ PageStart(M) <= base + len
    /\ \A p \in HeapPages \cup {PAGE_CLONING_BUFFER \div PAGE_SIZE} : p \in DOMAIN page

Mapping ==
    /\ pc \in Early \cup {"init_frames", "directory", "heap_tables"} => DOMAIN page = {}
    /\ pc \in {"heap_tables", "heap_pages"} => KHEAP_START <= i /\ Aligned(i)
    /\ pc = "heap_tables" => i < HeapEnd + PAGE_SIZE
    /\ pc = "identity" => i < IdentityLimit + PAGE_SIZE /\ \E n \in Nat : IdentitySoFar(n)
    /\ pc \in {"heap_pages", "buffer"} => \E N, M \in Nat : HeapMapping(N, M)
    /\ PagingOn => \E N, M \in Nat : BootMapping(N, M)

(* The boot fails for lack of cleared bits only if these do not reach to   *)
(* what it needs of the region.                                            *)
ShortOfBits == \/ panic = "No free frames"
               \/ panic = "Cannot identity-map lower memory"
               \/ pc = "overwritten"
FramesSuffice == ShortOfBits => ~BitsCleared

IInv ==
    /\ TypeOK /\ RegionSoFar /\ RegionChosen /\ LargestRegionTaken
    /\ BlocksAscend /\ Budget /\ Mapping /\ FramesSuffice
-----------------------------------------------------------------------------
(* Where pages start: in order, a page apart.                              *)
LEMMA PageStarts ==
    /\ \A q \in Nat : PageStart(q) \in Nat
    /\ PageStart(0) = 0
    /\ \A q \in Nat : PageStart(q + 1) = PageStart(q) + PAGE_SIZE
    /\ \A q, r \in Nat : q < r => PageStart(q) + PAGE_SIZE <= PageStart(r)
<1> USE BootMemoryAssumption DEF PageStart
<1>1. \A q \in Nat : PageStart(q) \in Nat /\ PageStart(q + 1) = PageStart(q) + PAGE_SIZE
  BY SMT
<1>2. PageStart(0) = 0
  BY SMT
<1>3. ASSUME NEW q \in Nat, NEW r \in Nat, q < r
      PROVE  PageStart(q) + PAGE_SIZE <= PageStart(r)
  <2>1. PICK d \in Nat : r = q + 1 + d
    <3>1. r - q - 1 \in Nat /\ r = q + 1 + (r - q - 1)
      BY <1>3
    <3> QED BY <3>1
  <2>2. r * PAGE_SIZE = q * PAGE_SIZE + PAGE_SIZE + d * PAGE_SIZE
    BY <2>1, SMT
  <2>3. d * PAGE_SIZE \in Nat /\ q * PAGE_SIZE \in Nat
    BY SMT
  <2> QED BY <2>2, <2>3, SMT
<1> QED BY <1>1, <1>2, <1>3

(* The page an address is on.                                              *)
LEMMA PageOf ==
    ASSUME NEW n \in Nat
    PROVE  /\ n \div PAGE_SIZE \in Nat
           /\ PageStart(n \div PAGE_SIZE) <= n /\ n < PageStart(n \div PAGE_SIZE) + PAGE_SIZE
           /\ Aligned(n) <=> n = PageStart(n \div PAGE_SIZE)
<1>1. PICK b \in Nat \ {0} : b = PAGE_SIZE
  BY BootMemoryAssumption
<1>2. PICK q \in Nat, r \in 0 .. b - 1 : q = n \div b /\ r = n % b /\ n = b * q + r
  BY Division, Remainder
<1>3. b * q = PageStart(q) /\ PageStart(q) \in Nat
  BY <1>1, SMT DEF PageStart
<1>4. n = PageStart(q) + r /\ r < PAGE_SIZE
  BY <1>1, <1>2, <1>3
<1>5. PageStart(q) <= n /\ n < PageStart(q) + PAGE_SIZE /\ (r = 0 <=> n = PageStart(q))
  BY <1>3, <1>4, BootMemoryAssumption
<1> QED BY <1>1, <1>2, <1>5 DEF Aligned

(* ... of a page's start is that page.                                     *)
LEMMA PageOfStart ==
    ASSUME NEW q \in Nat
    PROVE  PageStart(q) \div PAGE_SIZE = q /\ Aligned(PageStart(q))
<1>1. PageStart(q) \in Nat
  BY PageStarts
<1>2. PICK r \in Nat : /\ r = PageStart(q) \div PAGE_SIZE
                       /\ PageStart(r) <= PageStart(q) /\ PageStart(q) < PageStart(r) + PAGE_SIZE
                       /\ Aligned(PageStart(q)) <=> PageStart(q) = PageStart(r)
  BY <1>1, PageOf
<1>3. /\ q < r => PageStart(q) + PAGE_SIZE <= PageStart(r)
      /\ r < q => PageStart(r) + PAGE_SIZE <= PageStart(q)
      /\ PageStart(r) \in Nat
  BY PageStarts
<1>4. q = r
  BY <1>1, <1>2, <1>3, BootMemoryAssumption
<1> QED BY <1>2, <1>4

(* The order of pages is that of their starts.                             *)
LEMMA PagesOrdered ==
    ASSUME NEW q \in Nat, NEW r \in Nat
    PROVE  /\ PageStart(q) < PageStart(r) => q < r
           /\ PageStart(q) < PageStart(r) + PAGE_SIZE => q <= r
           /\ q <= r => PageStart(q) <= PageStart(r)
<1>1. /\ PageStart(q) \in Nat /\ PageStart(r) \in Nat
      /\ q < r => PageStart(q) + PAGE_SIZE <= PageStart(r)
      /\ r < q => PageStart(r) + PAGE_SIZE <= PageStart(q)
  BY PageStarts
<1> QED BY <1>1, BootMemoryAssumption

(* Where kmalloc() puts an aligned block.                                  *)
Rounded(n) == IF n % PAGE_SIZE # 0 THEN (n \div PAGE_SIZE) * PAGE_SIZE + PAGE_SIZE ELSE n
LEMMA Rounding ==
    ASSUME NEW n \in Nat
    PROVE  /\ Rounded(n) \in Nat /\ Aligned(Rounded(n))
           /\ n <= Rounded(n) /\ Rounded(n) < n + PAGE_SIZE
           /\ Aligned(n) => Rounded(n) = n
<1>1. CASE Aligned(n)
  BY <1>1, BootMemoryAssumption DEF Rounded, Aligned
<1>2. CASE ~Aligned(n)
  <2>1. PICK q \in Nat : /\ q = n \div PAGE_SIZE /\ PageStart(q) <= n
                         /\ n < PageStart(q) + PAGE_SIZE /\ n # PageStart(q)
    BY <1>2, PageOf
  <2>2. Rounded(n) = PageStart(q) + PAGE_SIZE
    BY <1>2, <2>1 DEF Rounded, Aligned, PageStart
  <2>3. PageStart(q) \in Nat /\ PageStart(q + 1) = PageStart(q) + PAGE_SIZE /\ q + 1 \in Nat
    BY PageStarts
  <2>4. Aligned(PageStart(q + 1))
    BY <2>3, PageOfStart
  <2> QED BY <1>2, <2>1, <2>2, <2>3, <2>4, BootMemoryAssumption
<1> QED BY <1>1, <1>2

(* The bitset is no larger than one for all addresses.                     *)
LEMMA ItemsBounded ==
    ASSUME total \in 0 .. 2 ^ W - 1
    PROVE  /\ Items \in Nat /\ Zeroed \in Nat /\ BitsPerItem \in Nat \ {0}
           /\ Items <= ((2 ^ W - 1) \div PAGE_SIZE + BitsPerItem - 1) \div BitsPerItem
<1>1. PICK t \in Nat, m \in Nat : t = total /\ m = 2 ^ W - 1 /\ t <= m
  <2>1. total \in Nat /\ 2 ^ W - 1 \in Nat /\ total <= 2 ^ W - 1
    BY BootMemoryAssumption
  <2> QED BY <2>1
<1>2. PICK f \in Nat, g \in Nat : f = t \div PAGE_SIZE /\ g = m \div PAGE_SIZE
  BY <1>1, PageOf
<1>3. f <= g
  BY <1>1, <1>2, QuotientMonotone, BootMemoryAssumption
<1>4. PICK b \in Nat \ {0} : b = BitsPerItem
  BY BootMemoryAssumption, SMT DEF BitsPerItem
<1>5. PICK x \in Nat, y \in Nat : x = f + b - 1 /\ y = g + b - 1 /\ x <= y
  <2>1. f + b - 1 \in Nat /\ g + b - 1 \in Nat /\ f + b - 1 <= g + b - 1
    BY <1>3, <1>4
  <2> QED BY <2>1
<1>6. PICK p \in Nat : p = x \div b
  BY Division
<1>7. p <= y \div b
  BY <1>5, <1>6, QuotientMonotone
<1>8. num_frames = f /\ Items = p
  BY <1>1, <1>2, <1>4, <1>5, <1>6 DEF Items, num_frames
<1>9. p * BitsPerByte \in Nat
  BY BootMemoryAssumption, SMT
<1> QED BY <1>1, <1>2, <1>4, <1>5, <1>7, <1>8, <1>9 DEF Zeroed

(* A bit as far behind the bitset as its own bytes are many was not        *)
(* cleared.                                                                *)
LEMMA BeyondBytes ==
    ASSUME TypeOK, NEW f \in Nat, Overwrites(f)
    PROVE  Zeroed <= f
<1>1. PICK n \in Nat, b \in Nat \ {0}, a \in Nat :
         n = Items /\ b = BitsPerByte /\ a = base /\ Zeroed = n * b
  BY ItemsBounded, BootMemoryAssumption DEF TypeOK, Zeroed
<1>2. PICK e \in Blocks : a + n <= e.from /\ e.from <= a + f \div b
  BY <1>1 DEF Overwrites
<1>3. PICK q \in Nat, r \in 0 .. b - 1 : q = f \div b /\ f = b * q + r
  BY Division, Remainder
<1>4. e.from \in Nat
  <2>1. linear.blocks \in Seq(Extents)
    BY DEF TypeOK, Linears
  <2>2. DOMAIN linear.blocks = 1 .. Len(linear.blocks)
    BY <2>1, LenProperties
  <2>3. \A m \in 1 .. Len(linear.blocks) : linear.blocks[m] \in Extents
    BY <2>1, ElementOfSeq
  <2> QED BY <2>2, <2>3 DEF Blocks, Extents
<1>5. n <= q
  BY <1>2, <1>3, <1>4
<1>6. PICK d \in Nat : q = n + d
  <2>1. q - n \in Nat /\ q = n + (q - n)
    BY <1>5
  <2> QED BY <2>1
<1>7. b * q = n * b + d * b /\ d * b \in Nat /\ n * b \in Nat
  BY <1>6, SMT
<1> QED BY <1>1, <1>3, <1>7

(* The tables of addresses.                                                *)
TableOf(address) == (address \div PAGE_SIZE) \div PAGES_PER_TABLE
LEMMA TablesBounded ==
    /\ \A a \in 0 .. 2 ^ W - 1 : TableOf(a) \in TableIndices
    /\ IsFiniteSet(TableIndices)
    /\ Cardinality(TableIndices) = ((2 ^ W - 1) \div PAGE_SIZE) \div PAGES_PER_TABLE + 1
<1>1. PICK m \in Nat : m = 2 ^ W - 1
  BY BootMemoryAssumption
<1>2. PICK g \in Nat : g = m \div PAGE_SIZE
  BY PageOf
<1>3. PICK b \in Nat \ {0} : b = PAGES_PER_TABLE
  BY BootMemoryAssumption
<1>4. PICK q \in Nat : q = g \div b
  BY Division
<1>5. TableIndices = 0 .. q
  BY <1>1, <1>2, <1>3, <1>4 DEF TableIndices
<1>6. ASSUME NEW a \in 0 .. 2 ^ W - 1 PROVE TableOf(a) \in 0 .. q
  <2>1. a \in Nat /\ a <= m
    BY <1>1
  <2>2. PICK f \in Nat : f = a \div PAGE_SIZE /\ f <= g
    BY <2>1, <1>2, QuotientMonotone, PageOf, BootMemoryAssumption
  <2>3. f \div b \in Nat /\ f \div b <= q
    BY <1>4, <2>2, Division, QuotientMonotone
  <2> QED BY <1>3, <2>2, <2>3 DEF TableOf
<1>7. IsFiniteSet(0 .. q) /\ Cardinality(0 .. q) = q + 1
  BY FS_Interval
<1> QED BY <1>1, <1>2, <1>3, <1>4, <1>5, <1>6, <1>7
-----------------------------------------------------------------------------
(* A block that does not reach the end of the address space.               *)
Placed(l, align) == IF align THEN Rounded(l.first) ELSE l.first
LEMMA BlockPlaced ==
    ASSUME NEW l \in Linears, NEW size \in Nat, NEW align \in BOOLEAN,
           Placed(l, align) + size < 2 ^ W
    PROVE  /\ kmalloc(l, size, align).first = Placed(l, align) + size
           /\ kmalloc(l, size, align).blocks =
                 Append(l.blocks, [from |-> Placed(l, align), to |-> Placed(l, align) + size])
           /\ kmalloc(l, size, align) \in Linears
<1>1. l.first \in Nat /\ l.blocks \in Seq(Extents)
  BY DEF Linears
<1>2. PICK p \in Nat : p = Placed(l, align)
  BY <1>1, Rounding DEF Placed
<1>3. \A n \in Nat : n < 2 ^ W => Word(n) = n
  BY BootMemoryAssumption, SMT DEF Word
<1>4. p < 2 ^ W /\ p + size < 2 ^ W /\ p + size \in Nat
  BY <1>2, BootMemoryAssumption
<1>5. kmalloc(l, size, align) =
        [first |-> p + size, blocks |-> Append(l.blocks, [from |-> p, to |-> p + size])]
  <2>1. (IF align /\ l.first % PAGE_SIZE # 0
         THEN Word((l.first \div PAGE_SIZE) * PAGE_SIZE + PAGE_SIZE) ELSE l.first) = p
    BY <1>2, <1>3, <1>4 DEF Placed, Rounded
  <2>2. Word(p + size) = p + size
    BY <1>3, <1>4
  <2> QED BY <2>1, <2>2, Zenon DEF kmalloc
<1>6. [from |-> p, to |-> p + size] \in Extents
  BY <1>4 DEF Extents
<1>7. Append(l.blocks, [from |-> p, to |-> p + size]) \in Seq(Extents)
  BY <1>1, <1>6, AppendProperties
<1> QED BY <1>2, <1>4, <1>5, <1>7 DEF Linears

(* The order is kept by a block behind all others and behind the image ... *)
LEMMA AscendingAppend ==
    ASSUME NEW blocks \in Seq(Extents), NEW top \in Nat, Ascending(blocks, top),
           NEW from \in Nat, NEW to \in Nat, top <= from, from <= to, ImageEnd <= from
    PROVE  Ascending(Append(blocks, [from |-> from, to |-> to]), to)
<1> DEFINE b == [from |-> from, to |-> to]
           s == Append(blocks, b)
<1>1. b.from = from /\ b.to = to /\ b \in Extents
  BY DEF Extents
<1>2. /\ Len(blocks) \in Nat /\ DOMAIN blocks = 1 .. Len(blocks)
      /\ DOMAIN s = 1 .. Len(blocks) + 1 /\ s[Len(blocks) + 1] = b
      /\ \A n \in DOMAIN blocks : s[n] = blocks[n]
  <2>1. /\ Len(blocks) \in Nat /\ DOMAIN blocks = 1 .. Len(blocks)
    BY LenProperties
  <2>2. /\ Len(s) = Len(blocks) + 1 /\ s[Len(blocks) + 1] = b /\ s \in Seq(Extents)
        /\ \A n \in 1 .. Len(blocks) : s[n] = blocks[n]
    BY <1>1, AppendProperties
  <2>3. DOMAIN s = 1 .. Len(s)
    BY <2>2, LenProperties
  <2> QED BY <2>1, <2>2, <2>3
<1>3. \A n \in DOMAIN blocks : /\ blocks[n] \in Extents
                               /\ blocks[n].from \in Nat /\ blocks[n].to \in Nat
  <2>1. \A n \in 1 .. Len(blocks) : blocks[n] \in Extents
    BY ElementOfSeq
  <2> QED BY <1>2, <2>1 DEF Extents
<1> HIDE DEF b, s
<1>4. ASSUME NEW m \in DOMAIN s, NEW n \in DOMAIN s, m < n
      PROVE  s[m].to <= s[n].from
  <2>1. m \in DOMAIN blocks
    BY <1>2, <1>4
  <2>2. CASE n \in DOMAIN blocks
    BY <1>2, <1>4, <2>1, <2>2 DEF Ascending
  <2>3. CASE n = Len(blocks) + 1
    <3>1. s[m] = blocks[m] /\ s[n] = b
      BY <1>2, <2>1, <2>3
    <3>2. blocks[m].to <= top /\ blocks[m].to \in Nat
      BY <2>1, <1>3 DEF Ascending
    <3> QED BY <1>1, <3>1, <3>2
  <2> QED BY <1>2, <2>2, <2>3
<1>5. ASSUME NEW n \in DOMAIN s
      PROVE  /\ s[n].from <= s[n].to /\ s[n].to <= to
             /\ s[n].to <= ImageStart \/ ImageEnd <= s[n].from
  <2>1. CASE n \in DOMAIN blocks
    <3>1. s[n] = blocks[n]
      BY <1>2, <2>1
    <3>2. /\ blocks[n].from <= blocks[n].to /\ blocks[n].to <= top /\ blocks[n].to \in Nat
          /\ blocks[n].to <= ImageStart \/ ImageEnd <= blocks[n].from
      BY <1>3, <2>1 DEF Ascending
    <3> QED BY <3>1, <3>2
  <2>2. CASE n = Len(blocks) + 1
    BY <1>1, <1>2, <2>2
  <2> QED BY <1>2, <2>1, <2>2
<1>6. Ascending(s, to)
  BY <1>4, <1>5 DEF Ascending
<1> QED BY <1>6 DEF s, b

(* ... and holds for every larger limit.                                   *)
LEMMA AscendingRaised ==
    ASSUME NEW blocks \in Seq(Extents), NEW low \in Nat, NEW top \in Nat, low <= top,
           Ascending(blocks, low)
    PROVE  Ascending(blocks, top)
<1>1. \A n \in DOMAIN blocks : blocks[n].to \in Nat
  <2>1. \A n \in 1 .. Len(blocks) : blocks[n] \in Extents
    BY ElementOfSeq
  <2>2. DOMAIN blocks = 1 .. Len(blocks)
    BY LenProperties
  <2> QED BY <2>1, <2>2 DEF Extents
<1>2. \A n \in DOMAIN blocks : blocks[n].to <= low
  BY DEF Ascending
<1>3. \A n \in DOMAIN blocks : blocks[n].to <= top
  BY <1>1, <1>2
<1> QED BY <1>3 DEF Ascending
-----------------------------------------------------------------------------
(* The memory map.                                                         *)
Records == [addr : Nat, len : Nat, free : BOOLEAN]
LEMMA MapTyped ==
    ASSUME TypeOK
    PROVE  /\ mboot.mmap \in Seq(Records) /\ Len(mboot.mmap) \in Nat
           /\ DOMAIN mboot.mmap = 1 .. Len(mboot.mmap)
           /\ \A n \in 1 .. Len(mboot.mmap) : mboot.mmap[n] \in Records
<1>1. mboot.mmap \in MemoryMaps
  BY DEF TypeOK
<1>2. mboot.mmap \in Seq(Records)
  BY <1>1, LoaderAssumption DEF Records
<1> QED BY <1>2, LenProperties, ElementOfSeq

(* What is taken from an entry that fits into 32 bits: all of it that is   *)
(* above the image.  An entry up to the end of the address space offers    *)
(* nothing.                                                                *)
LEMMA ClampedFree ==
    ASSUME NEW e \in Records, ImageEnd <= e.addr + e.len, e.addr + e.len < 2 ^ W
    PROVE  /\ Clamped(e).base = Max({e.addr, ImageEnd})
           /\ Clamped(e).len = Above(e) /\ Above(e) \in Nat
           /\ Clamped(e).base + Clamped(e).len = e.addr + e.len
           /\ ImageEnd <= Clamped(e).base
<1>1. PICK a \in Nat, n \in Nat, I \in Nat : a = e.addr /\ n = e.len /\ I = ImageEnd
  BY BootMemoryAssumption DEF Records
<1>2. \A x \in Nat : x < 2 ^ W => Word(x) = x
  BY BootMemoryAssumption, SMT DEF Word
<1>3. PICK s \in Nat : /\ s = IF a < I THEN I ELSE a
                       /\ s <= a + n /\ a + n < 2 ^ W /\ I <= s /\ I <= a + n
  BY <1>1
<1>4. Clamped(e) = [base |-> s, len |-> a + n - s]
  <2>1. Word(a + n) = a + n /\ a + n - s \in Nat /\ a + n - s < 2 ^ W
    BY <1>2, <1>3, BootMemoryAssumption
  <2>2. Word(a + n - s) = a + n - s
    BY <1>2, <2>1
  <2> QED BY <1>1, <1>3, <2>1, <2>2 DEF Clamped
<1>5. Max({a, I}) = s
  <2>1. s \in {a, I} /\ \A y \in {a, I} : s >= y
    BY <1>3
  <2>2. \A x \in {a, I} : (\A y \in {a, I} : x >= y) => x = s
    BY <1>3, <2>1
  <2> QED BY <2>1, <2>2 DEF Max
<1>6. Above(e) = a + n - s
  BY <1>1, <1>3 DEF Above
<1> QED BY <1>1, <1>3, <1>4, <1>5, <1>6

(* An entry that offers anything is one of those.                          *)
LEMMA ClampedTyped ==
    ASSUME NEW e \in Records, ~Over32Bits(e)
    PROVE  /\ Clamped(e).base \in Nat /\ Clamped(e).len \in Nat
           /\ Clamped(e).len > 0 => ImageEnd <= e.addr + e.len /\ e.addr + e.len < 2 ^ W
<1>1. PICK a \in Nat, n \in Nat, I \in Nat : a = e.addr /\ n = e.len /\ I = ImageEnd
  BY BootMemoryAssumption DEF Records
<1>2. a < 2 ^ W /\ a + n <= 2 ^ W /\ a + n \in Nat
  BY <1>1, BootMemoryAssumption DEF Over32Bits
<1>3. CASE a + n = 2 ^ W
  <2>1. Word(a + n) = 0
    BY <1>3, BootMemoryAssumption, SMT DEF Word
  <2>2. ~(0 >= I)
    BY <1>1, BootMemoryAssumption
  <2>3. Clamped(e) = [base |-> 0, len |-> 0]
    BY <1>1, <2>1, <2>2 DEF Clamped
  <2> QED BY <2>3
<1>4. CASE a + n < 2 ^ W /\ I <= a + n
  <2>1. Clamped(e).base \in {a, I} /\ Clamped(e).len \in Nat
    <3>1. Clamped(e).len = Above(e) /\ Above(e) \in Nat
      BY <1>1, <1>4, ClampedFree
    <3>2. Clamped(e).base = IF a < I THEN I ELSE a
      <4>1. Word(a + n) = a + n
        BY <1>2, <1>4, BootMemoryAssumption, SMT DEF Word
      <4> QED BY <1>1, <1>4, <4>1 DEF Clamped
    <3> QED BY <3>1, <3>2
  <2> QED BY <1>1, <1>4, <2>1
<1>5. CASE a + n < 2 ^ W /\ ~(I <= a + n)
  <2>1. Word(a + n) = a + n
    BY <1>2, <1>5, BootMemoryAssumption, SMT DEF Word
  <2>2. Clamped(e) = [base |-> 0, len |-> 0]
    BY <1>1, <1>2, <1>5, <2>1 DEF Clamped
  <2> QED BY <2>2
<1> QED BY <1>2, <1>3, <1>4, <1>5, BootMemoryAssumption

(* An entry more has been read.                                            *)
LEMMA EntryRead ==
    ASSUME TypeOK, RegionSoFar, ReadRegion, pc' = "regions"
    PROVE  RegionSoFar'
<1> DEFINE e == mboot.mmap[k]
<1>1. /\ ~Over32Bits(e) /\ k' = k + 1 /\ mboot' = mboot /\ panic' = panic /\ pc = "regions"
      /\ IF e.free /\ Larger(e) THEN base' = Clamped(e).base /\ len' = Clamped(e).len
         ELSE UNCHANGED << base, len >>
  BY DEF ReadRegion, Panic, Go, Entry
<1>2. /\ k \in Nat /\ len \in Nat /\ e \in Records /\ Len(mboot.mmap) \in Nat
      /\ k \in 1 .. Len(mboot.mmap)
  <2>1. PICK l \in Nat : l = Len(mboot.mmap)
    BY MapTyped
  <2>2. k \in 1 .. l + 1 /\ k <= l /\ len \in Nat
    BY <2>1 DEF TypeOK, ReadRegion
  <2> QED BY <2>1, <2>2, MapTyped
<1>3. \A f \in Passed' : f \in Passed \/ f = e
  BY <1>1, <1>2 DEF Passed
<1>4. e \in Passed' /\ \A f \in Passed : f \in Passed'
  BY <1>1, <1>2 DEF Passed
<1> HIDE DEF e
<1>5. Clamped(e).len \in Nat
  BY <1>1, <1>2, ClampedTyped
<1>6. \A f \in Passed : f \in Records
  BY <1>2, MapTyped DEF Passed
<1>7. \A f \in Passed : Clamped(f).len \in Nat /\ ~Over32Bits(f) /\ (f.free => Clamped(f).len <= len)
  BY <1>1, <1>6, ClampedTyped DEF RegionSoFar, Early, Stopped
<1>8. len' \in Nat /\ len <= len' /\ (e.free => Clamped(e).len <= len')
  BY <1>1, <1>2, <1>5 DEF Larger
<1>9. \A f \in Passed' : ~Over32Bits(f) /\ (f.free => Clamped(f).len <= len')
  BY <1>1, <1>2, <1>3, <1>7, <1>8
<1>10. len' = 0 \/ \E f \in Passed' : /\ f.free
                                      /\ base' = Clamped(f).base /\ len' = Clamped(f).len
  <2>1. CASE e.free /\ Larger(e)
    BY <1>1, <1>4, <2>1
  <2>2. CASE ~(e.free /\ Larger(e))
    BY <1>1, <1>4, <2>2 DEF RegionSoFar, Early, Stopped
  <2> QED BY <2>1, <2>2
<1>11. NoPanic'
  BY <1>1, Zenon DEF RegionSoFar, Early, Stopped, NoPanic
<1> QED BY <1>1, <1>9, <1>10, <1>11 DEF RegionSoFar, Early, Stopped

(* All entries have been read.                                             *)
LEMMA AllRead ==
    ASSUME TypeOK, RegionSoFar, pc = "regions", k > Len(mboot.mmap)
    PROVE  /\ \A e \in Free : Above(e) <= len
           /\ BigEnough => \E e \in Free : base = Max({e.addr, ImageEnd}) /\ len = Above(e)
           /\ BigEnough => ImageEnd <= base /\ base + len < 2 ^ W /\ MinRegion < len
<1>1. k = Len(mboot.mmap) + 1 /\ Len(mboot.mmap) \in Nat
  BY MapTyped DEF TypeOK
<1>2. \A e : e \in Passed <=> \E n \in DOMAIN mboot.mmap : e = mboot.mmap[n]
  BY <1>1, MapTyped DEF Passed
<1>3. \A e \in Passed : e \in Records /\ ~Over32Bits(e) /\ (e.free => Clamped(e).len <= len)
  BY <1>2, MapTyped DEF RegionSoFar, Early, Stopped
<1>4. \A e \in Free : /\ e \in Passed /\ e \in Records /\ e.free
                      /\ ImageEnd <= e.addr + e.len /\ e.addr + e.len < 2 ^ W
  BY <1>2, <1>3 DEF Free
<1>5. \A e \in Free : Above(e) <= len
  BY <1>3, <1>4, ClampedFree
<1>6. ASSUME BigEnough
      PROVE  /\ \E e \in Free : base = Max({e.addr, ImageEnd}) /\ len = Above(e)
             /\ ImageEnd <= base /\ base + len < 2 ^ W /\ MinRegion < len
  <2>1. len > 0 /\ len # 0 /\ MinRegion < len
    <3>1. len > MinRegion /\ len \in Nat
      BY <1>6 DEF BigEnough, TypeOK
    <3>2. MinRegion \in Nat
      BY BootMemoryAssumption
    <3> QED BY <3>1, <3>2
  <2>2. PICK e \in Passed : e.free /\ base = Clamped(e).base /\ len = Clamped(e).len
    BY <2>1 DEF RegionSoFar, Early, Stopped
  <2>3. e \in Records /\ ImageEnd <= e.addr + e.len /\ e.addr + e.len < 2 ^ W
    BY <1>3, <2>1, <2>2, ClampedTyped
  <2>4. e \in Free
    BY <1>2, <2>2, <2>3 DEF Free
  <2> QED BY <2>1, <2>2, <2>3, <2>4, ClampedFree
<1> QED BY <1>5, <1>6
-----------------------------------------------------------------------------
(* The steps after init_mem() has chosen the region leave it alone.        *)
Later ==
    /\ pc \notin Early \cup Stopped /\ pc' \notin Early \cup {"init_frames"}
    /\ UNCHANGED << mboot, k, region >>
    /\ panic' = panic
LEMMA RegionKept ==
    ASSUME TypeOK, RegionChosen, LargestRegionTaken, Later
    PROVE  RegionSoFar' /\ RegionChosen' /\ LargestRegionTaken'
<1>1. RegionSoFar'
  BY DEF RegionSoFar, Later
<1>2. RegionChosen'
  BY DEF RegionChosen, Later, region
<1>3. LargestRegionTaken'
  <2>1. mboot' = mboot /\ pc' # "init_frames"
    BY DEF Later
  <2>2. Free' = Free
    BY <2>1 DEF Free
  <2>3. panic' = "Insufficient memory" => panic = "Insufficient memory"
    BY DEF Later
  <2> QED BY <2>1, <2>2, <2>3 DEF LargestRegionTaken
<1> QED BY <1>1, <1>2, <1>3

(* What the proofs use of the size of the region.                          *)
TablesMax == Cardinality(TableIndices)
LEMMA RegionHolds ==
    ASSUME TypeOK, RegionChosen, pc \notin Early \cup Stopped
    PROVE  /\ Items \in Nat /\ TablesMax \in Nat /\ PageStart(TablesMax) \in Nat
           /\ AfterDirectory + PageStart(TablesMax) + KHEAP_INITIAL_SIZE + 8 * PAGE_SIZE
                 <= base + BootNeeds
           /\ BootNeeds \in Nat /\ base + BootNeeds < base + len /\ base + len < 2 ^ W
           /\ AfterDirectory + PageStart(TablesMax) + KHEAP_INITIAL_SIZE + 8 * PAGE_SIZE
                 < base + len
<1>1. PICK items \in Nat, tabled \in Nat :
         /\ items = ((2 ^ W - 1) \div PAGE_SIZE + BitsPerItem - 1) \div BitsPerItem
         /\ tabled = ((2 ^ W - 1) \div PAGE_SIZE) \div PAGES_PER_TABLE + 1
  <2>1. PICK m \in Nat : m = 2 ^ W - 1
    BY BootMemoryAssumption
  <2>2. PICK g \in Nat : g = m \div PAGE_SIZE
    BY PageOf
  <2>3. PICK b \in Nat \ {0}, c \in Nat \ {0} : b = BitsPerItem /\ c = PAGES_PER_TABLE
    BY BootMemoryAssumption, ItemsBounded DEF TypeOK
  <2>4. g + b - 1 \in Nat
    BY <2>3
  <2>5. (g + b - 1) \div b \in Nat /\ g \div c + 1 \in Nat
    BY <2>4, Division
  <2> QED BY <2>1, <2>2, <2>3, <2>5
<1>2. Items \in Nat /\ Items <= items
  BY <1>1, ItemsBounded DEF TypeOK
<1>3. TablesMax = tabled
  BY <1>1, TablesBounded DEF TablesMax
<1>4. /\ BootNeeds = items + DirectorySize + tabled * PAGE_SIZE + KHEAP_INITIAL_SIZE
                         + 9 * PAGE_SIZE
      /\ BootNeeds <= MinRegion
  BY <1>1, RegionAssumption DEF BootNeeds
<1>5. PageStart(tabled) = tabled * PAGE_SIZE /\ PageStart(tabled) \in Nat
  BY PageStarts DEF PageStart
<1>6. base \in Nat /\ len \in Nat /\ MinRegion < len /\ base + len < 2 ^ W
  BY DEF TypeOK, RegionChosen
<1>7. /\ PAGE_SIZE \in Nat /\ DirectorySize \in Nat /\ KHEAP_INITIAL_SIZE \in Nat
      /\ MinRegion \in Nat
  BY BootMemoryAssumption
<1>8. /\ base + Items + DirectorySize + PAGE_SIZE + PageStart(tabled) + KHEAP_INITIAL_SIZE
           + 8 * PAGE_SIZE <= base + BootNeeds
      /\ BootNeeds \in Nat /\ base + BootNeeds < base + len
      /\ base + Items + DirectorySize + PAGE_SIZE + PageStart(tabled) + KHEAP_INITIAL_SIZE
           + 8 * PAGE_SIZE < base + len
  BY <1>2, <1>4, <1>5, <1>6, <1>7
<1> QED BY <1>2, <1>3, <1>5, <1>6, <1>8 DEF AfterDirectory

(* The tables there are, and one more.                                     *)
LEMMA TablesCounted ==
    ASSUME NEW T, T \subseteq TableIndices, NEW address \in 0 .. 2 ^ W - 1
    PROVE  /\ T \cup {TableOf(address)} \subseteq TableIndices
           /\ Cardinality(T) \in Nat /\ Cardinality(T) <= TablesMax
           /\ Cardinality(T \cup {TableOf(address)}) =
                 IF TableOf(address) \in T THEN Cardinality(T) ELSE Cardinality(T) + 1
           /\ TablesMax \in Nat
<1>1. IsFiniteSet(T) /\ Cardinality(T) <= TablesMax
  BY TablesBounded, FS_Subset DEF TablesMax
<1>2. Cardinality(T) \in Nat /\ TablesMax \in Nat
  BY <1>1, TablesBounded, FS_CardinalityType DEF TablesMax
<1>3. TableOf(address) \in TableIndices
  BY TablesBounded
<1> QED BY <1>1, <1>2, <1>3, FS_AddElement

(* What is left of the region while tables are added.                      *)
LEMMA RoomLeft ==
    ASSUME TypeOK, RegionChosen, pc \notin Early \cup Stopped,
           NEW l \in Linears, NEW T, Spent(l, T)
    PROVE  /\ l.first + KHEAP_INITIAL_SIZE + 7 * PAGE_SIZE <= base + BootNeeds
           /\ l.first + KHEAP_INITIAL_SIZE + 7 * PAGE_SIZE < base + len
           /\ l.first \in Nat /\ base <= l.first
<1>1. l.first \in Nat /\ base \in Nat /\ len \in Nat
  BY DEF Linears, TypeOK
<1>2. Cardinality(T) \in Nat /\ Cardinality(T) <= TablesMax /\ TablesMax \in Nat
  <2>1. 0 \in 0 .. 2 ^ W - 1
    BY BootMemoryAssumption
  <2> QED BY <2>1, TablesCounted DEF Spent
<1>3. /\ PageStart(Cardinality(T)) \in Nat /\ PageStart(TablesMax) \in Nat
      /\ PageStart(Cardinality(T)) <= PageStart(TablesMax)
  BY <1>2, PageStarts, PagesOrdered
<1>4. /\ AfterDirectory + PageStart(TablesMax) + KHEAP_INITIAL_SIZE + 8 * PAGE_SIZE
             <= base + BootNeeds
      /\ AfterDirectory \in Nat /\ BootNeeds \in Nat /\ base + BootNeeds < base + len
  BY <1>1, RegionHolds, BootMemoryAssumption DEF AfterDirectory
<1>5. l.first <= AfterDirectory + PAGE_SIZE + PageStart(TablesMax)
  <2>1. CASE T = {}
    BY <1>1, <1>3, <1>4, <2>1, BootMemoryAssumption DEF Spent
  <2>2. CASE T # {}
    BY <1>1, <1>3, <1>4, <2>2, BootMemoryAssumption DEF Spent
  <2> QED BY <2>1, <2>2
<1>6. PAGE_SIZE \in Nat /\ KHEAP_INITIAL_SIZE \in Nat /\ base <= l.first
  BY BootMemoryAssumption DEF Spent
<1> QED BY <1>1, <1>3, <1>4, <1>5, <1>6

(* The page after an aligned address is aligned.                           *)
LEMMA AlignedNext ==
    ASSUME NEW n \in Nat, Aligned(n)
    PROVE  Aligned(n + PAGE_SIZE)
<1>1. PICK q \in Nat : n = PageStart(q)
  BY PageOf
<1>2. q + 1 \in Nat /\ PageStart(q + 1) = n + PAGE_SIZE
  BY <1>1, PageStarts
<1> QED BY <1>2, PageOfStart

(* get_page() makes at most one table, and stays within the region.        *)
LEMMA TableMade ==
    ASSUME TypeOK, RegionChosen, pc \notin Early \cup Stopped,
           Spent(linear, tables), Ascending(linear.blocks, linear.first),
           NEW address \in 0 .. 2 ^ W - 1, get_page(address)
    PROVE  /\ linear' \in Linears /\ tables' \subseteq Nat /\ tables' # {}
           /\ Spent(linear', tables') /\ Ascending(linear'.blocks, linear'.first)
           /\ linear.first <= linear'.first
           /\ tables # {} => linear'.first <= linear.first + PAGE_SIZE
<1> DEFINE t == TableOf(address)
<1>1. /\ tables' = tables \cup {t}
      /\ linear' = IF t \in tables THEN linear ELSE kmalloc(linear, PAGE_SIZE, TRUE)
  BY DEF get_page, TableOf
<1>2. /\ tables' \subseteq TableIndices /\ tables' # {}
      /\ Cardinality(tables) \in Nat
      /\ Cardinality(tables') = IF t \in tables THEN Cardinality(tables)
                                ELSE Cardinality(tables) + 1
  BY <1>1, TablesCounted DEF Spent
<1>3. tables' \subseteq Nat
  <2>1. TableIndices \subseteq Nat
    BY DEF TableIndices
  <2> QED BY <1>2, <2>1
<1>4. linear \in Linears /\ linear.first \in Nat /\ linear.blocks \in Seq(Extents)
  BY DEF TypeOK, Linears
<1>5. PAGE_SIZE \in Nat \ {0} /\ base \in Nat /\ len \in Nat /\ KHEAP_INITIAL_SIZE \in Nat
  BY BootMemoryAssumption DEF TypeOK
<1>6. CASE t \in tables
  <2>1. linear' = linear /\ tables' = tables
    BY <1>1, <1>6
  <2> QED BY <1>2, <1>3, <1>4, <1>5, <2>1
<1>7. CASE t \notin tables
  <2>1. PICK r \in Nat : /\ r = Rounded(linear.first) /\ Aligned(r)
                         /\ linear.first <= r /\ r < linear.first + PAGE_SIZE
                         /\ Aligned(linear.first) => r = linear.first
    BY <1>4, Rounding
  <2>2. /\ linear.first + KHEAP_INITIAL_SIZE + 7 * PAGE_SIZE < base + len
        /\ base + len < 2 ^ W /\ base <= linear.first
    BY <1>4, RoomLeft, RegionHolds
  <2>3. r + PAGE_SIZE < 2 ^ W
    <3>1. PICK m \in Nat : m = 2 ^ W
      BY BootMemoryAssumption
    <3>2. PICK f \in Nat, P \in Nat, K \in Nat, e \in Nat :
             f = linear.first /\ P = PAGE_SIZE /\ K = KHEAP_INITIAL_SIZE /\ e = base + len
      BY <1>4, <1>5
    <3>3. f + K + 7 * P < e /\ r < f + P /\ e < m
      BY <2>1, <2>2, <3>1, <3>2
    <3>4. r + P < m
      BY <3>3
    <3> QED BY <3>1, <3>2, <3>4
  <2>4. /\ linear'.first = r + PAGE_SIZE /\ linear' \in Linears
        /\ linear'.blocks = Append(linear.blocks, [from |-> r, to |-> r + PAGE_SIZE])
    <3>1. linear' = kmalloc(linear, PAGE_SIZE, TRUE)
      BY <1>1, <1>7
    <3>2. Placed(linear, TRUE) = r
      BY <2>1 DEF Placed
    <3> QED BY <1>4, <1>5, <2>3, <3>1, <3>2, BlockPlaced
  <2>5. ImageEnd <= r
    <3>1. ImageEnd <= base /\ ImageEnd \in Nat
      BY BootMemoryAssumption DEF RegionChosen
    <3> QED BY <1>4, <1>5, <2>1, <2>2, <3>1
  <2>6. Ascending(linear'.blocks, linear'.first)
    <3>1. r + PAGE_SIZE \in Nat /\ r <= r + PAGE_SIZE
      BY <1>5
    <3> QED BY <1>4, <2>1, <2>4, <2>5, <3>1, AscendingAppend
  <2>7. Aligned(linear'.first)
    BY <2>1, <2>4, AlignedNext
  <2>8. linear'.first <= AfterDirectory + PAGE_SIZE + PageStart(Cardinality(tables'))
    <3>1. PICK c \in Nat : c = Cardinality(tables) /\ Cardinality(tables') = c + 1
      BY <1>2, <1>7
    <3>2. PageStart(c + 1) = PageStart(c) + PAGE_SIZE /\ PageStart(c) \in Nat
      BY PageStarts
    <3>3. AfterDirectory \in Nat
      BY <1>5, RegionHolds, BootMemoryAssumption DEF AfterDirectory
    <3>4. PICK a \in Nat, P \in Nat, s \in Nat :
             a = AfterDirectory /\ P = PAGE_SIZE /\ s = PageStart(c)
      BY <1>5, <3>2, <3>3
    <3>5. r <= a + P + s
      <4>1. CASE tables = {}
        <5>1. linear.first <= a /\ r < linear.first + P
          BY <2>1, <3>4, <4>1 DEF Spent
        <5> QED BY <1>4, <5>1
      <4>2. CASE tables # {}
        BY <2>1, <3>1, <3>4, <4>2 DEF Spent
      <4> QED BY <4>1, <4>2
    <3>6. r + P <= a + P + (s + P)
      BY <3>5
    <3> QED BY <2>4, <3>1, <3>2, <3>4, <3>6
  <2>9. base <= linear'.first /\ linear.first <= linear'.first
    <3>1. r <= r + PAGE_SIZE
      BY <1>5
    <3>2. base <= r /\ linear.first <= r
      BY <1>4, <1>5, <2>1, <2>2
    <3>3. base <= r + PAGE_SIZE /\ linear.first <= r + PAGE_SIZE
      BY <1>4, <1>5, <3>1, <3>2
    <3> QED BY <2>4, <3>3
  <2>10. tables # {} => linear'.first <= linear.first + PAGE_SIZE
    <3>1. tables # {} => r = linear.first
      BY <2>1 DEF Spent
    <3> QED BY <1>4, <1>5, <2>4, <3>1
  <2> QED BY <1>2, <1>3, <2>4, <2>6, <2>7, <2>8, <2>9, <2>10 DEF Spent
<1> QED BY <1>6, <1>7
-----------------------------------------------------------------------------
(* page_alloc() gives a page a frame behind all others, unless it has one, *)
(* and leaves the others theirs.                                           *)
LEMMA PageAllocated ==
    ASSUME Zeroed \in Nat, DOMAIN page \subseteq Nat, Used \subseteq Nat,
           NEW p \in Nat, page_alloc(p)
    PROVE  /\ DOMAIN page' = DOMAIN page \cup {p}
           /\ \A q \in DOMAIN page : page'[q] = page[q]
           /\ p \notin DOMAIN page =>
                 \E f \in Nat : /\ page'[p] = f /\ Used' = Used \cup {f} /\ \A g \in Used : g < f
                               /\ \A g \in 0 .. f - 1 : g < Zeroed => g \in Used
           /\ p \in DOMAIN page => Used' = Used
<1>1. PICK f \in FramesFor(p) :
         page' = [q \in DOMAIN page \cup {p} |-> IF q = p THEN f ELSE page[q]]
  BY DEF page_alloc
<1>2. DOMAIN page' = DOMAIN page \cup {p} /\ page'[p] = f
  BY <1>1
<1>3. CASE p \in DOMAIN page
  <2>1. f = page[p]
    BY <1>3 DEF FramesFor
  <2>2. \A q \in DOMAIN page : page'[q] = page[q]
    BY <1>1, <2>1
  <2>3. DOMAIN page' = DOMAIN page
    BY <1>2, <1>3
  <2>4. Used' = Used
    BY <2>2, <2>3 DEF Used
  <2> QED BY <1>2, <1>3, <2>2, <2>4
<1>4. CASE p \notin DOMAIN page
  <2>1. f \in 0 .. Capacity - 1 /\ FreeFrame(f)
    BY <1>4 DEF FramesFor
  <2>2. \A q \in DOMAIN page : page'[q] = page[q]
    BY <1>1, <1>4
  <2>3. Used' = Used \cup {f}
    BY <1>2, <2>2 DEF Used
  <2>4. f \in Nat
    BY <2>1
  <2> QED BY <1>2, <1>4, <2>1, <2>2, <2>3, <2>4 DEF FreeFrame
<1> QED BY <1>3, <1>4

(* While frames follow each other, the next one does, unless the cleared   *)
(* bits are used up.                                                       *)
LEMMA NextInOrder ==
    ASSUME Zeroed \in Nat, UNCHANGED region, NEW M \in Nat, FramesInOrder(M),
           NEW f \in Nat, Used' = Used \cup {f}, \A g \in Used : g < f,
           \A g \in 0 .. f - 1 : g < Zeroed => g \in Used
    PROVE  \E L \in {M, M + 1} : FramesInOrder(L)' /\ (Zeroed <= f => L = Zeroed)
<1>1. PICK z \in Nat : z = Zeroed /\ Zeroed' = z
  BY DEF Zeroed, Items, num_frames, region
<1>2. M <= z /\ Used \subseteq Nat /\ 0 .. M - 1 \subseteq Used
      /\ (M = z \/ \A g \in Used : g < M)
  BY <1>1 DEF FramesInOrder
<1>3. CASE f < z
  <2>1. M # z
    <3>1. ASSUME M = z PROVE FALSE
      <4>1. f \in 0 .. M - 1
        BY <1>3, <3>1
      <4>2. f < f
        BY <1>2, <4>1
      <4> QED BY <4>2
    <3> QED BY <3>1
  <2>2. \A g \in Used : g < M
    BY <1>2, <2>1
  <2>3. ~(f < M)
    <3>1. ASSUME f < M PROVE FALSE
      <4>1. f \in 0 .. M - 1
        BY <3>1
      <4>2. f < f
        BY <1>2, <4>1
      <4> QED BY <4>2
    <3> QED BY <3>1
  <2>4. ~(M < f)
    <3>1. ASSUME M < f PROVE FALSE
      <4>1. M \in 0 .. f - 1 /\ M < Zeroed
        BY <1>1, <1>3, <3>1
      <4>2. M < M
        BY <2>2, <4>1
      <4> QED BY <4>2
    <3> QED BY <3>1
  <2>5. f = M
    BY <2>3, <2>4
  <2>6. /\ M + 1 \in 0 .. z /\ Used' \subseteq Nat /\ 0 .. (M + 1) - 1 \subseteq Used'
        /\ \A g \in Used' : g < M + 1
    BY <1>2, <1>3, <2>2, <2>5
  <2>7. FramesInOrder(M + 1)'
    BY <1>1, <2>6 DEF FramesInOrder
  <2>8. ~(Zeroed <= f)
    BY <1>1, <1>3
  <2> QED BY <2>7, <2>8
<1>4. CASE z <= f
  <2>1. M = z
    <3>1. ASSUME M < z PROVE FALSE
      <4>1. M \in 0 .. f - 1 /\ M < Zeroed
        BY <1>1, <1>4, <3>1
      <4>2. M \in Used /\ \A g \in Used : g < M
        BY <1>2, <3>1, <4>1
      <4>3. M < M
        BY <4>2
      <4> QED BY <4>3
    <3> QED BY <1>2, <3>1
  <2>2. M \in 0 .. z /\ Used' \subseteq Nat /\ 0 .. M - 1 \subseteq Used'
    BY <1>2
  <2>3. FramesInOrder(M)'
    BY <1>1, <2>1, <2>2 DEF FramesInOrder
  <2> QED BY <1>1, <2>1, <2>3
<1> QED BY <1>3, <1>4

(* The identity mapping gets the page's own frame, or one whose bit was    *)
(* not cleared because no cleared bit is left.                             *)
LEMMA IdentityAllocated ==
    ASSUME Zeroed \in Nat, NEW n \in Nat, IdentitySoFar(n), page_alloc(n)
    PROVE  /\ DOMAIN page' = 0 .. n /\ page'[n] \in Nat
           /\ \A p \in 0 .. n - 1 : page'[p] = p
           /\ page'[n] # n => Zeroed <= n
<1>1. /\ DOMAIN page = 0 .. n - 1 /\ \A p \in 0 .. n - 1 : page[p] = p
  BY DEF IdentitySoFar
<1>2. /\ Used = 0 .. n - 1 /\ n \notin DOMAIN page
      /\ Used \subseteq Nat /\ DOMAIN page \subseteq Nat
  <2>1. Used = 0 .. n - 1
    BY <1>1 DEF Used
  <2>2. 0 .. n - 1 \subseteq Nat /\ n \notin 0 .. n - 1
    OBVIOUS
  <2> QED BY <1>1, <2>1, <2>2
<1>3. /\ DOMAIN page' = DOMAIN page \cup {n}
      /\ \A q \in DOMAIN page : page'[q] = page[q]
  BY <1>2, PageAllocated
<1>4. PICK f \in Nat : /\ page'[n] = f /\ \A g \in Used : g < f
                       /\ \A g \in 0 .. f - 1 : g < Zeroed => g \in Used
  BY <1>2, PageAllocated
<1>5. f # n => Zeroed <= n
  <2>1. ASSUME f # n, n < Zeroed PROVE FALSE
    <3>1. n <= f
      <4>1. CASE n = 0
        BY <4>1
      <4>2. CASE n # 0
        <5>1. n - 1 \in Used
          BY <1>2, <4>2
        <5>2. n - 1 < f
          BY <1>4, <5>1
        <5> QED BY <4>2, <5>2
      <4> QED BY <4>1, <4>2
    <3>2. n \in 0 .. f - 1
      BY <2>1, <3>1
    <3>3. n \in Used
      BY <1>4, <2>1, <3>2
    <3> QED BY <1>2, <3>3
  <2> QED BY <2>1
<1>6. 0 .. n = (0 .. n - 1) \cup {n}
  OBVIOUS
<1> QED BY <1>1, <1>3, <1>4, <1>5, <1>6
-----------------------------------------------------------------------------
(* No message is one of the messages.                                      *)
LEMMA QuietPanic ==
    NoPanic => /\ panic # "Insufficient memory" /\ panic # "No free frames"
               /\ panic # "Cannot identity-map lower memory"
BY Zenon DEF NoPanic

(* No bit is missing before there is a directory.                          *)
LEMMA QuietFrames ==
    (NoPanic /\ pc # "overwritten") => FramesSuffice
BY QuietPanic DEF FramesSuffice, ShortOfBits

(* The state the boot loader leaves.                                       *)
LEMMA Initially ==
    ASSUME Init
    PROVE  IInv
<1>0. NoPanic
  BY Zenon DEF Init, NoPanic
<1>1. /\ pc = "backtrace" /\ k = 1 /\ base = 0 /\ len = 0 /\ total = 0
      /\ tables = {} /\ i = 0
  BY DEF Init
<1>2. mboot \in [valid : BOOLEAN, mmap : MemoryMaps, strtab : StrtabSizes]
  BY DEF Init
<1>3. linear = [first |-> 0, blocks |-> << >>]
  BY DEF Init
<1>4. DOMAIN page = {}
  <2>1. page = << >>
    BY DEF Init
  <2> QED BY <2>1
<1>5. linear \in Linears
  <2>1. << >> \in Seq(Extents)
    BY EmptySeq
  <2> QED BY <1>3, <2>1 DEF Linears
<1>6. TypeOK
  <2>1. mboot.mmap \in MemoryMaps
    BY <1>2
  <2>2. mboot.mmap \in Seq([addr : Nat, len : Nat, free : BOOLEAN])
    BY <2>1, LoaderAssumption
  <2>3. Len(mboot.mmap) \in Nat
    BY <2>2, LenProperties
  <2>4. PICK m \in Nat \ {0} : m = 2 ^ W
    BY BootMemoryAssumption
  <2>5. total \in 0 .. 2 ^ W - 1
    BY <1>1, <2>4
  <2>6. k \in 1 .. Len(mboot.mmap) + 1
    BY <1>1, <2>3
  <2>7. tables \subseteq Nat /\ DOMAIN page \subseteq Nat
    BY <1>1, <1>4
  <2> QED BY <1>1, <1>2, <1>5, <2>5, <2>6, <2>7 DEF TypeOK, Steps, Early, Stopped
<1>7. RegionSoFar
  <2>1. Passed = {}
    BY <1>1 DEF Passed
  <2> QED BY <1>0, <1>1, <2>1 DEF RegionSoFar
<1>8. RegionChosen /\ LargestRegionTaken /\ FramesSuffice
  BY <1>0, <1>1, QuietPanic, QuietFrames DEF RegionChosen, LargestRegionTaken, Early, Stopped
<1>9. BlocksAscend
  <2>1. linear.blocks = << >>
    BY <1>3
  <2>2. Ascending(linear.blocks, ImageStart)
    BY <2>1 DEF Ascending
  <2> QED BY <1>1, <1>3, <2>2 DEF BlocksAscend, Early, Stopped
<1>10. Budget
  BY <1>1 DEF IInv, Budget, Paging, Early, Stopped
<1>11. Mapping
  BY <1>1, <1>4 DEF Mapping, Early, Stopped, PagingOn
<1> QED BY <1>6, <1>7, <1>8, <1>9, <1>10, <1>11 DEF IInv

(* No panic while the map is read, as long as it goes on.                  *)
LEMMA StillQuiet ==
    ASSUME IInv, pc \in Early, panic' = panic, pc' # "overwritten"
    PROVE  FramesSuffice' /\ panic' # "Insufficient memory"
<1>1. NoPanic /\ NoPanic'
  BY Zenon DEF IInv, RegionSoFar, NoPanic
<1>2. panic # "Insufficient memory" /\ panic # "No free frames"
      /\ panic # "Cannot identity-map lower memory"
  BY <1>1, QuietPanic
<1> QED BY <1>2 DEF FramesSuffice, ShortOfBits

(* The string table is copied below the image.                             *)
LEMMA BacktraceKeeps ==
    ASSUME IInv, init_panic_backtrace
    PROVE  IInv'
<1>1. /\ pc = "backtrace" /\ pc' = "mmap" /\ panic' = panic /\ mboot' = mboot
      /\ k' = k /\ base' = base /\ len' = len /\ total' = total
      /\ tables' = tables /\ page' = page /\ i' = i
      /\ linear' = IF mboot.strtab = 0 THEN linear ELSE kmalloc(linear, mboot.strtab, FALSE)
  BY DEF init_panic_backtrace, Go, region, paging
<1>2. /\ linear = [first |-> 0, blocks |-> << >>] /\ linear \in Linears
      /\ Ascending(linear.blocks, ImageStart) /\ linear.blocks \in Seq(Extents)
  BY <1>1 DEF IInv, BlocksAscend, TypeOK, Linears, Early, Stopped
<1>3. linear' \in Linears /\ Ascending(linear'.blocks, ImageStart)
  <2>1. CASE mboot.strtab = 0
    BY <1>1, <1>2, <2>1
  <2>2. CASE mboot.strtab # 0
    <3>1. PICK s \in Nat : s = mboot.strtab /\ s <= ImageStart
      <4>1. mboot.strtab \in StrtabSizes
        BY DEF IInv, TypeOK
      <4> QED BY <4>1, LoaderAssumption, BootMemoryAssumption
    <3>2. Placed(linear, FALSE) + s < 2 ^ W /\ Placed(linear, FALSE) = 0
      <4>1. Placed(linear, FALSE) = 0
        BY <1>2 DEF Placed
      <4>2. s < 2 ^ W /\ 0 + s = s
        BY <3>1, BootMemoryAssumption
      <4> QED BY <4>1, <4>2
    <3>3. linear' = kmalloc(linear, s, FALSE)
      BY <1>1, <2>2, <3>1
    <3>4. /\ linear' \in Linears
          /\ linear'.blocks = Append(linear.blocks, [from |-> 0, to |-> 0 + s])
      <4>1. /\ kmalloc(linear, s, FALSE) \in Linears
            /\ kmalloc(linear, s, FALSE).blocks
                  = Append(linear.blocks, [from |-> 0, to |-> 0 + s])
        BY <1>2, <3>2, BlockPlaced
      <4> QED BY <3>3, <4>1
    <3>5. linear'.blocks = << [from |-> 0, to |-> s] >>
      BY <1>2, <3>1, <3>4
    <3>6. Ascending(<< [from |-> 0, to |-> s] >>, ImageStart)
      BY <3>1, BootMemoryAssumption DEF Ascending
    <3> QED BY <3>4, <3>5, <3>6
  <2> QED BY <2>1, <2>2
<1>4. TypeOK'
  BY <1>1, <1>3 DEF IInv, TypeOK, Steps, Early, Stopped
<1>5. RegionSoFar'
  <2>1. NoPanic' <=> NoPanic
    BY <1>1 DEF NoPanic
  <2> QED BY <1>1, <2>1 DEF IInv, RegionSoFar, Passed, Early, Stopped
<1>6. RegionChosen' /\ LargestRegionTaken' /\ FramesSuffice'
  BY <1>1, StillQuiet DEF RegionChosen, LargestRegionTaken, Early, Stopped
<1>7. BlocksAscend'
  BY <1>1, <1>3 DEF BlocksAscend, Early, Stopped
<1>8. Budget'
  BY <1>1 DEF IInv, Budget, Paging, Early, Stopped
<1>9. Mapping'
  BY <1>1 DEF IInv, Mapping, Early, Stopped, PagingOn
<1> QED BY <1>4, <1>5, <1>6, <1>7, <1>8, <1>9 DEF IInv

(* A boot that ends, for the reasons given, breaks nothing.                *)
LEMMA PanicKeeps ==
    ASSUME IInv, pc' \in Stopped, UNCHANGED << mboot, k, region >>, i' \in Nat,
           linear' \in Linears, Ascending(linear'.blocks, 2 ^ W), tables' \subseteq Nat,
           DOMAIN page' \subseteq Nat,
           panic' = "Insufficient memory" => \A e \in Free : Above(e) <= MinRegion,
           ShortOfBits' => ~BitsCleared
    PROVE  IInv'
<1>1. mboot' = mboot /\ k' = k /\ base' = base /\ len' = len /\ total' = total
  BY DEF region
<1>2. TypeOK'
  BY <1>1 DEF IInv, TypeOK, Steps
<1>3. RegionSoFar' /\ RegionChosen'
  BY DEF RegionSoFar, RegionChosen, Early, Stopped
<1>4. LargestRegionTaken'
  <2>1. Free' = Free
    BY <1>1 DEF Free
  <2> QED BY <1>1, <2>1 DEF LargestRegionTaken, Stopped
<1>5. BlocksAscend'
  BY DEF BlocksAscend, Early, Stopped
<1>6. Budget'
  BY DEF Budget, Paging, Early, Stopped
<1>7. Mapping'
  BY DEF Mapping, Early, Stopped, PagingOn
<1>8. FramesSuffice'
  <2>1. BitsCleared' <=> BitsCleared
    BY <1>1 DEF BitsCleared, Zeroed, Items, num_frames
  <2> QED BY <2>1 DEF FramesSuffice
<1> QED BY <1>2, <1>3, <1>4, <1>5, <1>6, <1>7, <1>8 DEF IInv

(* During the loop over the map only the region changes.                   *)
LEMMA EarlyBlocks ==
    ASSUME IInv, pc \in Early
    PROVE  /\ linear \in Linears /\ linear.blocks \in Seq(Extents)
           /\ Ascending(linear.blocks, ImageStart) /\ Ascending(linear.blocks, 2 ^ W)
           /\ tables = {} /\ i \in Nat /\ DOMAIN page = {}
<1>1. linear \in Linears /\ tables \subseteq Nat /\ i \in Nat
  BY DEF IInv, TypeOK
<1>2. linear.blocks \in Seq(Extents)
  BY <1>1 DEF Linears
<1>3. Ascending(linear.blocks, ImageStart) /\ DOMAIN page = {} /\ tables = {}
  BY DEF IInv, BlocksAscend, Mapping, Budget
<1>4. PICK m \in Nat : m = 2 ^ W /\ ImageStart <= m /\ ImageStart \in Nat
  <2>1. ImageStart \in Nat /\ 2 ^ W \in Nat /\ ImageStart <= 2 ^ W
    BY BootMemoryAssumption
  <2> QED BY <2>1
<1> QED BY <1>1, <1>2, <1>3, <1>4, AscendingRaised

(* The check of the map's validity.                                        *)
LEMMA CheckMapKeeps ==
    ASSUME IInv, CheckMap
    PROVE  IInv'
<1>1. /\ pc = "mmap" /\ mboot' = mboot /\ linear' = linear
      /\ k' = k /\ base' = base /\ len' = len /\ total' = total
      /\ tables' = tables /\ page' = page /\ i' = i
  BY DEF CheckMap, Panic, Go, region, paging
<1>2. pc \in Early
  BY <1>1 DEF Early, Stopped
<1>3. CASE pc' = "panic" /\ panic' = "multiboot's mmap is broken"
  <2>1. panic' # "Insufficient memory" /\ ~ShortOfBits'
    BY <1>3 DEF ShortOfBits
  <2> QED BY <1>1, <1>2, <1>3, <2>1, EarlyBlocks, PanicKeeps DEF region, Stopped
<1>4. CASE pc' = "regions" /\ panic' = panic
  <2>1. TypeOK'
    BY <1>1, <1>4 DEF IInv, TypeOK, Steps, Early, Stopped
  <2>2. RegionSoFar'
    <3>1. NoPanic' <=> NoPanic
      BY <1>4 DEF NoPanic
    <3> QED BY <1>1, <1>4, <3>1 DEF IInv, RegionSoFar, Passed, Early, Stopped
  <2>3. RegionChosen' /\ LargestRegionTaken' /\ FramesSuffice'
    BY <1>1, <1>2, <1>4, StillQuiet DEF RegionChosen, LargestRegionTaken, Early
  <2>4. BlocksAscend'
    BY <1>1, <1>2, <1>4, EarlyBlocks DEF BlocksAscend, Early, Stopped
  <2>5. Budget'
    BY <1>1, <1>2, <1>4, EarlyBlocks DEF Budget, Paging, Early, Stopped
  <2>6. Mapping'
    BY <1>1, <1>2, <1>4, EarlyBlocks DEF Mapping, Early, Stopped, PagingOn
  <2> QED BY <2>1, <2>2, <2>3, <2>4, <2>5, <2>6 DEF IInv
<1> QED BY <1>3, <1>4 DEF CheckMap, Panic, Go

(* The next entry of the map.                                              *)
LEMMA ReadRegionKeeps ==
    ASSUME IInv, ReadRegion
    PROVE  IInv'
<1>1. /\ pc = "regions" /\ mboot' = mboot /\ linear' = linear
      /\ tables' = tables /\ page' = page /\ i' = i
  BY DEF ReadRegion, Panic, Go, paging
<1>2. pc \in Early
  BY <1>1 DEF Early, Stopped
<1>3. CASE Over32Bits(Entry) /\ Panic("Encountered a 64-bit memory region")
           /\ UNCHANGED << k, region >>
  <2>1. /\ panic' = "Encountered a 64-bit memory region" /\ pc' = "panic"
        /\ UNCHANGED << k, region >>
    BY <1>3 DEF Panic
  <2>2. panic' # "Insufficient memory" /\ ~ShortOfBits'
    BY <2>1 DEF ShortOfBits
  <2> QED BY <1>1, <1>2, <2>1, <2>2, EarlyBlocks, PanicKeeps DEF Stopped
<1>4. CASE /\ ~Over32Bits(Entry) /\ Go("regions") /\ k' = k + 1
           /\ total' = Word(total + Entry.len)
           /\ IF Entry.free /\ Larger(Entry)
              THEN base' = Clamped(Entry).base /\ len' = Clamped(Entry).len
              ELSE UNCHANGED << base, len >>
  <2>1. pc' = "regions" /\ panic' = panic
    BY <1>4 DEF Go
  <2>2. PICK l \in Nat : l = Len(mboot.mmap) /\ k \in 1 .. l
    <3>1. PICK l \in Nat : l = Len(mboot.mmap)
      BY MapTyped DEF IInv
    <3>2. k \in 1 .. l + 1 /\ k <= l
      BY <3>1 DEF IInv, TypeOK, ReadRegion
    <3> QED BY <3>1, <3>2
  <2>3. Entry \in Records /\ Entry.len \in Nat /\ Clamped(Entry).base \in Nat
        /\ Clamped(Entry).len \in Nat
    <3>1. Entry \in Records
      BY <2>2, MapTyped DEF IInv, Entry
    <3>2. Entry.len \in Nat
      BY <3>1 DEF Records
    <3> QED BY <1>4, <3>1, <3>2, ClampedTyped
  <2>4. total' \in 0 .. 2 ^ W - 1
    <3>1. PICK m \in Nat \ {0} : m = 2 ^ W
      BY BootMemoryAssumption
    <3>2. total + Entry.len \in Nat
      BY <2>3, <3>1 DEF IInv, TypeOK
    <3>3. (total + Entry.len) % m \in 0 .. m - 1
      BY <3>2, Remainder
    <3> QED BY <1>4, <3>1, <3>3 DEF Word
  <2>5. TypeOK'
    <3>1. base' \in Nat /\ len' \in Nat
      BY <1>4, <2>3 DEF IInv, TypeOK
    <3>2. k' \in 1 .. Len(mboot'.mmap) + 1
      BY <1>1, <1>4, <2>2
    <3> QED BY <1>1, <2>1, <2>4, <3>1, <3>2 DEF IInv, TypeOK, Steps, Early, Stopped
  <2>6. RegionSoFar'
    BY <2>1, EntryRead DEF IInv
  <2>7. RegionChosen' /\ LargestRegionTaken' /\ FramesSuffice'
    BY <1>2, <2>1, StillQuiet DEF RegionChosen, LargestRegionTaken, Early
  <2>8. BlocksAscend'
    BY <1>1, <1>2, <2>1, EarlyBlocks DEF BlocksAscend, Early, Stopped
  <2>9. Budget'
    BY <1>1, <1>2, <2>1, EarlyBlocks DEF Budget, Paging, Early, Stopped
  <2>10. Mapping'
    BY <1>1, <1>2, <2>1, EarlyBlocks DEF Mapping, Early, Stopped, PagingOn
  <2> QED BY <2>5, <2>6, <2>7, <2>8, <2>9, <2>10 DEF IInv
<1> QED BY <1>3, <1>4 DEF ReadRegion

(* The end of the loop: the region is taken, or it is too small.           *)
LEMMA RegionsReadKeeps ==
    ASSUME IInv, RegionsRead
    PROVE  IInv'
<1>1. /\ pc = "regions" /\ mboot' = mboot /\ k > Len(mboot.mmap)
      /\ k' = k /\ base' = base /\ len' = len /\ total' = total
      /\ tables' = tables /\ page' = page /\ i' = i
      /\ linear' = [linear EXCEPT !.first = base]
  BY DEF RegionsRead, Panic, Go, region, paging
<1>2. pc \in Early /\ base \in Nat /\ TypeOK
  BY <1>1 DEF IInv, Early, Stopped, TypeOK
<1>3. /\ linear'.first = base /\ linear'.blocks = linear.blocks /\ linear' \in Linears
      /\ linear.blocks \in Seq(Extents)
  BY <1>1, <1>2 DEF IInv, TypeOK, Linears
<1>4. /\ \A e \in Free : Above(e) <= len
      /\ BigEnough => \E e \in Free : base = Max({e.addr, ImageEnd}) /\ len = Above(e)
      /\ BigEnough => ImageEnd <= base /\ base + len < 2 ^ W /\ MinRegion < len
  BY <1>1, AllRead DEF IInv
<1>5. Free' = Free
  BY <1>1 DEF Free
<1>6. CASE BigEnough /\ Go("init_frames")
  <2>1. pc' = "init_frames" /\ panic' = panic
    BY <1>6 DEF Go
  <2>2. TypeOK'
    BY <1>1, <1>3, <2>1 DEF IInv, TypeOK, Steps
  <2>3. RegionSoFar'
    BY <2>1 DEF RegionSoFar, Early, Stopped
  <2>4. RegionChosen'
    BY <1>1, <1>4, <1>6 DEF RegionChosen
  <2>5. LargestRegionTaken' /\ FramesSuffice'
    <3>1. panic' # "Insufficient memory" /\ FramesSuffice'
      BY <1>2, <2>1, StillQuiet
    <3>2. \E e \in Free' : /\ base' = Max({e.addr, ImageEnd}) /\ len' = Above(e)
                           /\ \A f \in Free' : Above(f) <= len'
      BY <1>1, <1>4, <1>5, <1>6
    <3> QED BY <3>1, <3>2 DEF LargestRegionTaken
  <2>6. BlocksAscend'
    <3>1. ImageStart \in Nat /\ ImageStart <= base
      <4>1. ImageEnd <= base
        BY <1>4, <1>6
      <4>2. ImageStart \in Nat /\ ImageEnd \in Nat /\ ImageStart < ImageEnd
        BY BootMemoryAssumption
      <4> QED BY <1>2, <4>1, <4>2
    <3>2. Ascending(linear.blocks, ImageStart)
      BY <1>2, EarlyBlocks
    <3>3. Ascending(linear'.blocks, linear'.first)
      BY <1>2, <1>3, <3>1, <3>2, AscendingRaised
    <3> QED BY <2>1, <3>3 DEF BlocksAscend, Early, Stopped
  <2>7. Budget'
    BY <1>1, <1>2, <1>3, <2>1, EarlyBlocks DEF Budget, Paging, Early, Stopped
  <2>8. Mapping'
    BY <1>1, <1>2, <2>1, EarlyBlocks DEF Mapping, Early, Stopped, PagingOn
  <2> QED BY <2>2, <2>3, <2>4, <2>5, <2>6, <2>7, <2>8 DEF IInv
<1>7. CASE ~BigEnough /\ Panic("Insufficient memory")
  <2>1. pc' = "panic" /\ panic' = "Insufficient memory"
    BY <1>7 DEF Panic
  <2>2. \A e \in Free : Above(e) <= MinRegion
    <3>1. ~(len > MinRegion) /\ len \in Nat
      BY <1>2, <1>7 DEF BigEnough, TypeOK
    <3>2. \A e \in Free : Above(e) \in Nat
      <4>1. ASSUME NEW e \in Free PROVE Above(e) \in Nat
        <5>1. e \in Records /\ ImageEnd <= e.addr + e.len /\ e.addr + e.len < 2 ^ W
          BY <1>2, MapTyped DEF Free
        <5> QED BY <5>1, ClampedFree
      <4> QED BY <4>1
    <3>3. MinRegion \in Nat
      BY BootMemoryAssumption
    <3> QED BY <1>4, <3>1, <3>2, <3>3
  <2>3. ~ShortOfBits'
    BY <2>1 DEF ShortOfBits
  <2>4. /\ Ascending(linear'.blocks, 2 ^ W) /\ tables' \subseteq Nat /\ i' \in Nat
        /\ DOMAIN page' \subseteq Nat
    BY <1>1, <1>2, <1>3, EarlyBlocks
  <2> QED BY <1>1, <1>3, <2>1, <2>2, <2>3, <2>4, PanicKeeps DEF region, Stopped
<1> QED BY <1>6, <1>7 DEF RegionsRead

(* What the steps after that have in common.                               *)
LEMMA LaterKeeps ==
    ASSUME IInv, Later, panic' = panic, pc' \in Steps \ Stopped,
           linear' \in Linears, Ascending(linear'.blocks, linear'.first),
           tables' \subseteq Nat, i' \in Nat, DOMAIN page' \subseteq Nat,
           Budget', Mapping'
    PROVE  IInv'
<1>1. /\ mboot' = mboot /\ k' = k /\ base' = base /\ len' = len /\ total' = total
      /\ pc' \notin Early
  BY DEF Later, region
<1>2. TypeOK'
  BY <1>1 DEF IInv, TypeOK
<1>3. RegionSoFar' /\ RegionChosen' /\ LargestRegionTaken'
  BY RegionKept DEF IInv
<1>4. BlocksAscend'
  BY <1>1 DEF BlocksAscend, Early, Stopped
<1>5. FramesSuffice'
  <2>1. BitsCleared' <=> BitsCleared
    BY <1>1 DEF BitsCleared, Zeroed, Items, num_frames
  <2>2. ShortOfBits' => ShortOfBits
    BY DEF ShortOfBits, Stopped
  <2> QED BY <2>1, <2>2 DEF IInv, FramesSuffice
<1> QED BY <1>2, <1>3, <1>4, <1>5 DEF IInv

(* The bitset.                                                             *)
LEMMA InitFramesKeeps ==
    ASSUME IInv, init_frames
    PROVE  IInv'
<1>1. /\ pc = "init_frames" /\ pc' = "directory" /\ mboot' = mboot /\ panic' = panic
      /\ k' = k /\ base' = base /\ len' = len /\ total' = total
      /\ tables' = tables /\ page' = page /\ i' = i
      /\ linear' = kmalloc(linear, Items, FALSE)
  BY DEF init_frames, Go, region, paging
<1>2. pc \notin Early \cup Stopped /\ TypeOK /\ RegionChosen
  BY <1>1 DEF IInv, Early, Stopped
<1>3. /\ linear \in Linears /\ linear.first = base /\ base \in Nat /\ len \in Nat
      /\ tables = {} /\ i \in Nat /\ linear.blocks \in Seq(Extents)
      /\ Ascending(linear.blocks, linear.first) /\ ImageEnd <= base
  BY <1>1, <1>2 DEF IInv, TypeOK, Budget, BlocksAscend, RegionChosen, Linears
<1>4. /\ Items \in Nat /\ base + Items < 2 ^ W
  <2>1. /\ Items \in Nat /\ PageStart(TablesMax) \in Nat /\ base + len < 2 ^ W
        /\ AfterDirectory + PageStart(TablesMax) + KHEAP_INITIAL_SIZE + 8 * PAGE_SIZE
              < base + len
    BY <1>2, RegionHolds
  <2>2. PICK m \in Nat : m = 2 ^ W
    BY BootMemoryAssumption
  <2>3. PAGE_SIZE \in Nat /\ KHEAP_INITIAL_SIZE \in Nat /\ DirectorySize \in Nat
    BY BootMemoryAssumption
  <2>4. base + Items < m
    BY <1>3, <2>1, <2>2, <2>3 DEF AfterDirectory
  <2> QED BY <2>1, <2>2, <2>4
<1>5. /\ linear'.first = base + Items /\ linear' \in Linears
      /\ linear'.blocks = Append(linear.blocks, [from |-> base, to |-> base + Items])
  <2>1. Placed(linear, FALSE) = base
    BY <1>3 DEF Placed
  <2> QED BY <1>1, <1>3, <1>4, <2>1, BlockPlaced
<1>6. Ascending(linear'.blocks, linear'.first)
  <2>1. base + Items \in Nat /\ base <= base + Items
    BY <1>3, <1>4
  <2> QED BY <1>3, <1>5, <2>1, AscendingAppend
<1>7. Budget'
  <2>1. Items' = Items
    BY <1>1 DEF Items, num_frames
  <2> QED BY <1>1, <1>3, <1>5, <2>1 DEF Budget, Paging, Early, Stopped
<1>8. Mapping' /\ DOMAIN page' \subseteq Nat
  BY <1>1 DEF IInv, Mapping, Early, Stopped, PagingOn, TypeOK
<1>9. Later /\ pc' \in Steps \ Stopped
  BY <1>1 DEF Later, Early, Stopped, Steps, region
<1> QED BY <1>1, <1>3, <1>5, <1>6, <1>7, <1>8, <1>9, LaterKeeps

(* The directory.                                                          *)
LEMMA AllocDirectoryKeeps ==
    ASSUME IInv, AllocDirectory
    PROVE  IInv'
<1>1. /\ pc = "directory" /\ pc' = "heap_tables" /\ mboot' = mboot /\ panic' = panic
      /\ k' = k /\ base' = base /\ len' = len /\ total' = total
      /\ tables' = tables /\ page' = page /\ i' = KHEAP_START
      /\ linear' = kmalloc(linear, DirectorySize, TRUE)
  BY DEF AllocDirectory, Go, region
<1>2. pc \notin Early \cup Stopped /\ TypeOK /\ RegionChosen
  BY <1>1 DEF IInv, Early, Stopped
<1>3. /\ linear \in Linears /\ linear.first = base + Items /\ base \in Nat /\ len \in Nat
      /\ tables = {} /\ linear.blocks \in Seq(Extents)
      /\ Ascending(linear.blocks, linear.first) /\ ImageEnd <= base
  BY <1>1, <1>2 DEF IInv, TypeOK, Budget, BlocksAscend, RegionChosen, Linears
<1>4. /\ PAGE_SIZE \in Nat \ {0} /\ KHEAP_INITIAL_SIZE \in Nat /\ DirectorySize \in Nat
      /\ KHEAP_START \in Nat /\ ImageEnd \in Nat
  BY BootMemoryAssumption
<1>5. PICK r \in Nat : /\ r = Rounded(linear.first)
                       /\ base + Items <= r /\ r < base + Items + PAGE_SIZE
  <2>1. linear.first \in Nat
    BY <1>3 DEF Linears
  <2> QED BY <1>3, <2>1, Rounding
<1>6. /\ Items \in Nat /\ r + DirectorySize < 2 ^ W
  <2>1. /\ Items \in Nat /\ PageStart(TablesMax) \in Nat /\ base + len < 2 ^ W
        /\ AfterDirectory + PageStart(TablesMax) + KHEAP_INITIAL_SIZE + 8 * PAGE_SIZE
              < base + len
    BY <1>2, RegionHolds
  <2>2. PICK m \in Nat : m = 2 ^ W
    BY BootMemoryAssumption
  <2>3. PICK P \in Nat, K \in Nat, d \in Nat, n \in Nat, s \in Nat :
           /\ P = PAGE_SIZE /\ K = KHEAP_INITIAL_SIZE /\ d = DirectorySize /\ n = Items
           /\ s = PageStart(TablesMax)
    BY <1>4, <2>1
  <2>4. base + n + d + P + s + K + 8 * P < base + len /\ base + len < m
    BY <2>1, <2>2, <2>3 DEF AfterDirectory
  <2>5. r < base + n + P
    BY <1>5, <2>3
  <2>6. r + d < m
    BY <1>3, <2>4, <2>5
  <2> QED BY <2>1, <2>2, <2>3, <2>6
<1>7. /\ linear'.first = r + DirectorySize /\ linear' \in Linears
      /\ linear'.blocks = Append(linear.blocks, [from |-> r, to |-> r + DirectorySize])
  <2>1. Placed(linear, TRUE) = r
    BY <1>5 DEF Placed
  <2> QED BY <1>1, <1>3, <1>4, <1>6, <2>1, BlockPlaced
<1>8. Ascending(linear'.blocks, linear'.first)
  <2>1. /\ r + DirectorySize \in Nat /\ r <= r + DirectorySize /\ linear.first <= r
        /\ linear.first \in Nat /\ ImageEnd <= r
    BY <1>3, <1>4, <1>5, <1>6
  <2> QED BY <1>3, <1>7, <2>1, AscendingAppend
<1>9. Spent(linear', tables')
  <2>1. base <= linear'.first /\ linear'.first <= AfterDirectory
    BY <1>3, <1>4, <1>5, <1>6, <1>7 DEF AfterDirectory
  <2> QED BY <1>1, <1>3, <2>1 DEF Spent
<1>10. Budget'
  <2>1. Spent(linear', tables') = Spent(linear, tables)'
    BY <1>1 DEF Spent, AfterDirectory, Items, num_frames
  <2> QED BY <1>1, <1>9, <2>1 DEF Budget, Paging, Early, Stopped
<1>11. Mapping' /\ DOMAIN page' \subseteq Nat
  <2>1. KHEAP_START <= i' /\ Aligned(i') /\ i' < HeapEnd + PAGE_SIZE
    BY <1>1, <1>4, BootMemoryAssumption DEF Aligned, HeapEnd
  <2> QED BY <1>1, <2>1 DEF IInv, Mapping, Early, Stopped, PagingOn, TypeOK
<1>12. Later /\ pc' \in Steps \ Stopped
  BY <1>1 DEF Later, Early, Stopped, Steps, Paging, region
<1> QED BY <1>1, <1>3, <1>4, <1>7, <1>8, <1>10, <1>11, <1>12, LaterKeeps

(* What holds while the tables are filled.                                 *)
LEMMA PagingFacts ==
    ASSUME IInv, pc \in Paging \ {"heap"}
    PROVE  /\ TypeOK /\ RegionChosen /\ pc \notin Early \cup Stopped
           /\ Spent(linear, tables) /\ Ascending(linear.blocks, linear.first)
           /\ linear \in Linears /\ linear.first \in Nat /\ linear.blocks \in Seq(Extents)
           /\ linear.first + KHEAP_INITIAL_SIZE + 7 * PAGE_SIZE < base + len
           /\ linear.first + KHEAP_INITIAL_SIZE + 7 * PAGE_SIZE <= base + BootNeeds
           /\ BootNeeds \in Nat /\ Zeroed \in Nat
           /\ base <= linear.first /\ base + len < 2 ^ W /\ ImageEnd <= base
           /\ base \in Nat /\ len \in Nat /\ i \in Nat /\ tables \subseteq Nat
           /\ DOMAIN page \subseteq Nat
<1>1. TypeOK /\ RegionChosen /\ pc \notin Early \cup Stopped /\ Spent(linear, tables)
  BY DEF IInv, Budget, Early, Stopped, Paging
<1>2. Ascending(linear.blocks, linear.first)
  BY <1>1 DEF IInv, BlocksAscend
<1>3. /\ linear \in Linears /\ linear.first \in Nat /\ linear.blocks \in Seq(Extents)
      /\ base \in Nat /\ len \in Nat /\ i \in Nat /\ tables \subseteq Nat
      /\ DOMAIN page \subseteq Nat
  BY <1>1 DEF TypeOK, Linears
<1>4. base + len < 2 ^ W /\ ImageEnd <= base
  BY <1>1 DEF RegionChosen
<1>5. BootNeeds \in Nat /\ Zeroed \in Nat
  BY <1>1, RegionHolds, ItemsBounded DEF TypeOK
<1> QED BY <1>1, <1>2, <1>3, <1>4, <1>5, RoomLeft

(* The budget does not depend on what the step leaves alone.               *)
LEMMA BudgetCarried ==
    ASSUME UNCHANGED << region >>, pc' \in Paging,
           pc' # "heap" => Spent(linear', tables'), pc' = "heap" => base <= linear'.first
    PROVE  Budget'
<1>1. base' = base /\ total' = total
  BY DEF region
<1>2. Spent(linear', tables') = Spent(linear, tables)'
  BY <1>1 DEF Spent, AfterDirectory, Items, num_frames
<1> QED BY <1>1, <1>2 DEF Budget, Paging, Early, Stopped

(* The tables of the heap.                                                 *)
LEMMA PrepareHeapKeeps ==
    ASSUME IInv, PrepareHeap
    PROVE  IInv'
<1>1. /\ pc = "heap_tables" /\ mboot' = mboot /\ panic' = panic
      /\ k' = k /\ UNCHANGED region /\ page' = page
  BY DEF PrepareHeap, Go
<1>2. /\ KHEAP_START <= i /\ Aligned(i) /\ i < HeapEnd + PAGE_SIZE /\ DOMAIN page = {}
  BY <1>1 DEF IInv, Mapping
<1>3. pc \in Paging \ {"heap"}
  BY <1>1 DEF Paging
<1>4. /\ PAGE_SIZE \in Nat \ {0} /\ KHEAP_START \in Nat /\ HeapEnd \in Nat
      /\ i \in Nat /\ linear.first \in Nat
  BY <1>3, PagingFacts, BootMemoryAssumption DEF HeapEnd
<1>5. CASE i < HeapEnd /\ get_page(i) /\ i' = i + PAGE_SIZE /\ Go(pc)
  <2>1. i \in 0 .. 2 ^ W - 1
    <3>1. PICK m \in Nat : m = 2 ^ W /\ HeapEnd <= m
      BY BootMemoryAssumption DEF HeapEnd
    <3> QED BY <1>4, <1>5, <3>1
  <2>2. /\ linear' \in Linears /\ tables' \subseteq Nat
        /\ Spent(linear', tables') /\ Ascending(linear'.blocks, linear'.first)
    BY <1>3, <1>5, <2>1, PagingFacts, TableMade
  <2>3. pc' = "heap_tables"
    BY <1>1, <1>5 DEF Go
  <2>4. Budget'
    BY <1>1, <2>2, <2>3, BudgetCarried DEF Paging
  <2>5. Mapping' /\ DOMAIN page' \subseteq Nat /\ i' \in Nat
    <3>1. KHEAP_START <= i' /\ Aligned(i') /\ i' < HeapEnd + PAGE_SIZE /\ i' \in Nat
      BY <1>2, <1>4, <1>5, AlignedNext
    <3> QED BY <1>1, <1>2, <2>3, <3>1 DEF Mapping, Early, Stopped, PagingOn
  <2>6. Later /\ pc' \in Steps \ Stopped
    BY <1>1, <2>3 DEF Later, Early, Stopped, Steps, Paging, region
  <2> QED BY <1>1, <2>2, <2>4, <2>5, <2>6, LaterKeeps
<1>6. CASE i >= HeapEnd /\ i' = 0 /\ Go("identity") /\ UNCHANGED << linear, tables >>
  <2>1. pc' = "identity" /\ linear' = linear /\ tables' = tables /\ i' = 0
    BY <1>6 DEF Go
  <2>2. Budget'
    BY <1>1, <1>3, <2>1, PagingFacts, BudgetCarried DEF Paging
  <2>3. Mapping' /\ DOMAIN page' \subseteq Nat
    <3>1. IdentitySoFar(0)'
      <4>1. DOMAIN page' = 0 .. 0 - 1 /\ i' = PageStart(0)
        BY <1>1, <1>2, <2>1, PageStarts
      <4> QED BY <4>1 DEF IdentitySoFar
    <3>2. (i < IdentityLimit + PAGE_SIZE)'
      <4>1. linear'.first \in Nat /\ i' = 0
        BY <1>4, <2>1
      <4>2. 0 < linear'.first + PAGE_SIZE * 4 + PAGE_SIZE
        BY <1>4, <4>1
      <4> QED BY <4>1, <4>2 DEF IdentityLimit
    <3>3. DOMAIN page' \subseteq Nat
      BY <1>1, <1>2
    <3> QED BY <2>1, <3>1, <3>2, <3>3 DEF Mapping, Early, Stopped, PagingOn
  <2>4. Later /\ pc' \in Steps \ Stopped
    BY <1>1, <2>1 DEF Later, Early, Stopped, Steps, Paging, region
  <2> QED BY <1>1, <1>3, <2>1, <2>2, <2>3, <2>4, PagingFacts, LaterKeeps
<1> QED BY <1>5, <1>6 DEF PrepareHeap

(* The pages of the heap, by their addresses.                              *)
LEMMA HeapPagesAt ==
    /\ KHEAP_START \in Nat /\ HeapEnd \in Nat /\ HeapEnd = KHEAP_START + KHEAP_INITIAL_SIZE
    /\ Aligned(KHEAP_START) /\ KHEAP_START = PageStart(KHEAP_START \div PAGE_SIZE)
    /\ KHEAP_START \div PAGE_SIZE \in Nat
    /\ \A p \in HeapPages : /\ p \in Nat /\ KHEAP_START \div PAGE_SIZE <= p
                            /\ KHEAP_START <= PageStart(p) /\ PageStart(p) < HeapEnd
<1>1. KHEAP_START \in Nat /\ Aligned(KHEAP_START)
  BY BootMemoryAssumption DEF Aligned
<1>2. HeapEnd \in Nat /\ HeapEnd = KHEAP_START + KHEAP_INITIAL_SIZE
  BY BootMemoryAssumption DEF HeapEnd
<1>3. PICK s \in Nat : s = KHEAP_START \div PAGE_SIZE /\ KHEAP_START = PageStart(s)
  BY <1>1, PageOf
<1>4. PICK e \in Nat : e = HeapEnd \div PAGE_SIZE /\ PageStart(e) <= HeapEnd
  BY <1>2, PageOf
<1>5. ASSUME NEW p \in HeapPages
      PROVE  /\ p \in Nat /\ s <= p /\ KHEAP_START <= PageStart(p) /\ PageStart(p) < HeapEnd
  <2>1. p \in Nat /\ s <= p /\ p < e
    BY <1>3, <1>4 DEF HeapPages
  <2>2. PageStart(s) <= PageStart(p) /\ PageStart(p) + PAGE_SIZE <= PageStart(e)
    BY <2>1, PagesOrdered, PageStarts
  <2>3. PageStart(p) \in Nat /\ PageStart(e) \in Nat /\ PAGE_SIZE \in Nat \ {0}
    BY <2>1, PageStarts, BootMemoryAssumption
  <2> QED BY <1>2, <1>3, <1>4, <2>1, <2>2, <2>3
<1> QED BY <1>1, <1>2, <1>3, <1>5

(* The boot is short of bits only if the cleared ones end before what it   *)
(* needs of the region.                                                    *)
LEMMA BitsMissing ==
    ASSUME IInv, pc \in Paging \ {"heap"}, NEW x \in Nat, Zeroed <= x,
           PageStart(x) < linear.first + KHEAP_INITIAL_SIZE + 7 * PAGE_SIZE
    PROVE  ~BitsCleared
<1>1. /\ linear.first + KHEAP_INITIAL_SIZE + 7 * PAGE_SIZE <= base + BootNeeds
      /\ BootNeeds \in Nat /\ Zeroed \in Nat /\ linear.first \in Nat /\ base \in Nat
  BY PagingFacts
<1>2. PageStart(Zeroed) <= PageStart(x) /\ PageStart(x) \in Nat /\ PageStart(Zeroed) \in Nat
  BY <1>1, PagesOrdered, PageStarts
<1>3. PAGE_SIZE \in Nat /\ KHEAP_INITIAL_SIZE \in Nat
  BY BootMemoryAssumption
<1>4. PageStart(Zeroed) < base + BootNeeds
  BY <1>1, <1>2, <1>3
<1>5. ~(base + BootNeeds <= PageStart(Zeroed))
  BY <1>1, <1>2, <1>4
<1> QED BY <1>5 DEF BitsCleared, PageStart

(* When there is no frame, the cleared bits are used up.                   *)
LEMMA OutOfFrames ==
    ASSUME Zeroed \in Nat, NEW p, NoFreeFrames(p)
    PROVE  /\ \A n \in Nat : Used \subseteq 0 .. n - 1 => Zeroed <= n
           /\ \A M \in Nat : FramesInOrder(M) => M = Zeroed
<1>1. \A g \in 0 .. Zeroed - 1 : g \in Used
  BY DEF NoFreeFrames
<1>2. ASSUME NEW n \in Nat, Used \subseteq 0 .. n - 1, ~(Zeroed <= n)
      PROVE  FALSE
  <2>1. n \in 0 .. Zeroed - 1
    BY <1>2
  <2>2. n \in 0 .. n - 1
    BY <1>1, <1>2, <2>1
  <2> QED BY <2>2
<1>3. ASSUME NEW M \in Nat, FramesInOrder(M), M # Zeroed
      PROVE  FALSE
  <2>1. M \in 0 .. Zeroed /\ \A f \in Used : f < M
    BY <1>3 DEF FramesInOrder
  <2>2. M \in 0 .. Zeroed - 1
    BY <1>3, <2>1
  <2>3. M < M
    BY <1>1, <2>1, <2>2
  <2> QED BY <2>3
<1> QED BY <1>2, <1>3

(* The allocator stays within the address space.                           *)
LEMMA FirstInRange ==
    ASSUME IInv, pc \in Paging \ {"heap"}, NEW l \in Linears, NEW T, Spent(l, T)
    PROVE  l.first \in Nat /\ 2 ^ W \in Nat /\ l.first <= 2 ^ W
<1>1. PICK m \in Nat : m = 2 ^ W
  BY BootMemoryAssumption
<1>2. PICK f \in Nat : f = l.first /\ f + KHEAP_INITIAL_SIZE + 7 * PAGE_SIZE < base + len
  BY PagingFacts, RoomLeft
<1>3. base + len < m /\ base \in Nat /\ len \in Nat
  BY <1>1, PagingFacts
<1>4. PAGE_SIZE \in Nat /\ KHEAP_INITIAL_SIZE \in Nat
  BY BootMemoryAssumption
<1>5. f < base + len
  BY <1>2, <1>3, <1>4
<1>6. f <= m
  BY <1>3, <1>5
<1> QED BY <1>1, <1>2, <1>6

(* The boot ends while memory is mapped, possibly after a table was added. *)
AtMostATable ==
    \/ UNCHANGED << linear, tables >>
    \/ \E a \in 0 .. 2 ^ W - 1 : get_page(a)
LEMMA EndWhileMapping ==
    ASSUME IInv, pc \in Paging \ {"heap"}, UNCHANGED << mboot, k, region >>,
           pc' \in Stopped, panic' = panic \/ panic' # "Insufficient memory",
           ~BitsCleared, AtMostATable, i' \in Nat, DOMAIN page' \subseteq Nat
    PROVE  IInv'
<1>1. /\ linear' \in Linears /\ tables' \subseteq Nat /\ Spent(linear', tables')
      /\ Ascending(linear'.blocks, linear'.first)
  <2>1. CASE UNCHANGED << linear, tables >>
    BY <2>1, PagingFacts
  <2>2. CASE \E a \in 0 .. 2 ^ W - 1 : get_page(a)
    BY <2>2, PagingFacts, TableMade
  <2> QED BY <2>1, <2>2 DEF AtMostATable
<1>2. linear'.first <= 2 ^ W /\ linear'.first \in Nat /\ 2 ^ W \in Nat
  BY <1>1, FirstInRange
<1>3. Ascending(linear'.blocks, 2 ^ W)
  <2>1. linear'.blocks \in Seq(Extents)
    BY <1>1 DEF Linears
  <2> QED BY <1>1, <1>2, <2>1, AscendingRaised
<1>4. panic' = "Insufficient memory" => \A e \in Free : Above(e) <= MinRegion
  BY DEF IInv, LargestRegionTaken
<1> QED BY <1>1, <1>3, <1>4, PanicKeeps

(* The identity mapping.                                                   *)
LEMMA IdentityMapKeeps ==
    ASSUME IInv, IdentityMap
    PROVE  IInv'
<1>1. pc = "identity" /\ k' = k /\ UNCHANGED region /\ mboot' = mboot
  BY DEF IdentityMap, Panic, Go, Proceed
<1>2. pc \in Paging \ {"heap"}
  BY <1>1 DEF Paging
<1>3. PICK n \in Nat : IdentitySoFar(n)
  BY <1>1 DEF IInv, Mapping
<1>4. /\ i = PageStart(n) /\ (n > 0 => tables # {}) /\ i < IdentityLimit + PAGE_SIZE
      /\ DOMAIN page = 0 .. n - 1 /\ \A p \in 0 .. n - 1 : page[p] = p
  BY <1>1, <1>3 DEF IInv, Mapping, IdentitySoFar
<1>5. i \div PAGE_SIZE = n /\ Used = 0 .. n - 1
  <2>1. Used = 0 .. n - 1
    BY <1>4 DEF Used
  <2> QED BY <1>4, <2>1, PageOfStart
<1>6. /\ PAGE_SIZE \in Nat \ {0} /\ KHEAP_INITIAL_SIZE \in Nat /\ linear.first \in Nat
      /\ i \in Nat /\ base \in Nat /\ len \in Nat /\ Zeroed \in Nat
      /\ DOMAIN page \subseteq Nat
      /\ linear.first + KHEAP_INITIAL_SIZE + 7 * PAGE_SIZE < base + len
      /\ IdentityLimit = linear.first + PAGE_SIZE * 4
  BY <1>2, PagingFacts, BootMemoryAssumption DEF IdentityLimit
<1>7. i < IdentityLimit => i \in 0 .. 2 ^ W - 1
  <2>1. PICK m \in Nat : m = 2 ^ W /\ base + len < m
    BY <1>2, PagingFacts, BootMemoryAssumption
  <2> QED BY <1>6, <2>1
<1>8. i < IdentityLimit /\ Zeroed <= n => ~BitsCleared
  <2>1. ASSUME i < IdentityLimit, Zeroed <= n PROVE ~BitsCleared
    <3>1. PageStart(n) < linear.first + KHEAP_INITIAL_SIZE + 7 * PAGE_SIZE
      BY <1>4, <1>6, <2>1
    <3> QED BY <1>2, <2>1, <3>1, BitsMissing
  <2> QED BY <2>1
<1>9. page_alloc(n) => /\ DOMAIN page' = 0 .. n /\ page'[n] \in Nat
                       /\ \A p \in 0 .. n - 1 : page'[p] = p
                       /\ page'[n] # n => Zeroed <= n
                       /\ DOMAIN page' \subseteq Nat
  <2>1. 0 .. n \subseteq Nat
    OBVIOUS
  <2> QED BY <1>3, <1>6, <2>1, IdentityAllocated
<1>10. i < IdentityLimit /\ get_page(i) => AtMostATable
  BY <1>7 DEF AtMostATable
<1>11. CASE /\ i < IdentityLimit /\ get_page(i) /\ NoFreeFrames(i \div PAGE_SIZE)
            /\ Panic("No free frames") /\ UNCHANGED << page, i >>
  <2>1. Zeroed <= n
    BY <1>5, <1>6, <1>11, OutOfFrames
  <2>2. pc' \in Stopped /\ panic' # "Insufficient memory"
    BY <1>11 DEF Panic, Stopped
  <2>3. i' \in Nat /\ DOMAIN page' \subseteq Nat
    <3>1. i' = i /\ page' = page
      BY <1>11
    <3> QED BY <1>6, <3>1
  <2> QED BY <1>1, <1>2, <1>8, <1>10, <1>11, <2>1, <2>2, <2>3, EndWhileMapping
<1>12. CASE /\ i < IdentityLimit /\ get_page(i) /\ page_alloc(i \div PAGE_SIZE)
            /\ page'[i \div PAGE_SIZE] # i \div PAGE_SIZE
            /\ Panic("Cannot identity-map lower memory") /\ UNCHANGED i
  <2>1. Zeroed <= n /\ DOMAIN page' \subseteq Nat
    BY <1>5, <1>9, <1>12
  <2>2. pc' \in Stopped /\ panic' # "Insufficient memory" /\ i' \in Nat
    BY <1>6, <1>12 DEF Panic, Stopped
  <2> QED BY <1>1, <1>2, <1>8, <1>10, <1>12, <2>1, <2>2, EndWhileMapping
<1>13. CASE /\ i < IdentityLimit /\ get_page(i) /\ page_alloc(i \div PAGE_SIZE)
            /\ page'[i \div PAGE_SIZE] = i \div PAGE_SIZE
            /\ i' = i + PAGE_SIZE /\ Proceed(pc, i \div PAGE_SIZE)
  <2>1. /\ get_page(i) /\ page'[n] = n /\ DOMAIN page' = 0 .. n
        /\ \A p \in 0 .. n - 1 : page'[p] = p
        /\ i' = PageStart(n + 1) /\ i' \in Nat /\ n + 1 \in Nat
        /\ DOMAIN page' \subseteq Nat
    <3>1. i' = i + PAGE_SIZE /\ PageStart(n + 1) = PageStart(n) + PAGE_SIZE
      BY <1>13, PageStarts
    <3>2. i' = PageStart(n + 1) /\ i' \in Nat /\ n + 1 \in Nat
      <4>1. n + 1 \in Nat /\ PageStart(n + 1) \in Nat
        BY PageStarts
      <4>2. i = PageStart(n)
        BY <1>4
      <4> QED BY <3>1, <4>1, <4>2
    <3>3. page_alloc(n) /\ page'[n] = n
      BY <1>5, <1>13
    <3>4. /\ DOMAIN page' = 0 .. n /\ DOMAIN page' \subseteq Nat
          /\ \A p \in 0 .. n - 1 : page'[p] = p
      BY <1>9, <3>3
    <3> QED BY <1>13, <3>2, <3>3, <3>4
  <2>2. CASE Overwrites(n) /\ pc' = "overwritten" /\ panic' = panic
    <3>1. Zeroed <= n
      BY <1>2, <2>2, PagingFacts, BeyondBytes
    <3>2. pc' \in Stopped /\ DOMAIN page' \subseteq Nat
      BY <2>1, <2>2 DEF Stopped
    <3> QED BY <1>1, <1>2, <1>8, <1>10, <1>13, <2>1, <2>2, <3>1, <3>2, EndWhileMapping
  <2>3. CASE pc' = "identity" /\ panic' = panic
    <3>1. /\ linear' \in Linears /\ tables' \subseteq Nat /\ tables' # {}
          /\ Spent(linear', tables') /\ Ascending(linear'.blocks, linear'.first)
          /\ linear.first <= linear'.first
      BY <1>2, <1>7, <1>13, PagingFacts, TableMade
    <3>2. Budget'
      BY <1>1, <2>3, <3>1, BudgetCarried DEF Paging
    <3>3. IdentitySoFar(n + 1)'
      <4>1. /\ (n + 1) - 1 = n
            /\ \A p \in 0 .. n : page'[p] = p
        BY <2>1
      <4> QED BY <2>1, <3>1, <4>1 DEF IdentitySoFar
    <3>4. (i < IdentityLimit + PAGE_SIZE)'
      <4>1. linear'.first \in Nat
        BY <3>1 DEF Linears
      <4>2. i' < linear'.first + PAGE_SIZE * 4 + PAGE_SIZE
        BY <1>6, <1>13, <3>1, <4>1
      <4> QED BY <4>2 DEF IdentityLimit
    <3>5. Mapping' /\ DOMAIN page' \subseteq Nat
      BY <2>1, <2>3, <3>3, <3>4 DEF Mapping, Early, Stopped, PagingOn
    <3>6. Later /\ pc' \in Steps \ Stopped
      BY <1>1, <2>3 DEF Later, Early, Stopped, Steps, Paging
    <3> QED BY <2>1, <2>3, <3>1, <3>2, <3>5, <3>6, LaterKeeps
  <2> QED BY <1>1, <1>5, <1>13, <2>1, <2>2, <2>3 DEF Proceed, Go
<1>14. CASE /\ i >= IdentityLimit
            /\ i' = KHEAP_START /\ Go("heap_pages") /\ UNCHANGED << linear, tables, page >>
  <2>1. /\ pc' = "heap_pages" /\ panic' = panic /\ linear' = linear /\ tables' = tables
        /\ page' = page
    BY <1>14 DEF Go
  <2>2. Budget'
    BY <1>1, <1>2, <2>1, PagingFacts, BudgetCarried DEF Paging
  <2>3. tables # {}
    <3>1. PageStart(n) > 0
      BY <1>4, <1>6, <1>14
    <3>2. PageStart(0) = 0
      BY PageStarts
    <3>3. n > 0
      BY <3>1, <3>2
    <3> QED BY <1>4, <3>3
  <2>4. PICK M \in Nat : FramesInOrder(M)' /\ M <= n
    <3>1. Zeroed' = Zeroed /\ Used' = 0 .. n - 1
      BY <1>1, <1>5, <2>1 DEF Zeroed, Items, num_frames, Used, region
    <3>2. PICK z \in Nat : z = Zeroed'
      BY <1>6, <3>1
    <3>3. CASE n <= z
      <4>1. FramesInOrder(n)'
        BY <3>1, <3>2, <3>3 DEF FramesInOrder
      <4> QED BY <4>1
    <3>4. CASE z < n
      <4>1. FramesInOrder(z)'
        BY <3>1, <3>2, <3>4 DEF FramesInOrder
      <4> QED BY <3>4, <4>1
    <3> QED BY <3>3, <3>4
  <2>5. Identity(n)'
    BY <1>4, <2>1 DEF Identity
  <2>6. HeapMapping(n, M)'
    <3>1. \A p \in HeapPages : ~(PageStart(p) < i')
      <4>1. ASSUME NEW p \in HeapPages PROVE ~(PageStart(p) < i')
        <5>1. KHEAP_START <= PageStart(p) /\ PageStart(p) \in Nat /\ KHEAP_START \in Nat
          BY HeapPagesAt, PageStarts
        <5> QED BY <1>14, <5>1
      <4> QED BY <4>1
    <3>2. IdentityLimit <= PageStart(n) /\ PageStart(n) < IdentityLimit + PAGE_SIZE
      BY <1>4, <1>6, <1>14
    <3>3. /\ PageStart(M) + KHEAP_START <= PageStart(n) + i' /\ i' < HeapEnd + PAGE_SIZE
      <4>1. PageStart(M) \in Nat /\ PageStart(n) \in Nat /\ PageStart(M) <= PageStart(n)
        BY <2>4, PageStarts, PagesOrdered
      <4>2. KHEAP_START \in Nat /\ HeapEnd = KHEAP_START + KHEAP_INITIAL_SIZE /\ i' = KHEAP_START
        BY <1>14, HeapPagesAt
      <4> QED BY <1>6, <4>1, <4>2
    <3> QED BY <2>1, <2>3, <2>4, <2>5, <3>1, <3>2, <3>3 DEF HeapMapping, IdentityLimit
  <2>7. Mapping' /\ DOMAIN page' \subseteq Nat /\ i' \in Nat
    <3>1. DOMAIN page' \subseteq Nat
      BY <1>2, <2>1, PagingFacts
    <3>2. KHEAP_START <= i' /\ Aligned(i') /\ i' \in Nat
      BY <1>14, HeapPagesAt
    <3> QED BY <2>1, <2>6, <3>1, <3>2 DEF Mapping, Early, Stopped, PagingOn
  <2>8. Later /\ pc' \in Steps \ Stopped
    BY <1>1, <2>1 DEF Later, Early, Stopped, Steps, Paging
  <2> QED BY <1>2, <2>1, <2>2, <2>7, <2>8, PagingFacts, LaterKeeps
<1> QED BY <1>11, <1>12, <1>13, <1>14 DEF IdentityMap

(* What the loop over the heap's pages has reached.                        *)
LEMMA HeapMappingFacts ==
    ASSUME IInv, pc \in {"heap_pages", "buffer"}, NEW N \in Nat, NEW M \in Nat,
           HeapMapping(N, M)
    PROVE  /\ PageStart(N) \in Nat /\ PageStart(M) \in Nat
           /\ PageStart(N) < linear.first + 5 * PAGE_SIZE
           /\ linear.first + 4 * PAGE_SIZE <= PageStart(N)
           /\ PageStart(M) + KHEAP_START <= PageStart(N) + i
           /\ i < KHEAP_START + KHEAP_INITIAL_SIZE + PAGE_SIZE
           /\ PageStart(M) < linear.first + KHEAP_INITIAL_SIZE + 6 * PAGE_SIZE
           /\ i < HeapEnd =>
                PageStart(M) < linear.first + KHEAP_INITIAL_SIZE + 5 * PAGE_SIZE
<1>1. PageStart(N) \in Nat /\ PageStart(M) \in Nat
  BY PageStarts
<1>2. /\ linear.first \in Nat /\ i \in Nat
      /\ PAGE_SIZE \in Nat /\ KHEAP_START \in Nat /\ KHEAP_INITIAL_SIZE \in Nat
      /\ HeapEnd = KHEAP_START + KHEAP_INITIAL_SIZE
  <2>1. pc \in Paging \ {"heap"}
    BY DEF Paging
  <2> QED BY <2>1, PagingFacts, HeapPagesAt, BootMemoryAssumption
<1>3. PICK f \in Nat, P \in Nat, s \in Nat, h \in Nat, n \in Nat, x \in Nat, a \in Nat :
         /\ f = linear.first /\ P = PAGE_SIZE /\ s = KHEAP_START /\ h = KHEAP_INITIAL_SIZE
         /\ n = PageStart(N) /\ x = PageStart(M) /\ a = i
  BY <1>1, <1>2
<1>4. /\ f + P * 4 <= n /\ n < f + P * 4 + P /\ x + s <= n + a /\ a < s + h + P
  BY <1>2, <1>3 DEF HeapMapping, IdentityLimit
<1>5. /\ n < f + 5 * P /\ f + 4 * P <= n /\ x < f + h + 6 * P
      /\ a < s + h => x < f + h + 5 * P
  BY <1>4
<1> QED BY <1>1, <1>2, <1>3, <1>4, <1>5

(* Pages stay where they are when others are mapped.                       *)
LEMMA IdentityKept ==
    ASSUME IInv, pc \in Paging \ {"heap"}, UNCHANGED region, NEW N \in Nat, NEW M \in Nat,
           Identity(N), FramesInOrder(M), NEW p \in Nat, page_alloc(p)
    PROVE  /\ Identity(N)' /\ DOMAIN page' = DOMAIN page \cup {p} /\ page'[p] \in Nat
           /\ \E L \in {M, M + 1} : FramesInOrder(L)' /\ (Zeroed <= page'[p] => L = Zeroed)
<1>1. DOMAIN page \subseteq Nat /\ Zeroed \in Nat /\ Used \subseteq Nat
  BY PagingFacts DEF FramesInOrder
<1>2. /\ DOMAIN page' = DOMAIN page \cup {p}
      /\ \A q \in DOMAIN page : page'[q] = page[q]
  BY <1>1, PageAllocated
<1>3. \A q \in 0 .. N - 1 : q \in DOMAIN page' /\ page'[q] = q
  BY <1>2 DEF Identity
<1>4. CASE p \in DOMAIN page
  <2>1. Used' = Used /\ page'[p] = page[p] /\ page[p] \in Used
    BY <1>1, <1>2, <1>4, PageAllocated DEF Used
  <2>2. Identity(N)'
    BY <1>2, <1>3, <1>4 DEF Identity
  <2>3. FramesInOrder(M)'
    BY <2>1 DEF FramesInOrder, Zeroed, Items, num_frames, region
  <2>4. Zeroed <= page'[p] => M = Zeroed
    <3>1. M \in 0 .. Zeroed /\ (M = Zeroed \/ \A f \in Used : f < M)
      BY DEF FramesInOrder
    <3>2. page'[p] \in Nat
      BY <1>1, <2>1
    <3> QED BY <1>1, <2>1, <3>1, <3>2
  <2>5. page'[p] \in Nat
    BY <1>1, <2>1
  <2> QED BY <1>2, <2>2, <2>3, <2>4, <2>5
<1>5. CASE p \notin DOMAIN page
  <2>1. PICK f \in Nat : /\ page'[p] = f /\ Used' = Used \cup {f} /\ \A g \in Used : g < f
                         /\ \A g \in 0 .. f - 1 : g < Zeroed => g \in Used
    BY <1>1, <1>5, PageAllocated
  <2>2. \E L \in {M, M + 1} : FramesInOrder(L)' /\ (Zeroed <= f => L = Zeroed)
    BY <1>1, <2>1, NextInOrder
  <2>3. N <= f
    <3>1. CASE N = 0
      BY <3>1
    <3>2. CASE N # 0
      <4>1. N - 1 \in 0 .. N - 1
        BY <3>2
      <4>2. N - 1 \in Used
        BY <4>1 DEF Identity, Used
      <4>3. N - 1 < f
        BY <2>1, <4>2
      <4> QED BY <4>3
    <3> QED BY <3>1, <3>2
  <2>4. Identity(N)'
    BY <1>2, <1>3, <2>1, <2>3 DEF Identity
  <2> QED BY <1>2, <2>1, <2>2, <2>4
<1> QED BY <1>4, <1>5

(* ... and when none is.                                                   *)
LEMMA FramesKept ==
    ASSUME UNCHANGED << region, page >>, NEW N, NEW M
    PROVE  /\ Identity(N)' <=> Identity(N)
           /\ FramesInOrder(M)' <=> FramesInOrder(M)
<1>1. Used' = Used /\ Zeroed' = Zeroed
  BY DEF Used, Zeroed, Items, num_frames, region
<1> QED BY <1>1 DEF FramesInOrder, Identity

(* The pages of the heap.                                                  *)
LEMMA MapHeapKeeps ==
    ASSUME IInv, MapHeap
    PROVE  IInv'
<1>1. /\ pc = "heap_pages" /\ k' = k /\ UNCHANGED region /\ mboot' = mboot
      /\ linear' = linear /\ tables' = tables
  BY DEF MapHeap, Panic, Go, Proceed
<1>2. pc \in Paging \ {"heap"} /\ pc \in {"heap_pages", "buffer"}
  BY <1>1 DEF Paging
<1>3. PICK N \in Nat, M \in Nat : HeapMapping(N, M)
  BY <1>1 DEF IInv, Mapping
<1>4. /\ PageStart(N) \in Nat /\ PageStart(M) \in Nat
      /\ PageStart(M) + KHEAP_START <= PageStart(N) + i
      /\ i < HeapEnd =>
           PageStart(M) < linear.first + KHEAP_INITIAL_SIZE + 5 * PAGE_SIZE
  BY <1>2, <1>3, HeapMappingFacts
<1>5. /\ KHEAP_START <= i /\ Aligned(i) /\ i \in Nat /\ Zeroed \in Nat
      /\ linear.first \in Nat /\ base \in Nat /\ len \in Nat /\ DOMAIN page \subseteq Nat
      /\ linear.first + KHEAP_INITIAL_SIZE + 7 * PAGE_SIZE < base + len
      /\ PAGE_SIZE \in Nat \ {0} /\ KHEAP_INITIAL_SIZE \in Nat /\ KHEAP_START \in Nat
      /\ HeapEnd \in Nat
  <2>1. KHEAP_START <= i /\ Aligned(i)
    BY <1>1 DEF IInv, Mapping
  <2> QED BY <1>2, <2>1, PagingFacts, BootMemoryAssumption, HeapPagesAt
<1>6. PICK q \in Nat : q = i \div PAGE_SIZE /\ i = PageStart(q)
  BY <1>5, PageOf
<1>7. AtMostATable
  BY <1>1 DEF AtMostATable
<1>8. CASE /\ i < HeapEnd /\ NoFreeFrames(q)
           /\ Panic("No free frames") /\ UNCHANGED << page, i >>
  <2>1. M = Zeroed
    BY <1>3, <1>5, <1>8, OutOfFrames DEF HeapMapping
  <2>2. PageStart(M) < linear.first + KHEAP_INITIAL_SIZE + 7 * PAGE_SIZE
    <3>1. PageStart(M) < linear.first + KHEAP_INITIAL_SIZE + 5 * PAGE_SIZE
      BY <1>4, <1>8
    <3> QED BY <1>4, <1>5, <3>1
  <2>3. ~BitsCleared
    BY <1>2, <2>1, <2>2, BitsMissing
  <2>4. pc' \in Stopped /\ panic' # "Insufficient memory" /\ i' = i /\ page' = page
    BY <1>8 DEF Panic, Stopped
  <2> QED BY <1>1, <1>2, <1>5, <1>7, <2>3, <2>4, EndWhileMapping
<1>9. CASE i < HeapEnd /\ page_alloc(q) /\ i' = i + PAGE_SIZE /\ Proceed(pc, q)
  <2>1. /\ Identity(N)' /\ DOMAIN page' = DOMAIN page \cup {q} /\ page'[q] \in Nat
        /\ \E L \in {M, M + 1} : FramesInOrder(L)' /\ (Zeroed <= page'[q] => L = Zeroed)
    BY <1>1, <1>2, <1>3, <1>9, IdentityKept DEF HeapMapping
  <2>2. PICK L \in {M, M + 1} : FramesInOrder(L)' /\ (Zeroed <= page'[q] => L = Zeroed)
    BY <2>1
  <2>3. L \in Nat /\ PageStart(L) <= PageStart(M) + PAGE_SIZE /\ PageStart(L) \in Nat
    <3>1. PageStart(M + 1) = PageStart(M) + PAGE_SIZE
      BY PageStarts
    <3> QED BY <1>4, <1>5, <2>2, <3>1
  <2>4. i' < HeapEnd + PAGE_SIZE /\ KHEAP_START <= i' /\ Aligned(i') /\ i' \in Nat
        /\ DOMAIN page' \subseteq Nat
    BY <1>5, <1>9, <2>1, AlignedNext
  <2>5. CASE Overwrites(page'[q]) /\ pc' = "overwritten" /\ panic' = panic
    <3>1. Zeroed <= page'[q]
      BY <1>2, <2>1, <2>5, PagingFacts, BeyondBytes
    <3>2. PageStart(L) < linear.first + KHEAP_INITIAL_SIZE + 7 * PAGE_SIZE
      BY <1>4, <1>5, <1>9, <2>3
    <3>3. ~BitsCleared
      BY <1>2, <2>2, <2>3, <3>1, <3>2, <1>5, BitsMissing
    <3>4. pc' \in Stopped
      BY <2>5 DEF Stopped
    <3> QED BY <1>1, <1>2, <1>7, <2>4, <2>5, <3>3, <3>4, EndWhileMapping
  <2>6. CASE pc' = "heap_pages" /\ panic' = panic
    <3>1. Budget'
      BY <1>1, <1>2, <2>6, PagingFacts, BudgetCarried DEF Paging
    <3>2. PageStart(L) + KHEAP_START <= PageStart(N) + i'
      BY <1>4, <1>5, <1>9, <2>3
    <3>3. \A p \in HeapPages : PageStart(p) < i' => p \in DOMAIN page'
      <4>1. ASSUME NEW p \in HeapPages, PageStart(p) < i' PROVE p \in DOMAIN page'
        <5>1. p \in Nat /\ PageStart(p) \in Nat
          BY HeapPagesAt, PageStarts
        <5>2. p <= q
          BY <1>6, <1>9, <4>1, <5>1, PagesOrdered
        <5>3. CASE p = q
          BY <2>1, <5>3
        <5>4. CASE p < q
          <6>1. PageStart(p) + PAGE_SIZE <= i
            BY <1>6, <5>1, <5>4, PageStarts
          <6>2. PageStart(p) < i
            BY <1>5, <5>1, <6>1
          <6> QED BY <1>3, <2>1, <6>2 DEF HeapMapping
        <5> QED BY <1>6, <5>1, <5>2, <5>3, <5>4
      <4> QED BY <4>1
    <3>4. HeapMapping(N, L)'
      <4>1. /\ tables # {}
            /\ IdentityLimit <= PageStart(N) /\ PageStart(N) < IdentityLimit + PAGE_SIZE
        BY <1>3 DEF HeapMapping
      <4> QED BY <1>1, <2>1, <2>2, <2>4, <2>6, <3>2, <3>3, <4>1 DEF HeapMapping, IdentityLimit
    <3>5. Mapping'
      BY <2>3, <2>4, <2>6, <3>4 DEF Mapping, Early, Stopped, PagingOn
    <3>6. Later /\ pc' \in Steps \ Stopped
      BY <1>1, <2>6 DEF Later, Early, Stopped, Steps, Paging
    <3> QED BY <1>1, <1>2, <2>4, <2>6, <3>1, <3>5, <3>6, PagingFacts, LaterKeeps
  <2> QED BY <1>1, <1>9, <2>5, <2>6 DEF Proceed, Go
<1>10. CASE i >= HeapEnd /\ Go("buffer") /\ UNCHANGED << page, i >>
  <2>1. pc' = "buffer" /\ panic' = panic /\ page' = page /\ i' = i
    BY <1>10 DEF Go
  <2>2. Budget'
    BY <1>1, <1>2, <2>1, PagingFacts, BudgetCarried DEF Paging
  <2>3. FramesInOrder(M)' /\ Identity(N)'
    <3>1. Identity(N) /\ FramesInOrder(M)
      BY <1>3 DEF HeapMapping
    <3> QED BY <1>1, <2>1, <3>1, FramesKept
  <2>4. HeapMapping(N, M)'
    <3>1. HeapEnd <= i'
      BY <1>5, <1>10
    <3> QED BY <1>1, <1>3, <2>1, <2>3, <3>1 DEF HeapMapping, IdentityLimit
  <2>5. Mapping'
    BY <2>1, <2>4 DEF Mapping, Early, Stopped, PagingOn
  <2>6. Later /\ pc' \in Steps \ Stopped
    BY <1>1, <2>1 DEF Later, Early, Stopped, Steps, Paging
  <2> QED BY <1>1, <1>2, <1>5, <2>1, <2>2, <2>5, <2>6, PagingFacts, LaterKeeps
<1> QED BY <1>6, <1>8, <1>9, <1>10 DEF MapHeap

(* The dud page.                                                           *)
LEMMA MapCloningBufferKeeps ==
    ASSUME IInv, MapCloningBuffer
    PROVE  IInv'
<1> DEFINE p == PAGE_CLONING_BUFFER \div PAGE_SIZE
<1>1. /\ pc = "buffer" /\ k' = k /\ UNCHANGED region /\ mboot' = mboot /\ i' = i
      /\ get_page(PAGE_CLONING_BUFFER)
  BY DEF MapCloningBuffer, Panic, Go, Proceed
<1>2. pc \in Paging \ {"heap"} /\ pc \in {"heap_pages", "buffer"}
  BY <1>1 DEF Paging
<1>3. PICK N \in Nat, M \in Nat : HeapMapping(N, M)
  BY <1>1 DEF IInv, Mapping
<1>4. /\ PageStart(N) \in Nat /\ PageStart(M) \in Nat
      /\ PageStart(N) < linear.first + 5 * PAGE_SIZE
      /\ linear.first + 4 * PAGE_SIZE <= PageStart(N)
      /\ PageStart(M) < linear.first + KHEAP_INITIAL_SIZE + 6 * PAGE_SIZE
  BY <1>2, <1>3, HeapMappingFacts
<1>5. /\ linear.first \in Nat /\ base \in Nat /\ len \in Nat /\ DOMAIN page \subseteq Nat
      /\ linear.first + KHEAP_INITIAL_SIZE + 7 * PAGE_SIZE < base + len
      /\ PAGE_SIZE \in Nat \ {0} /\ KHEAP_INITIAL_SIZE \in Nat /\ HeapSize \in Nat
      /\ HeapSize <= 3 * PAGE_SIZE /\ i \in Nat /\ Zeroed \in Nat
  BY <1>2, PagingFacts, BootMemoryAssumption, RegionAssumption
<1>6. PAGE_CLONING_BUFFER \in 0 .. 2 ^ W - 1 /\ p \in Nat
  <2>1. PICK m \in Nat, b \in Nat : m = 2 ^ W /\ b = PAGE_CLONING_BUFFER /\ b < m
    BY BootMemoryAssumption
  <2>2. b \div PAGE_SIZE \in Nat /\ b \in 0 .. m - 1
    BY <2>1, PageOf
  <2> QED BY <2>1, <2>2
<1> HIDE DEF p
<1>7. /\ linear' \in Linears /\ tables' \subseteq Nat
      /\ Spent(linear', tables') /\ Ascending(linear'.blocks, linear'.first)
      /\ linear.first <= linear'.first /\ linear'.first <= linear.first + PAGE_SIZE
      /\ linear'.first \in Nat
  <2>1. tables # {}
    BY <1>3 DEF HeapMapping
  <2>2. /\ linear' \in Linears /\ tables' \subseteq Nat
        /\ Spent(linear', tables') /\ Ascending(linear'.blocks, linear'.first)
        /\ linear.first <= linear'.first /\ linear'.first <= linear.first + PAGE_SIZE
    BY <1>1, <1>2, <1>6, <2>1, PagingFacts, TableMade
  <2> QED BY <2>2 DEF Linears
<1>8. AtMostATable
  BY <1>1, <1>6 DEF AtMostATable
<1>9. CASE NoFreeFrames(p) /\ Panic("No free frames") /\ UNCHANGED page
  <2>1. M = Zeroed
    BY <1>3, <1>5, <1>9, OutOfFrames DEF HeapMapping
  <2>2. PageStart(M) < linear.first + KHEAP_INITIAL_SIZE + 7 * PAGE_SIZE
    BY <1>4, <1>5
  <2>3. ~BitsCleared
    BY <1>2, <2>1, <2>2, BitsMissing
  <2>4. pc' \in Stopped /\ panic' # "Insufficient memory" /\ page' = page
    BY <1>9 DEF Panic, Stopped
  <2> QED BY <1>1, <1>2, <1>5, <1>8, <2>3, <2>4, EndWhileMapping
<1>10. CASE page_alloc(p) /\ Proceed("heap_create", p)
  <2>1. /\ Identity(N)' /\ DOMAIN page' = DOMAIN page \cup {p} /\ page'[p] \in Nat
        /\ \E L \in {M, M + 1} : FramesInOrder(L)' /\ (Zeroed <= page'[p] => L = Zeroed)
    BY <1>1, <1>2, <1>3, <1>6, <1>10, IdentityKept DEF HeapMapping
  <2>2. PICK L \in {M, M + 1} : FramesInOrder(L)' /\ (Zeroed <= page'[p] => L = Zeroed)
    BY <2>1
  <2>3. /\ L \in Nat /\ PageStart(L) \in Nat
        /\ PageStart(L) < linear.first + KHEAP_INITIAL_SIZE + 7 * PAGE_SIZE
    <3>1. PageStart(M + 1) = PageStart(M) + PAGE_SIZE
      BY PageStarts
    <3> QED BY <1>4, <1>5, <2>2, <3>1
  <2>4. DOMAIN page' \subseteq Nat
    BY <1>5, <1>6, <2>1
  <2>5. CASE Overwrites(page'[p]) /\ pc' = "overwritten" /\ panic' = panic
    <3>1. Zeroed <= page'[p]
      BY <1>2, <2>1, <2>5, PagingFacts, BeyondBytes
    <3>2. ~BitsCleared
      BY <1>2, <1>5, <2>2, <2>3, <3>1, BitsMissing
    <3>3. pc' \in Stopped
      BY <2>5 DEF Stopped
    <3> QED BY <1>1, <1>2, <1>5, <1>8, <2>4, <2>5, <3>2, <3>3, EndWhileMapping
  <2>6. CASE pc' = "heap_create" /\ panic' = panic
    <3>1. Budget'
      BY <1>1, <1>7, <2>6, BudgetCarried DEF Paging
    <3>2. PageStart(N) <= base + len /\ PageStart(L) <= base + len
      BY <1>4, <1>5, <2>3
    <3>3. \A q \in HeapPages \cup {p} : q \in DOMAIN page'
      <4>1. ASSUME NEW q \in HeapPages PROVE q \in DOMAIN page'
        <5>1. PageStart(q) < HeapEnd /\ HeapEnd <= i /\ PageStart(q) \in Nat /\ HeapEnd \in Nat
          BY <1>1, <1>3, HeapPagesAt, PageStarts DEF HeapMapping
        <5>2. PageStart(q) < i
          BY <1>5, <5>1
        <5> QED BY <1>3, <2>1, <5>2 DEF HeapMapping
      <4> QED BY <2>1, <4>1
    <3>4. /\ linear'.first + HeapSize <= PageStart(N) /\ linear'.first <= PageStart(N)
          /\ PageStart(N) < linear'.first + PAGE_SIZE * 4 + PAGE_SIZE
      BY <1>4, <1>5, <1>7
    <3>5. BootMapping(N, L)'
      <4>1. base' = base /\ len' = len
        BY <1>1 DEF region
      <4> QED BY <2>1, <2>2, <3>2, <3>3, <3>4, <4>1 DEF BootMapping, IdentityLimit, p
    <3>6. Mapping'
      BY <2>3, <2>6, <3>5 DEF Mapping, Early, Stopped, PagingOn
    <3>7. Later /\ pc' \in Steps \ Stopped
      BY <1>1, <2>6 DEF Later, Early, Stopped, Steps, Paging
    <3> QED BY <1>1, <1>5, <1>7, <2>4, <2>6, <3>1, <3>6, <3>7, LaterKeeps
  <2> QED BY <1>1, <1>10, <2>5, <2>6 DEF Proceed, Go
<1> QED BY <1>1, <1>9, <1>10 DEF MapCloningBuffer, p

(* The last linear allocation, with paging on.                             *)
LEMMA HeapCreateKeeps ==
    ASSUME IInv, heap_create
    PROVE  IInv'
<1>1. /\ pc = "heap_create" /\ pc' = "heap" /\ mboot' = mboot /\ panic' = panic
      /\ k' = k /\ UNCHANGED region /\ tables' = tables /\ page' = page /\ i' = i
      /\ linear' = kmalloc(linear, HeapSize, FALSE)
  BY DEF heap_create, Go, paging
<1>2. pc \in Paging \ {"heap"}
  BY <1>1 DEF Paging
<1>3. PICK N \in Nat, M \in Nat : BootMapping(N, M)
  BY <1>1 DEF IInv, Mapping, PagingOn
<1>4. PICK f \in Nat, h \in Nat, P \in Nat, n \in Nat :
         /\ f = linear.first /\ h = HeapSize /\ P = PAGE_SIZE /\ n = PageStart(N)
         /\ f + h <= n /\ n < f + P * 4 + P
  <2>1. /\ linear.first \in Nat /\ HeapSize \in Nat /\ PAGE_SIZE \in Nat
        /\ PageStart(N) \in Nat
    BY <1>2, PagingFacts, BootMemoryAssumption, PageStarts
  <2>2. /\ linear.first + HeapSize <= PageStart(N)
        /\ PageStart(N) < linear.first + PAGE_SIZE * 4 + PAGE_SIZE
    BY <1>1, <1>3 DEF BootMapping, IdentityLimit
  <2> QED BY <2>1, <2>2
<1>5. f + h < 2 ^ W
  <2>1. PICK m \in Nat, K \in Nat, b \in Nat, l \in Nat :
           /\ m = 2 ^ W /\ K = KHEAP_INITIAL_SIZE /\ b = base /\ l = len
           /\ f + K + 7 * P < b + l /\ b + l < m
    <3>1. /\ linear.first + KHEAP_INITIAL_SIZE + 7 * PAGE_SIZE < base + len
          /\ base + len < 2 ^ W /\ base \in Nat /\ len \in Nat
      BY <1>2, PagingFacts
    <3>2. 2 ^ W \in Nat /\ KHEAP_INITIAL_SIZE \in Nat
      BY BootMemoryAssumption
    <3> QED BY <1>4, <3>1, <3>2
  <2>2. f + h < m
    BY <1>4, <2>1
  <2> QED BY <2>1, <2>2
<1>6. /\ linear'.first = f + h /\ linear' \in Linears
      /\ linear'.blocks = Append(linear.blocks, [from |-> f, to |-> f + h])
  <2>1. Placed(linear, FALSE) = f /\ linear \in Linears
    BY <1>2, <1>4, PagingFacts DEF Placed
  <2>2. Placed(linear, FALSE) + h < 2 ^ W
    BY <1>5, <2>1
  <2>3. linear' = kmalloc(linear, h, FALSE)
    BY <1>1, <1>4
  <2>4. /\ kmalloc(linear, h, FALSE).first = f + h /\ kmalloc(linear, h, FALSE) \in Linears
        /\ kmalloc(linear, h, FALSE).blocks = Append(linear.blocks, [from |-> f, to |-> f + h])
    BY <2>1, <2>2, BlockPlaced
  <2> QED BY <2>3, <2>4
<1>7. Ascending(linear'.blocks, linear'.first) /\ base <= linear'.first
  <2>1. f + h \in Nat /\ f <= f + h
    BY <1>4
  <2>2. /\ linear.blocks \in Seq(Extents) /\ Ascending(linear.blocks, f) /\ ImageEnd <= f
        /\ base <= f /\ base \in Nat
    <3>1. ImageEnd \in Nat
      BY BootMemoryAssumption
    <3>2. /\ linear.blocks \in Seq(Extents) /\ Ascending(linear.blocks, linear.first)
          /\ base <= linear.first /\ base \in Nat /\ ImageEnd <= base
      BY <1>2, PagingFacts
    <3> QED BY <1>4, <3>1, <3>2
  <2>3. Ascending(Append(linear.blocks, [from |-> f, to |-> f + h]), f + h)
    BY <2>1, <2>2, AscendingAppend
  <2>4. base <= f + h
    BY <2>1, <2>2
  <2> QED BY <1>6, <2>3, <2>4
<1>8. Budget'
  BY <1>1, <1>7, BudgetCarried DEF Paging
<1>9. FramesInOrder(M)' /\ Identity(N)'
  <2>1. Identity(N) /\ FramesInOrder(M)
    BY <1>3 DEF BootMapping
  <2> QED BY <1>1, <2>1, FramesKept
<1>10. BootMapping(N, M)'
  <2>1. /\ linear'.first <= PageStart(N)
        /\ PageStart(N) < linear'.first + PAGE_SIZE * 4 + PAGE_SIZE
    <3>1. f + h <= n /\ n < (f + h) + P * 4 + P
      BY <1>4
    <3>2. linear'.first = f + h /\ PageStart(N) = n /\ PAGE_SIZE = P
      BY <1>4, <1>6
    <3> QED BY <3>1, <3>2
  <2>2. /\ PageStart(N) <= base + len /\ PageStart(M) <= base + len
        /\ \A p \in HeapPages \cup {PAGE_CLONING_BUFFER \div PAGE_SIZE} : p \in DOMAIN page
    BY <1>3 DEF BootMapping
  <2>3. base' = base /\ len' = len
    BY <1>1 DEF region
  <2> QED BY <1>1, <1>9, <2>1, <2>2, <2>3 DEF BootMapping, IdentityLimit
<1>11. Mapping' /\ DOMAIN page' \subseteq Nat
  BY <1>1, <1>2, <1>10, PagingFacts DEF Mapping, Early, Stopped, PagingOn
<1>12. Later /\ pc' \in Steps \ Stopped
  BY <1>1 DEF Later, Early, Stopped, Steps, Paging
<1> QED BY <1>1, <1>2, <1>6, <1>7, <1>8, <1>11, <1>12, PagingFacts, LaterKeeps
-----------------------------------------------------------------------------
(* A step that changes nothing.                                            *)
LEMMA StutteringKeeps ==
    ASSUME IInv, UNCHANGED vars
    PROVE  IInv'
<1>1. /\ mboot' = mboot /\ pc' = pc /\ panic' = panic /\ k' = k /\ base' = base
      /\ len' = len /\ total' = total /\ linear' = linear /\ tables' = tables
      /\ page' = page /\ i' = i
  BY DEF vars
<1>2. TypeOK'
  BY <1>1 DEF IInv, TypeOK
<1>3. RegionSoFar' /\ RegionChosen' /\ LargestRegionTaken'
  <2>1. RegionSoFar'
    BY <1>1, Zenon DEF IInv, RegionSoFar, NoPanic, Passed
  <2>2. RegionChosen'
    BY <1>1 DEF IInv, RegionChosen
  <2>3. LargestRegionTaken'
    BY <1>1 DEF IInv, LargestRegionTaken, Free
  <2> QED BY <2>1, <2>2, <2>3
<1>4. BlocksAscend' /\ FramesSuffice'
  <2>1. FramesSuffice'
    BY <1>1 DEF IInv, FramesSuffice, ShortOfBits, BitsCleared, Zeroed, Items, num_frames
  <2> QED BY <1>1, <2>1 DEF IInv, BlocksAscend
<1>5. Budget'
  <2>1. Items' = Items /\ AfterDirectory' = AfterDirectory
    BY <1>1 DEF Items, num_frames, AfterDirectory
  <2>2. Spent(linear, tables)' <=> Spent(linear, tables)
    BY <1>1, <2>1 DEF Spent
  <2> QED BY <1>1, <2>1, <2>2 DEF IInv, Budget
<1>6. Mapping'
  <2>1. UNCHANGED << region, page >> /\ IdentityLimit' = IdentityLimit
    BY <1>1 DEF region, IdentityLimit
  <2>2. /\ \A N : Identity(N)' <=> Identity(N)
        /\ \A M : FramesInOrder(M)' <=> FramesInOrder(M)
    BY <2>1, FramesKept
  <2>3. /\ \A n : IdentitySoFar(n)' <=> IdentitySoFar(n)
        /\ \A N, M : HeapMapping(N, M)' <=> HeapMapping(N, M)
        /\ \A N, M : BootMapping(N, M)' <=> BootMapping(N, M)
    BY <1>1, <2>1, <2>2 DEF IdentitySoFar, HeapMapping, BootMapping
  <2>4. /\ (\E n \in Nat : IdentitySoFar(n))' <=> \E n \in Nat : IdentitySoFar(n)
        /\ (\E N, M \in Nat : HeapMapping(N, M))' <=> \E N, M \in Nat : HeapMapping(N, M)
        /\ (\E N, M \in Nat : BootMapping(N, M))' <=> \E N, M \in Nat : BootMapping(N, M)
    BY <2>3
  <2>5. Mapping' <=> Mapping
    BY <1>1, <2>1, <2>4, Zenon DEF Mapping, PagingOn
  <2> QED BY <2>5 DEF IInv
<1> QED BY <1>2, <1>3, <1>4, <1>5, <1>6 DEF IInv

(* The inductive invariant: what every step of the boot preserves, until   *)
(* it stops with a panic() or with the heap in place.                      *)
THEOREM Inductive == Spec => []IInv
<1>1. ASSUME IInv, [Next]_vars PROVE IInv'
  <2>1. CASE init_panic_backtrace
    BY <1>1, <2>1, BacktraceKeeps
  <2>2. CASE CheckMap
    BY <1>1, <2>2, CheckMapKeeps
  <2>3. CASE ReadRegion
    BY <1>1, <2>3, ReadRegionKeeps
  <2>4. CASE RegionsRead
    BY <1>1, <2>4, RegionsReadKeeps
  <2>5. CASE init_frames
    BY <1>1, <2>5, InitFramesKeeps
  <2>6. CASE AllocDirectory
    BY <1>1, <2>6, AllocDirectoryKeeps
  <2>7. CASE PrepareHeap
    BY <1>1, <2>7, PrepareHeapKeeps
  <2>8. CASE IdentityMap
    BY <1>1, <2>8, IdentityMapKeeps
  <2>9. CASE MapHeap
    BY <1>1, <2>9, MapHeapKeeps
  <2>10. CASE MapCloningBuffer
    BY <1>1, <2>10, MapCloningBufferKeeps
  <2>11. CASE heap_create
    BY <1>1, <2>11, HeapCreateKeeps
  <2>12. CASE UNCHANGED vars
    BY <1>1, <2>12, StutteringKeeps
  <2> QED BY <1>1, <2>1, <2>2, <2>3, <2>4, <2>5, <2>6, <2>7, <2>8, <2>9, <2>10, <2>11,
             <2>12 DEF Next, Booted
<1> QED BY <1>1, Initially, PTL DEF Spec
-----------------------------------------------------------------------------
(* init_mem() takes the largest piece of free memory above the kernel      *)
(* image, whatever the boot loader reports, in whatever order.             *)
THEOREM RegionIsLargest == Spec => []LargestRegionTaken
<1>1. IInv => LargestRegionTaken
  BY DEF IInv
<1> QED BY <1>1, Inductive, PTL

(* page_alloc() runs out of frames during boot, or has no frame of the     *)
(* page's own number for the identity mapping, or sets a bit among its own *)
(* page tables, only if the bits that bitset_create() clears do not reach  *)
(* to what the boot needs of the chosen region.  Where they do, what       *)
(* memory holds makes no difference.                                       *)
THEOREM FramesForBoot == Spec => []FramesSuffice
<1>1. IInv => FramesSuffice
  BY DEF IInv
<1> QED BY <1>1, Inductive, PTL

(* Where the allocator stands, once there is a region.                     *)
LEMMA FirstInRegion ==
    ASSUME IInv, pc \notin Early \cup Stopped
    PROVE  base <= linear.first /\ linear.first <= base + len
<1>1. /\ TypeOK /\ RegionChosen /\ linear.first \in Nat /\ base \in Nat /\ len \in Nat
  BY DEF IInv, TypeOK, Linears
<1>2. CASE pc \in {"init_frames", "directory"}
  <2>1. linear.first = base \/ linear.first = base + Items
    BY <1>2 DEF IInv, Budget
  <2>2. /\ AfterDirectory + PageStart(TablesMax) + KHEAP_INITIAL_SIZE + 8 * PAGE_SIZE
               < base + len
        /\ Items \in Nat /\ PageStart(TablesMax) \in Nat
    BY <1>1, RegionHolds
  <2>3. base + Items <= base + len
    BY <1>1, <2>2, BootMemoryAssumption DEF AfterDirectory
  <2> QED BY <1>1, <2>1, <2>2, <2>3
<1>3. CASE pc \in Paging \ {"heap"}
  <2>1. /\ linear.first + KHEAP_INITIAL_SIZE + 7 * PAGE_SIZE < base + len
        /\ base <= linear.first
    BY <1>3, PagingFacts
  <2> QED BY <1>1, <2>1, BootMemoryAssumption
<1>4. CASE pc = "heap"
  <2>1. PICK N \in Nat, M \in Nat : BootMapping(N, M)
    BY <1>4 DEF IInv, Mapping, PagingOn
  <2>2. PageStart(N) \in Nat
    BY PageStarts
  <2>3. /\ linear.first <= PageStart(N) /\ PageStart(N) <= base + len
        /\ base <= linear.first
    BY <1>4, <2>1 DEF BootMapping, IInv, Budget
  <2> QED BY <1>1, <2>2, <2>3
<1> QED BY <1>1, <1>2, <1>3, <1>4 DEF TypeOK, Steps

(* Blocks in ascending order do not overlap, nor do they meet the image.   *)
LEMMA AscendingDisjoint ==
    ASSUME NEW top, Ascending(linear.blocks, top)
    PROVE  /\ \A m, n \in DOMAIN linear.blocks :
                 m < n => Disjoint(linear.blocks[m], linear.blocks[n])
           /\ \A b \in Blocks : b.from <= b.to /\ b.to <= top /\ Disjoint(b, Image)
<1>1. \A m, n \in DOMAIN linear.blocks :
         m < n => Disjoint(linear.blocks[m], linear.blocks[n])
  BY DEF Ascending, Disjoint
<1>2. \A n \in DOMAIN linear.blocks :
         /\ linear.blocks[n].from <= linear.blocks[n].to /\ linear.blocks[n].to <= top
         /\ Disjoint(linear.blocks[n], Image)
  BY DEF Ascending, Disjoint, Image
<1> QED BY <1>1, <1>2 DEF Blocks

(* Linear allocations overlap neither each other nor the image, and stay   *)
(* inside the region.                                                      *)
THEOREM LinearMemory == Spec => []LinearMemorySound
<1>1. ASSUME IInv PROVE LinearMemorySound
  <2>1. \E top : Ascending(linear.blocks, top)
    BY <1>1 DEF IInv, BlocksAscend
  <2>2. /\ \A m, n \in DOMAIN linear.blocks :
              m < n => Disjoint(linear.blocks[m], linear.blocks[n])
        /\ \A b \in Blocks : Disjoint(b, Image)
    BY <2>1, AscendingDisjoint
  <2>3. pc \notin {"backtrace", "mmap", "regions", "panic", "overwritten"} =>
           base <= linear.first /\ linear.first <= base + len
    BY <1>1, FirstInRegion DEF Early, Stopped
  <2> QED BY <2>2, <2>3 DEF LinearMemorySound
<1> QED BY <1>1, Inductive, PTL

(* The pages an extent lies on are before the page of its end.             *)
LEMMA PagesBefore ==
    ASSUME NEW from \in Nat, NEW to \in Nat, NEW N \in Nat, to <= PageStart(N),
           NEW p \in from \div PAGE_SIZE .. (to - 1) \div PAGE_SIZE
    PROVE  p \in 0 .. N - 1
<1>1. PICK q \in Nat : q = from \div PAGE_SIZE /\ q <= p /\ p \in Nat
  BY PageOf
<1>2. CASE to = 0
  <2>1. (-1) \div PAGE_SIZE < 0
    BY BootMemoryAssumption, SMT
  <2>2. to - 1 = -1 /\ (-1) \div PAGE_SIZE \in Int
    BY <1>2, BootMemoryAssumption
  <2> QED BY <1>1, <2>1, <2>2
<1>3. CASE to > 0
  <2>1. to - 1 \in Nat
    BY <1>3
  <2>2. PICK r \in Nat : /\ r = (to - 1) \div PAGE_SIZE /\ PageStart(r) <= to - 1
    BY <2>1, PageOf
  <2>3. PageStart(r) \in Nat /\ PageStart(N) \in Nat
    BY PageStarts
  <2>4. r < N
    BY <2>2, <2>3, PagesOrdered
  <2> QED BY <1>1, <2>2, <2>4
<1> QED BY <1>2, <1>3

(* All of it is mapped where it is, once paging is on.                     *)
THEOREM LinearMapped == Spec => []LinearMemoryMapped
<1>1. ASSUME IInv, PagingOn, NEW b \in Blocks \cup {Image},
             NEW p \in b.from \div PAGE_SIZE .. (b.to - 1) \div PAGE_SIZE
      PROVE  p \in DOMAIN page /\ page[p] = p
  <2>1. pc \notin Early \cup Stopped
    BY <1>1 DEF PagingOn, Early, Stopped
  <2>2. PICK N \in Nat, M \in Nat : BootMapping(N, M)
    BY <1>1 DEF IInv, Mapping
  <2>3. PageStart(N) \in Nat /\ linear.first \in Nat
    BY <1>1, PageStarts DEF IInv, TypeOK, Linears
  <2>4. linear.first <= PageStart(N)
    BY <2>2 DEF BootMapping
  <2>5. b.from \in Nat /\ b.to \in Nat /\ b.to <= linear.first
    <3>1. CASE b \in Blocks
      <4>1. b \in Extents
        <5>1. linear.blocks \in Seq(Extents)
          BY <1>1 DEF IInv, TypeOK, Linears
        <5>2. DOMAIN linear.blocks = 1 .. Len(linear.blocks)
          BY <5>1, LenProperties
        <5>3. \A n \in 1 .. Len(linear.blocks) : linear.blocks[n] \in Extents
          BY <5>1, ElementOfSeq
        <5> QED BY <3>1, <5>2, <5>3 DEF Blocks
      <4>2. b.to <= linear.first
        BY <1>1, <2>1, <3>1, AscendingDisjoint DEF IInv, BlocksAscend
      <4> QED BY <4>1, <4>2 DEF Extents
    <3>2. CASE b = Image
      <4>1. b.from = ImageStart /\ b.to = ImageEnd
        BY <3>2 DEF Image
      <4>2. base \in Nat /\ ImageEnd <= base /\ base <= linear.first
        BY <1>1, <2>1, FirstInRegion DEF IInv, RegionChosen, TypeOK
      <4> QED BY <2>3, <4>1, <4>2, BootMemoryAssumption
    <3> QED BY <1>1, <3>1, <3>2
  <2>6. p \in 0 .. N - 1
    BY <1>1, <2>3, <2>4, <2>5, PagesBefore
  <2> QED BY <2>2, <2>6 DEF BootMapping, Identity
<1>2. IInv => LinearMemoryMapped
  BY <1>1 DEF LinearMemoryMapped
<1> QED BY <1>2, Inductive, PTL

(* The heap's pages and the dud page come after the identity mapping,      *)
(* unless that meets the heap.                                             *)
LEMMA HeapAboveIdentity ==
    ASSUME IInv, PagingOn, IdentityLimit <= KHEAP_START, NEW N \in Nat,
           NEW M \in Nat, BootMapping(N, M),
           NEW p \in HeapPages \cup {PAGE_CLONING_BUFFER \div PAGE_SIZE}
    PROVE  p \in Nat /\ N <= p
<1>1. /\ PAGE_SIZE \in Nat \ {0} /\ KHEAP_START \in Nat /\ PAGE_CLONING_BUFFER \in Nat
      /\ KHEAP_START <= PAGE_CLONING_BUFFER /\ Aligned(KHEAP_START)
  BY BootMemoryAssumption DEF Aligned
<1>2. PICK h \in Nat : h = KHEAP_START \div PAGE_SIZE /\ KHEAP_START = PageStart(h)
  BY <1>1, PageOf
<1>3. N <= h
  <2>1. PageStart(N) < IdentityLimit + PAGE_SIZE
    BY DEF BootMapping
  <2>2. IdentityLimit \in Nat /\ PageStart(N) \in Nat
    <3>1. linear.first \in Nat
      BY DEF IInv, TypeOK, Linears
    <3>2. IdentityLimit \in Nat
      BY <1>1, <3>1 DEF IdentityLimit
    <3> QED BY <3>2, PageStarts
  <2>3. PageStart(N) < PageStart(h) + PAGE_SIZE
    BY <1>1, <1>2, <2>1, <2>2
  <2> QED BY <1>2, <2>3, PagesOrdered
<1>4. PICK d \in Nat : d = PAGE_CLONING_BUFFER \div PAGE_SIZE /\ h <= d
  <2>1. PICK d \in Nat : /\ d = PAGE_CLONING_BUFFER \div PAGE_SIZE /\ PageStart(d) \in Nat
                         /\ PAGE_CLONING_BUFFER < PageStart(d) + PAGE_SIZE
    BY <1>1, PageOf, PageStarts
  <2>2. PageStart(h) < PageStart(d) + PAGE_SIZE
    BY <1>1, <1>2, <2>1
  <2>3. h <= d
    BY <2>1, <2>2, PagesOrdered
  <2> QED BY <2>1, <2>3
<1>5. p \in HeapPages => p \in Nat /\ h <= p
  BY <1>2 DEF HeapPages
<1> QED BY <1>2, <1>3, <1>4, <1>5

(* The frames under the heap and the dud page are free memory: frames are  *)
(* numbered from address 0 on, but by then those below the region are used *)
(* up by the identity mapping, and with the cleared bits the frames follow *)
(* each other, so that the region does not end before them.                *)
THEOREM HeapFrames == Spec => []HeapFramesUsable
<1>1. ASSUME IInv, PagingOn, IdentityLimit <= KHEAP_START,
             NEW p \in HeapPages \cup {PAGE_CLONING_BUFFER \div PAGE_SIZE}
      PROVE  /\ base <= page[p] * PAGE_SIZE
             /\ page[p] < Zeroed => (page[p] + 1) * PAGE_SIZE <= base + len
  <2>1. pc \notin Early \cup Stopped
    BY <1>1 DEF PagingOn, Early, Stopped
  <2>2. PICK N \in Nat, M \in Nat : BootMapping(N, M)
    BY <1>1 DEF IInv, Mapping
  <2>3. p \in Nat /\ N <= p
    BY <1>1, <2>2, HeapAboveIdentity
  <2>4. p \in DOMAIN page /\ N <= page[p]
    BY <2>2, <2>3 DEF BootMapping, Identity
  <2>5. /\ page[p] \in Used /\ Used \subseteq Nat
        /\ M \in 0 .. Zeroed /\ (M = Zeroed \/ \A f \in Used : f < M)
    BY <2>2, <2>4 DEF BootMapping, FramesInOrder, Used
  <2>6. PICK f \in Nat : f = page[p] /\ N <= f /\ (f < Zeroed => f + 1 <= M)
    <3>1. PICK f \in Nat : f = page[p]
      BY <2>5
    <3>2. Zeroed \in Nat
      BY <1>1, ItemsBounded DEF IInv, TypeOK
    <3>3. f < Zeroed => f + 1 <= M
      BY <2>5, <3>1, <3>2
    <3> QED BY <2>4, <3>1, <3>3
  <2>7. /\ base <= linear.first /\ linear.first <= PageStart(N) /\ PageStart(M) <= base + len
    BY <1>1, <2>1, <2>2, FirstInRegion DEF BootMapping
  <2>8. base \in Nat /\ len \in Nat /\ linear.first \in Nat
    BY <1>1 DEF IInv, TypeOK, Linears
  <2>9. base <= PageStart(f)
    <3>1. PageStart(N) <= PageStart(f) /\ PageStart(N) \in Nat /\ PageStart(f) \in Nat
      BY <2>6, PageStarts, PagesOrdered
    <3> QED BY <2>7, <2>8, <3>1
  <2>10. f < Zeroed => PageStart(f + 1) <= base + len
    <3>1. ASSUME f + 1 <= M PROVE PageStart(f + 1) <= base + len
      <4>1. /\ PageStart(f + 1) <= PageStart(M) /\ PageStart(M) \in Nat
            /\ PageStart(f + 1) \in Nat
        <5>1. f + 1 \in Nat
          OBVIOUS
        <5> QED BY <3>1, <5>1, PageStarts, PagesOrdered
      <4> QED BY <2>7, <2>8, <4>1
    <3> QED BY <2>6, <3>1
  <2> QED BY <2>6, <2>9, <2>10 DEF PageStart
<1>2. IInv => HeapFramesUsable
  BY <1>1 DEF HeapFramesUsable
<1> QED BY <1>2, Inductive, PTL
=============================================================================
