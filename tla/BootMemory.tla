----------------------------- MODULE BootMemory -----------------------------
(***************************************************************************)
(* Memory during boot, before there is a heap: init_panic_backtrace(),     *)
(* init_mem() with its walk over the memory map, the linear allocator of   *)
(* kmalloc.c, and the allocations and mappings of init_frames(),           *)
(* init_paging() and heap_create().  Nothing runs concurrently: interrupts *)
(* are off.                                                                *)
(*                                                                         *)
(* Addresses have W bits; the addresses in the memory map have more.       *)
(* bitset_create() allocates and clears one byte of an item.  A bit beyond *)
(* those bytes is whatever memory holds: it is chosen when it is first     *)
(* read.  As nothing else is put there, it stays as it is up to the page   *)
(* directory, which begins on the next page boundary; a boot that sets a   *)
(* bit there or later overwrites its own page tables and is not followed.  *)
(***************************************************************************)
EXTENDS Integers, Sequences, FiniteSetsExt

CONSTANTS
    W,                          \* 32
    PAGE_SIZE,                  \* 4096
    PAGES_PER_TABLE,            \* 1024
    BitsPerByte, BytesPerItem,  \* 8 and 4: an item of the bitset has 32 bits
    DirectorySize,              \* sizeof(page_directory_t)
    HeapSize,                   \* sizeof(heap_t)
    ImageStart, ImageEnd,       \* the kernel image; ImageEnd is &__end
    KHEAP_START, KHEAP_INITIAL_SIZE, PAGE_CLONING_BUFFER,
    MinRegion,                  \* 16 MB
    StrtabSizes,                \* lengths of .strtab, plus 8; 0 without ELF data
    MemoryMaps                  \* what the boot loader may report

(* Sizes and addresses are numbers of W bits; the image, the heap and the  *)
(* dud page have their places, in this order.                              *)
BitsPerItem == BitsPerByte * BytesPerItem
ASSUME BootMemoryAssumption ==
    /\ 2 ^ W \in Nat \ {0} /\ PAGE_SIZE \in Nat \ {0} /\ PAGES_PER_TABLE \in Nat \ {0}
    /\ BitsPerByte \in Nat \ {0} /\ BytesPerItem \in Nat \ {0}
    /\ DirectorySize \in Nat /\ HeapSize \in Nat /\ MinRegion \in Nat
    /\ ImageStart \in Nat /\ ImageEnd \in Nat /\ KHEAP_START \in Nat
    /\ KHEAP_INITIAL_SIZE \in Nat /\ PAGE_CLONING_BUFFER \in Nat
    /\ ImageEnd % PAGE_SIZE = 0 /\ KHEAP_START % PAGE_SIZE = 0
    /\ ImageStart < ImageEnd /\ ImageEnd < 2 ^ W
    /\ KHEAP_START + KHEAP_INITIAL_SIZE <= 2 ^ W
    /\ KHEAP_START <= PAGE_CLONING_BUFFER /\ PAGE_CLONING_BUFFER < 2 ^ W

(* What the boot loader reports: entries of any size, in any order, and a  *)
(* string table that fits below the image.                                 *)
ASSUME LoaderAssumption ==
    /\ \A s \in StrtabSizes : s \in 0 .. ImageStart
    /\ \A m \in MemoryMaps : m \in Seq([addr : Nat, len : Nat, free : BOOLEAN])

(* What boot takes from the region at most: the bitset and the page tables *)
(* for all addresses, the directory, the heap and the dud page, and the    *)
(* pages lost to alignment (in the code 4.3 MB).  The region init_mem()    *)
(* insists on has that much.  A heap_t is smaller than what the margin of  *)
(* the identity mapping leaves when a table for the dud page has come from *)
(* it.                                                                     *)
BootNeeds ==
    LET pages  == (2 ^ W - 1) \div PAGE_SIZE
        items  == (pages + BitsPerItem - 1) \div BitsPerItem
        tabled == pages \div PAGES_PER_TABLE + 1
    IN  items + DirectorySize + tabled * PAGE_SIZE + KHEAP_INITIAL_SIZE + 9 * PAGE_SIZE
ASSUME RegionAssumption == BootNeeds <= MinRegion /\ HeapSize <= 3 * PAGE_SIZE

VARIABLES
    mboot,          \* what the boot loader passes
    pc,             \* the next step of the boot
    panic,          \* "" or the message of panic()
    k,              \* the entry of the memory map the loop is at
    base, len,      \* base_addr and region_len
    total,          \* mem_total_bytes
    linear,         \* the linear allocator and what came from it
    tables,         \* indices of the page tables of kernel_directory
    page,           \* page number |-> frame, for the pages that have one
    i               \* the address the loops of init_paging() are at

vars == << mboot, pc, panic, k, base, len, total, linear, tables, page, i >>
region == << base, len, total >>
paging == << tables, page, i >>

Init ==
    /\ mboot \in [valid : BOOLEAN, mmap : MemoryMaps, strtab : StrtabSizes]
    /\ pc = "backtrace" /\ panic = "" /\ k = 1
    /\ base = 0 /\ len = 0 /\ total = 0
    /\ linear = [first |-> 0, blocks |-> << >>]
    /\ tables = {} /\ page = << >> /\ i = 0

Word(n) == n % (2 ^ W)

(* __linear_kmalloc(), applied to mem_first_unused and the blocks so far.  *)
kmalloc(l, size, align) ==
    LET res == IF align /\ l.first % PAGE_SIZE # 0
               THEN Word((l.first \div PAGE_SIZE) * PAGE_SIZE + PAGE_SIZE) ELSE l.first
    IN  [first |-> Word(res + size),
         blocks |-> Append(l.blocks, [from |-> res, to |-> Word(res + size)])]

Go(next) == pc' = next /\ UNCHANGED << mboot, panic >>
Panic(message) == pc' = "panic" /\ panic' = message /\ UNCHANGED mboot
-----------------------------------------------------------------------------
(* .strtab is copied to memory of the allocator, which begins at 0: only   *)
(* init_mem() finds out where the free memory is.                          *)
init_panic_backtrace ==
    /\ pc = "backtrace" /\ Go("mmap")
    /\ linear' = IF mboot.strtab = 0 THEN linear ELSE kmalloc(linear, mboot.strtab, FALSE)
    /\ UNCHANGED << k, region, paging >>

CheckMap ==
    /\ pc = "mmap"
    /\ \/ ~mboot.valid /\ Panic("multiboot's mmap is broken")
       \/ mboot.valid /\ Go("regions")
    /\ UNCHANGED << k, region, linear, paging >>

Entry == mboot.mmap[k]
Over32Bits(e) == e.addr >= 2 ^ W \/ e.addr + e.len - 1 >= 2 ^ W \/ e.addr + e.len < 1

(* What a free entry offers: the part of it above the kernel image.        *)
MutClamped(e) ==
    IF Word(e.addr + e.len) >= ImageEnd
    THEN [base |-> e.addr, len |-> e.len] ELSE [base |-> 0, len |-> 0]
Clamped(e) ==
    LET start == IF e.addr < ImageEnd THEN ImageEnd ELSE e.addr
        end   == Word(e.addr + e.len)
    IN  IF end >= ImageEnd THEN [base |-> start, len |-> Word(end - start)]
        ELSE [base |-> 0, len |-> 0]

MutLarger(e) == Clamped(e).len > 0
Larger(e) == Clamped(e).len > len
ReadRegion ==
    /\ pc = "regions" /\ k <= Len(mboot.mmap)
    /\ UNCHANGED << linear, paging >>
    /\ \/ /\ Over32Bits(Entry)
          /\ Panic("Encountered a 64-bit memory region") /\ UNCHANGED << k, region >>
       \/ /\ ~Over32Bits(Entry)
          /\ Go("regions") /\ k' = k + 1
          /\ total' = Word(total + Entry.len)
          /\ IF Entry.free /\ Larger(Entry)
             THEN base' = Clamped(Entry).base /\ len' = Clamped(Entry).len
             ELSE UNCHANGED << base, len >>

MutBigEnough == len > 0
BigEnough == len > MinRegion
RegionsRead ==
    /\ pc = "regions" /\ k > Len(mboot.mmap)
    /\ linear' = [linear EXCEPT !.first = base]
    /\ \/ BigEnough /\ Go("init_frames")
       \/ ~BigEnough /\ Panic("Insufficient memory")
    /\ UNCHANGED << k, region, paging >>
-----------------------------------------------------------------------------
(* bitset_create() allocates and clears one byte per item, not one item    *)
(* per item: the bits of the frames from Zeroed on have any value.         *)
num_frames == total \div PAGE_SIZE
Items      == (num_frames + BitsPerItem - 1) \div BitsPerItem
Capacity   == Items * BitsPerItem
Zeroed     == Items * BitsPerByte
init_frames ==
    /\ pc = "init_frames" /\ Go("directory")
    /\ linear' = kmalloc(linear, Items, FALSE)
    /\ UNCHANGED << k, region, paging >>

(* init_paging(): the directory ...                                        *)
AllocDirectory ==
    /\ pc = "directory" /\ Go("heap_tables")
    /\ linear' = kmalloc(linear, DirectorySize, TRUE)
    /\ i' = KHEAP_START
    /\ UNCHANGED << k, region, tables, page >>

(* get_page() with create_missing.                                         *)
get_page(address) ==
    LET index == (address \div PAGE_SIZE) \div PAGES_PER_TABLE
    IN  /\ tables' = tables \cup {index}
        /\ linear' = IF index \in tables THEN linear ELSE kmalloc(linear, PAGE_SIZE, TRUE)

(* bitset_find_free(): frames are not freed during boot, so it goes on     *)
(* behind the frames in use, passing over any bits but the cleared ones.   *)
Used == { page[p] : p \in DOMAIN page }
MutFreeFrame(f) == /\ f > 0
                   /\ \A g \in Used : g < f
                   /\ \A g \in 1 .. f - 1 : g < Zeroed => g \in Used
FreeFrame(f) == (\A g \in Used : g < f) /\ \A g \in 0 .. f - 1 : g < Zeroed => g \in Used

(* page_alloc() takes such a frame unless the page has one.  There may be  *)
(* none once the cleared bits are used up: the others may all be set.      *)
FramesFor(p) == IF p \in DOMAIN page THEN {page[p]} ELSE { f \in 0 .. Capacity - 1 : FreeFrame(f) }
NoFreeFrames(p) == p \notin DOMAIN page /\ \A g \in 0 .. Zeroed - 1 : g \in Used
page_alloc(p) ==
    \E f \in FramesFor(p) :
        page' = [q \in DOMAIN page \cup {p} |-> IF q = p THEN f ELSE page[q]]

(* bitset_set() writes to the page directory, or behind it, when the       *)
(* frame's bit is there; Proceed goes on unless the page's frame did that. *)
Blocks == { linear.blocks[n] : n \in DOMAIN linear.blocks }
Overwrites(f) ==
    \E b \in Blocks :
        base + Items <= b.from /\ b.from <= base + f \div BitsPerByte
Proceed(next, p) ==
    \/ Overwrites(page'[p]) /\ pc' = "overwritten" /\ UNCHANGED << mboot, panic >>
    \/ ~Overwrites(page'[p]) /\ Go(next)

(* ... the tables of the heap ...                                          *)
HeapEnd == KHEAP_START + KHEAP_INITIAL_SIZE
PrepareHeap ==
    /\ pc = "heap_tables" /\ UNCHANGED << k, region, page >>
    /\ \/ i < HeapEnd /\ get_page(i) /\ i' = i + PAGE_SIZE /\ Go(pc)
       \/ i >= HeapEnd /\ i' = 0 /\ Go("identity") /\ UNCHANGED << linear, tables >>

(* ... the identity mapping of all memory allocated so far and four pages  *)
(* more, which insists that every page gets the frame of its own number; a *)
(* new table moves the limit up ...                                        *)
MutIdentityLimit == linear.first
IdentityLimit == linear.first + PAGE_SIZE * 4
IdentityMap ==
    LET p == i \div PAGE_SIZE
    IN  /\ pc = "identity" /\ UNCHANGED << k, region >>
        /\ \/ /\ i < IdentityLimit /\ get_page(i) /\ NoFreeFrames(p)
              /\ Panic("No free frames") /\ UNCHANGED << page, i >>
           \/ /\ i < IdentityLimit /\ get_page(i) /\ page_alloc(p) /\ page'[p] # p
              /\ Panic("Cannot identity-map lower memory") /\ UNCHANGED i
           \/ /\ i < IdentityLimit /\ get_page(i) /\ page_alloc(p) /\ page'[p] = p
              /\ i' = i + PAGE_SIZE /\ Proceed(pc, p)
           \/ /\ i >= IdentityLimit
              /\ i' = KHEAP_START /\ Go("heap_pages") /\ UNCHANGED << linear, tables, page >>

(* ... the pages of the heap ...                                           *)
MapHeap ==
    LET p == i \div PAGE_SIZE
    IN  /\ pc = "heap_pages" /\ UNCHANGED << k, region, linear, tables >>
        /\ \/ i < HeapEnd /\ NoFreeFrames(p) /\ Panic("No free frames") /\ UNCHANGED << page, i >>
           \/ i < HeapEnd /\ page_alloc(p) /\ i' = i + PAGE_SIZE /\ Proceed(pc, p)
           \/ i >= HeapEnd /\ Go("buffer") /\ UNCHANGED << page, i >>

(* ... and the dud page.  Then paging is on, and heap_create() makes the   *)
(* last linear allocation.                                                 *)
MapCloningBuffer ==
    LET p == PAGE_CLONING_BUFFER \div PAGE_SIZE
    IN  /\ pc = "buffer" /\ get_page(PAGE_CLONING_BUFFER) /\ UNCHANGED << k, region, i >>
        /\ \/ NoFreeFrames(p) /\ Panic("No free frames") /\ UNCHANGED page
           \/ page_alloc(p) /\ Proceed("heap_create", p)

heap_create ==
    /\ pc = "heap_create" /\ Go("heap")
    /\ linear' = kmalloc(linear, HeapSize, FALSE)
    /\ UNCHANGED << k, region, paging >>

Booted == pc \in {"heap", "panic", "overwritten"} /\ UNCHANGED vars

Next ==
    \/ init_panic_backtrace \/ CheckMap \/ ReadRegion \/ RegionsRead \/ init_frames
    \/ AllocDirectory \/ PrepareHeap \/ IdentityMap \/ MapHeap \/ MapCloningBuffer
    \/ heap_create \/ Booted

Spec == Init /\ [][Next]_vars /\ WF_vars(Next)
-----------------------------------------------------------------------------
Image  == [from |-> ImageStart, to |-> ImageEnd]
Disjoint(a, b) == a.to <= b.from \/ b.to <= a.from
PagingOn == pc \in {"heap_create", "heap"}
HeapPages == KHEAP_START \div PAGE_SIZE .. HeapEnd \div PAGE_SIZE - 1

(* init_mem() uses the largest piece of free memory that the map has above *)
(* the image, and gives up only when that is too small.  Not seen is       *)
(* memory up to the very end of the address space, where `end' wraps to 0. *)
Free == { e \in { mboot.mmap[n] : n \in DOMAIN mboot.mmap } :
            e.free /\ ImageEnd <= e.addr + e.len /\ e.addr + e.len < 2 ^ W }
Above(e) == IF e.addr < ImageEnd THEN e.addr + e.len - ImageEnd ELSE e.len
LargestRegionTaken ==
    /\ pc = "init_frames" =>
          \E e \in Free : /\ base = Max({e.addr, ImageEnd}) /\ len = Above(e)
                          /\ \A f \in Free : Above(f) <= len
    /\ panic = "Insufficient memory" => \A e \in Free : Above(e) <= MinRegion

(* Linear allocations overlap neither each other nor the kernel image, and *)
(* from init_frames() on they stay inside the region init_mem() chose.     *)
LinearMemorySound ==
    /\ \A m, n \in DOMAIN linear.blocks : m < n => Disjoint(linear.blocks[m], linear.blocks[n])
    /\ \A b \in Blocks : Disjoint(b, Image)
    /\ pc \notin {"backtrace", "mmap", "regions", "panic", "overwritten"} =>
          base <= linear.first /\ linear.first <= base + len

(* Once paging is on, all that was allocated before, and the allocation    *)
(* heap_create() makes after it, is mapped where it is: in this the four   *)
(* extra pages and a limit that moves while tables are added must suffice. *)
LinearMemoryMapped ==
    PagingOn =>
        \A b \in Blocks \cup {Image} :
            \A p \in b.from \div PAGE_SIZE .. (b.to - 1) \div PAGE_SIZE :
                p \in DOMAIN page /\ page[p] = p

(* The frames under the heap and the dud page are free memory, of the      *)
(* chosen region: frames are numbered as if memory had no holes, so this   *)
(* rests on the size init_mem() insists on.  (If the region starts so high *)
(* that the identity mapping meets the heap, they are the same pages.)     *)
(* Where the cleared bits are used up, a frame is behind the identity      *)
(* mapping, but as far up as the bits of the bitset go.                    *)
HeapFramesUsable ==
    PagingOn /\ IdentityLimit <= KHEAP_START =>
        \A p \in HeapPages \cup {PAGE_CLONING_BUFFER \div PAGE_SIZE} :
            /\ base <= page[p] * PAGE_SIZE
            /\ page[p] < Zeroed => (page[p] + 1) * PAGE_SIZE <= base + len

(* The boot gets through, whatever memory holds, if the cleared bits reach *)
(* to what it needs of the chosen region: the assertion in init_paging()   *)
(* holds and no frames are wanting.  Where they do not reach, either can   *)
(* stop the boot although nobody took a frame before.                      *)
BitsCleared == base + BootNeeds <= Zeroed * PAGE_SIZE
BootCompletes == (pc = "init_frames" /\ BitsCleared) ~> (pc = "heap")
=============================================================================
