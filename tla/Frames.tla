------------------------------- MODULE Frames -------------------------------
(***************************************************************************)
(* Physical frames and the page entries that hold them: the bitset of      *)
(* bitset.c, the frame allocator of frame.c, page_alloc(), page_free() and *)
(* the boot-time mapping loops of paging.c, and the dud page through which *)
(* clone_page_to_physical() and mm_memcpy_physical() write to a frame.     *)
(*                                                                         *)
(* A bitset is the set of the indices whose bit is 1.  Page entries are    *)
(* numbered in the order init_paging() maps them; the ones after Buffer    *)
(* belong to tasks.                                                        *)
(***************************************************************************)
EXTENDS Integers, FiniteSets

CONSTANTS
    NumFrames,      \* num_frames
    BitsPerByte,    \* 8
    BytesPerItem,   \* sizeof(uint32_t)
    IdentityPages,  \* pages init_paging() maps to the frame of the same number
    Buffer,         \* number of cloning_buffer_page, the last page of the boot
    NumPages        \* number of page entries

BitsPerItem == BitsPerByte * BytesPerItem

(* bitset_create() counts 32-bit items but passes that count to kmalloc()  *)
(* and memset(), which take bytes.                                         *)
Items    == (NumFrames + BitsPerItem - 1) \div BitsPerItem
Capacity == Items * BitsPerItem
Zeroed   == Items * BitsPerByte
Bits     == 0 .. Capacity - 1

Pages  == 0 .. NumPages - 1
Owners == Pages \ {Buffer}

ASSUME FramesAssumption ==
    /\ NumFrames \in Nat \ {0}
    /\ BitsPerByte \in Nat \ {0} /\ BytesPerItem \in Nat \ {0}
    /\ IdentityPages \in 1 .. Zeroed
    /\ Buffer \in Nat /\ IdentityPages <= Buffer
    /\ NumPages \in Nat /\ Buffer < NumPages

VARIABLES
    frames,     \* the bitset: frames that are not free
    page,       \* page number |-> its entry
    boot,       \* the next page init_paging() maps; Buffer + 1 when it is done
    panic,      \* "" while the kernel runs, else why it stopped
    junk,       \* history: the bits that were 1 when the bitset was created
    lost        \* history: frames in use that nothing maps any more

vars == << frames, page, boot, panic, junk, lost >>

(* bitset_set() and bitset_clear() ignore an index past the last item.     *)
bitset_set(s, i)   == IF i \in Bits THEN s \cup {i} ELSE s
bitset_clear(s, i) == IF i \in Bits THEN s \ {i} ELSE s

(* bitset_find_free() returns f, or finds nothing.                         *)
MutFindFreeAnyInItem(f) ==
    f \in Bits /\ ~(\A g \in Bits : g \div BitsPerItem = f \div BitsPerItem => g \in frames)
MutFindFreeFromOne(f) ==
    f \in Bits \ (frames \cup {0}) /\ \A g \in 1 .. f - 1 : g \in frames
bitset_find_free(f) ==
    f \in Bits \ frames /\ \A g \in 0 .. f - 1 : g \in frames
bitset_full == Bits \subseteq frames

MutFrameFreeNever(s, f) == s
frame_free(s, f) == IF f # 0 THEN bitset_clear(s, f) ELSE s

NoPage == [present |-> FALSE, address |-> 0]
-----------------------------------------------------------------------------
(* After init_frames() and the memset() of the page tables.  The bits the  *)
(* memset() misses are whatever the memory held.                           *)
Init ==
    /\ junk \in SUBSET (Zeroed .. Capacity - 1)
    /\ frames = junk
    /\ page = [p \in Pages |-> NoPage]
    /\ boot = 0 /\ panic = "" /\ lost = {}

(* The loops of init_paging() are over.                                    *)
MutBootDoneLate == boot > Buffer + 1
BootDone == boot > Buffer

(* frame_alloc() stores the frame in the entry of page p.                  *)
MapNewFrame(p, f) ==
    /\ bitset_find_free(f)
    /\ frames' = bitset_set(frames, f)
    /\ page' = [page EXCEPT ![p] = [present |-> TRUE, address |-> f]]

NoFreeFrames ==
    /\ bitset_full
    /\ panic' = "No free frames"
    /\ UNCHANGED << frames, page >>

(* init_paging() maps the next page: the low pages to the frames of the    *)
(* same numbers, which it asserts, then the heap's pages and the buffer.   *)
MapBootPage ==
    /\ panic = "" /\ ~BootDone
    /\ boot' = boot + 1
    /\ UNCHANGED << junk, lost >>
    /\ \/ \E f \in Bits :
            /\ MapNewFrame(boot, f)
            /\ panic' = IF boot < IdentityPages /\ f # boot
                        THEN "Cannot identity-map lower memory" ELSE ""
       \/ NoFreeFrames

(* page_alloc() once the kernel runs; an entry with an address is kept.    *)
MutPageAllocAgain(p) ==
    /\ panic = "" /\ BootDone
    /\ \E f \in Bits : MapNewFrame(p, f)
    /\ UNCHANGED << boot, junk, lost, panic >>
page_alloc(p) ==
    /\ panic = "" /\ BootDone
    /\ UNCHANGED << boot, junk, lost >>
    /\ \/ page[p].address # 0 /\ UNCHANGED << frames, page, panic >>
       \/ /\ page[p].address = 0
          /\ \E f \in Bits : MapNewFrame(p, f)
          /\ UNCHANGED panic
       \/ page[p].address = 0 /\ NoFreeFrames

(* page_free() of an entry other than the kernel's own buffer.             *)
page_free(p) ==
    /\ panic = "" /\ BootDone
    /\ frames' = frame_free(frames, page[p].address)
    /\ page' = [page EXCEPT ![p] = NoPage]
    /\ UNCHANGED << boot, panic, junk, lost >>

Held == { page[p].address : p \in { q \in Owners : page[q].present } }

MutRedirectThenUnmap(p) ==
    /\ panic = "" /\ BootDone
    /\ page[p].address # 0
    /\ page' = [page EXCEPT ![Buffer] = NoPage]
    /\ lost' = lost \cup ({page[Buffer].address} \cap (frames \ (Held \cup {0})))
    /\ UNCHANGED << frames, boot, panic, junk >>

(* clone_page_to_physical() and mm_memcpy_physical() into the frame of     *)
(* page p, which the caller got from page_alloc() (task_switch() passes    *)
(* the buffer's own): the buffer's entry is redirected and stays that way. *)
RedirectBuffer(p) ==
    /\ panic = "" /\ BootDone
    /\ page[p].address # 0
    /\ page' = [page EXCEPT ![Buffer] = [present |-> TRUE, address |-> page[p].address]]
    /\ lost' = lost \cup (({page[Buffer].address} \ {page[p].address})
                             \cap (frames \ Held))
    /\ UNCHANGED << frames, boot, panic, junk >>

Halted == panic # "" /\ UNCHANGED vars

Next ==
    \/ MapBootPage
    \/ \E p \in Pages : page_alloc(p)
    \/ \E p \in Owners : page_free(p)
    \/ \E p \in Pages : RedirectBuffer(p)
    \/ Halted

Spec == Init /\ [][Next]_vars
-----------------------------------------------------------------------------
(* Types of the allocator's state.                                         *)
TypeOK ==
    /\ frames \in SUBSET Bits
    /\ page \in [Pages -> [present : BOOLEAN, address : Bits]]
    /\ boot \in 0 .. Buffer + 1
    /\ panic \in {"", "No free frames", "Cannot identity-map lower memory"}
    /\ junk \in SUBSET Bits
    /\ lost \in SUBSET Bits

(* No two page entries ever map one frame, in any order of page_alloc(),   *)
(* page_free() and copies through the buffer (the buffer's own entry is    *)
(* redirected to other pages' frames on purpose).                          *)
NoSharedFrame ==
    \A p, q \in Owners :
        page[p].present /\ page[q].present /\ page[p].address = page[q].address
            => p = q

(* No frame gets lost or is freed early: a frame is marked in use exactly  *)
(* when a page holds it, except frame 0 (which frame_free() takes for "no  *)
(* frame"), the bits bitset_create() left set, and the buffer's frames.    *)
FramesAccounted ==
    /\ Held \subseteq frames
    /\ frames \subseteq Held \cup junk \cup lost \cup {0, page[Buffer].address}

(* Redirecting the buffer leaks only the frame the buffer had at boot,     *)
(* however many pages are cloned later.                                    *)
BufferLeaksOneFrame == \A f, g \in lost : f = g

(* The assert in init_paging(): with the first IdentityPages bits cleared  *)
(* by bitset_create(), lower memory is identity-mapped.                    *)
IdentityMapped == panic # "Cannot identity-map lower memory"

(* A frame that a page holds changes hands only through that page's own    *)
(* page_free(): no step remaps a page to another frame.  Page 0 is the     *)
(* exception, its frame number 0 looks like a missing page.                *)
KeepsMappings ==
    \A p \in Owners \ {0} : page[p].present => page'[p] \in {page[p], NoPage}
MappingsAreStable == [][KeepsMappings]_vars
=============================================================================
