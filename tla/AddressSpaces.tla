--------------------------- MODULE AddressSpaces ----------------------------
(***************************************************************************)
(* Page directories, page tables and what the pages hold: get_page(),      *)
(* clone_directory(), clone_table(), the copies through the dud page and   *)
(* switch_page_directory() of paging.c, as task_create() and task_switch() *)
(* of task.c and expand() of kheap.c use them.                             *)
(*                                                                         *)
(* A virtual address is the page table that covers it (its slot in the     *)
(* directory); each table is represented by one page.  Directory 1 is      *)
(* kernel_directory, 2 the clone init_paging() switches to, t + 2 that of  *)
(* task t.  Tables and frames are numbered in the order they are           *)
(* allocated, 0 is the null pointer and the missing frame.  The content of *)
(* a page is one value: a store into any part of the page changes it.      *)
(***************************************************************************)
EXTENDS Integers, Sequences

CONSTANTS
    MaxTasks,       \* bound: calls of task_create()
    Forks           \* whether the kernel also switches to task directories

ASSUME AddressSpacesAssumption == MaxTasks \in Nat /\ Forks \in BOOLEAN

(* The slots in use, by ascending address: the identity-mapped kernel, the *)
(* heap's first 4 MB and the rest of it, TASK_IMAGE_BASE,                  *)
(* TASK_KERNEL_STACK_BOTTOM, and TASK_USER_STACK_BOTTOM, which is also     *)
(* PAGE_CLONING_BUFFER.                                                    *)
Slots == {"low", "heap", "heap_rest", "image", "kernel_stack", "dud"}
PAGE_CLONING_BUFFER    == "dud"
TASK_USER_STACK_BOTTOM == "dud"

VARIABLES
    dirs,           \* directory |-> slot |-> table
    tables,         \* table |-> frame its page maps
    data,           \* frame |-> content
    current,        \* current_directory
    cr3,            \* the directory the processor uses
    panic           \* "none" or why the kernel stopped

vars == << dirs, tables, data, current, cr3, panic >>

kernel_directory == 1
Tasks    == 1 .. MaxTasks
DirOf(t) == t + 2
Created(t) == t \in Tasks /\ DirOf(t) <= Len(dirs)

Fresh    == << "fresh", 0 >>
Image(t) == << "image", t >>
Stack(t) == << "stack", t >>

-----------------------------------------------------------------------------
(* One call transforms the memory m, a record of dirs, tables and data.    *)
Memory == [dirs |-> dirs, tables |-> tables, data |-> data]
SetMemory(m) == dirs' = m.dirs /\ tables' = m.tables /\ data' = m.data

Mapped(m, d, slot) == m.dirs[d][slot] # 0 /\ m.tables[m.dirs[d][slot]] # 0
FrameAt(m, d, slot) == m.tables[m.dirs[d][slot]]
Read(m, d, slot) == IF Mapped(m, d, slot) THEN m.data[FrameAt(m, d, slot)]
                    ELSE << "unmapped", 0 >>

(* dir->tables[slot] = t; and with a new, empty table.                     *)
WithEntry(m, d, slot, t) == [m EXCEPT !.dirs[d][slot] = t]
NewTable(m, d, slot) ==
    [WithEntry(m, d, slot, Len(m.tables) + 1) EXCEPT !.tables = Append(@, 0)]

(* get_page() with create_missing.                                         *)
get_page(m, d, slot) == IF m.dirs[d][slot] = 0 THEN NewTable(m, d, slot) ELSE m

(* page_alloc() of the page at that address.                               *)
page_alloc(m, d, slot) ==
    IF FrameAt(m, d, slot) # 0 THEN m
    ELSE [m EXCEPT !.tables[m.dirs[d][slot]] = Len(m.data) + 1,
                   !.data = Append(@, Fresh)]

(* clone_page_to_physical() and mm_memcpy_physical(): redirect the dud     *)
(* page to the frame, and store through it.                                *)
WritePhysical(m, frame, value) ==
    [m EXCEPT !.tables[m.dirs[kernel_directory][PAGE_CLONING_BUFFER]] = frame,
              !.data[frame] = value]

(* clone_table() for the clone d: the source page is read through the      *)
(* directory the processor uses.                                           *)
MutCloneTableShares(m, d, slot, src) ==
    LET m1 == NewTable(m, d, slot)
    IN  [m1 EXCEPT !.tables[m1.dirs[d][slot]] = m.tables[src]]
MutCloneTableNoCopy(m, d, slot, src) ==
    LET m1 == NewTable(m, d, slot)
    IN  IF m.tables[src] = 0 THEN m1 ELSE page_alloc(m1, d, slot)
clone_table(m, d, slot, src) ==
    LET m1 == NewTable(m, d, slot)
        m2 == page_alloc(m1, d, slot)
    IN  IF m.tables[src] = 0 THEN m1
        ELSE WritePhysical(m2, FrameAt(m2, d, slot), Read(m, cr3, slot))

(* One iteration of clone_directory(), for the table t of the source:      *)
(* tables of the kernel are shared, the others are copied.                 *)
CloneEntry(m, d, slot, t) ==
    IF t = 0 THEN m
    ELSE IF m.dirs[kernel_directory][slot] = t THEN WithEntry(m, d, slot, t)
    ELSE clone_table(m, d, slot, t)

MutCloneSlotShares(m, d, slot, src) == WithEntry(m, d, slot, m.dirs[src][slot])
MutCloneSlotCopies(m, d, slot, src) ==
    IF m.dirs[src][slot] = 0 THEN m ELSE clone_table(m, d, slot, m.dirs[src][slot])
CloneSlot(m, d, slot, src) == CloneEntry(m, d, slot, m.dirs[src][slot])

(* A new directory d, its slots filled in ascending order.                 *)
NewDirectory(m) == [m EXCEPT !.dirs = Append(@, [slot \in Slots |-> 0])]
clone_directory(m, src) ==
    LET d  == Len(m.dirs) + 1
        m1 == CloneSlot(NewDirectory(m), d, "low", src)
        m2 == CloneSlot(m1, d, "heap", src)
        m3 == CloneSlot(m2, d, "heap_rest", src)
        m4 == CloneSlot(m3, d, "image", src)
        m5 == CloneSlot(m4, d, "kernel_stack", src)
    IN  CloneSlot(m5, d, "dud", src)

(* The page at an address, created and backed by a frame if need be.       *)
EnsurePage(m, d, slot) == page_alloc(get_page(m, d, slot), d, slot)

-----------------------------------------------------------------------------
(* init_paging(): tables for the heap, for low memory and for the dud page *)
(* in kernel_directory, a frame for each, and a clone to run on.           *)
Init ==
    LET kernel == [slot \in Slots |-> CASE slot = "heap" -> 1
                                        [] slot = "low"  -> 2
                                        [] slot = PAGE_CLONING_BUFFER -> 3
                                        [] OTHER -> 0]
    IN  /\ dirs = << kernel, kernel >>
        /\ tables = << 2, 1, 3 >>
        /\ data = << Fresh, Fresh, Fresh >>
        /\ current = 2 /\ cr3 = 2
        /\ panic = "none"

(* The kernel itself runs (as opposed to a task task_switch() entered).    *)
InKernel == panic = "none" /\ cr3 = current

(* task_create() of the next task.                                         *)
task_create ==
    /\ InKernel
    /\ Len(dirs) < DirOf(MaxTasks)
    /\ LET t  == Len(dirs) - 1
           d  == DirOf(t)
           m1 == clone_directory(Memory, current)
           m2 == EnsurePage(m1, d, "image")
           m3 == EnsurePage(m2, d, TASK_USER_STACK_BOTTOM)
           m4 == EnsurePage(m3, d, "kernel_stack")
       IN  SetMemory(WritePhysical(m4, FrameAt(m4, d, "image"), Image(t)))
    /\ UNCHANGED << current, cr3, panic >>

(* task_switch(): the start state goes to the task's user stack, then its  *)
(* directory is loaded; current_directory stays as it is.                  *)
task_switch(t) ==
    /\ panic = "none" /\ Created(t)
    /\ SetMemory(WritePhysical(Memory,
                    FrameAt(Memory, DirOf(t), TASK_USER_STACK_BOTTOM), Stack(t)))
    /\ cr3' = DirOf(t)
    /\ UNCHANGED << current, panic >>

(* The task in user mode uses its stack, or stores into its kernel stack   *)
(* page: page_alloc() makes every page accessible from user mode.          *)
TaskStores(t, slot) ==
    /\ panic = "none" /\ Created(t) /\ cr3 = DirOf(t)
    /\ data' = [data EXCEPT ![FrameAt(Memory, cr3, slot)] = Stack(t)]
    /\ UNCHANGED << dirs, tables, current, cr3, panic >>

(* The kernel heap grows past the table init_paging() made: expand() maps  *)
(* the page in kernel_directory, heap_alloc() writes a header into it.     *)
expand ==
    /\ InKernel
    /\ LET m == EnsurePage(Memory, kernel_directory, "heap_rest")
       IN  /\ SetMemory(m)
           /\ panic' = IF Mapped(m, cr3, "heap_rest") THEN "none" ELSE "page fault"
    /\ UNCHANGED << current, cr3 >>

(* switch_page_directory() as an operation of its own.  After boot nothing *)
(* in the kernel calls it yet.                                             *)
MutSwitchLoadsTable(d) ==
    /\ panic = "none" /\ Forks
    /\ current' = d /\ cr3' = dirs[d][PAGE_CLONING_BUFFER]
    /\ UNCHANGED << dirs, tables, data, panic >>
switch_page_directory(d) ==
    /\ panic = "none" /\ Forks
    /\ current' = d /\ cr3' = d
    /\ UNCHANGED << dirs, tables, data, panic >>

(* page_fault_handler() panics; or the bound is reached.                   *)
Halted == (panic # "none" \/ Len(dirs) = DirOf(MaxTasks)) /\ UNCHANGED vars

Next ==
    \/ task_create
    \/ \E t \in Tasks : task_switch(t)
    \/ \E t \in Tasks, slot \in {TASK_USER_STACK_BOTTOM, "kernel_stack"} :
            TaskStores(t, slot)
    \/ expand
    \/ \E d \in 1 .. Len(dirs) : switch_page_directory(d)
    \/ Halted

Spec == Init /\ [][Next]_vars

-----------------------------------------------------------------------------
Directories == 1 .. Len(dirs)

(* Types of the paging structures; no pointer dangles.                     *)
TypeOK ==
    /\ \A d \in Directories : dirs[d] \in [Slots -> 0 .. Len(tables)]
    /\ \A t \in 1 .. Len(tables) : tables[t] \in 0 .. Len(data)
    /\ current \in Directories /\ cr3 \in Directories
    /\ panic \in {"none", "page fault"}

(* clone_directory() of clones of clones: a table that two directories     *)
(* have in common is the kernel's, and it sits in the same slot of both.   *)
OnlyKernelTablesShared ==
    \A d, e \in Directories, s, u \in Slots :
        dirs[d][s] # 0 /\ dirs[d][s] = dirs[e][u] /\ << d, s >> # << e, u >>
            => s = u /\ dirs[d][s] = dirs[kernel_directory][s]

(* The kernel is the same in all address spaces: every directory has the   *)
(* kernel's own tables for low memory, the heap's first 4 MB and the dud   *)
(* page, through clones of clones.  The rest of the heap is the gap: there *)
(* a directory has the kernel's table or none, as expand() adds it to      *)
(* kernel_directory only, and then heap_alloc() faults on its new header.  *)
KernelInEveryDirectory ==
    \A d \in Directories :
        /\ \A s \in {"low", "heap", "dud"} : dirs[d][s] = dirs[kernel_directory][s]
        /\ dirs[d]["heap_rest"] \in {0, dirs[kernel_directory]["heap_rest"]}

(* Two tables never map one frame, whatever was cloned from whatever;      *)
(* only the dud page is an alias of other pages.                           *)
FramesPrivate ==
    \A t, u \in 1 .. Len(tables) \ {dirs[kernel_directory][PAGE_CLONING_BUFFER]} :
        tables[t] # 0 /\ tables[t] = tables[u] => t = u

(* clone_directory() is a fork: the new directory reads what the one it    *)
(* was cloned from reads (the image page is then replaced, the dud page    *)
(* redirected), and no page of an existing directory changes.              *)
CloneStep ==
    Len(dirs') > Len(dirs) =>
        LET after == [dirs |-> dirs', tables |-> tables', data |-> data']
        IN  /\ \A s \in Slots \ {"image", "dud"} :
                 Mapped(Memory, current, s) =>
                    Read(after, Len(dirs'), s) = Read(Memory, current, s)
            /\ \A d \in Directories, s \in Slots \ {"dud"} :
                 Read(after, d, s) = Read(Memory, d, s)
ClonesAreCopies == [][CloneStep]_vars

(* "user task image" and "user stack space" of the memory map are separate *)
(* ranges: a task's image stays what task_create() copied.                 *)
ImagesIntact ==
    \A t \in Tasks : Created(t) => Read(Memory, DirOf(t), "image") = Image(t)
=============================================================================
