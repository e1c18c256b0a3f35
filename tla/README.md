# A TLA+ model of evos

evos is a small 32-bit x86 kernel: it boots through multiboot, sets up a frame
allocator, paging and a heap, creates two user-mode tasks and switches between
them on every timer tick. This directory models its memory management, from the
memory map to the heap, its tasking, its screen and its formatted output in TLA+,
checks the models with TLC, and proves most of what they say with TLAPS. Source paths
below are relative to `src/src/` of the repository; `PROJECT.json` maps each definition
to its source lines.

## 1. The system

| component | state | operations | correct when |
|---|---|---|---|
| ordered array (`datastructs/ordered_array.c`) | storage, size, capacity, comparator | create, insert, remove, index, changed_element | sorted, no pointer lost or doubled, bounds checked |
| kernel heap (`kheap.c`) | headers and footers in memory, index of holes, `allocated_end` | create, alloc, free, expand | blocks tile the heap, index = holes, allocations disjoint and untouched |
| memory map (`mm/mem.c`) | region, total size | init_mem | the largest usable region is taken |
| kmalloc (`kmalloc.c`) | `mem_first_unused` before the heap exists | kmalloc and its variants, kfree | blocks disjoint, mapped when paging goes on; hands over to the heap |
| bitset, frame allocator (`datastructs/bitset.c`, `mm/frame.c`) | a bit per frame | set, clear, find free, alloc, free | no frame given out twice, none lost |
| page entries, boot mapping (`mm/paging.c`) | page entries, the dud page's entry | page_alloc, page_free, init_paging loops, copies through the dud page | one owner per frame, low memory identity-mapped |
| directories (`mm/paging.c`, `task/task.c`) | directories, tables, `current_directory`, `%cr3` | get_page, clone_directory, switch_page_directory | kernel tables shared, everything else private |
| tasks (`task/task.c`, `timer.c`) | task table, `current_task` | init_tasking, task_create, task_switch | the current task runs, all tasks get turns |
| interrupts (`idt.c`, `idt_asm.s`, `isr.c`) | IF, PIC state, handler table | entry stubs, common handlers, EOI | every interrupt acknowledged, handlers not interrupted |
| system calls (`syscall.c`) | - | dispatch, tty_write | a write is printed in one piece |
| boot (`boot.s`, `main.c`) | progress of the boot thread | kmain, __kmain | all tasks get created |
| monitor (`monitor.c`) | video buffer, cursor | put, write, write_status, clear | nothing is lost or overwritten before it scrolls off |
| formatting (`string.c`, `printk.c`, `usermode/printf.c`) | parser position, `_buf`, output | vsprintf, append_number, printk, printf | output can be read back and has the width asked for; buffers hold |
| TSS (`gdt.c`) | kernel stack for interrupts from user mode | write_tss | the stack is not in use by two contexts |
| panic/backtrace (`panic.c`) | copied string table | init, panic | the kernel stops |

Interaction. `kmalloc` calls the heap; the heap keeps its holes in an ordered
array and grows by `page_alloc(get_page(...))`; paging takes frames from the
bitset and gets page tables from `kmalloc`; `task_create` clones the current
directory, allocates pages and copies the image through the dud page; the timer
interrupt calls `task_switch`, which never returns to the interrupted code. All
of it runs on one processor; the only concurrency is interrupts, enabled by the
`sti` of `__kmain` and masked inside handlers by interrupt gates.

Hard behaviours: words of a block are reused as metadata of later blocks; frame
0 is both a frame and "no frame"; the dud page stays an alias of the last frame
written; a tick can come at any point of task creation; `task_switch` leaves the
handler it was called from, and abandons a half-done `__monitor_put` with it; frames
are numbered as if memory had no holes. `PROJECT.json` lists these hazards line by line.

## 2. Modules

| module | what it is |
|---|---|
| `OrderedArray` | the array's operations as operators on sequences |
| `OrderedArrayLoop` | the array as a state machine, one loop iteration per step; uses `OrderedArray` as reference |
| `HeapContract` | abstract: what callers of `heap_alloc`/`heap_free` rely on |
| `KHeap` | the heap word by word; uses `OrderedArray`, implements `HeapContract` |
| `Frames` | bitset, frame allocator, page entries, dud page |
| `AddressSpaces` | directories, tables, page contents as task creation and switching change them |
| `Tasking` | boot thread, task table, timer and device interrupts, system calls |
| `BootMemory` | memory map, linear allocator, page tables and mappings up to the creation of the heap |
| `Terminal` | abstract: a sheet of paper that characters are typed on |
| `Monitor` | the text screen, assignment by assignment; implements `Terminal` |
| `Format` | `vsprintf` character by character and digit by digit |
| `MC*` | instances for TLC |
| `OrderedArrayProofs`, `KHeapProofs`, `FramesProofs`, `AddressSpacesProofs`, `TaskingProofs`, `BootMemoryProofs`, `MonitorProofs` | theorems about the module each is named after (`OrderedArrayProofs`: about the loop) |
| `DataLemmas` | lemmas of several proofs: induction as the principle of the least number, quotients and remainders; what the operators of `OrderedArray` return: the values of the pass, and the elements listed after an insert, a remove, a change |

Operators named `Mut...` are altered versions of the definition that follows
them, each a plausible slip in the code. They are not used by the
specifications; they document which slip each property detects.

### How state and actions correspond to the code

**OrderedArrayLoop.** `array`, `size` and `MaxSize` are the fields of
`ordered_array_t`; `key` is what the comparator reads through each pointer
(`header_t_cmp` reads hole sizes), which changes while a pointer is stored. Each
call is an action; the loop of `ordered_array_changed_element` is `PassStep`.
`before` and `grown` are history variables. Storing a pointer that is already
stored is excluded: no caller does it.

**KHeap.** `mem` maps every word of the heap to its value; a header is three
words, a footer two, at the addresses the code computes. Words are never
forgotten, so stale headers inside merged holes are there to be misread. Each
call of `heap_alloc` is one action (`heap_alloc` when a hole fits,
`heap_alloc_expand` when the heap must grow, `heap_alloc_no_frames` when
`page_alloc` panics inside `expand`), and so is `heap_free`. All asserts and
panics on the path are modelled, in source order; a failed one sets `panic` and
halts. `TakeHole` is the second half of `heap_alloc` and keeps the aliasing of
`left_header` and `orig_hole_header`. `live` is history: what was asked for.
Assumptions: sizes are multiples of 4 bytes and far below 2^31, owners do not
store the magic number or outside their allocation, a fresh page does not
contain the magic number, nothing is freed twice, the heap stays within the page
table made at boot, and no interrupt handler uses the heap (none does).

**Frames.** `frames` is the set of 1 bits; the part of it that `bitset_create`
neither allocates nor clears (it passes an item count as a byte count) starts
with any content. `page` holds the present bit and frame of each entry. Entries
are numbered in the order `init_paging` maps them; `boot` counts them up.
`page_alloc` and `page_free` are offered for any page in any order, more than
today's callers do. `RedirectBuffer` is what `clone_page_to_physical` and
`mm_memcpy_physical` do to the dud page's entry. `junk` and `lost` are history.
The bits beyond the allocated part are assumed not to be overwritten by others.

**AddressSpaces.** Directories map slots (page tables) to tables, tables to
frames, frames to contents; each table is represented by one page. `cr3` differs
from `current` after `task_switch`, as in the code. A call is one action built
from operators that transform the memory as the C functions do, in their order.
`Forks` also lets the kernel switch to task directories, so that `clone_table`,
which today's callers never reach, is exercised. Heap placement of the tables
is not modelled; frames are never freed here, as in the code. The loop of
`clone_directory` is written out for the six slots, in ascending order.

**Tasking.** `cpu` is what the processor executes; `frame` what an `iret` of a
device interrupt resumes; `pic` the controllers waiting for an EOI. Boot-thread
steps are the stretches between which a tick makes a difference: in particular
`task_create` is split after "Make it live!". `task_switch` is the handler body
of the timer, `EnterTask` its final `iret`, after the `sti` in between. Entering a
task that has no directory, or is outside the table, is the absorbing mode
`wild`. Tasks make system calls at will and do not fault. `boot_stack` says
whether the boot thread's frames are intact: `tss.esp0` is the top of its own stack,
so the first interrupt from user mode overwrites them.

**BootMemory.** `mboot` is what the boot loader passes: any map of `MemoryMaps`,
valid or not, with or without a string table. The boot is one sequential thread
with interrupts off; `pc` says where it is, each iteration of a loop is a step.
`linear` holds `mem_first_unused` and, as history, the blocks handed out. Addresses
have `W` bits and wrap; the map's are wider, as `multiboot_memory_map_t`'s are.
A frame is free if its bit is cleared and not yet set; the bits from `Zeroed` on,
which `bitset_create` does not clear, have any value, chosen when `bitset_find_free`
first reads them. So a page may get any of their frames, or there may be "No free
frames", once the cleared ones are used up (`FramesFor`, `NoFreeFrames`), and the
assertion of `init_paging` is part of `IdentityMap`. From about 128 MB of memory on
the uncleared bits lie over the page directory and what follows it; a boot that sets
one of those changes its own page tables and ends as `"overwritten"` (`Proceed`).

**Monitor.** `mon` is the screen, `cur_x`, `cur_y` and the hardware cursor.
`__monitor_put(ch, k)` is the state after the first `k` of its assignments, so that
`TickInPut(k)` can stop it after any of them; a row of the screen is copied at once,
and `scroll(k, m)` says directly which rows have moved after `k` copies. The stores come
one by one in the order of the source: `cur_x++` and the `cur_x = 0` of the wrap are two,
so that a tick between them leaves `cur_x` behind the last column. A compiler that
stores `cur_x` once, with its final value, only makes fewer of these states possible.
Before `sti` texts are arbitrary characters and status texts; after it
the boot thread writes lines; after a tick only tasks write, undisturbed, since the
boot thread is gone and system calls run with interrupts off. What such texts look
like is the assumption `TextsAssumption`. `scrolled` (rows that
left the screen), `below` (rows under it in which characters were stored), `torn`
and `resumed` are history.

**Format.** `pos` is the position in the format, `buf` is `_buf` in the order it
is filled, `left` the copy of `width` that `append_number` counts down. Numbers have `W`
bits. `skip_atoi`'s result does not overflow at the widths used. The model's output
was compared with that of the compiled `string.c` on a sample of formats.

## 3. Runs

| run | bounds | result |
|---|---|---|
| `ordered_array` | 5 pointers (symmetric), 4 slots, 3 keys | passes, 150 thousand states |
| `kheap_plain` | pages of 8 words, 2 pages growing to 5, 3 index slots, sizes 1 and 7, 5 allocations | passes, 54 thousand states |
| `kheap_aligned` | 5 pages growing to 7, sizes 1 and 8, aligned or not, 4 allocations | passes, 25 thousand states |
| `frames` | 7 frames, items of 2 x 2 bits, 2 identity pages, 7 pages | passes, 330 thousand states |
| `address_spaces` | 3 tasks, directory switches allowed | passes, 50 thousand states |
| `tasking` | 4 slots, 2 or 5 tasks to create, a master and a slave device, writes of up to 2 | passes, one thousand states |
| `boot_memory` | 256 addresses, pages of 4, 8 pages per table, maps of up to 3 entries | passes, 233 thousand states |
| `monitor` | 3 rows of 4 columns, tab stops of 2, 5 texts | passes, 114 thousand states |
| `format` | 4-bit numbers, `_buf` of 8 + 1, every format of 3 characters and every directive with 8 flag combinations and 5 widths | passes, 105 thousand states |

What they show, by property: the comments above the properties in the modules say
it in words. The less obvious ones:

- `KernelInEveryDirectory`: through clones of clones every directory keeps the
  kernel's own tables for low memory, the heap's first 4 MB and the dud page.
- `KernelStackSound`, `BootThreadGone`: a tick ends the boot thread; device
  interrupts nested in any order never bring it back onto its overwritten stack.
- `LargestRegionTaken`, `HeapFramesUsable`, `BootCompletes`: how far numbering
  frames as if memory had no holes, and clearing a quarter of their bits, is harmless.
  The heap's frames begin above the identity mapping, within the region. Those with a
  cleared bit also end within it, because 16 MB of region are demanded; of the others
  nothing is promised. The boot gets through, whatever memory holds, if the cleared bits
  reach to what it needs of the region. Where they do not, as with a region that starts
  above a quarter of `mem_total_bytes`, it can fail (section 4).
- `LinearMemoryMapped`: the margin of four pages in the identity mapping is enough
  for the tables added while it is being made and for `heap_create`.
- `OnScreen`: a tick leaves `cur_x` at 80 between `cur_x++` and the wrap, or `cur_y` at 25
  between the step to a new line and the end of `scroll()`, never both. The next character
  goes to the start of the next row, in the second case to the row below the screen (also in
  the first, if the row was the last), and completing that put brings the cursor back.
  `scroll()` tests `cur_y == 25`, so this rests on the tasks' texts
  not starting with a line feed; they are `"1234\n"` and `"5678\n"`.
  It also says that the hardware cursor follows, whatever was cut short.
- `IsTerminal`: refinement of the abstract terminal; `paper`, `row` and `col` are the
  rows that left the screen followed by those on it, and the cursor counted over them.
- `NumbersReadBack`, `FieldsAligned`: against a reference that reads the printed
  field, and the width from the format, independently of the parser.

*Why the bounds are enough.* Four slots let a key move over two others in both
directions and the array fill up. Pages of 8 words are just larger than a block's
5 words of overhead, so that offsets that do and do not leave room for a hole,
exact fits, unsplittable remainders and expansion all occur within a few calls;
the index of 3 fills up. Two-bit bytes keep the ratio that matters in the bitset
(an item is several bytes, one quarter - here one half - is cleared) and 7 frames
make the last item partial. Three tasks give clones of clones. Two tasks in four
slots (the code: two in 256) make round robin skip free slots; five reach the end
of the table and the panic of `find_available_task`. Memory maps with entries below,
across and above the image, next to each other or apart, empty, reserved, ending at
and beyond the address space decide every comparison of `init_mem` both ways;
the cleared half of the bitset reaches to all, some or none of what the boot needs of the
region, and with the larger totals the uncleared half reaches the directory; the
identity mapping crosses a table boundary, which moves its own limit. Three rows let
the copying of `scroll()` be cut in the middle; four columns with stops of two reach
the last column by tab, character and status text. Four-bit numbers include the one
whose negative is itself, widths lie below, at and above the size of `_buf`.

In a full table the successor of the last slot is read past the array, and task 0
starves if the memory there looks alive, so `EveryTaskRuns` is only claimed while a
slot is free.

Type invariants are checked where they carry weight (capacities of the array, frames
within the bitset, no dangling page tables); in `Tasking`, `TypeOK` is part of the
inductive invariant and only proved.

*Deadlock* is checked in every run; panics, and reached bounds, are explicit
stuttering steps.

*Fairness* (`Tasking`). Weak fairness of the boot thread's steps, of handlers and
of system-call steps: the processor does not pause. Strong fairness of the timer
interrupt: the PIC latches the request while interrupts are masked and delivers
it when they are not. Strong fairness of entering a task: between `sti` and `iret`
there are about a dozen instructions, the timer period is 20 ms, so a tick cannot
hit that window every time. Nothing is assumed about tasks or other devices.
`BootMemory`: weak fairness of the next step, as a single thread runs with
interrupts off. The other modules state no fairness and no liveness.

## 4. Disagreements between code and its own statements

Each is a run that TLC refutes with a short trace; `PROJECT.json` quotes the
statement.

| run | what happens |
|---|---|
| `kheap_overlap` | the hole before an aligned block is recorded with size 0; freeing the block can make two live allocations overlap |
| `address_spaces_stack` | user stacks are the dud page, which aliases the newest task's image |
| `tasking_alive` | a tick inside `task_create` enters a task without directory |

More behaviours a reader should know of are part of the models, and named in the
properties as exceptions, without a run of their own:

- An aligned request can leave 1 to 20 bytes of a hole, and the assertion at
  `kheap.c:253` panics (`kheap_aligned` has such states).
- `bitset_create` clears a quarter of the bitset, so "No free frames" can come while
  frames are free (`junk` in `Frames`, `NoFreeFrames` in `BootMemory`), and with much
  memory the rest of it shares its place with the page directory (`Overwrites`).
- For the same reason the assertion of the identity mapping, which `paging.c:65` explains
  with "Check if someone called frame_alloc() before us", can stop the boot although
  nobody did. A region that starts above a quarter of `mem_total_bytes` needs identity
  pages whose frames have uncleared bits: 64 MB in all with a hole below 16 MB, for
  example. `boot_memory` has such boots; with the invariant
  `panic # "Cannot identity-map lower memory"` TLC shows one.
- Heap pages past the first 4 MB are mapped in `kernel_directory` only, and
  `heap_alloc` faults on them in the clone that is in use (`expand` in
  `AddressSpaces`).
- A free region that ends exactly at 2^32 is ignored (`LargestRegionTaken`).
- `%#64x` and `%#64b` write one character past `_buf` (`InsideBuffers`); no caller does it.
- Right-aligned numbers are always padded with zeros, since the loop over the digits
  uses up the width; `%-05d` of 7 prints `70000` (exception in `NumbersReadBack`).
- A format that ends inside a directive is read past its end (`InsideBuffers`).

One pass towards the front does not re-sort an element whose key
grew (`SortedUnlessGrown` excludes exactly that), and the left merge of
`heap_free` grows a key, so `find_hole` returns the first, not always the
smallest, hole that fits. The first tick ends the boot thread for good: tasks
not created by then are never created.

The passing runs say what remains true: without freeing aligned blocks the heap
still honours its contract until it halts; frames are never shared even with an
uncleared bitset; whatever task does run in user mode is complete and current.

## 5. Proofs

Assumptions are the named `ASSUME`s of the component modules, which TLC also
evaluates: positive capacities, integer keys, `NULL` no pointer; for the heap, page and block
sizes and addresses that are multiples of a page (`HeapAssumption`); for frames, that
the identity-mapped pages lie within the cleared part of the bitset and the dud
page is the last one mapped at boot; for tasking, at least one slot in the table; for
the screen, more than one row and column, columns a multiple of the tab stop, status
texts that fit in a line, and what is written after `sti` (`TextsAssumption`). For boot
memory: the places of image, heap and dud page in the address space
(`BootMemoryAssumption`), a string table that fits below the image (`LoaderAssumption`; the
memory map itself may say anything), and that the least region `init_mem` accepts holds the
bitset, the directory, page tables for the whole address space, the heap and nine pages
more (`RegionAssumption`): in the code that is 4.3 of 16 MB. It also bounds a `heap_t` by three pages;
it has a few words.

Every theorem is for all values of the constants. Each module proves one inductive
invariant `IInv`, from `Init` and for each action of `Next`, and takes the properties
from it. Induction over numbers goes by the least counterexample (`LeastNumber`), as
the induction theorems of the library cannot be used with these provers.

`OrderedArrayProofs`
- `TypeCorrect`, `Distinct`: inductive by themselves; `Distinct` needs
  that insertion adds a pointer that is not yet stored.
- `LeastKeyFirst`: strengthened to "during the pass, slot `i` has the least key of
  the slots from `i` on".
- `StaysSorted`: strengthened to "as long as no key grew, during the pass at most
  one element is out of place, it belongs further to the front, and the loop has not yet
  passed it" (`AtMostOneMisplaced`). A new or decreased key bubbles forward under
  it; a grown key would have to move the other way.

- `PassIsReference`: the loop, step by step, computes `ordered_array_changed_element` of
  `OrderedArray`, the operator `KHeap` uses. Invariant: with `i` slots to go, the array is
  the recursive function's value at `i` (`PassAgrees`).

`KHeapProofs`
- `HeapSound`: the invariant `IInv` says that there are a set `C` of *boundaries* and a set `I`
  of listed addresses such that two neighbours of `C` delimit a block (`Layout`), which is
  in use, a hole, or the dead part in front of an aligned block, whose header says size 0;
  holes meet only at page boundaries (`Apart`); the index lists all holes, each once, and otherwise
  only dead parts (`Indexed`); allocations and blocks in use correspond, and a dead part lies
  in front of an aligned allocation (`Owned`). The properties cannot be inductive
  themselves: they are about what headers say, while a call is only right if the
  words it takes for a header are one, and stale headers stay in memory. `C` says which
  ones are. A call changes words between two boundaries only; each part of `IInv` has a
  lemma that it survives any such change if it holds in between (`LayoutLocal` and the like).
  `heap_alloc` cuts one block in up to three (`HoleTaken`), `expand` appends one, `heap_free`
  joins up to three (`Merged`).
- The hypothesis `AlignedStay` is that page-aligned allocations are not freed, or that
  there are none. The kernel satisfies it: it asks for aligned memory for directories,
  page tables and its relocated stack only, and frees none of them. It cannot be dropped, as the run `kheap_overlap` shows:
  the dead part in front of an aligned block leads `heap_free` astray.
- Under it, `LiveBlocksStayIntact`, `LiveBlocksStayDisjoint` and `HeapImplementsContract`: the
  refinement of `HeapContract`, where each call is an allocation, a release, or a halt.
- `HeapStaysTiled`, `BlocksStayAccounted`, `HolesStayCoalesced` and `PanicsAreExhaustion` are for
  heaps without aligned requests; with them the first and the last are false, since walking the
  headers does not get past a dead part and the assertion at `kheap.c:253` can fail. The walk
  `Starts` visits exactly `C` (`StartsAreBoundaries`): by the least number, no step of it leaves
  `C`, and no boundary is the first to be missed.

`FramesProofs`
- `Inductive`: the conjunction `IInv` of the four state properties with typing
  (`TypeOK`) and auxiliary facts: an entry that is not present has no address and a
  page not mapped yet is not present (`MissingPages`), every held frame is marked
  (`HeldIsMarked`), frames nobody can free stay marked (`MarkedForever`), the low
  pages are mapped in order (`IdentityProgress`), and what the dud page's frame can
  be (`BufferFrame`, `BootLosesNothing`). None of the four is inductive alone:
  freeing a page may clear a bit only if no other page holds the frame
  (`NoSharedFrame`), and allocation keeps `NoSharedFrame` only if every held frame is
  marked; the leak bound needs to know that once the dud page has been redirected
  its frame is another page's or free.
- `FramesNotShared`, `NoFrameLost`, `CopiesLoseOneFrame`, `LowerMemoryIdentityMapped`
  follow from it; `StableMappings` is an action property proved from the same
  invariant, with one case per action.

`TaskingProofs`
- `Inductive`: the checked state properties with types and four auxiliary facts:
  `current_task` is past the table only once something outside the table has been entered
  (`CurrentInTable`), the boot thread has calls left while it makes them (`SpawnsCounted`),
  handlers run with IF clear (`HandlersMasked`), and what a device interrupt returns to
  could be interrupted (`FrameInterruptible`). The last two make the properties inductive:
  an `iret` only goes back to where interrupts were on and acknowledged. `NextTask` is the
  lemma about the round robin: it finds nothing, a live task, or the entry past the end.
- `CurrentTaskRuns`, `AllAcknowledged`, `StackSound` follow; `BootThreadStaysGone` and
  `WritesUninterrupted` are action properties, one case per action.

`AddressSpacesProofs`
- `Inductive`: `Sound` says of directories, tables and frames that nothing dangles, the
  kernel's tables are complete and in every directory, tasks have their pages, and tables
  and pages are private. `OnlyKernelTablesShared` is not inductive without the rest: a clone
  may take over a table only because being the kernel's is the same as being found in
  the kernel's directory, and a frame is only new because no table holds one that
  was not handed out.
- In between lies `Forking(m, n)`: what holds of the memory in the middle of
  `clone_directory`, when some slots are filled (`Filled`), relative to the memory it began with.
  Each iteration keeps it (`CloneSlotForks`), whichever branch it takes.
- `TablesNotShared`, `FramesNotShared`, `KernelAlwaysMapped` follow; `ForkCopies` is the
  action property that a clone reads what its original reads and no other directory
  notices.

`BootMemoryProofs`
- `Inductive`: `IInv` follows the boot from step to step. During the walk over the memory map
  the region is the largest piece that the entries so far offer (`RegionSoFar`); `ClampedFree`
  says that the clamping of `init_mem` takes exactly what is above the image.
  `BlocksAscend` has the linear allocations in order, the string table below the image and
  all others above it.
- `Spent` is the account of the region: what is allocated is bounded by the number of
  page tables made, of which addresses allow only so many. From it, and the size
  `init_mem` insists on, no allocation wraps or leaves the region (`RoomLeft`). That is
  needed before anything can be said of a mapping.
- The identity loop: page `n` has frame `n` up to where the loop is (`Identity`), and a
  table made on the way only moves the limit up (`IdentityMapKeeps`). That needs nothing of the
  bitset: a page that gets another frame stops the boot. After it there is a
  number `N` with the first `N` pages identical to their frames; the heap's pages get frames from `N` on, one each
  (`HeapMapping`), and the table for the dud page costs one of the four pages of margin, so
  three remain for `heap_create` (`BootMapping`).
- `FramesInOrder(M)`: the frames with a cleared bit are handed out in order, `M` of them so far,
  and one without a cleared bit only when they are used up. `M` stays within the
  region, as no more frames are taken than the account `Spent` allows.
- `RegionIsLargest`, `LinearMemory`, `LinearMapped`, `HeapFrames` follow, for any content of
  the uncleared bits. `FramesForBoot` says that "No free frames", the failing assertion
  of the identity mapping, and a bit set among the page tables come only if the cleared
  bits do not reach to what the boot needs of the region (`BitsCleared`):
  what remains of `BootCompletes` is that the loops end.

`MonitorProofs`
- `StaysOnScreen` (`OnScreen`), strengthened by: only the tasks write after a put was cut
  short (`OnceTorn`); the rest of a line of the boot thread fits the row it is on
  (`LineFits`), so that a wrap never meets a line feed; a text does not end in the cursor
  assignment of a status text (`StatusComes`); where a put was cut short below the screen,
  one character fits before the end of the row, and one comes (`CutShort`); where it was
  cut short behind the last column, the row is one of the screen.
- `RefinesTerminal`: `Monitor` implements `Terminal`. A put types one character, by cases:
  a character, a line feed, another control, each with or without a new row of paper, a
  new row with or without a scroll; a status text moves to the right edge; a tick tears the
  sheet off. Scrolling leaves the paper as it is (`Rowwise`).

Only model-checked:
- Liveness (`EveryTaskRuns`, `BootCompletes`), which is out of the prover's reach.
- `Format`. What `NumbersReadBack` and `FieldsAligned` say is what folds over digits
  compute, and `ShownAlike` what a filter over the output computes: induction over
  data. The bound on `_buf` in `InsideBuffers` rests on a number of `W` bits having
  at most `W` digits, and the provers know nothing of powers: `2 ^ W` is an
  unknown number to them, which is all that the other proofs need of it.

## 6. Order of work and plan

Done, in this order: ordered array, heap and its contract, frames and page
entries, address spaces, tasking; proofs for the array and for frames; the kernel
stack, boot memory, the monitor and its abstract terminal, formatting; proofs for
tasking, address spaces and the monitor with its refinement; proofs for the heap and
its contract; proofs for boot memory.

Next:
1. The nested `kmalloc` inside `expand`, composing `KHeap` and `AddressSpaces`, and
   the physical contiguity of directories.
2. A proof of `InsideBuffers`, given the laws of powers of two it needs.

## 7. Running

    tlc -config MCFrames.cfg MCFrames
    tlapm FramesProofs.tla

## 8. Not modelled

Descriptor encodings in `gdt.c` and `idt.c` (constants written once) and the table
of interrupt names; the symbol lookup and stack walk of `panic.c` (printing only);
`monitor_write_hex` and `monitor_write_dec` (no callers); port I/O and the timer
chip; register passing of system calls; the limit of 4096 characters of `printk`'s
buffer; physical addresses of heap allocations beyond their first page, which the
source itself calls broken; TLB invalidation (the code reloads `%cr3` after each
change); page protection bits (`page_alloc` makes every page accessible from user
mode); FPU state; the assembler of `boot.s` and `usermode/`. Interrupts in `KHeap`,
`Frames` and `AddressSpaces`: no handler calls into them except `task_switch`, whose
effect on task creation `Tasking` has.
