--------------------------- MODULE TaskingProofs ----------------------------
(***************************************************************************)
(* Proofs about Tasking, for every size of the task table, any number of   *)
(* tasks to create and any devices.                                        *)
(***************************************************************************)
EXTENDS Tasking, DataLemmas

(* Only a task outside the table leaves current_task past its end.         *)
CurrentInTable == ~Broken => current < MAX_NUM_TASKS

(* The boot thread counts the calls it still has to make down to 0.        *)
SpawnsCounted == pc \in {"task_create", "set_up_task"} => to_spawn > 0

(* Handlers run with interrupts off; system calls leave the PICs alone.    *)
HandlersMasked ==
    /\ cpu.mode \in {"timer", "irq", "syscall"} => ~iflag
    /\ cpu.mode = "syscall" => pic = {}

(* What a device interrupt returns to could be interrupted.                *)
FrameInterruptible ==
    cpu.mode = "irq" => frame.mode \in {"boot", "enter", "task"}

IInv ==
    /\ TypeOK /\ CurrentInTable /\ SpawnsCounted /\ HandlersMasked
    /\ FrameInterruptible
    /\ RunsCurrentTask /\ InterruptsAcknowledged /\ KernelStackSound

-----------------------------------------------------------------------------
(* find_next_task() gives -1, a live task of the table or the entry behind *)
(* the table.                                                              *)
LEMMA NextTask ==
    ASSUME TypeOK, current < MAX_NUM_TASKS, NEW beyond \in BOOLEAN
    PROVE  /\ find_next_task(beyond) \in -1 .. MAX_NUM_TASKS
           /\ find_next_task(beyond) \in Tasks => alive[find_next_task(beyond)]
<1> DEFINE found == { k \in Tasks : AliveAt(Visited(k), beyond) }
           first == CHOOSE k \in found : \A j \in found : k <= j
<1>1. CASE found = {}
  BY <1>1, TaskingAssumption DEF find_next_task, Tasks
<1>2. CASE found # {}
  <2>1. found \in SUBSET Nat
    BY TaskingAssumption DEF Tasks
  <2>2. \E k \in found : \A j \in found : k <= j
    BY <1>2, <2>1, LeastNumber
  <2>3. first \in found
    BY <2>2
  <2> HIDE DEF first
  <2>4. first \in Tasks /\ AliveAt(Visited(first), beyond)
    BY <2>3
  <2>5. find_next_task(beyond) = Visited(first)
    BY <1>2 DEF find_next_task, first
  <2>6. Visited(first) \in 0 .. MAX_NUM_TASKS
    <3>1. current + 1 \in 0 .. MAX_NUM_TASKS /\ current + 1 + first \in Nat
      BY <2>4, TaskingAssumption DEF TypeOK, Tasks
    <3>2. (current + 1 + first) % MAX_NUM_TASKS \in 0 .. MAX_NUM_TASKS - 1
      BY <3>1, Remainder, TaskingAssumption
    <3> QED BY <3>1, <3>2, TaskingAssumption DEF Visited
  <2> QED BY <2>4, <2>5, <2>6, TaskingAssumption DEF AliveAt
<1> QED BY <1>1, <1>2

(* The boot thread after `sti', before any task exists.                    *)
LEMMA InitIInv == Init => IInv
BY TaskingAssumption DEF Init, IInv, TypeOK, CurrentInTable, SpawnsCounted,
    HandlersMasked, FrameInterruptible, RunsCurrentTask, InterruptsAcknowledged,
    KernelStackSound, Boot, Doing, Broken, Contexts, Modes, PICs, Tasks, TaskOf,
    OnBootThread

(* The parts of the invariant that say what may run.                       *)
Sound ==
    /\ HandlersMasked /\ FrameInterruptible
    /\ RunsCurrentTask /\ InterruptsAcknowledged /\ KernelStackSound

(* While the boot thread runs no task does.                                *)
LEMMA BootRuns ==
    ASSUME IInv, cpu = Boot, UNCHANGED << frame, boot_stack, iflag, pic >>,
           cpu' \in {Boot, Doing("panic", -1, 0)}
    PROVE  Sound'
BY DEF Sound, IInv, HandlersMasked, FrameInterruptible, RunsCurrentTask,
    InterruptsAcknowledged, KernelStackSound, Boot, Doing, TaskOf, OnBootThread

(* The boot thread: a step of task_create(), or none.                      *)
LEMMA BootThreadIInv ==
    ASSUME IInv, int3 \/ test_kmalloc \/ init_tasking \/ task_create \/ set_up_task
    PROVE  IInv'
<1>0. /\ cpu = Boot /\ UNCHANGED << frame, boot_stack, iflag, pic >>
      /\ cpu' \in {Boot, Doing("panic", -1, 0)}
  BY DEF int3, test_kmalloc, init_tasking, task_create, set_up_task, BootStep
<1>1. Sound'
  BY <1>0, BootRuns
<1>2. TypeOK'
  <2>1. cpu' \in Contexts
    BY <1>0, TaskingAssumption DEF Boot, Doing, Contexts, Modes
  <2>2. alive' \in [Tasks -> BOOLEAN] /\ loaded' \in [Tasks -> BOOLEAN]
    BY DEF int3, test_kmalloc, init_tasking, task_create, set_up_task, table, IInv, TypeOK
  <2>3. current' \in -1 .. MAX_NUM_TASKS
    BY TaskingAssumption
       DEF int3, test_kmalloc, init_tasking, task_create, set_up_task, table, IInv, TypeOK
  <2>4. to_spawn' \in Nat
    BY DEF int3, test_kmalloc, init_tasking, task_create, set_up_task, BootStep,
           IInv, TypeOK, SpawnsCounted
  <2>5. pc' \in {"int3", "test_kmalloc", "init_tasking", "task_create", "set_up_task", "end"}
    BY DEF int3, test_kmalloc, init_tasking, task_create, set_up_task, BootStep
  <2> QED BY <1>0, <2>1, <2>2, <2>3, <2>4, <2>5 DEF IInv, TypeOK
<1>3. CurrentInTable'
  <2>1. ~Broken
    BY <1>0 DEF Boot, Doing, Broken
  <2>2. current' \in {current, -1}
    BY DEF int3, test_kmalloc, init_tasking, task_create, set_up_task, table
  <2> QED BY <2>1, <2>2, TaskingAssumption DEF IInv, CurrentInTable
<1>4. SpawnsCounted'
  BY DEF int3, test_kmalloc, init_tasking, task_create, set_up_task, BootStep,
         IInv, TypeOK, SpawnsCounted
<1> QED BY <1>1, <1>2, <1>3, <1>4 DEF IInv, Sound

(* An interrupt that leaves the task table alone.                          *)
LEMMA TimerInterruptIInv == ASSUME IInv, TimerInterrupt PROVE IInv'
<1>0. /\ cpu' = Doing("timer", -1, 0) /\ iflag' = FALSE /\ pic' = {"master"}
      /\ UNCHANGED << table, pc, to_spawn, frame >> /\ ~Broken
      /\ boot_stack' = (boot_stack /\ cpu.mode # "task")
  BY DEF TimerInterrupt, Gate, UseStack, Interruptible
<1>1. TypeOK'
  <2>1. boot_stack' \in BOOLEAN
    BY <1>0, Zenon DEF IInv, TypeOK
  <2>2. cpu' \in Contexts /\ frame' \in Contexts
    BY <1>0, TaskingAssumption DEF IInv, TypeOK, Doing, Contexts, Modes
  <2> QED BY <1>0, <2>1, <2>2 DEF IInv, TypeOK, table, PICs
<1>2. CurrentInTable' /\ SpawnsCounted'
  BY <1>0 DEF IInv, CurrentInTable, SpawnsCounted, table
<1>3. Sound'
  BY <1>0 DEF Sound, HandlersMasked, FrameInterruptible, RunsCurrentTask,
      InterruptsAcknowledged, KernelStackSound, Boot, Doing, TaskOf, OnBootThread
<1> QED BY <1>1, <1>2, <1>3 DEF IInv, Sound

(* The timer's handler: the task to enter is alive and loaded, or what is  *)
(* entered is wild.                                                        *)
LEMMA TaskSwitchIInv == ASSUME IInv, task_switch PROVE IInv'
<1>1. PICK beyond \in BOOLEAN : SwitchTo(find_next_task(beyond))
  BY DEF task_switch
<1> DEFINE next == find_next_task(beyond)
<1>2. current < MAX_NUM_TASKS
  BY DEF task_switch, IInv, CurrentInTable, Broken
<1>3. next \in -1 .. MAX_NUM_TASKS /\ (next \in Tasks => alive[next])
  BY <1>2, NextTask DEF IInv
<1> HIDE DEF next
<1>4. /\ current' = next /\ UNCHANGED << alive, loaded, pc, to_spawn, frame, boot_stack >>
      /\ pic' = {} /\ iflag' = TRUE
      /\ \/ cpu' = Doing("enter", next, 0) /\ next \in Tasks /\ loaded[next]
         \/ cpu' = Doing("wild", next, 0)
  BY <1>1 DEF task_switch, SwitchTo, next
<1>5. TypeOK'
  BY <1>3, <1>4, TaskingAssumption DEF IInv, TypeOK, Doing, Contexts, Modes, PICs
<1>6. CurrentInTable' /\ SpawnsCounted'
  BY <1>4, TaskingAssumption DEF IInv, CurrentInTable, SpawnsCounted, Broken, Doing, Tasks
<1>7. Sound'
  BY <1>3, <1>4 DEF Sound, IInv, HandlersMasked, FrameInterruptible, RunsCurrentTask,
      InterruptsAcknowledged, KernelStackSound, Boot, Doing, TaskOf, OnBootThread
<1> QED BY <1>5, <1>6, <1>7 DEF IInv, Sound

(* The jump into the task that was picked.                                 *)
LEMMA EnterTaskIInv == ASSUME IInv, NEW t \in Tasks, EnterTask(t) PROVE IInv'
<1>0. /\ cpu' = Doing("task", t, 0) /\ cpu.mode = "enter" /\ cpu.task = t
      /\ UNCHANGED << table, pc, to_spawn, frame, boot_stack, iflag, pic >>
  BY DEF EnterTask
<1>1. TypeOK'
  BY <1>0, TaskingAssumption DEF IInv, TypeOK, table, Doing, Contexts, Modes, Tasks
<1>2. CurrentInTable' /\ SpawnsCounted'
  BY <1>0 DEF IInv, CurrentInTable, SpawnsCounted, table, Broken
<1>3. Sound'
  BY <1>0 DEF Sound, IInv, HandlersMasked, FrameInterruptible, RunsCurrentTask,
      InterruptsAcknowledged, KernelStackSound, Boot, Doing, TaskOf, OnBootThread, table
<1> QED BY <1>1, <1>2, <1>3 DEF IInv, Sound

(* An interrupt of a device, from either PIC.                              *)
LEMMA DeviceInterruptIInv ==
    ASSUME IInv, NEW d \in DOMAIN Devices, DeviceInterrupt(d) PROVE IInv'
<1>0. /\ cpu' = Doing("irq", -1, 0) /\ frame' = cpu /\ iflag' = FALSE
      /\ pic' \in {PICs, {"master"}}
      /\ UNCHANGED << table, pc, to_spawn >> /\ iflag /\ ~Broken
      /\ boot_stack' = (boot_stack /\ cpu.mode # "task")
  BY DEF DeviceInterrupt, Gate, UseStack, Interruptible
<1>1. TypeOK'
  <2>1. boot_stack' \in BOOLEAN
    BY <1>0, Zenon DEF IInv, TypeOK
  <2>2. cpu' \in Contexts /\ frame' \in Contexts
    BY <1>0, TaskingAssumption DEF IInv, TypeOK, Doing, Contexts, Modes
  <2> QED BY <1>0, <2>1, <2>2 DEF IInv, TypeOK, table, PICs
<1>2. CurrentInTable' /\ SpawnsCounted'
  BY <1>0 DEF IInv, CurrentInTable, SpawnsCounted, table, Broken
<1>3. cpu.mode \in {"boot", "enter", "task"}
  <2>1. cpu.mode \in Modes
    BY DEF IInv, TypeOK, Contexts
  <2>2. cpu.mode \notin {"timer", "irq", "syscall"}
    BY <1>0, Zenon DEF IInv, HandlersMasked
  <2> QED BY <1>0, <2>1, <2>2 DEF Modes, Broken
<1>4. InterruptsAcknowledged' /\ HandlersMasked' /\ FrameInterruptible'
  BY <1>0, <1>3 DEF HandlersMasked, FrameInterruptible, InterruptsAcknowledged, Doing
<1>5. RunsCurrentTask'
  BY <1>0, <1>3 DEF IInv, RunsCurrentTask, Doing, TaskOf, table
<1>6. KernelStackSound'
  <2>1. OnBootThread' => cpu = Boot
    BY <1>0 DEF OnBootThread, Boot, Doing
  <2>2. cpu = Boot => boot_stack /\ cpu.mode # "task"
    BY DEF IInv, KernelStackSound, OnBootThread, Boot, Doing
  <2> QED BY <1>0, <2>1, <2>2, Zenon DEF KernelStackSound
<1> QED BY <1>1, <1>2, <1>4, <1>5, <1>6 DEF IInv

(* irq_common_handler() acknowledges it and returns.                       *)
LEMMA IrqHandlerIInv == ASSUME IInv, irq_common_handler PROVE IInv'
<1>0. /\ cpu.mode = "irq" /\ cpu' = frame /\ pic' = EndOfInterrupt /\ iflag' = TRUE
      /\ UNCHANGED << table, pc, to_spawn, frame, boot_stack >>
  BY DEF irq_common_handler
<1>1. pic' = {}
  BY <1>0 DEF EndOfInterrupt, IInv, TypeOK, PICs
<1>2. frame.mode \in {"boot", "enter", "task"}
  BY <1>0 DEF IInv, FrameInterruptible
<1>3. TypeOK'
  BY <1>0, <1>1 DEF IInv, TypeOK, table
<1>4. CurrentInTable' /\ SpawnsCounted'
  BY <1>0 DEF IInv, CurrentInTable, SpawnsCounted, table, Broken
<1>5. Sound'
  BY <1>0, <1>1, <1>2 DEF Sound, IInv, HandlersMasked, FrameInterruptible, RunsCurrentTask,
      InterruptsAcknowledged, KernelStackSound, Boot, Doing, TaskOf, OnBootThread, table
<1> QED BY <1>3, <1>4, <1>5 DEF IInv, Sound

(* A system call: its start, a character, its return.                      *)
LEMMA SystemCallIInv ==
    ASSUME IInv,
           \/ \E t \in Tasks, count \in 0 .. MaxWrite : syscall_handler(t, count)
           \/ tty_write \/ SyscallReturn
    PROVE  IInv'
<1>1. ASSUME NEW t \in Tasks, NEW count \in 0 .. MaxWrite, syscall_handler(t, count)
      PROVE  IInv'
  <2>0. /\ cpu.mode = "task" /\ cpu.task = t /\ cpu' = Doing("syscall", t, count)
        /\ iflag' = FALSE /\ boot_stack' = (boot_stack /\ cpu.mode # "task")
        /\ UNCHANGED << table, pc, to_spawn, frame, pic >>
    BY <1>1 DEF syscall_handler, Gate, UseStack
  <2>1. TypeOK'
    BY <2>0, TaskingAssumption DEF IInv, TypeOK, table, Doing, Contexts, Modes, Tasks
  <2>2. CurrentInTable' /\ SpawnsCounted'
    BY <2>0 DEF IInv, CurrentInTable, SpawnsCounted, table, Broken
  <2>3. Sound'
    BY <2>0 DEF Sound, IInv, HandlersMasked, FrameInterruptible, RunsCurrentTask,
        InterruptsAcknowledged, KernelStackSound, Boot, Doing, TaskOf, OnBootThread, table
  <2> QED BY <2>1, <2>2, <2>3 DEF IInv, Sound
<1>2. CASE tty_write
  <2>0. /\ cpu.mode = "syscall" /\ cpu.left > 0
        /\ cpu' = [cpu EXCEPT !.left = @ - 1]
        /\ UNCHANGED << table, pc, to_spawn, frame, boot_stack, iflag, pic >>
    BY <1>2 DEF tty_write
  <2>1. /\ cpu \in Contexts /\ cpu' \in Contexts
        /\ cpu'.mode = "syscall" /\ cpu'.task = cpu.task
    BY <2>0, TaskingAssumption DEF IInv, TypeOK, Contexts
  <2>2. TypeOK'
    BY <2>0, <2>1 DEF IInv, TypeOK, table
  <2>3. CurrentInTable' /\ SpawnsCounted'
    BY <2>0 DEF IInv, CurrentInTable, SpawnsCounted, table, Broken
  <2>4. Sound'
    BY <2>0, <2>1 DEF Sound, IInv, HandlersMasked, FrameInterruptible, RunsCurrentTask,
        InterruptsAcknowledged, KernelStackSound, Boot, Doing, TaskOf, OnBootThread, table
  <2> QED BY <2>2, <2>3, <2>4 DEF IInv, Sound
<1>3. CASE SyscallReturn
  <2>0. /\ cpu.mode = "syscall" /\ cpu' = Doing("task", cpu.task, 0) /\ iflag' = TRUE
        /\ UNCHANGED << table, pc, to_spawn, frame, boot_stack, pic >>
    BY <1>3 DEF SyscallReturn
  <2>1. TypeOK'
    BY <2>0, TaskingAssumption DEF IInv, TypeOK, table, Doing, Contexts, Modes
  <2>2. CurrentInTable' /\ SpawnsCounted'
    BY <2>0 DEF IInv, CurrentInTable, SpawnsCounted, table, Broken
  <2>3. Sound'
    BY <2>0 DEF Sound, IInv, HandlersMasked, FrameInterruptible, RunsCurrentTask,
        InterruptsAcknowledged, KernelStackSound, Boot, Doing, TaskOf, OnBootThread, table
  <2> QED BY <2>1, <2>2, <2>3 DEF IInv, Sound
<1> QED BY <1>1, <1>2, <1>3

-----------------------------------------------------------------------------
(* No step leaves the invariant.                                           *)
LEMMA NextIInv == IInv /\ [Next]_vars => IInv'
<1> SUFFICES ASSUME IInv, [Next]_vars PROVE IInv'
  OBVIOUS
<1>1. CASE Stopped \/ UNCHANGED vars
  <2>1. UNCHANGED vars
    BY <1>1 DEF Stopped
  <2>2. TypeOK' /\ CurrentInTable' /\ SpawnsCounted'
    BY <2>1 DEF vars, IInv, TypeOK, CurrentInTable, SpawnsCounted, Broken
  <2>3. HandlersMasked' /\ FrameInterruptible' /\ InterruptsAcknowledged'
    BY <2>1 DEF vars, IInv, HandlersMasked, FrameInterruptible, InterruptsAcknowledged
  <2>4. RunsCurrentTask' /\ KernelStackSound'
    BY <2>1 DEF vars, IInv, RunsCurrentTask, KernelStackSound, OnBootThread
  <2> QED BY <2>2, <2>3, <2>4 DEF IInv
<1> QED BY <1>1, BootThreadIInv, TimerInterruptIInv, TaskSwitchIInv, EnterTaskIInv,
           DeviceInterruptIInv, IrqHandlerIInv, SystemCallIInv DEF Next

(* The invariant holds in every state task_create(), task_switch(), the    *)
(* interrupt handlers and the system calls reach.                          *)
THEOREM Inductive == Spec => []IInv
BY InitIInv, NextIInv, PTL DEF Spec

(* Types of the tasking state.                                             *)
THEOREM TypeCorrect == Spec => []TypeOK
<1>1. IInv => TypeOK
  BY DEF IInv
<1> QED BY <1>1, Inductive, PTL

(* task_switch(), syscall_handler() and irq_common_handler(): the task     *)
(* that executes, or will when the handler returns, is current_task, alive *)
(* and completely set up.                                                  *)
THEOREM CurrentTaskRuns == Spec => []RunsCurrentTask
<1>1. IInv => RunsCurrentTask
  BY DEF IInv
<1> QED BY <1>1, Inductive, PTL

(* The EOIs of task_switch() and irq_common_handler() are enough: normal   *)
(* code never runs with an interrupt unacknowledged or with IF clear.      *)
THEOREM AllAcknowledged == Spec => []InterruptsAcknowledged
<1>1. IInv => InterruptsAcknowledged
  BY DEF IInv
<1> QED BY <1>1, Inductive, PTL

(* tss.esp0: nothing returns to the boot thread once its frames are gone.  *)
THEOREM StackSound == Spec => []KernelStackSound
<1>1. IInv => KernelStackSound
  BY DEF IInv
<1> QED BY <1>1, Inductive, PTL

(* task_switch() ends the boot thread for good: with it go the only steps  *)
(* that create tasks.                                                      *)
THEOREM BootThreadStaysGone == Spec => BootThreadGone
<1>1. IInv /\ [Next]_vars => [GoneStep]_vars
  <2> SUFFICES ASSUME IInv, Next, ~OnBootThread
               PROVE  ~OnBootThread' /\ UNCHANGED << alive, loaded, pc >>
    BY DEF GoneStep
  <2>0. cpu # Boot /\ ~(cpu.mode = "irq" /\ frame = Boot) /\ cpu \in Contexts
    BY DEF OnBootThread, IInv, TypeOK
  <2>1. CASE int3 \/ test_kmalloc \/ init_tasking \/ task_create \/ set_up_task
    BY <2>0, <2>1 DEF int3, test_kmalloc, init_tasking, task_create, set_up_task, BootStep
  <2>2. CASE TimerInterrupt
    BY <2>2 DEF TimerInterrupt, Gate, table, OnBootThread, Boot, Doing
  <2>3. CASE task_switch
    BY <2>3 DEF task_switch, SwitchTo, OnBootThread, Boot, Doing
  <2>4. ASSUME NEW t \in Tasks, EnterTask(t)
        PROVE  ~OnBootThread' /\ UNCHANGED << alive, loaded, pc >>
    BY <2>4 DEF EnterTask, table, OnBootThread, Boot, Doing
  <2>5. ASSUME NEW d \in DOMAIN Devices, DeviceInterrupt(d)
        PROVE  ~OnBootThread' /\ UNCHANGED << alive, loaded, pc >>
    BY <2>0, <2>5 DEF DeviceInterrupt, Gate, table, OnBootThread, Boot, Doing
  <2>6. CASE irq_common_handler
    <3>1. cpu' = frame /\ frame # Boot /\ frame.mode # "irq"
      BY <2>0, <2>6 DEF irq_common_handler, IInv, FrameInterruptible
    <3> QED BY <2>6, <3>1 DEF irq_common_handler, table, OnBootThread
  <2>7. ASSUME NEW t \in Tasks, NEW count \in 0 .. MaxWrite, syscall_handler(t, count)
        PROVE  ~OnBootThread' /\ UNCHANGED << alive, loaded, pc >>
    BY <2>7 DEF syscall_handler, Gate, table, OnBootThread, Boot, Doing
  <2>8. CASE tty_write
    <3>1. cpu'.mode = "syscall"
      BY <2>0, <2>8 DEF tty_write, Contexts
    <3> QED BY <2>8, <3>1 DEF tty_write, table, OnBootThread, Boot, Doing
  <2>9. CASE SyscallReturn
    BY <2>9 DEF SyscallReturn, table, OnBootThread, Boot, Doing
  <2>10. CASE Stopped
    BY <2>10 DEF Stopped, vars, OnBootThread
  <2> QED BY <2>1, <2>2, <2>3, <2>4, <2>5, <2>6, <2>7, <2>8, <2>9, <2>10 DEF Next
<1> QED BY <1>1, Inductive, PTL DEF Spec, BootThreadGone

(* Interrupt gates: no other code runs between tty_write() and the return  *)
(* from its system call.                                                   *)
THEOREM WritesUninterrupted == Spec => WritesAreContiguous
<1>1. IInv /\ [Next]_vars => [SyscallStep]_vars
  <2> SUFFICES ASSUME IInv, Next, cpu.mode = "syscall"
               PROVE  \/ cpu' = [cpu EXCEPT !.left = @ - 1]
                      \/ cpu.left = 0 /\ cpu' = Doing("task", cpu.task, 0)
    BY DEF SyscallStep
  <2>1. ~Interruptible
    BY Zenon DEF IInv, HandlersMasked, Interruptible
  <2>2. cpu # Boot
    BY DEF Boot, Doing
  <2>3. CASE tty_write \/ SyscallReturn
    BY <2>3 DEF tty_write, SyscallReturn
  <2>4. CASE Stopped
    BY <2>4 DEF Stopped, Broken
  <2> QED
    BY <2>1, <2>2, <2>3, <2>4
       DEF Next, int3, test_kmalloc, init_tasking, task_create, set_up_task, BootStep,
           TimerInterrupt, task_switch, EnterTask, DeviceInterrupt, irq_common_handler,
           syscall_handler
<1> QED BY <1>1, Inductive, PTL DEF Spec, WritesAreContiguous
=============================================================================
