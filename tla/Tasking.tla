------------------------------ MODULE Tasking -------------------------------
(***************************************************************************)
(* Task creation, preemption and system calls: task.c, timer.c, syscall.c, *)
(* the interrupt entry and exit of idt_asm.s and idt.c, and the part of    *)
(* main.c that runs after `sti'.                                           *)
(*                                                                         *)
(* One processor executes, in turns, the boot thread, tasks in user mode   *)
(* and interrupt handlers.  Interrupts are taken when the IF flag is set   *)
(* and the interrupt controller (PIC) waits for no end-of-interrupt (EOI)  *)
(* command.  Interrupt gates clear IF; iret sets it again.  task_switch()  *)
(* never returns to what the timer interrupted, and saves nothing of it.   *)
(***************************************************************************)
EXTENDS Integers, FiniteSets

CONSTANTS
    MAX_NUM_TASKS,  \* slots of the task table
    Spawns,         \* the numbers of tasks __kmain() may create (the code: 2)
    Devices,        \* device |-> "master" or "slave", the PIC it is wired to
    MaxWrite        \* bound: characters of one tty_write()

Tasks == 0 .. MAX_NUM_TASKS - 1
PICs  == {"master", "slave"}

ASSUME TaskingAssumption ==
    /\ MAX_NUM_TASKS \in Nat \ {0} /\ Spawns \subseteq Nat /\ MaxWrite \in Nat
    /\ Devices \in [DOMAIN Devices -> PICs]

VARIABLES
    alive,      \* tasks[t].alive
    loaded,     \* tasks[t] has its directory, its pages and its image
    current,    \* current_task, -1 for its 32-bit wrap-around
    pc,         \* what the boot thread does next
    to_spawn,   \* calls of task_create() the boot thread has still to make
    cpu,        \* what the processor executes
    frame,      \* what the interrupted iret frame on the stack resumes
    boot_stack, \* the boot thread's frames are still on its stack
    iflag,      \* the processor's IF flag
    pic         \* the PICs that wait for an EOI

vars == << alive, loaded, current, pc, to_spawn, cpu, frame, boot_stack, iflag, pic >>

table == << alive, loaded, current >>

(* What the processor executes: `task' and `left' matter in the modes that *)
(* belong to a task; `left' is what tty_write() still has to print.        *)
Doing(mode, task, left) == [mode |-> mode, task |-> task, left |-> left]
Boot   == Doing("boot", -1, 0)
Broken == cpu.mode \in {"wild", "panic"}

Init ==
    /\ alive = [t \in Tasks |-> FALSE] /\ loaded = [t \in Tasks |-> FALSE]
    /\ current = 0              \* static storage
    /\ pc = "int3" /\ to_spawn \in Spawns
    /\ cpu = Boot /\ frame = Boot /\ boot_stack = TRUE
    /\ iflag = TRUE /\ pic = {}
-----------------------------------------------------------------------------
(* The boot thread.  Each step can be followed by an interrupt.            *)
BootStep(from, to) ==
    /\ cpu = Boot /\ pc = from /\ pc' = to
    /\ UNCHANGED << frame, boot_stack, iflag, pic >>

(* "int $0x3" prints and returns; test_kmalloc() works on the heap only.   *)
int3         == BootStep("int3", "test_kmalloc") /\ UNCHANGED << table, to_spawn, cpu >>
test_kmalloc == BootStep("test_kmalloc", "init_tasking") /\ UNCHANGED << table, to_spawn, cpu >>

init_tasking ==
    /\ BootStep("init_tasking", IF to_spawn = 0 THEN "end" ELSE "task_create")
    /\ current' = -1
    /\ UNCHANGED << alive, loaded, to_spawn, cpu >>

find_available_task(t) == ~alive[t] /\ \A u \in 0 .. t - 1 : alive[u]

(* task_create() up to "Make it live!" ...                                 *)
task_create ==
    /\ BootStep("task_create", "set_up_task")
    /\ \/ \E t \in Tasks :
            /\ find_available_task(t)
            /\ alive' = [alive EXCEPT ![t] = TRUE]
            /\ loaded' = [loaded EXCEPT ![t] = FALSE]
            /\ cpu' = cpu
       \/ /\ \A t \in Tasks : alive[t]
          /\ cpu' = Doing("panic", -1, 0)
          /\ UNCHANGED << alive, loaded >>
    /\ UNCHANGED << current, to_spawn >>

(* ... and from there to its return: the page directory, the pages, the    *)
(* copy of the image.                                                      *)
set_up_task ==
    /\ BootStep("set_up_task", IF to_spawn = 1 THEN "end" ELSE "task_create")
    /\ loaded' = alive
    /\ to_spawn' = to_spawn - 1
    /\ UNCHANGED << alive, current, cpu >>
-----------------------------------------------------------------------------
(* An interrupt gate: the context goes to the stack, IF is cleared.  From  *)
(* user mode the stack is the one the TSS names, whose top is where        *)
(* __kmain() began: it is the boot thread's own stack.                     *)
UseStack == boot_stack' = (boot_stack /\ cpu.mode # "task")
MutGateLeavesIF(mode, task, left) ==
    /\ cpu' = Doing(mode, task, left)
    /\ UseStack
    /\ UNCHANGED iflag
Gate(mode, task, left) ==
    /\ cpu' = Doing(mode, task, left)
    /\ UseStack
    /\ iflag' = FALSE

Interruptible == iflag /\ pic = {} /\ ~Broken

(* IRQ 0 is delivered ...                                                  *)
TimerInterrupt ==
    /\ Interruptible
    /\ Gate("timer", -1, 0)
    /\ pic' = {"master"}
    /\ UNCHANGED << table, pc, to_spawn, frame >>

(* find_next_task().  The first slot it looks at is current_task + 1,      *)
(* which is past the table when the last slot is running; what is there is *)
(* whatever the memory after the table holds (beyond).                     *)
Visited(k) == IF k = 0 THEN current + 1 ELSE (current + 1 + k) % MAX_NUM_TASKS
AliveAt(i, beyond) == IF i \in Tasks THEN alive[i] ELSE beyond
MutFindNextTaskFromZero(beyond) ==
    IF \E t \in Tasks : alive[t]
    THEN CHOOSE t \in Tasks : alive[t] /\ \A u \in 0 .. t - 1 : ~alive[u]
    ELSE -1
find_next_task(beyond) ==
    LET found == { k \in Tasks : AliveAt(Visited(k), beyond) }
    IN  IF found = {} THEN -1
        ELSE Visited(CHOOSE k \in found : \A j \in found : k <= j)

(* The task to enter becomes current.  If it is none, or has no directory  *)
(* yet, what gets loaded into %cr3 and %esp is arbitrary.                  *)
MutSwitchToKeepsCurrent(next) ==
    /\ UNCHANGED current
    /\ cpu' = Doing(IF next \in Tasks /\ loaded[next] THEN "enter" ELSE "wild", next, 0)
SwitchTo(next) ==
    /\ current' = next
    /\ cpu' = Doing(IF next \in Tasks /\ loaded[next] THEN "enter" ELSE "wild", next, 0)

(* ... and timer_callback() calls task_switch(): both PICs get their EOI,  *)
(* and from its `sti' on the switch itself can be interrupted.             *)
task_switch ==
    /\ cpu.mode = "timer"
    /\ \E beyond \in BOOLEAN : SwitchTo(find_next_task(beyond))
    /\ pic' = {}
    /\ iflag' = TRUE
    /\ UNCHANGED << alive, loaded, pc, to_spawn, frame, boot_stack >>

(* The `iret' that ends task_switch(): the task starts at its entry point. *)
EnterTask(t) ==
    /\ cpu.mode = "enter" /\ cpu.task = t
    /\ cpu' = Doing("task", t, 0)
    /\ UNCHANGED << table, pc, to_spawn, frame, boot_stack, iflag, pic >>

(* Any other IRQ: nobody registered a handler for it.  The processor       *)
(* acknowledges it on the master alone or through both PICs.               *)
MutDeviceInterruptNoFrame(d) ==
    /\ Interruptible
    /\ UNCHANGED frame
    /\ Gate("irq", -1, 0)
    /\ pic' = IF Devices[d] = "slave" THEN PICs ELSE {"master"}
    /\ UNCHANGED << table, pc, to_spawn >>
DeviceInterrupt(d) ==
    /\ Interruptible
    /\ frame' = cpu
    /\ Gate("irq", -1, 0)
    /\ pic' = IF Devices[d] = "slave" THEN PICs ELSE {"master"}
    /\ UNCHANGED << table, pc, to_spawn >>

(* irq_common_handler() tells the slave only if the slave was involved.    *)
MutEndOfInterruptMaster == pic \ {"master"}
EndOfInterrupt == IF "slave" \in pic THEN pic \ {"slave", "master"} ELSE pic \ {"master"}
irq_common_handler ==
    /\ cpu.mode = "irq"
    /\ pic' = EndOfInterrupt
    /\ cpu' = frame
    /\ iflag' = TRUE
    /\ UNCHANGED << table, pc, to_spawn, frame, boot_stack >>
-----------------------------------------------------------------------------
(* A task executes "int $0x80": tty_write() of some characters, the null   *)
(* system call or an invalid one (both without characters).                *)
syscall_handler(t, count) ==
    /\ cpu.mode = "task" /\ cpu.task = t
    /\ Gate("syscall", t, count)
    /\ UNCHANGED << table, pc, to_spawn, frame, pic >>

tty_write ==
    /\ cpu.mode = "syscall" /\ cpu.left > 0
    /\ cpu' = [cpu EXCEPT !.left = @ - 1]
    /\ UNCHANGED << table, pc, to_spawn, frame, boot_stack, iflag, pic >>

SyscallReturn ==
    /\ cpu.mode = "syscall" /\ cpu.left = 0
    /\ cpu' = Doing("task", cpu.task, 0)
    /\ iflag' = TRUE
    /\ UNCHANGED << table, pc, to_spawn, frame, boot_stack, pic >>

(* Arbitrary state, or __panic()'s endless loop.                           *)
Stopped == Broken /\ UNCHANGED vars

Next ==
    \/ int3 \/ test_kmalloc \/ init_tasking \/ task_create \/ set_up_task
    \/ TimerInterrupt \/ task_switch
    \/ \E t \in Tasks : EnterTask(t)
    \/ \E d \in DOMAIN Devices : DeviceInterrupt(d)
    \/ irq_common_handler
    \/ \E t \in Tasks, count \in 0 .. MaxWrite : syscall_handler(t, count)
    \/ tty_write \/ SyscallReturn
    \/ Stopped

(* The processor executes the boot thread and handlers without pause; the  *)
(* PIC keeps a timer request until it is delivered; and the timer's period *)
(* is so long that it cannot hit the few instructions between the `sti'    *)
(* and the `iret' of task_switch() every time a task is entered.           *)
Fairness ==
    /\ WF_vars(int3 \/ test_kmalloc \/ init_tasking \/ task_create \/ set_up_task)
    /\ SF_vars(TimerInterrupt)
    /\ WF_vars(task_switch) /\ WF_vars(irq_common_handler)
    /\ WF_vars(tty_write) /\ WF_vars(SyscallReturn)
    /\ \A t \in Tasks : SF_vars(EnterTask(t))

Spec == Init /\ [][Next]_vars /\ Fairness
-----------------------------------------------------------------------------
Modes == {"boot", "timer", "irq", "enter", "task", "syscall", "wild", "panic"}
Contexts == [mode : Modes, task : -1 .. MAX_NUM_TASKS, left : 0 .. MaxWrite]

(* Types of the tasking state.                                             *)
TypeOK ==
    /\ alive \in [Tasks -> BOOLEAN] /\ loaded \in [Tasks -> BOOLEAN]
    /\ current \in -1 .. MAX_NUM_TASKS
    /\ pc \in {"int3", "test_kmalloc", "init_tasking", "task_create", "set_up_task", "end"}
    /\ to_spawn \in Nat
    /\ cpu \in Contexts /\ frame \in Contexts
    /\ boot_stack \in BOOLEAN /\ iflag \in BOOLEAN /\ pic \in SUBSET PICs

(* A task in user mode, in a system call or about to be entered is the     *)
(* current task, is alive and completely set up, whatever ticks and device *)
(* interrupts came between its creation, its dispatch and its system call. *)
TaskOf(c) == c.mode \in {"enter", "task", "syscall"}
RunsCurrentTask ==
    LET running(c) == TaskOf(c) => c.task = current /\ alive[c.task] /\ loaded[c.task]
    IN  running(cpu) /\ (cpu.mode = "irq" => running(frame))

(* No interrupt stays unacknowledged: whenever normal code runs, even code *)
(* task_switch() jumped to out of the timer's handler, IF is set and no    *)
(* PIC waits for an EOI, so the next interrupt can come.                   *)
InterruptsAcknowledged ==
    cpu.mode \in {"boot", "enter", "task"} => iflag /\ pic = {}

(* The boot thread's frames are never needed once they are overwritten:    *)
(* interrupts from user mode start at the top of its stack (tss.esp0), so  *)
(* after one of them no return path may lead back to the boot thread.      *)
OnBootThread == cpu = Boot \/ (cpu.mode = "irq" /\ frame = Boot)
KernelStackSound == OnBootThread => boot_stack

(* A tick ends the boot thread for good: device interrupts before, after   *)
(* and between ticks return to what they interrupted, but nothing returns  *)
(* to the boot thread, and the tasks it did not create never exist.        *)
GoneStep == ~OnBootThread => ~OnBootThread' /\ UNCHANGED << alive, loaded, pc >>
BootThreadGone == [][GoneStep]_vars

(* tty_write() prints its characters in one piece: between a system call   *)
(* and its return no other task and no other handler runs.                 *)
SyscallStep ==
    cpu.mode = "syscall" =>
        \/ cpu' = [cpu EXCEPT !.left = @ - 1]
        \/ cpu.left = 0 /\ cpu' = Doing("task", cpu.task, 0)
WritesAreContiguous == [][SyscallStep]_vars

(* Round robin: every live task gets the processor again and again, unless *)
(* a tick came before there was a task to switch to, or the table is full: *)
(* then the entry past its end may hide the first task.                    *)
TableFull == \A t \in Tasks : alive[t]
EveryTaskRuns ==
    \A t \in Tasks :
        alive[t] ~> (Broken \/ TableFull \/ (cpu.mode = "task" /\ cpu.task = t))

(* "alive; // Whether or not this is an actual task (and not a free task)" *)
(* (task_t): the timer switches only to what can run.                      *)
AliveTasksCanRun ==
    cpu.mode = "wild" => ~(cpu.task \in Tasks /\ alive[cpu.task])
=============================================================================
