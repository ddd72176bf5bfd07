-------------------------------- MODULE Kmt ---------------------------------
(***************************************************************************)
(* Tasks and their scheduling: create, context_save and context_switch of  *)
(* kernel/src/kmt.c, run from the trap handler of kernel/src/os.c.         *)
(*                                                                         *)
(* A trap runs on the stack of what it interrupted, under trap_lock, and   *)
(* calls its handlers in the order of their seq: context_save, for a       *)
(* keyboard interrupt input_notify, context_switch.  It gives the lock     *)
(* back before iret moves the CPU to the chosen task's stack, so for a     *)
(* while a task that is Free has a CPU on its stack.                       *)
(*                                                                         *)
(* A context is abstracted to how far its task has come.  context_lock is  *)
(* taken only under trap_lock and adds nothing here; task_lock is only     *)
(* taken by create, which only the boot code calls.                        *)
(***************************************************************************)
EXTENDS Integers, FiniteSets

CONSTANTS NCPU,       \* _ncpu()
          NTask,      \* how many tasks the boot code creates
          MaxWork,    \* bound on a task's progress
          EarlyKeys   \* may a keyboard interrupt be CPU 0's first trap?

ASSUME NCPUAssumption  == NCPU \in Nat \ {0}
ASSUME NTaskAssumption == NTask \in Nat /\ NTask >= NCPU
ASSUME WorkAssumption  == MaxWork \in Nat /\ EarlyKeys \in BOOLEAN

CPU   == 0 .. NCPU - 1
Task  == 1 .. NTask      \* a task's tid, which is its place in the list
Event == {"timer", "iodev", "yield"}
NULL  == 0               \* current[c] before its first switch: the boot code

Boot(c) == -1 - c        \* the stack _mpe_init gives CPU c
Stack   == Task \cup {Boot(c) : c \in CPU}

VARIABLES
  task_count,  \* the length of the list: tasks 1 .. task_count exist
  cpuOf,       \* task->cpu
  state,       \* task->state
  context,     \* task->context: the progress it would resume
  current,     \* current[c]
  trapLock,    \* the CPU inside trap, or NULL - 1
  pc,          \* where CPU c is
  ev,          \* the event of its trap
  stack,       \* the stack CPU c runs on
  regs,        \* the progress in CPU c's registers
  progress,    \* what each task has done so far
  passed,      \* how many switches of its CPU have passed a task by, to NTask
  halted       \* an assertion failed and _halt stopped every CPU

vars == <<task_count, cpuOf, state, context, current, trapLock, pc, ev, stack,
          regs, progress, passed, halted>>
taskVars == <<task_count, cpuOf>>
ghosts   == <<progress, passed>>

NoOne == -1
PCs == {"off", "boot", "start", "run", "enter", "save", "notify", "switch",
        "unlock", "iret"}

Init == /\ task_count = 0
        /\ cpuOf    = [t \in Task |-> 0]
        /\ state    = [t \in Task |-> "Free"]
        /\ context  = [t \in Task |-> 0]
        /\ current  = [c \in CPU |-> NULL]
        /\ trapLock = NoOne
        /\ pc       = [c \in CPU |-> IF c = 0 THEN "boot" ELSE "off"]
        /\ ev       = [c \in CPU |-> "yield"]
        /\ stack    = [c \in CPU |-> Boot(c)]
        /\ regs     = [c \in CPU |-> 0]
        /\ progress = [t \in Task |-> 0]
        /\ passed   = [t \in Task |-> 0]
        /\ halted   = FALSE

Goto(c, p)      == pc' = [pc EXCEPT ![c] = p]
Move(c, p, q)   == pc[c] = p /\ Goto(c, q)
Assert(ok, c, q) == IF ok THEN Goto(c, q) /\ UNCHANGED halted
                          ELSE halted' = TRUE /\ UNCHANGED pc

----------------------------------------------------------------------------
(* Boot: CPU 0 creates the tasks, then every CPU enters os->run. *)

create ==
  /\ pc[0] = "boot"
  /\ task_count < NTask
  /\ task_count' = task_count + 1
  /\ cpuOf'   = [cpuOf EXCEPT ![task_count + 1] = task_count % NCPU]
  /\ state'   = [state EXCEPT ![task_count + 1] = "Free"]
  /\ context' = [context EXCEPT ![task_count + 1] = 0]
  /\ UNCHANGED <<current, trapLock, pc, ev, stack, regs, ghosts, halted>>

mpe_init ==
  /\ pc[0] = "boot"
  /\ task_count = NTask
  /\ pc' = [c \in CPU |-> "start"]
  /\ UNCHANGED <<taskVars, state, context, current, trapLock, ev, stack, regs,
                 ghosts, halted>>

\* _intr_write(1), and from here the CPU yields until its first switch.
run(c) ==
  /\ Move(c, "start", "run")
  /\ UNCHANGED <<taskVars, state, context, current, trapLock, ev, stack, regs,
                 ghosts, halted>>

----------------------------------------------------------------------------
(* A task runs, and traps. *)

Work(c) ==
  /\ pc[c] = "run"
  /\ current[c] # NULL
  /\ stack[c] \in Task
  /\ progress[stack[c]] < MaxWork
  /\ regs'     = [regs EXCEPT ![c] = @ + 1]
  /\ progress' = [progress EXCEPT ![stack[c]] = @ + 1]
  /\ UNCHANGED <<taskVars, state, context, current, trapLock, pc, ev, stack,
                 passed, halted>>

\* A timer interrupt, _yield, or on CPU 0, where the I/O APIC sends them, a
\* keyboard interrupt.
Trap(c, e) ==
  /\ Move(c, "run", "enter")
  /\ e = "iodev" => c = 0 /\ (EarlyKeys \/ current[c] # NULL)
  /\ ev' = [ev EXCEPT ![c] = e]
  /\ UNCHANGED <<taskVars, state, context, current, trapLock, stack, regs,
                 ghosts, halted>>

trap_lock(c) ==
  /\ trapLock = NoOne
  /\ trapLock' = c
  /\ Move(c, "enter", "save")
  /\ UNCHANGED <<taskVars, state, context, current, ev, stack, regs, ghosts, halted>>

AfterSave(c) == IF ev[c] = "iodev" THEN "notify" ELSE "switch"

\* Mutant: the condition that the code has commented out, for a save alone.
context_save_Timer(c) ==
  /\ Move(c, "save", AfterSave(c))
  /\ context' = IF current[c] = NULL \/ ev[c] = "iodev" THEN context
                ELSE [context EXCEPT ![current[c]] = regs[c]]
  /\ UNCHANGED <<taskVars, state, current, trapLock, ev, stack, regs, ghosts, halted>>

context_save(c) ==
  /\ Move(c, "save", AfterSave(c))
  /\ context' = IF current[c] = NULL THEN context
                ELSE [context EXCEPT ![current[c]] = regs[c]]
  /\ UNCHANGED <<taskVars, state, current, trapLock, ev, stack, regs, ghosts, halted>>

\* sem_signal(&sem_kbdirq) asserts that a task is current; the count it adds
\* to is Semaphore's.
input_notify(c) ==
  /\ pc[c] = "notify"
  /\ Assert(current[c] # NULL, c, "switch")
  /\ UNCHANGED <<taskVars, state, context, current, trapLock, ev, stack, regs, ghosts>>

\* Positions in the list start at 0; a task that is not in it, as NULL, has
\* position -1.
find_task_index(t) == IF t \in 1 .. task_count THEN t - 1 ELSE -1
get_task(i)        == i + 1

\* Mutant: a task may run on any CPU.
Eligible_Anywhere(c, t) == state[t] = "Free" \/ t = current[c]

\* Free, or the task just released.
Eligible(c, t) == (state[t] = "Free" \/ t = current[c]) /\ cpuOf[t] = c

\* Mutant: the search starts at the current task.
Probe_Same(c, k) == get_task((find_task_index(current[c]) + k) % task_count)

\* The k-th task the loop looks at, from the one after the current one.
Probe(c, k) == get_task((find_task_index(current[c]) + 1 + k) % task_count)

\* The loop stops at the first eligible task; with none it never ends.
Chosen(c, t) == \E k \in 0 .. task_count - 1 :
                  /\ t = Probe(c, k)
                  /\ Eligible(c, t)
                  /\ \A j \in 0 .. k - 1 : ~Eligible(c, Probe(c, j))

\* Mutant: the old task is not released.
Switched_Keep(c, t) == [state EXCEPT ![t] = "Working"]

\* The old task is Free before the loop looks; the chosen one is Working.
Switched(c, t) == [s \in Task |-> IF s = t THEN "Working"
                                  ELSE IF s = current[c] THEN "Free" ELSE state[s]]

Pinned(c) == {t \in 1 .. task_count : cpuOf[t] = c}

context_switch(c) ==
  /\ pc[c] = "switch"
  /\ \E t \in Task :
       /\ Chosen(c, t)
       /\ Assert(current[c] # NULL => state[current[c]] = "Working", c, "unlock")
       /\ state' = Switched(c, t)
       /\ cpuOf'   = [cpuOf EXCEPT ![t] = c]
       /\ current' = [current EXCEPT ![c] = t]
       /\ passed'  = [s \in Task |-> IF s = t THEN 0
                                     ELSE IF s \in Pinned(c) /\ passed[s] < NTask THEN passed[s] + 1
                                     ELSE passed[s]]
  /\ UNCHANGED <<task_count, context, trapLock, ev, stack, regs, progress>>

trap_unlock(c) ==
  /\ trapLock' = NoOne
  /\ Move(c, "unlock", "iret")
  /\ UNCHANGED <<taskVars, state, context, current, ev, stack, regs, ghosts, halted>>

\* iret with the context that context_switch returned: registers and stack.
iret(c) ==
  /\ Move(c, "iret", "run")
  /\ stack' = [stack EXCEPT ![c] = current[c]]
  /\ regs'  = [regs EXCEPT ![c] = context[current[c]]]
  /\ UNCHANGED <<taskVars, state, context, current, trapLock, ev, ghosts, halted>>

----------------------------------------------------------------------------
trap(c) == trap_lock(c) \/ context_save(c) \/ input_notify(c)
           \/ context_switch(c) \/ trap_unlock(c) \/ iret(c)

Next == /\ ~halted
        /\ \/ create
           \/ mpe_init
           \/ \E c \in CPU : \/ run(c)
                             \/ Work(c)
                             \/ \E e \in Event : Trap(c, e)
                             \/ trap(c)

Spec == Init /\ [][Next]_vars

----------------------------------------------------------------------------
(* Properties *)

TypeOK == /\ task_count \in 0 .. NTask
          /\ cpuOf    \in [Task -> CPU]
          /\ state    \in [Task -> {"Free", "Working"}]
          /\ context  \in [Task -> 0 .. MaxWork]
          /\ current  \in [CPU -> Task \cup {NULL}]
          /\ trapLock \in CPU \cup {NoOne}
          /\ pc       \in [CPU -> PCs]
          /\ ev       \in [CPU -> Event]
          /\ stack    \in [CPU -> Stack]
          /\ regs     \in [CPU -> 0 .. MaxWork]
          /\ progress \in [Task -> 0 .. MaxWork]
          /\ passed   \in [Task -> 0 .. NTask]
          /\ halted   \in BOOLEAN

\* Two CPUs never run on one stack, although a task is Free again while the
\* CPU that leaves it is still on its stack, returning from the trap.
StackExclusive == \A c, d \in CPU : stack[c] = stack[d] => c = d

\* No switch resumes a task from an older point than where it was interrupted:
\* a CPU that runs a task has that task's registers and stack, and a task that
\* no CPU is on has its whole progress in task->context.
ContextFresh ==
  /\ \A c \in CPU : pc[c] \in {"run", "enter", "save"} /\ current[c] # NULL =>
       stack[c] = current[c] /\ regs[c] = progress[current[c]]
  /\ \A t \in Task : (\A c \in CPU : stack[c] # t) => context[t] = progress[t]

\* Every variable keeps its type, and Working marks exactly the current tasks,
\* each on the CPU it names; no assertion of context_switch fails.
WorkingIsCurrent ==
  /\ TypeOK
  /\ ~halted
  /\ \A t \in Task : state[t] = "Working" <=> \E c \in CPU : current[c] = t /\ cpuOf[t] = c

\* Round robin: between two turns of a task each of the others on its CPU has
\* at most one, whatever the traps that cause the switches.
RoundRobin ==
  \A t \in 1 .. task_count : passed[t] < Cardinality(Pinned(cpuOf[t]))

\* kmt.c:387, Assert(_current() != NULL, "Signal on no cpu."): a semaphore is
\* signalled only when a task is current.
SignalHasTask == \A c \in CPU : pc[c] = "notify" => current[c] # NULL
=============================================================================
