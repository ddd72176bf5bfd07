------------------------------ MODULE KmtProofs ------------------------------
(***************************************************************************)
(* Proofs about Kmt, for any number of processors, of tasks and of work:   *)
(* two CPUs never share a stack, no task loses progress, Working marks the *)
(* current tasks and the choice of a task is round robin.                  *)
(***************************************************************************)
EXTENDS Kmt, FiniteSetTheorems, TLAPS

\* The boot code runs alone, before any trap; afterwards every task exists.
BootAlone ==
  IF pc[0] = "boot"
  THEN /\ \A c \in CPU : current[c] = NULL /\ pc[c] \in {"boot", "off"}
       /\ \A t \in Task : progress[t] = 0
  ELSE /\ task_count = NTask
       /\ \A c \in CPU : pc[c] \notin {"boot", "off"}

\* trap_lock is held from context_save to the end of the handlers.
LockHeld ==
  \A c \in CPU : trapLock = c <=> pc[c] \in {"save", "notify", "switch", "unlock"}

\* The current tasks are the Working ones, each on its own CPU.
CurrentPinned ==
  /\ \A c \in CPU : current[c] # NULL => current[c] <= task_count /\ cpuOf[current[c]] = c
  /\ \A c \in CPU : /\ pc[c] = "start" => current[c] = NULL
                    /\ pc[c] \in {"unlock", "iret"} => current[c] # NULL
  /\ \A t \in Task : state[t] = "Working" <=> current[cpuOf[t]] = t

\* A CPU is on the boot code's stack for it or on that of a task of its own.
StackPinned ==
  \A c \in CPU : /\ stack[c] = Boot(c) \/ (stack[c] \in Task /\ cpuOf[stack[c]] = c)
                 /\ current[c] = NULL => stack[c] = Boot(c)

\* Until the switch a CPU in a trap has the registers and the stack of its task.
Loaded ==
  \A c \in CPU : pc[c] \in {"run", "enter", "save", "notify", "switch"} /\ current[c] # NULL =>
    stack[c] = current[c] /\ regs[c] = progress[current[c]]

\* Only a task that is running, up to its context_save, is ahead of its context.
Saved ==
  \A t \in Task : \/ context[t] = progress[t]
                  \/ \E c \in CPU : /\ current[c] = t
                                    /\ pc[c] \in {"run", "enter", "save"}

\* The tasks of t's CPU on the way round the list from t to u.
After(t, u) ==
  {s \in Pinned(cpuOf[t]) : s # t /\ IF t <= u THEN t < s /\ s <= u ELSE t < s \/ s <= u}

\* Each switch since t's turn went to another of those tasks.
Turns ==
  \A t \in Task : passed[t] <= IF current[cpuOf[t]] = NULL THEN 0
                               ELSE Cardinality(After(t, current[cpuOf[t]]))

\* With no keyboard interrupt before the first switch no assertion fails.
KeysLate ==
  ~EarlyKeys => /\ ~halted
                /\ \A c \in CPU : \/ current[c] # NULL
                                  \/ /\ pc[c] # "notify"
                                     /\ ev[c] = "iodev" => pc[c] \notin {"enter", "save"}

IInv == /\ TypeOK
        /\ BootAlone
        /\ LockHeld
        /\ CurrentPinned
        /\ StackPinned
        /\ Loaded
        /\ Saved
        /\ Turns
        /\ KeysLate

----------------------------------------------------------------------------
(* The way round the list. *)

\* % as get_task's index uses it: the sum is less than twice the length.
LEMMA Wrap ==
  ASSUME NEW n \in Nat \ {0}, NEW x \in 0 .. 2 * n - 1
  PROVE  x % n = IF x < n THEN x ELSE x - n
OBVIOUS

LEMMA Remainder ==
  ASSUME NEW n \in Nat \ {0}, NEW x \in Nat
  PROVE  x % n \in 0 .. n - 1
OBVIOUS

\* The k-th task the loop of context_switch looks at.
LEMMA ProbeFrom ==
  ASSUME IInv, NEW c \in CPU, current[c] # NULL, NEW k \in 0 .. task_count - 1
  PROVE  Probe(c, k) = IF current[c] + k < task_count THEN current[c] + k + 1
                       ELSE current[c] + k + 1 - task_count
<1>1. current[c] \in 1 .. task_count /\ task_count \in Nat \ {0}
  BY NTaskAssumption DEF IInv, TypeOK, CurrentPinned, Task, NULL
<1>2. Probe(c, k) = ((current[c] + k) % task_count) + 1
  BY <1>1 DEF Probe, get_task, find_task_index
<1>3. current[c] + k \in 0 .. 2 * task_count - 1
  BY <1>1
<1>4. CASE current[c] + k < task_count
  <2>1. (current[c] + k) % task_count = current[c] + k
    BY <1>1, <1>3, <1>4, Wrap
  <2> QED
    BY <1>2, <1>4, <2>1
<1>5. CASE ~(current[c] + k < task_count)
  <2>1. (current[c] + k) % task_count = (current[c] + k) - task_count
    BY <1>1, <1>3, <1>5, Wrap
  <2> QED
    BY <1>1, <1>2, <1>5, <2>1
<1> QED
  BY <1>4, <1>5

\* After a trap every task of the CPU is eligible, so the one that is chosen
\* is the next of them on the way round from the current task.
LEMMA ChosenIsNext ==
  ASSUME IInv, NEW c \in CPU, pc[c] = "switch", NEW t \in Task, Chosen(c, t)
  PROVE  /\ t \in Pinned(c)
         /\ current[c] # NULL =>
              \A s \in Pinned(c) : ~ IF current[c] < t THEN current[c] < s /\ s < t
                                     ELSE current[c] < s \/ s < t
<1> DEFINE n == task_count
           u == current[c]
<1>1. n = NTask /\ n \in Nat \ {0}
  <2>1. task_count = NTask
    BY DEF IInv, BootAlone
  <2> QED
    BY <2>1, NTaskAssumption, NCPUAssumption
<1>2. PICK k \in 0 .. n - 1 : /\ t = Probe(c, k)
                              /\ Eligible(c, t)
                              /\ \A j \in 0 .. k - 1 : ~Eligible(c, Probe(c, j))
  BY DEF Chosen
<1>3. t \in Pinned(c)
  BY <1>1, <1>2 DEF Eligible, Pinned, Task
<1>4. ASSUME u # NULL, NEW s \in Pinned(c),
             IF u < t THEN u < s /\ s < t ELSE u < s \/ s < t
      PROVE  FALSE
  <2>1. u \in 1 .. n /\ t \in 1 .. n /\ s \in 1 .. n
    BY <1>1, <1>4 DEF IInv, TypeOK, CurrentPinned, Task, NULL, Pinned
  <2>2. Eligible(c, s)
    <3>1. cpuOf[s] = c /\ s \in Task
      BY <1>1 DEF Pinned, Task
    <3>2. state[s] = "Free" \/ s = current[c]
      BY <3>1 DEF IInv, TypeOK, CurrentPinned
    <3> QED
      BY <3>1, <3>2 DEF Eligible
  <2>3. t = IF u + k < n THEN u + k + 1 ELSE u + k + 1 - n
    BY <1>2, <1>4, ProbeFrom
  <2> DEFINE j == IF u < s THEN s - u - 1 ELSE s - u - 1 + n
  <2>4. j \in 0 .. k - 1
    BY <1>1, <1>4, <2>1, <2>3
  <2>5. j \in 0 .. n - 1 /\ s = IF u + j < n THEN u + j + 1 ELSE u + j + 1 - n
    BY <1>1, <2>1, <2>4
  <2>6. Probe(c, j) = s
    <3> HIDE DEF j
    <3> QED
      BY <1>4, <2>5, ProbeFrom
  <2> QED
    BY <1>2, <2>2, <2>4, <2>6
<1> QED
  BY <1>3, <1>4

\* The tasks of a CPU, and so those on the way from one to another, are finite
\* in number.
LEMMA PinnedFinite ==
  ASSUME IInv, NEW c \in CPU
  PROVE  IsFiniteSet(Pinned(c)) /\ Cardinality(Pinned(c)) \in Nat
<1>1. IsFiniteSet(1 .. task_count)
  BY NTaskAssumption, FS_Interval DEF IInv, TypeOK
<1>2. Pinned(c) \subseteq 1 .. task_count
  BY DEF Pinned
<1> QED
  BY <1>1, <1>2, FS_Subset, FS_CardinalityType

LEMMA AfterFinite ==
  ASSUME IInv, NEW t \in Task, NEW u
  PROVE  IsFiniteSet(After(t, u)) /\ Cardinality(After(t, u)) \in Nat
<1>1. cpuOf[t] \in CPU
  BY DEF IInv, TypeOK
<1>2. After(t, u) \subseteq Pinned(cpuOf[t])
  BY DEF After
<1> QED
  BY <1>1, <1>2, PinnedFinite, FS_Subset, FS_CardinalityType

\* A switch to t lengthens by t the way from another task of the CPU.
LEMMA AfterNext ==
  ASSUME IInv, NEW c \in CPU, pc[c] = "switch", current[c] # NULL,
         NEW t \in Task, Chosen(c, t), NEW s \in Pinned(c), s # t
  PROVE  Cardinality(After(s, t)) = Cardinality(After(s, current[c])) + 1
<1> DEFINE u == current[c]
<1>1. s \in Task /\ cpuOf[s] = c /\ s \in Nat /\ t \in Nat /\ u \in Nat /\ u \in Pinned(c)
  BY NTaskAssumption DEF IInv, TypeOK, CurrentPinned, Task, NULL, Pinned
<1>2. t \in Pinned(c) /\ \A r \in Pinned(c) : ~ IF u < t THEN u < r /\ r < t
                                                ELSE u < r \/ r < t
  BY ChosenIsNext
<1>3. \A r \in Pinned(c) : r \in Nat
  BY DEF Pinned, IInv, TypeOK
<1>4. t \notin After(s, u)
  BY <1>1, <1>2 DEF After
<1>5. After(s, t) = After(s, u) \cup {t}
  <2>1. \A r \in After(s, u) : r \in After(s, t)
    BY <1>1, <1>2, <1>3 DEF After
  <2>2. t \in After(s, t)
    BY <1>1, <1>2 DEF After
  <2>3. \A r \in After(s, t) : r \in After(s, u) \cup {t}
    BY <1>1, <1>2, <1>3 DEF After
  <2> QED
    BY <2>1, <2>2, <2>3
<1> QED
  BY <1>1, <1>4, <1>5, AfterFinite, FS_AddElement

----------------------------------------------------------------------------
(* The invariant is inductive. *)

LEMMA InitIInv == Init => IInv
<1> SUFFICES ASSUME Init PROVE IInv
  OBVIOUS
<1>1. TypeOK
  <2>1. 0 \in CPU /\ 0 \in 0 .. MaxWork /\ 0 \in 0 .. NTask
    BY NCPUAssumption, NTaskAssumption, WorkAssumption DEF CPU
  <2> QED
    BY <2>1 DEF Init, TypeOK, PCs, Event, Stack, NoOne, NULL
<1>2. BootAlone /\ LockHeld /\ StackPinned /\ Loaded /\ Saved /\ KeysLate
  BY NCPUAssumption DEF Init, BootAlone, LockHeld, StackPinned, Loaded, Saved, KeysLate, CPU, NoOne
<1>3. CurrentPinned
  BY NCPUAssumption, NTaskAssumption DEF Init, CurrentPinned, CPU, Task, NULL
<1>4. Turns
  BY NCPUAssumption DEF Init, Turns, CPU
<1> QED
  BY <1>1, <1>2, <1>3, <1>4 DEF IInv

\* A step that changes neither the tasks nor who is current keeps the turns.
LEMMA TurnsFrame ==
  ASSUME Turns, UNCHANGED <<task_count, cpuOf, current, passed>>
  PROVE  Turns'
BY DEF Turns, After, Pinned

LEMMA CreateIInv ==
  ASSUME IInv, create PROVE IInv'
<1>1. /\ task_count + 1 \in Task /\ task_count \in Nat
      /\ task_count % NCPU \in CPU
  BY NCPUAssumption, NTaskAssumption, Remainder DEF create, IInv, TypeOK, Task, CPU
<1>2. \A c \in CPU : current[c] = NULL /\ stack[c] = Boot(c)
  BY DEF create, IInv, BootAlone, StackPinned
<1>3. TypeOK'
  <2>1. 0 \in 0 .. MaxWork /\ task_count + 1 \in 0 .. NTask
    BY <1>1, WorkAssumption DEF Task
  <2> QED
    BY <1>1, <2>1 DEF create, IInv, TypeOK, ghosts
<1>4. BootAlone' /\ LockHeld' /\ KeysLate' /\ Loaded'
  BY <1>1, <1>2 DEF create, IInv, BootAlone, LockHeld, KeysLate, Loaded, ghosts
<1>5. CurrentPinned'
  <2>1. \A c \in CPU : pc[c] \notin {"unlock", "iret"}
    BY DEF create, IInv, BootAlone
  <2>2. ASSUME NEW t \in Task PROVE cpuOf'[t] \in CPU /\ state'[t] # "Working"
    <3>1. state[t] # "Working"
      <4>1. cpuOf[t] \in CPU
        BY DEF IInv, TypeOK
      <4>2. t # NULL
        BY DEF Task, NULL
      <4> QED
        BY <1>2, <4>1, <4>2 DEF IInv, CurrentPinned
    <3> QED
      BY <1>3, <3>1 DEF create, IInv, TypeOK
  <2> QED
    BY <1>2, <2>1, <2>2 DEF create, CurrentPinned, Task, NULL
<1>6. StackPinned'
  BY <1>2 DEF create, StackPinned
<1>7. Saved'
  BY <1>1 DEF create, IInv, TypeOK, BootAlone, Saved, ghosts
<1>8. Turns'
  BY <1>1, <1>2 DEF create, IInv, TypeOK, Turns, ghosts
<1> QED
  BY <1>3, <1>4, <1>5, <1>6, <1>7, <1>8 DEF IInv

LEMMA MpeInitIInv ==
  ASSUME IInv, mpe_init PROVE IInv'
<1>1. \A c \in CPU : current[c] = NULL /\ trapLock # c
  BY DEF mpe_init, IInv, BootAlone, LockHeld
<1>2. TypeOK'
  BY DEF mpe_init, IInv, TypeOK, PCs, taskVars, ghosts
<1>3. BootAlone'
  BY NCPUAssumption DEF mpe_init, IInv, BootAlone, taskVars, CPU
<1>4. LockHeld' /\ CurrentPinned' /\ StackPinned' /\ Loaded' /\ KeysLate'
  BY <1>1 DEF mpe_init, IInv, LockHeld, CurrentPinned, StackPinned, Loaded, KeysLate, taskVars, ghosts
<1>5. Saved'
  BY <1>1 DEF mpe_init, IInv, BootAlone, Saved, ghosts, Task, NULL
<1>6. Turns'
  BY TurnsFrame DEF mpe_init, IInv, taskVars, ghosts
<1> QED
  BY <1>2, <1>3, <1>4, <1>5, <1>6 DEF IInv

\* Where CPU 0 is not booting the boot is over.
LEMMA Booted ==
  ASSUME IInv, NEW c \in CPU, pc[c] \notin {"boot", "off"}
  PROVE  task_count = NTask /\ \A d \in CPU : pc[d] \notin {"boot", "off"}
BY DEF IInv, BootAlone

LEMMA RunIInv ==
  ASSUME IInv, NEW c \in CPU, run(c) PROVE IInv'
<1>1. pc[c] = "start" /\ pc' = [pc EXCEPT ![c] = "run"]
  BY DEF run, Move, Goto
<1>2. task_count = NTask /\ \A d \in CPU : pc[d] \notin {"boot", "off"}
  BY <1>1, Booted
<1>3. TypeOK'
  BY <1>1 DEF run, IInv, TypeOK, PCs, taskVars, ghosts
<1>4. BootAlone'
  BY <1>1, <1>2, NCPUAssumption DEF run, IInv, TypeOK, BootAlone, taskVars, CPU
<1>5. LockHeld'
  BY <1>1 DEF run, IInv, TypeOK, LockHeld
<1>6. CurrentPinned' /\ StackPinned' /\ Loaded' /\ KeysLate'
  BY <1>1 DEF run, IInv, TypeOK, CurrentPinned, StackPinned, Loaded, KeysLate, taskVars, ghosts
<1>7. Saved'
  BY <1>1 DEF run, IInv, TypeOK, Saved, ghosts
<1>8. Turns'
  BY TurnsFrame DEF run, IInv, taskVars, ghosts
<1> QED
  BY <1>3, <1>4, <1>5, <1>6, <1>7, <1>8 DEF IInv

LEMMA WorkIInv ==
  ASSUME IInv, NEW c \in CPU, Work(c) PROVE IInv'
<1> DEFINE t == stack[c]
<1>1. /\ pc[c] = "run" /\ t \in Task /\ current[c] = t /\ cpuOf[t] = c
      /\ regs[c] = progress[t] /\ progress[t] < MaxWork
      /\ progress[t] \in 0 .. MaxWork
      /\ regs'     = [regs EXCEPT ![c] = progress[t] + 1]
      /\ progress' = [progress EXCEPT ![t] = progress[t] + 1]
  BY DEF Work, IInv, TypeOK, Loaded, CurrentPinned
<1> HIDE DEF t
<1>2. progress[t] + 1 \in 0 .. MaxWork
  BY <1>1, WorkAssumption
<1>3. TypeOK'
  BY <1>1, <1>2 DEF Work, IInv, TypeOK, taskVars
<1>4. BootAlone'
  BY <1>1, Booted DEF Work, BootAlone, taskVars, IInv
<1>5. LockHeld' /\ CurrentPinned' /\ StackPinned' /\ KeysLate'
  BY DEF Work, IInv, LockHeld, CurrentPinned, StackPinned, KeysLate, taskVars
<1>6. Loaded'
  <2>1. \A d \in CPU : current[d] # NULL /\ d # c => current[d] # t
    BY <1>1 DEF IInv, CurrentPinned
  <2> QED
    BY <1>1, <2>1 DEF Work, IInv, TypeOK, Loaded
<1>7. Saved'
  BY <1>1 DEF Work, IInv, TypeOK, Saved
<1>8. Turns'
  BY TurnsFrame DEF Work, IInv, taskVars
<1> QED
  BY <1>3, <1>4, <1>5, <1>6, <1>7, <1>8 DEF IInv

LEMMA TrapIInv ==
  ASSUME IInv, NEW c \in CPU, NEW e \in Event, Trap(c, e) PROVE IInv'
<1>1. pc[c] = "run" /\ pc' = [pc EXCEPT ![c] = "enter"]
  BY DEF Trap, Move, Goto
<1>2. task_count = NTask /\ \A d \in CPU : pc[d] \notin {"boot", "off"}
  BY <1>1, Booted
<1>3. TypeOK'
  BY <1>1 DEF Trap, IInv, TypeOK, PCs, taskVars, ghosts
<1>4. BootAlone'
  BY <1>1, <1>2, NCPUAssumption DEF Trap, IInv, TypeOK, BootAlone, taskVars, CPU
<1>5. LockHeld'
  BY <1>1 DEF Trap, IInv, TypeOK, LockHeld
<1>6. CurrentPinned' /\ StackPinned' /\ Loaded'
  BY <1>1 DEF Trap, IInv, TypeOK, CurrentPinned, StackPinned, Loaded, taskVars, ghosts
<1>7. Saved'
  BY <1>1 DEF Trap, IInv, TypeOK, Saved, ghosts
<1>8. Turns'
  BY TurnsFrame DEF Trap, IInv, taskVars, ghosts
<1>9. KeysLate'
  BY <1>1 DEF Trap, IInv, TypeOK, KeysLate
<1> QED
  BY <1>3, <1>4, <1>5, <1>6, <1>7, <1>8, <1>9 DEF IInv

LEMMA TrapLockIInv ==
  ASSUME IInv, NEW c \in CPU, trap_lock(c) PROVE IInv'
<1>1. /\ pc[c] = "enter" /\ pc' = [pc EXCEPT ![c] = "save"]
      /\ trapLock = NoOne /\ trapLock' = c
  BY DEF trap_lock, Move, Goto
<1>2. task_count = NTask /\ \A d \in CPU : pc[d] \notin {"boot", "off"}
  BY <1>1, Booted
<1>3. TypeOK'
  BY <1>1 DEF trap_lock, IInv, TypeOK, PCs, taskVars, ghosts
<1>4. BootAlone'
  BY <1>1, <1>2, NCPUAssumption DEF trap_lock, IInv, TypeOK, BootAlone, taskVars, CPU
<1>5. LockHeld'
  <2>1. \A d \in CPU : trapLock # d
    BY <1>1, NCPUAssumption DEF CPU, NoOne
  <2> QED
    BY <1>1, <2>1 DEF IInv, TypeOK, LockHeld
<1>6. CurrentPinned' /\ StackPinned' /\ Loaded' /\ KeysLate'
  BY <1>1 DEF trap_lock, IInv, TypeOK, CurrentPinned, StackPinned, Loaded, KeysLate, taskVars, ghosts
<1>7. Saved'
  BY <1>1 DEF trap_lock, IInv, TypeOK, Saved, ghosts
<1>8. Turns'
  BY TurnsFrame DEF trap_lock, IInv, taskVars, ghosts
<1> QED
  BY <1>3, <1>4, <1>5, <1>6, <1>7, <1>8 DEF IInv

LEMMA ContextSaveIInv ==
  ASSUME IInv, NEW c \in CPU, context_save(c) PROVE IInv'
<1>1. /\ pc[c] = "save" /\ pc' = [pc EXCEPT ![c] = AfterSave(c)]
      /\ AfterSave(c) \in {"notify", "switch"}
      /\ AfterSave(c) = "notify" => ev[c] = "iodev"
  BY DEF context_save, Move, Goto, AfterSave
<1>2. task_count = NTask /\ \A d \in CPU : pc[d] \notin {"boot", "off"}
  BY <1>1, Booted
<1>3. TypeOK'
  BY <1>1 DEF context_save, IInv, TypeOK, PCs, taskVars, ghosts
<1>4. BootAlone'
  BY <1>1, <1>2, NCPUAssumption DEF context_save, IInv, TypeOK, BootAlone, taskVars, CPU
<1>5. LockHeld'
  BY <1>1 DEF context_save, IInv, TypeOK, LockHeld
<1>6. CurrentPinned' /\ StackPinned' /\ Loaded' /\ KeysLate'
  BY <1>1 DEF context_save, IInv, TypeOK, CurrentPinned, StackPinned, Loaded, KeysLate, taskVars, ghosts
<1>7. Saved'
  <2> SUFFICES ASSUME NEW t \in Task
               PROVE  context'[t] = progress[t] \/ \E d \in CPU : /\ current[d] = t
                                                                  /\ pc'[d] \in {"run", "enter", "save"}
    BY DEF context_save, Saved, ghosts
  <2>1. CASE t = current[c]
    <3>1. current[c] # NULL /\ regs[c] = progress[t]
      BY <1>1, <2>1 DEF IInv, Loaded, Task, NULL
    <3> QED
      BY <2>1, <3>1 DEF context_save, IInv, TypeOK
  <2>2. CASE t # current[c]
    <3>1. context'[t] = context[t]
      BY <2>2 DEF context_save, IInv, TypeOK
    <3> QED
      BY <1>1, <2>2, <3>1 DEF IInv, TypeOK, Saved
  <2> QED
    BY <2>1, <2>2
<1>8. Turns'
  BY TurnsFrame DEF context_save, IInv, taskVars, ghosts
<1> QED
  BY <1>3, <1>4, <1>5, <1>6, <1>7, <1>8 DEF IInv

LEMMA InputNotifyIInv ==
  ASSUME IInv, NEW c \in CPU, input_notify(c) PROVE IInv'
<1>1. /\ pc[c] = "notify" /\ pc' = [pc EXCEPT ![c] = pc'[c]]
      /\ pc'[c] \in {"notify", "switch"}
  BY DEF input_notify, Assert, Goto, IInv, TypeOK
<1>2. task_count = NTask /\ \A d \in CPU : pc[d] \notin {"boot", "off"}
  BY <1>1, Booted
<1>3. TypeOK'
  BY <1>1 DEF input_notify, Assert, IInv, TypeOK, PCs, taskVars, ghosts
<1>4. BootAlone'
  BY <1>1, <1>2, NCPUAssumption DEF input_notify, IInv, TypeOK, BootAlone, taskVars, CPU
<1>5. LockHeld'
  BY <1>1 DEF input_notify, IInv, TypeOK, LockHeld
<1>6. CurrentPinned' /\ StackPinned' /\ Loaded'
  BY <1>1 DEF input_notify, IInv, TypeOK, CurrentPinned, StackPinned, Loaded, taskVars, ghosts
<1>7. Saved'
  BY <1>1 DEF input_notify, IInv, TypeOK, Saved, ghosts
<1>8. Turns'
  BY TurnsFrame DEF input_notify, IInv, taskVars, ghosts
<1>9. KeysLate'
  BY <1>1 DEF input_notify, Assert, IInv, TypeOK, KeysLate
<1> QED
  BY <1>3, <1>4, <1>5, <1>6, <1>7, <1>8, <1>9 DEF IInv

LEMMA ContextSwitchIInv ==
  ASSUME IInv, NEW c \in CPU, context_switch(c) PROVE IInv'
<1>1. PICK t \in Task :
        /\ Chosen(c, t)
        /\ Assert(current[c] # NULL => state[current[c]] = "Working", c, "unlock")
        /\ state' = Switched(c, t)
        /\ cpuOf'   = [cpuOf EXCEPT ![t] = c]
        /\ current' = [current EXCEPT ![c] = t]
        /\ passed'  = [s \in Task |-> IF s = t THEN 0
                                      ELSE IF s \in Pinned(c) /\ passed[s] < NTask THEN passed[s] + 1
                                      ELSE passed[s]]
  BY DEF context_switch
<1>2. /\ pc[c] = "switch"
      /\ UNCHANGED <<task_count, context, trapLock, ev, stack, regs, progress>>
  BY DEF context_switch
<1>3. task_count = NTask /\ \A d \in CPU : pc[d] \notin {"boot", "off"}
  BY <1>2, Booted
<1>4. t \in Pinned(c) /\ cpuOf[t] = c /\ cpuOf' = cpuOf /\ t <= task_count
  <2>1. t \in Pinned(c)
    BY <1>1, <1>2, ChosenIsNext
  <2> QED
    BY <1>1, <2>1 DEF Pinned, IInv, TypeOK
<1>5. pc' = [pc EXCEPT ![c] = "unlock"] /\ UNCHANGED halted
  <2>1. current[c] # NULL => current[c] \in Task /\ state[current[c]] = "Working"
    BY DEF IInv, TypeOK, CurrentPinned
  <2> QED
    BY <1>1, <2>1 DEF Assert, Goto
<1>6. TypeOK'
  <2>1. passed' \in [Task -> 0 .. NTask]
    BY <1>1, NTaskAssumption DEF IInv, TypeOK
  <2>2. state' \in [Task -> {"Free", "Working"}]
    BY <1>1 DEF IInv, TypeOK, Switched
  <2> QED
    BY <1>1, <1>2, <1>4, <1>5, <2>1, <2>2 DEF IInv, TypeOK, PCs
<1>7. BootAlone'
  BY <1>2, <1>3, <1>5, NCPUAssumption DEF IInv, TypeOK, BootAlone, CPU
<1>8. LockHeld'
  BY <1>2, <1>5 DEF IInv, TypeOK, LockHeld
<1>9. CurrentPinned'
  <2>1. \A d \in CPU : current'[d] # NULL => current'[d] <= task_count' /\ cpuOf'[current'[d]] = d
    BY <1>1, <1>2, <1>4 DEF IInv, TypeOK, CurrentPinned
  <2>2. \A d \in CPU : /\ pc'[d] = "start" => current'[d] = NULL
                       /\ pc'[d] \in {"unlock", "iret"} => current'[d] # NULL
    BY <1>1, <1>5 DEF IInv, TypeOK, CurrentPinned, Task, NULL
  <2>3. ASSUME NEW s \in Task PROVE state'[s] = "Working" <=> current'[cpuOf'[s]] = s
    <3>1. cpuOf[s] \in CPU /\ (state[s] = "Working" <=> current[cpuOf[s]] = s)
      BY DEF IInv, TypeOK, CurrentPinned
    <3>2. state'[s] = IF s = t THEN "Working" ELSE IF s = current[c] THEN "Free" ELSE state[s]
      BY <1>1 DEF Switched
    <3>3. s = current[c] => cpuOf[s] = c
      BY DEF IInv, CurrentPinned, Task, NULL
    <3> QED
      BY <1>1, <1>4, <3>1, <3>2, <3>3 DEF IInv, TypeOK
  <2> QED
    BY <2>1, <2>2, <2>3 DEF CurrentPinned
<1>10. StackPinned'
  BY <1>1, <1>2, <1>4, SMTT(30) DEF IInv, TypeOK, StackPinned, Task, NULL
<1>11. Loaded'
  BY <1>1, <1>2, <1>5 DEF IInv, TypeOK, Loaded
<1>12. Saved'
  BY <1>1, <1>2, <1>5 DEF IInv, TypeOK, Saved
<1>13. Turns'
  <2> SUFFICES ASSUME NEW s \in Task
               PROVE  passed'[s] <= IF current'[cpuOf[s]] = NULL THEN 0
                                    ELSE Cardinality(After(s, current'[cpuOf[s]]))
    <3>1. \A s, u : After(s, u)' = After(s, u)
      BY <1>2, <1>4 DEF After, Pinned
    <3> QED
      BY <1>4, <3>1 DEF Turns
  <2>1. passed[s] <= IF current[cpuOf[s]] = NULL THEN 0
                     ELSE Cardinality(After(s, current[cpuOf[s]]))
    BY DEF IInv, Turns
  <2>2. passed[s] \in 0 .. NTask /\ cpuOf[s] \in CPU
    BY DEF IInv, TypeOK
  <2>3. t # NULL /\ current'[c] = t
    BY <1>1 DEF IInv, TypeOK, Task, NULL
  <2>4. CASE s = t
    BY <1>1, <1>4, <2>3, <2>4, AfterFinite
  <2>5. CASE s # t /\ s \in Pinned(c)
    <3>1. cpuOf[s] = c /\ passed'[s] \in Nat /\ passed'[s] <= passed[s] + 1
      BY <1>1, <2>2, <2>5 DEF Pinned
    <3>2. Cardinality(After(s, t)) \in Nat
      BY AfterFinite
    <3>3. CASE current[c] = NULL
      <4>1. t \in After(s, t)
        BY <1>4, <2>5, <3>1 DEF After, Task
      <4>2. Cardinality(After(s, t)) # 0
        BY <4>1, AfterFinite, FS_EmptySet
      <4> QED
        BY <2>1, <2>2, <2>3, <3>1, <3>2, <3>3, <4>2
    <3>4. CASE current[c] # NULL
      <4>1. Cardinality(After(s, t)) = Cardinality(After(s, current[c])) + 1
        BY <1>1, <1>2, <2>5, <3>4, AfterNext
      <4>2. Cardinality(After(s, current[c])) \in Nat
        BY AfterFinite
      <4> QED
        BY <2>1, <2>2, <2>3, <3>1, <3>2, <3>4, <4>1, <4>2
    <3> QED
      BY <3>3, <3>4
  <2>6. CASE s # t /\ s \notin Pinned(c)
    <3>1. cpuOf[s] # c
      BY <1>3, <2>6, NTaskAssumption DEF Pinned, Task
    <3> QED
      BY <1>1, <2>1, <2>2, <2>6, <3>1 DEF IInv, TypeOK
  <2> QED
    BY <2>4, <2>5, <2>6
<1>14. KeysLate'
  BY <1>1, <1>2, <1>5 DEF IInv, TypeOK, KeysLate
<1> QED
  BY <1>6, <1>7, <1>8, <1>9, <1>10, <1>11, <1>12, <1>13, <1>14 DEF IInv

LEMMA TrapUnlockIInv ==
  ASSUME IInv, NEW c \in CPU, trap_unlock(c) PROVE IInv'
<1>1. /\ pc[c] = "unlock" /\ pc' = [pc EXCEPT ![c] = "iret"]
      /\ trapLock = c /\ trapLock' = NoOne
  BY DEF trap_unlock, Move, Goto, IInv, LockHeld
<1>2. task_count = NTask /\ \A d \in CPU : pc[d] \notin {"boot", "off"}
  BY <1>1, Booted
<1>3. TypeOK'
  BY <1>1 DEF trap_unlock, IInv, TypeOK, PCs, taskVars, ghosts
<1>4. BootAlone'
  BY <1>1, <1>2, NCPUAssumption DEF trap_unlock, IInv, TypeOK, BootAlone, taskVars, CPU
<1>5. LockHeld'
  <2>1. \A d \in CPU : NoOne # d
    BY NCPUAssumption DEF CPU, NoOne
  <2> QED
    BY <1>1, <2>1 DEF IInv, TypeOK, LockHeld
<1>6. CurrentPinned' /\ StackPinned' /\ Loaded' /\ KeysLate'
  BY <1>1 DEF trap_unlock, IInv, TypeOK, CurrentPinned, StackPinned, Loaded, KeysLate, taskVars, ghosts
<1>7. Saved'
  BY <1>1 DEF trap_unlock, IInv, TypeOK, Saved, ghosts
<1>8. Turns'
  BY TurnsFrame DEF trap_unlock, IInv, taskVars, ghosts
<1> QED
  BY <1>3, <1>4, <1>5, <1>6, <1>7, <1>8 DEF IInv

LEMMA IretIInv ==
  ASSUME IInv, NEW c \in CPU, iret(c) PROVE IInv'
<1> DEFINE t == current[c]
<1>1. /\ pc[c] = "iret" /\ pc' = [pc EXCEPT ![c] = "run"]
      /\ t \in Task /\ t # NULL /\ cpuOf[t] = c
      /\ stack' = [stack EXCEPT ![c] = t]
      /\ regs'  = [regs EXCEPT ![c] = context[t]]
  BY DEF iret, Move, Goto, IInv, TypeOK, CurrentPinned
<1>2. task_count = NTask /\ \A d \in CPU : pc[d] \notin {"boot", "off"}
  BY <1>1, Booted
<1>3. context[t] = progress[t]
  <2>1. \A d \in CPU : current[d] = t => d = c
    BY <1>1 DEF IInv, CurrentPinned
  <2> QED
    BY <1>1, <2>1 DEF IInv, Saved
<1>4. TypeOK'
  BY <1>1 DEF iret, IInv, TypeOK, PCs, Stack, taskVars, ghosts
<1>5. BootAlone'
  BY <1>1, <1>2, NCPUAssumption DEF iret, IInv, TypeOK, BootAlone, taskVars, CPU
<1>6. LockHeld'
  BY <1>1 DEF iret, IInv, TypeOK, LockHeld
<1>7. CurrentPinned' /\ StackPinned' /\ KeysLate'
  BY <1>1 DEF iret, IInv, TypeOK, CurrentPinned, StackPinned, KeysLate, taskVars, ghosts
<1>8. Loaded'
  BY <1>1, <1>3 DEF iret, IInv, TypeOK, Loaded, ghosts
<1>9. Saved'
  BY <1>1 DEF iret, IInv, TypeOK, Saved, ghosts
<1>10. Turns'
  BY TurnsFrame DEF iret, IInv, taskVars, ghosts
<1> QED
  BY <1>4, <1>5, <1>6, <1>7, <1>8, <1>9, <1>10 DEF IInv

LEMMA StepIInv == IInv /\ [Next]_vars => IInv'
<1> SUFFICES ASSUME IInv, [Next]_vars PROVE IInv'
  OBVIOUS
<1>1. CASE create
  BY <1>1, CreateIInv
<1>2. CASE mpe_init
  BY <1>2, MpeInitIInv
<1>3. ASSUME NEW c \in CPU, run(c) PROVE IInv'
  BY <1>3, RunIInv
<1>4. ASSUME NEW c \in CPU, Work(c) PROVE IInv'
  BY <1>4, WorkIInv
<1>5. ASSUME NEW c \in CPU, NEW e \in Event, Trap(c, e) PROVE IInv'
  BY <1>5, TrapIInv
<1>6. ASSUME NEW c \in CPU, trap(c) PROVE IInv'
  BY <1>6, TrapLockIInv, ContextSaveIInv, InputNotifyIInv, ContextSwitchIInv,
     TrapUnlockIInv, IretIInv DEF trap
<1>7. CASE UNCHANGED vars
  <2>1. TypeOK' /\ BootAlone' /\ LockHeld' /\ CurrentPinned' /\ StackPinned' /\ Loaded' /\ Saved' /\ KeysLate'
    BY <1>7 DEF vars, IInv, TypeOK, BootAlone, LockHeld, CurrentPinned, StackPinned,
                Loaded, Saved, KeysLate
  <2>2. Turns'
    BY <1>7, TurnsFrame DEF vars, IInv
  <2> QED
    BY <2>1, <2>2 DEF IInv
<1> QED
  BY <1>1, <1>2, <1>3, <1>4, <1>5, <1>6, <1>7 DEF Next

LEMMA Inductive == Spec => []IInv
BY InitIInv, StepIInv, PTL DEF Spec

----------------------------------------------------------------------------
(* What follows from it. *)

\* kmt.c: every variable of the scheduler keeps its type.
THEOREM TypeCorrect == Spec => []TypeOK
<1>1. IInv => TypeOK
  BY DEF IInv
<1> QED
  BY Inductive, <1>1, PTL

\* Two CPUs never run on one stack: the trap handler may put a task back in the
\* list while it is still on its stack, because no other CPU takes it.
THEOREM StacksExclusive == Spec => []StackExclusive
<1>1. IInv => StackExclusive
  BY NCPUAssumption DEF IInv, StackPinned, StackExclusive, Boot, CPU, Task
<1> QED
  BY Inductive, <1>1, PTL

\* No context_switch resumes a task from an older point than where it stopped.
THEOREM ContextsFresh == Spec => []ContextFresh
<1>1. IInv => ContextFresh
  <2> SUFFICES ASSUME IInv PROVE ContextFresh
    OBVIOUS
  <2>1. ASSUME NEW t \in Task, \A c \in CPU : stack[c] # t PROVE context[t] = progress[t]
    BY <2>1 DEF IInv, Saved, Loaded, Task, NULL
  <2> QED
    BY <2>1 DEF IInv, Loaded, ContextFresh
<1> QED
  BY Inductive, <1>1, PTL

\* Round robin: context_switch takes a task at most once between two turns of
\* another task of its CPU.
THEOREM RoundRobins == Spec => []RoundRobin
<1>1. IInv => RoundRobin
  <2> SUFFICES ASSUME IInv, NEW t \in 1 .. task_count
               PROVE  passed[t] < Cardinality(Pinned(cpuOf[t]))
    BY DEF RoundRobin
  <2> DEFINE c == cpuOf[t]
  <2>1. t \in Task /\ c \in CPU /\ t \in Pinned(c) /\ passed[t] \in Nat
    BY NTaskAssumption DEF IInv, TypeOK, Task, Pinned
  <2>2. /\ IsFiniteSet(Pinned(c)) /\ Cardinality(Pinned(c)) \in Nat
        /\ Cardinality(Pinned(c) \ {t}) = Cardinality(Pinned(c)) - 1
        /\ IsFiniteSet(Pinned(c) \ {t}) /\ Cardinality(Pinned(c) \ {t}) \in Nat
    BY <2>1, PinnedFinite, FS_RemoveElement, FS_CardinalityType
  <2>3. ASSUME NEW u PROVE Cardinality(After(t, u)) \in Nat /\ Cardinality(After(t, u)) <= Cardinality(Pinned(c) \ {t})
    <3>1. After(t, u) \subseteq Pinned(c) \ {t}
      BY DEF After
    <3> QED
      BY <2>1, <2>2, <3>1, AfterFinite, FS_Subset
  <2>4. passed[t] <= IF current[c] = NULL THEN 0 ELSE Cardinality(After(t, current[c]))
    BY <2>1 DEF IInv, Turns
  <2> HIDE DEF c
  <2>5. CASE current[c] = NULL
    BY <2>1, <2>2, <2>4, <2>5 DEF c
  <2>6. CASE current[c] # NULL
    BY <2>1, <2>2, <2>3, <2>4, <2>6 DEF c
  <2> QED
    BY <2>5, <2>6
<1> QED
  BY Inductive, <1>1, PTL

\* With no keyboard interrupt before CPU 0's first switch, no assertion of the
\* scheduler fails and Working marks exactly the current tasks.
THEOREM WorkingAreCurrent ==
  ASSUME ~EarlyKeys PROVE Spec => []WorkingIsCurrent
<1>1. IInv => WorkingIsCurrent
  <2> SUFFICES ASSUME IInv PROVE WorkingIsCurrent
    OBVIOUS
  <2>1. TypeOK /\ ~halted
    BY DEF IInv, KeysLate
  <2>2. ASSUME NEW t \in Task
        PROVE  state[t] = "Working" <=> \E c \in CPU : current[c] = t /\ cpuOf[t] = c
    BY DEF IInv, TypeOK, CurrentPinned
  <2> QED
    BY <2>1, <2>2 DEF WorkingIsCurrent
<1> QED
  BY Inductive, <1>1, PTL

\* Under the same condition a semaphore is signalled only when a task is current.
THEOREM SignalsHaveTask ==
  ASSUME ~EarlyKeys PROVE Spec => []SignalHasTask
<1>1. IInv => SignalHasTask
  BY DEF IInv, KeysLate, SignalHasTask
<1> QED
  BY Inductive, <1>1, PTL
=============================================================================
