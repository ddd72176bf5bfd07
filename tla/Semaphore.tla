----------------------------- MODULE Semaphore ------------------------------
(***************************************************************************)
(* The semaphores of kernel/src/kmt.c.  sem_wait takes the semaphore's     *)
(* spinlock, and as long as the value is 0 gives it back, yields and takes *)
(* it again; sem_signal adds one under the lock.  There is no queue: who   *)
(* waits polls, and whoever finds the value positive first passes.         *)
(*                                                                         *)
(* Users wait and then signal (tty->lock, whose value begins at 1);        *)
(* consumers only wait and producers only signal (event_sem, sem_kbdirq,   *)
(* tty->cooked, which begin at 0).  A producer may be a trap.              *)
(***************************************************************************)
EXTENDS Integers, FiniteSets

CONSTANTS User, Producer, Consumer,
          Initial,      \* sem_init's value
          MaxValue      \* bound: producers signal only below it

ASSUME SemAssumption == /\ Initial \in Nat /\ MaxValue \in Nat
                        /\ User \cap Producer = {} /\ User \cap Consumer = {}
                        /\ Producer \cap Consumer = {}

Process == User \cup Producer \cup Consumer
Nobody  == "nobody"

ASSUME NobodyAssumption == Nobody \notin Process

VARIABLES value,      \* sem->value
          lock,       \* who holds sem->lock
          pc,
          tmp,        \* the value a process loaded before it stores
          count       \* what began, plus each signal, less each wait: the
                      \* value that a single atomic counter would have

vars == <<value, lock, pc, tmp, count>>

PCs == {"idle", "wait", "test", "take", "again", "yield", "passed", "in",
        "signal", "load", "add", "done"}

Init == /\ value   = Initial
        /\ lock    = Nobody
        /\ pc      = [p \in Process |-> "idle"]
        /\ tmp     = [p \in Process |-> 0]
        /\ count   = Initial

Move(p, a, b) == pc[p] = a /\ pc' = [pc EXCEPT ![p] = b]

Acquire(p, a, b) == lock = Nobody /\ lock' = p /\ Move(p, a, b)
Release(p, a, b) == lock = p /\ lock' = Nobody /\ Move(p, a, b)

----------------------------------------------------------------------------
(* sem_wait *)

Wait_Call(p) ==
  /\ p \in User \cup Consumer
  /\ Move(p, "idle", "wait")
  /\ UNCHANGED <<value, lock, tmp, count>>

Wait_Lock(p) == /\ Acquire(p, "wait", "test")
                /\ UNCHANGED <<value, tmp, count>>

\* Mutants: the loop stops one early, or one late.
Wait_Test_Zero(p) == /\ tmp' = [tmp EXCEPT ![p] = value]
                     /\ Move(p, "test", IF value >= 0 THEN "take" ELSE "again")
                     /\ UNCHANGED <<value, lock, count>>
Wait_Test_Two(p)  == /\ tmp' = [tmp EXCEPT ![p] = value]
                     /\ Move(p, "test", IF value > 1 THEN "take" ELSE "again")
                     /\ UNCHANGED <<value, lock, count>>

Wait_Test(p) == /\ tmp' = [tmp EXCEPT ![p] = value]
                /\ Move(p, "test", IF value > 0 THEN "take" ELSE "again")
                /\ UNCHANGED <<value, lock, count>>

Wait_Take(p) == /\ Move(p, "take", "passed")
                /\ value' = tmp[p] - 1
                /\ count' = count - 1
                /\ UNCHANGED <<lock, tmp>>

Wait_Again(p) == /\ Release(p, "again", "yield")
                 /\ UNCHANGED <<value, tmp, count>>

Wait_Yield(p) == /\ Move(p, "yield", "wait")
                 /\ UNCHANGED <<value, lock, tmp, count>>

Wait_Unlock(p) == /\ Release(p, "passed", IF p \in User THEN "in" ELSE "idle")
                  /\ UNCHANGED <<value, tmp, count>>

----------------------------------------------------------------------------
(* sem_signal *)

Signal_Call(p) ==
  /\ \/ Move(p, "in", "signal")
     \/ p \in Producer /\ count < MaxValue /\ Move(p, "idle", "signal")
  /\ UNCHANGED <<value, lock, tmp, count>>

Signal_Lock(p) == /\ Acquire(p, "signal", "load")
                  /\ UNCHANGED <<value, tmp, count>>

Signal_Load(p) == /\ Move(p, "load", "add")
                  /\ tmp' = [tmp EXCEPT ![p] = value]
                  /\ UNCHANGED <<value, lock, count>>

Signal_Add(p) == /\ Move(p, "add", "done")
                 /\ value' = tmp[p] + 1
                 /\ count' = count + 1
                 /\ UNCHANGED <<lock, tmp>>

Signal_Unlock(p) == /\ Release(p, "done", "idle")
                    /\ UNCHANGED <<value, tmp, count>>

----------------------------------------------------------------------------
Calls(p) == Wait_Call(p) \/ Signal_Call(p)

sem_wait(p) == Wait_Lock(p) \/ Wait_Test(p) \/ Wait_Take(p) \/ Wait_Again(p)
               \/ Wait_Yield(p) \/ Wait_Unlock(p)

\* Mutant: sem_signal without its lock.
sem_signal_Unlocked(p) ==
  \/ Move(p, "signal", "load") /\ UNCHANGED <<value, lock, tmp, count>>
  \/ Signal_Load(p)
  \/ Signal_Add(p)
  \/ Move(p, "done", "idle") /\ UNCHANGED <<value, lock, tmp, count>>

sem_signal(p) == Signal_Lock(p) \/ Signal_Load(p) \/ Signal_Add(p) \/ Signal_Unlock(p)

Next == \E p \in Process : Calls(p) \/ sem_wait(p) \/ sem_signal(p)

Spec == Init /\ [][Next]_vars

\* A process in a call keeps running: its CPU runs, and after a yield it is
\* switched to again.  Users leave what they entered.
FairSpec == Spec /\ \A p \in Process : WF_vars(sem_wait(p)) /\ WF_vars(sem_signal(p))

----------------------------------------------------------------------------
(* Properties *)

TypeOK == /\ value \in Int
          /\ lock  \in Process \cup {Nobody}
          /\ pc    \in [Process -> PCs]
          /\ tmp   \in [Process -> Int]
          /\ count \in Int

\* No signal is lost and none is used twice: the value is what it began with,
\* plus the signals, less the waits that passed.
Conserved == value = count

\* It is never negative: nobody passes without a signal that let it.
NeverNegative == value >= 0

\* Polling loses no wakeup: if the value is positive and someone waits, some
\* wait passes (not every: there is no queue).
Waiting(p) == pc[p] \in {"wait", "test", "again", "yield"}

NoLostWakeup ==
  (value > 0 /\ \E p \in Process : Waiting(p))
    ~> (\E p \in Process : pc[p] = "passed")
=============================================================================
