-------------------------- MODULE SemaphoreProofs ---------------------------
(***************************************************************************)
(* Proofs about Semaphore, for any processes and any initial value: the    *)
(* loads and stores under the spinlock amount to one atomic counter that   *)
(* is never negative.                                                      *)
(***************************************************************************)
EXTENDS Semaphore, TLAPS

\* The steps of a call between taking sem->lock and giving it back.
Inside == {"test", "take", "again", "passed", "load", "add", "done"}

\* What makes it so: only the lock's holder is between its load and its store.
IInv == /\ TypeOK
        /\ Conserved
        /\ NeverNegative
        /\ \A p \in Process : pc[p] \in Inside <=> lock = p
        /\ \A p \in Process : pc[p] \in {"take", "add"} => tmp[p] = value
        /\ \A p \in Process : pc[p] = "take" => value > 0

LEMMA InitIInv == Init => IInv
BY SemAssumption, NobodyAssumption
   DEF Init, IInv, TypeOK, Conserved, NeverNegative, Inside, PCs

LEMMA StepIInv == IInv /\ [Next]_vars => IInv'
<1> SUFFICES ASSUME IInv, [Next]_vars PROVE IInv'
  OBVIOUS
<1> USE NobodyAssumption
    DEF IInv, TypeOK, Conserved, NeverNegative, Inside, PCs, Move, Acquire, Release
<1>1. ASSUME NEW p \in Process, Calls(p) PROVE IInv'
  BY <1>1 DEF Calls, Wait_Call, Signal_Call
<1>2. ASSUME NEW p \in Process, sem_wait(p) PROVE IInv'
  <2>1. CASE Wait_Lock(p)
    BY <2>1 DEF Wait_Lock
  <2>2. CASE Wait_Test(p)
    BY <2>2 DEF Wait_Test
  <2>3. CASE Wait_Take(p)
    BY <2>3 DEF Wait_Take
  <2>4. CASE Wait_Again(p)
    BY <2>4 DEF Wait_Again
  <2>5. CASE Wait_Yield(p)
    BY <2>5 DEF Wait_Yield
  <2>6. CASE Wait_Unlock(p)
    BY <2>6 DEF Wait_Unlock
  <2> QED
    BY <1>2, <2>1, <2>2, <2>3, <2>4, <2>5, <2>6 DEF sem_wait
<1>3. ASSUME NEW p \in Process, sem_signal(p) PROVE IInv'
  <2>1. CASE Signal_Lock(p)
    BY <2>1 DEF Signal_Lock
  <2>2. CASE Signal_Load(p)
    BY <2>2 DEF Signal_Load
  <2>3. CASE Signal_Add(p)
    BY <2>3 DEF Signal_Add
  <2>4. CASE Signal_Unlock(p)
    BY <2>4 DEF Signal_Unlock
  <2> QED
    BY <1>3, <2>1, <2>2, <2>3, <2>4 DEF sem_signal
<1>4. CASE UNCHANGED vars
  BY <1>4 DEF vars
<1> QED
  BY <1>1, <1>2, <1>3, <1>4 DEF Next

LEMMA Inductive == Spec => []IInv
BY InitIInv, StepIInv, PTL DEF Spec

\* No signal is lost and none is used twice.
THEOREM Conservation == Spec => []Conserved
<1>1. IInv => Conserved
  BY DEF IInv
<1> QED
  BY Inductive, <1>1, PTL

\* The value of a semaphore is never negative.
THEOREM Nonnegative == Spec => []NeverNegative
<1>1. IInv => NeverNegative
  BY DEF IInv
<1> QED
  BY Inductive, <1>1, PTL
=============================================================================
