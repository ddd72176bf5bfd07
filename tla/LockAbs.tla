------------------------------ MODULE LockAbs -------------------------------
(***************************************************************************)
(* What a lock promises: a set of locks, each held by one process or by    *)
(* none, where a process takes only a free lock and gives back only its    *)
(* own.  The processes are a CPU's task and the trap that interrupts it.   *)
(***************************************************************************)
CONSTANTS Process, Resource, Nobody

VARIABLE holder      \* holder[l]: who is in the critical section of lock l

Init == holder = [l \in Resource |-> Nobody]

Take(p, l) == /\ holder[l] = Nobody
              /\ holder' = [holder EXCEPT ![l] = p]

Give(p, l) == /\ holder[l] = p
              /\ holder' = [holder EXCEPT ![l] = Nobody]

Next == \E p \in Process, l \in Resource : Take(p, l) \/ Give(p, l)

Spec == Init /\ [][Next]_holder
=============================================================================
