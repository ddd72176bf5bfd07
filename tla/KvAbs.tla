------------------------------- MODULE KvAbs --------------------------------
(***************************************************************************)
(* What libkvdb promises: a map from keys to values that puts change one   *)
(* at a time, and completely.                                              *)
(***************************************************************************)
CONSTANTS Key, Value, NoValue

VARIABLE store

Init == store = [k \in Key |-> NoValue]

Put(k, v) == store' = [store EXCEPT ![k] = v]

Next == \E k \in Key, v \in Value : Put(k, v)

Spec == Init /\ [][Next]_store
=============================================================================
