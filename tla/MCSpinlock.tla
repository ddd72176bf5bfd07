----------------------------- MODULE MCSpinlock -----------------------------
(* Spinlock on two CPUs: a model value each, and one or two locks. *)
EXTENDS Spinlock
=============================================================================
