------------------------------ MODULE MCLibco -------------------------------
(* Libco with a few slots, for the main program and nested coroutines. *)
EXTENDS Libco
=============================================================================
