------------------------------ MODULE MCInput -------------------------------
(* Input with two readers on a ring of three slots. *)
EXTENDS Input
=============================================================================
