-------------------------------- MODULE MCPmm -------------------------------
(* Pmm on a heap of a few cells. *)
EXTENDS Pmm
=============================================================================
