-------------------------------- MODULE MCKmt -------------------------------
(* Kmt on small machines: processors, tasks and work as the cfg gives them. *)
EXTENDS Kmt
=============================================================================
