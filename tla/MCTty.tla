------------------------------- MODULE MCTty --------------------------------
(* Two terminals of two columns by two lines, and two programs. *)
EXTENDS Tty

Strings == { <<"cr", "y", "enter">> }

ShellSymmetry == Permutations(Shell)
=============================================================================
