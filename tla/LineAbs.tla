------------------------------ MODULE LineAbs -------------------------------
(***************************************************************************)
(* What the terminals promise to those who read them: each has a line      *)
(* being edited, which backspace shortens and return completes, and the    *)
(* completed lines come out one by one, whole and in their order.          *)
(***************************************************************************)
EXTENDS SequencesExt

CONSTANTS Tty, Char, Return

VARIABLES edit,   \* the line being typed
          ready,  \* the lines completed and not yet read
          out     \* the lines read

vars == <<edit, ready, out>>

Init == /\ edit  = [t \in Tty |-> <<>>]
        /\ ready = [t \in Tty |-> <<>>]
        /\ out   = [t \in Tty |-> <<>>]

Type(t, c) == /\ edit' = [edit EXCEPT ![t] = Append(@, c)]
              /\ UNCHANGED <<ready, out>>

Erase(t) == /\ edit[t] # <<>>
            /\ edit' = [edit EXCEPT ![t] = Front(@)]
            /\ UNCHANGED <<ready, out>>

Enter(t) == /\ ready' = [ready EXCEPT ![t] = Append(@, Append(edit[t], Return))]
            /\ edit'  = [edit EXCEPT ![t] = <<>>]
            /\ UNCHANGED out

Deliver(t) == /\ ready[t] # <<>>
              /\ out'   = [out EXCEPT ![t] = Append(@, Head(ready[t]))]
              /\ ready' = [ready EXCEPT ![t] = Tail(@)]
              /\ UNCHANGED edit

Next == \E t \in Tty : \/ \E c \in Char : Type(t, c)
                       \/ Erase(t) \/ Enter(t) \/ Deliver(t)

Spec == Init /\ [][Next]_vars
=============================================================================
