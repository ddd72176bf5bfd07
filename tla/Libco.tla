------------------------------- MODULE Libco --------------------------------
(***************************************************************************)
(* The coroutines of libco/co.c.  One thread of control runs at a time, the*)
(* main program or a coroutine; every action is a call it makes of the     *)
(* library, up to where the next thread's own code goes on.                *)
(*                                                                         *)
(* A context that is saved stands for the thread that goes on when it is   *)
(* swapped in.  A coroutine's ctx is saved when it yields, its pctx when it*)
(* is resumed: there resume_co goes on, with the current_co it remembers.  *)
(* A context can be swapped in once; a second time its stack is gone.      *)
(***************************************************************************)
EXTENDS Naturals, FiniteSets

CONSTANTS Co,        \* the slots of coroutines[]
          MaxCalls,  \* bound on each thread's calls of co_start and co_yield
          MaxStarts, \* bound on the coroutines created
          WaitBelow  \* may a thread wait for one that is below it?

Main   == "main"      \* as a value of current_co, -1
Thread == Co \cup {Main}
None   == "none"

ASSUME CoAssumption == /\ Main \notin Co /\ None \notin Thread
                       /\ MaxCalls \in Nat /\ MaxStarts \in Nat
                       /\ WaitBelow \in BOOLEAN

VARIABLES state, current_co,
          ctx,      \* whose context is saved there, None if it was used
          pctx,     \* the same, and the old_current of its resume_co
          running,  \* whose code runs
          wild,     \* a used context was swapped in, or an assertion failed
          calls, started,   \* how many there were
          number,   \* of the coroutine a slot has or had, 0 if none
          handles,  \* what co_start gave to each thread: slots, with those numbers
          finished, \* the numbers of the coroutines that returned
          waited    \* and of those each thread called co_wait for

control == <<state, current_co, ctx, pctx, running, wild>>
user    == <<calls, started, number, handles, finished>>
vars    == <<control, user, waited>>

Unused == [who |-> None, old |-> Main]

\* co_init
Init == /\ state = [c \in Co |-> "FREE"]
        /\ current_co = Main
        /\ ctx = [c \in Co |-> None] /\ pctx = [c \in Co |-> Unused]
        /\ running = Main /\ wild = FALSE
        /\ calls = [t \in Thread |-> 0] /\ started = 0
        /\ number = [c \in Co |-> 0]
        /\ handles = [t \in Thread |-> {}]
        /\ finished = {} /\ waited = [t \in Thread |-> {}]

----------------------------------------------------------------------------
(* Switching *)

\* The search starts at a random slot.
get_co(s) == {c \in Co : state[c] = s}

\* Mutant: a coroutine that is waited for counts as running.
Resumed_Run(s) == "RUN"

\* The state of a coroutine that is resumed in state s.
Resumed(s) == IF s \in {"SUSPEND", "INIT"} THEN "RUN" ELSE s

\* resume_co(c) by the thread that runs, whose states are S and contexts C.
resume_co(c, S, C) ==
  IF S[c] \in {"FREE", "RUN"} \/ C[c] = None
    THEN wild' = TRUE /\ UNCHANGED <<state, current_co, ctx, pctx, running>>
    ELSE /\ state'      = [S EXCEPT ![c] = Resumed(@)]
         /\ pctx'       = [pctx EXCEPT ![c] = [who |-> running, old |-> current_co]]
         /\ ctx'        = [C EXCEPT ![c] = None]
         /\ current_co' = c
         /\ running'    = C[c]
         /\ UNCHANGED wild

\* Mutant: resume_co does not restore current_co.
Back_Forgetful(c) ==
  IF pctx[c].who = None
    THEN wild' = TRUE /\ UNCHANGED <<current_co, pctx, running>>
    ELSE /\ running'    = pctx[c].who
         /\ pctx'       = [pctx EXCEPT ![c] = Unused]
         /\ UNCHANGED <<wild, current_co>>

\* Back to the resume_co that resumed c.
Back(c) ==
  IF pctx[c].who = None
    THEN wild' = TRUE /\ UNCHANGED <<current_co, pctx, running>>
    ELSE /\ running'    = pctx[c].who
         /\ current_co' = pctx[c].old
         /\ pctx'       = [pctx EXCEPT ![c] = Unused]
         /\ UNCHANGED wild

----------------------------------------------------------------------------
(* The library *)

May == calls[running] < MaxCalls /\ calls' = [calls EXCEPT ![running] = @ + 1]

\* Without a free slot it returns NULL and nothing changes.
co_start ==
  /\ May
  /\ started < MaxStarts /\ started' = started + 1
  /\ \E c \in get_co("FREE") :
       /\ resume_co(c, [state EXCEPT ![c] = "INIT"], [ctx EXCEPT ![c] = c])
       /\ number'  = [number EXCEPT ![c] = started + 1]
       /\ handles' = [handles EXCEPT ![running] = @ \cup {<<c, started + 1>>}]
  /\ UNCHANGED <<finished, waited>>

\* Mutant: a coroutine that is waited for yields to its parent as well.
co_yield_Parent_Always ==
  /\ current_co # Main /\ state[current_co] \in {"RUN", "BEWAIT"}
  /\ state' = [state EXCEPT ![current_co] = "SUSPEND"]
  /\ ctx'   = [ctx EXCEPT ![current_co] = running]
  /\ Back(current_co)

\* A coroutine that runs goes back to where it was resumed.
co_yield_Parent ==
  /\ current_co # Main /\ state[current_co] = "RUN"
  /\ state' = [state EXCEPT ![current_co] = "SUSPEND"]
  /\ ctx'   = [ctx EXCEPT ![current_co] = running]
  /\ Back(current_co)

\* One that is waited for resumes another, if any is suspended.
co_yield_Other ==
  /\ current_co # Main /\ state[current_co] = "BEWAIT"
  /\ IF get_co("SUSPEND") = {} THEN UNCHANGED control
     ELSE \E c \in get_co("SUSPEND") : resume_co(c, state, ctx)

\* The main program's does nothing; in any other state an assertion fails.
co_yield_None ==
  \/ current_co = Main /\ UNCHANGED control
  \/ /\ current_co # Main /\ state[current_co] \notin {"RUN", "BEWAIT"}
     /\ wild' = TRUE
     /\ UNCHANGED <<state, current_co, ctx, pctx, running>>

co_yield == /\ May
            /\ co_yield_Parent \/ co_yield_Other \/ co_yield_None
            /\ UNCHANGED <<started, number, handles, finished, waited>>

\* Mutant: the slot of a finished coroutine is not freed.
Finish_Unfreed == /\ running # Main
          /\ UNCHANGED state
          /\ Back(running)
          /\ finished' = finished \cup {number[running]}
          /\ calls'    = [calls EXCEPT ![running] = 0]
          /\ handles'  = [handles EXCEPT ![running] = {}]
          /\ waited'   = [waited EXCEPT ![running] = {}]
          /\ UNCHANGED <<ctx, started, number>>

\* co_func_wrap's end; uc_link leads back to resume_co.
Finish == /\ running # Main
          /\ state'    = [state EXCEPT ![running] = "FREE"]
          /\ Back(running)
          /\ finished' = finished \cup {number[running]}
          /\ calls'    = [calls EXCEPT ![running] = 0]
          /\ handles'  = [handles EXCEPT ![running] = {}]
          /\ waited'   = [waited EXCEPT ![running] = {}]
          /\ UNCHANGED <<ctx, started, number>>

\* The coroutines on the stack of resumes: each resumed the next one on it.
Below == {c \in Co : pctx[c].who # None}

\* co_wait on a handle from co_start, of coroutine n, whose slot may have been
\* given to another since.  It does not look whether that one is below the
\* caller on the stack of resumes, where its context is used up.
co_wait(c, n) ==
  /\ <<c, n>> \in handles[running]
  /\ WaitBelow \/ c \notin Below
  /\ IF state[c] = "FREE" THEN UNCHANGED control
     ELSE resume_co(c, [state EXCEPT ![c] = "BEWAIT"], ctx)
  /\ waited' = [waited EXCEPT ![running] = @ \cup {n}]
  /\ UNCHANGED user

Next == ~wild /\ (co_start \/ co_yield \/ Finish
                  \/ \E c \in Co, n \in 1 .. MaxStarts : co_wait(c, n))

Spec == Init /\ [][Next]_vars

----------------------------------------------------------------------------
(* Properties *)

TypeOK == /\ state \in [Co -> {"FREE", "INIT", "RUN", "SUSPEND", "BEWAIT"}]
          /\ current_co \in Thread /\ running \in Thread /\ wild \in BOOLEAN
          /\ ctx \in [Co -> Thread \cup {None}]
          /\ pctx \in [Co -> [who : Thread \cup {None}, old : Thread]]
          /\ calls \in [Thread -> 0 .. MaxCalls] /\ started \in 0 .. MaxStarts
          /\ number \in [Co -> 0 .. MaxStarts] /\ handles \in [Thread -> SUBSET (Co \X (1 .. MaxStarts))]
          /\ finished \subseteq 1 .. MaxStarts
          /\ waited \in [Thread -> SUBSET (1 .. MaxStarts)]

\* No context is swapped in twice, and no assertion on the states fails:
\* resume_co and co_yield only meet states they handle.
NoStaleSwitch == ~wild

\* current_co names the thread that runs, through any nesting of resumes, and a
\* coroutine's state says which of its contexts can be swapped in: its own if it
\* is suspended, that of its resumer if it runs or is waited for.  Every variable
\* keeps its type.
ContextsSound ==
  /\ TypeOK /\ current_co = running
  /\ \A c \in Co :
       /\ state[c] = "SUSPEND" <=> ctx[c] = c
       /\ state[c] \in {"RUN", "BEWAIT"} <=> pctx[c].who # None

\* co_wait returns only when the coroutine has finished, however often that
\* coroutine yields meanwhile.
WaitsForEnd == \A t \in Thread : running = t => waited[t] \subseteq finished
=============================================================================
