----------------------------- MODULE LibcoProofs -----------------------------
(***************************************************************************)
(* Proofs about Libco, for any number of slots, of calls and of coroutines,*)
(* while no thread waits for a coroutine below it on the stack of resumes: *)
(* no context is swapped in twice, states and current_co are in step with  *)
(* the contexts, and co_wait returns when what it waits for has ended.     *)
(***************************************************************************)
EXTENDS Libco, TLAPS

\* A coroutine's state says which of its contexts can be swapped in, and its
\* slot is free only when the coroutine it had has returned.
SlotsOK ==
  \A c \in Co : /\ ctx[c] = IF state[c] = "SUSPEND" THEN c ELSE None
                /\ state[c] \in {"RUN", "BEWAIT"} <=> c \in Below
                /\ state[c] # "INIT"
                /\ state[c] = "FREE" => number[c] = 0 \/ number[c] \in finished
                /\ state[c] # "FREE" => number[c] # 0

\* pctx[c] of every slot.
Saved == [Co -> [who : Thread \cup {None}, old : Thread]]

\* The stack of resumes: each thread below the running one resumed one other.
ResumesOK ==
  /\ running \in Below \cup {Main}
  /\ \A c \in Below : /\ pctx[c].who \in Below \cup {Main}
                      /\ pctx[c].who # running
                      /\ pctx[c].old = pctx[c].who
  /\ \A c, d \in Below : pctx[c].who = pctx[d].who => c = d

\* The resumes do not go round in a circle: every part of the stack has a
\* coroutine that was resumed from outside it.
NoCircle ==
  \A S \in SUBSET Below : S # {} => \E c \in S : pctx[c].who \notin S

\* A handle leads to its coroutine until that has returned.
HandlesOK ==
  \A t \in Thread : \A h \in handles[t] : h[2] = number[h[1]] \/ h[2] \in finished

\* A wait that is not over keeps its coroutine waited for, and resumed by the
\* thread that waits.
WaitsOK ==
  \A t \in Thread : \A n \in waited[t] \ finished :
    \E c \in Co : number[c] = n /\ state[c] = "BEWAIT" /\ pctx[c].who = t

IInv == /\ TypeOK
        /\ ~wild
        /\ current_co = running
        /\ SlotsOK
        /\ ResumesOK
        /\ NoCircle
        /\ HandlesOK
        /\ WaitsOK

----------------------------------------------------------------------------
(* The two ways of switching. *)

\* A coroutine that is resumed goes on top of the stack of resumes.
LEMMA ResumeStack ==
  ASSUME IInv, NEW c \in Co, c \notin Below,
         pctx' = [pctx EXCEPT ![c] = [who |-> running, old |-> current_co]],
         running' = c
  PROVE  Below' = Below \cup {c} /\ ResumesOK' /\ NoCircle'
<1>1. running \in Thread /\ running # None /\ running # c
  BY CoAssumption DEF IInv, TypeOK, ResumesOK, Thread
<1>2. /\ pctx'[c].who = running /\ pctx'[c].old = running
      /\ \A d \in Co \ {c} : pctx'[d] = pctx[d]
  BY DEF IInv, TypeOK
<1>3. Below' = Below \cup {c}
  BY <1>1, <1>2 DEF Below
<1>4. ResumesOK'
  <2>1. \A d \in Below : pctx'[d] = pctx[d] /\ d \in Co
    BY <1>2 DEF Below
  <2>2. \A d \in Below : pctx[d].who # c
    BY CoAssumption DEF IInv, ResumesOK, Thread
  <2> QED
    BY <1>1, <1>2, <1>3, <2>1, <2>2 DEF IInv, ResumesOK
<1>5. NoCircle'
  <2> SUFFICES ASSUME NEW S \in SUBSET (Below \cup {c}), S # {}
               PROVE  \E d \in S : pctx'[d].who \notin S
    BY <1>3 DEF NoCircle
  <2>1. \A d \in Below : d # c /\ pctx'[d] = pctx[d] /\ pctx[d].who # c
    BY <1>2, CoAssumption DEF Below, IInv, ResumesOK, Thread
  <2>2. CASE S = {c}
    BY <1>1, <1>2, <2>2
  <2>3. CASE S # {c}
    <3>1. PICK d \in S \ {c} : pctx[d].who \notin S \ {c}
      BY <2>3 DEF IInv, NoCircle
    <3> QED
      BY <2>1, <3>1
  <2> QED
    BY <2>2, <2>3
<1> QED
  BY <1>3, <1>4, <1>5

\* A coroutine that yields to its resumer, or returns, leaves the stack.
LEMMA BackStack ==
  ASSUME IInv, running # Main, Back(running)
  PROVE  /\ running \in Below /\ Below' = Below \ {running}
         /\ pctx' = [pctx EXCEPT ![running] = Unused]
         /\ running' = pctx[running].who /\ running' # running
         /\ current_co' = running' /\ running' \in Thread
         /\ wild' = FALSE /\ pctx' \in Saved /\ ResumesOK' /\ NoCircle'
<1>1. running \in Below /\ running \in Co
  BY DEF IInv, ResumesOK, Below
<1>2. /\ running' = pctx[running].who /\ current_co' = pctx[running].old
      /\ pctx' = [pctx EXCEPT ![running] = Unused] /\ wild' = FALSE
  BY <1>1 DEF Back, Below, IInv, TypeOK
<1>3. /\ current_co' = running' /\ running' \in Below \cup {Main} /\ running' # running
      /\ running' \in Thread
  BY <1>1, <1>2 DEF IInv, ResumesOK, Below, Thread
<1>4. \A d \in Co : pctx'[d] = IF d = running THEN Unused ELSE pctx[d]
  BY <1>1, <1>2 DEF IInv, TypeOK
<1>5. Below' = Below \ {running}
  BY <1>1, <1>4 DEF Below, Unused
<1>6. \A d \in Below' : d \in Below /\ d # running /\ d \in Co /\ pctx'[d] = pctx[d]
  BY <1>4, <1>5 DEF Below
<1>7. ResumesOK'
  <2>1. running' \in Below' \cup {Main}
    BY <1>3, <1>5
  <2>2. ASSUME NEW d \in Below'
        PROVE  pctx'[d].who \in Below' \cup {Main} /\ pctx'[d].who # running' /\ pctx'[d].old = pctx'[d].who
    BY <1>1, <1>2, <1>5, <1>6 DEF IInv, ResumesOK
  <2>3. ASSUME NEW d \in Below', NEW e \in Below', pctx'[d].who = pctx'[e].who PROVE d = e
    BY <1>6, <2>3 DEF IInv, ResumesOK
  <2> QED
    BY <2>1, <2>2, <2>3 DEF ResumesOK
<1>8. NoCircle'
  BY <1>5, <1>6 DEF IInv, NoCircle
<1>9. pctx' \in Saved
  <2>1. Unused \in [who : Thread \cup {None}, old : Thread]
    BY DEF Unused, Thread
  <2> QED
    BY <1>2, <2>1 DEF IInv, TypeOK, Saved
<1> QED
  BY <1>1, <1>2, <1>3, <1>5, <1>7, <1>8, <1>9

\* resume_co of a coroutine that is not below succeeds if its context is there.
LEMMA ResumeControl ==
  ASSUME IInv, NEW c \in Co, c \notin Below, NEW s \in {"INIT", "SUSPEND", "BEWAIT"},
         NEW S, S = [state EXCEPT ![c] = s], NEW C, C = [ctx EXCEPT ![c] = c],
         resume_co(c, S, C)
  PROVE  /\ state' = [state EXCEPT ![c] = IF s = "BEWAIT" THEN "BEWAIT" ELSE "RUN"]
         /\ ctx' = [ctx EXCEPT ![c] = None]
         /\ pctx' = [pctx EXCEPT ![c] = [who |-> running, old |-> current_co]]
         /\ current_co' = c /\ running' = c /\ wild' = FALSE
         /\ pctx' \in Saved
         /\ Below' = Below \cup {c} /\ ResumesOK' /\ NoCircle'
<1>1. S[c] = s /\ C[c] = c /\ c # None
  BY CoAssumption DEF IInv, TypeOK, Thread
<1>2. /\ state'      = [S EXCEPT ![c] = Resumed(@)]
      /\ pctx'       = [pctx EXCEPT ![c] = [who |-> running, old |-> current_co]]
      /\ ctx'        = [C EXCEPT ![c] = None]
      /\ current_co' = c /\ running' = c /\ wild' = FALSE
  BY <1>1 DEF resume_co, IInv, TypeOK
<1>3. state' = [state EXCEPT ![c] = IF s = "BEWAIT" THEN "BEWAIT" ELSE "RUN"]
  BY <1>1, <1>2 DEF Resumed, IInv, TypeOK
<1>4. ctx' = [ctx EXCEPT ![c] = None]
  BY <1>2 DEF IInv, TypeOK
<1>5. pctx' \in Saved
  <2>1. [who |-> running, old |-> current_co] \in [who : Thread \cup {None}, old : Thread]
    BY DEF IInv, TypeOK
  <2> QED
    BY <1>2, <2>1 DEF IInv, TypeOK, Saved
<1> QED
  BY <1>2, <1>3, <1>4, <1>5, ResumeStack

\* What a resume does to the conjuncts about the slots and the waits.
LEMMA ResumeIInv ==
  ASSUME IInv, NEW c \in Co, c \notin Below, NEW r \in {"RUN", "BEWAIT"},
         state' = [state EXCEPT ![c] = r], ctx' = [ctx EXCEPT ![c] = None],
         pctx' = [pctx EXCEPT ![c] = [who |-> running, old |-> current_co]],
         current_co' = c, running' = c, wild' = FALSE,
         Below' = Below \cup {c}, ResumesOK', NoCircle',
         TypeOK', HandlesOK', finished' = finished, number'[c] # 0,
         \A d \in Co \ {c} : number'[d] = number[d],
         \A t \in Thread : \A n \in waited'[t] \ finished :
           n \in waited[t] \/ (t = running /\ n = number'[c] /\ r = "BEWAIT")
  PROVE  IInv'
<1>1. SlotsOK'
  BY CoAssumption DEF IInv, TypeOK, SlotsOK, Thread
<1>2. WaitsOK'
  <2> SUFFICES ASSUME NEW t \in Thread, NEW n \in waited'[t] \ finished
               PROVE  \E d \in Co : number'[d] = n /\ state'[d] = "BEWAIT" /\ pctx'[d].who = t
    BY DEF WaitsOK
  <2>1. CASE n \in waited[t]
    <3>1. PICK d \in Co : number[d] = n /\ state[d] = "BEWAIT" /\ pctx[d].who = t
      BY <2>1 DEF IInv, WaitsOK
    <3>2. d # c
      BY <3>1 DEF IInv, SlotsOK
    <3> QED
      BY <3>1, <3>2 DEF IInv, TypeOK
  <2>2. CASE t = running /\ n = number'[c] /\ r = "BEWAIT"
    BY <2>2 DEF IInv, TypeOK
  <2> QED
    BY <2>1, <2>2
<1> QED
  BY <1>1, <1>2 DEF IInv

----------------------------------------------------------------------------
(* The invariant is inductive. *)

LEMMA InitIInv == Init => IInv
<1> SUFFICES ASSUME Init PROVE IInv
  OBVIOUS
<1>1. TypeOK
  <2>1. Unused \in [who : Thread \cup {None}, old : Thread] /\ 0 \in 0 .. MaxCalls /\ 0 \in 0 .. MaxStarts
    BY CoAssumption DEF Unused, Thread
  <2> QED
    BY <2>1 DEF Init, TypeOK, Thread
<1>2. Below = {}
  BY DEF Init, Below, Unused
<1>3. SlotsOK /\ ResumesOK /\ NoCircle
  BY <1>2 DEF Init, SlotsOK, ResumesOK, NoCircle
<1>4. HandlesOK /\ WaitsOK
  BY DEF Init, HandlesOK, WaitsOK
<1> QED
  BY <1>1, <1>3, <1>4 DEF Init, IInv

LEMMA StartIInv ==
  ASSUME IInv, co_start PROVE IInv'
<1>1. PICK c \in get_co("FREE") :
        /\ resume_co(c, [state EXCEPT ![c] = "INIT"], [ctx EXCEPT ![c] = c])
        /\ number'  = [number EXCEPT ![c] = started + 1]
        /\ handles' = [handles EXCEPT ![running] = @ \cup {<<c, started + 1>>}]
  BY DEF co_start
<1>2. /\ calls' = [calls EXCEPT ![running] = @ + 1] /\ calls[running] < MaxCalls
      /\ started < MaxStarts /\ started' = started + 1
      /\ UNCHANGED <<finished, waited>>
  BY DEF co_start, May
<1>3. c \in Co /\ state[c] = "FREE" /\ c \notin Below
  BY <1>1 DEF get_co, IInv, SlotsOK
<1>4. /\ state' = [state EXCEPT ![c] = "RUN"]
      /\ ctx' = [ctx EXCEPT ![c] = None]
      /\ pctx' = [pctx EXCEPT ![c] = [who |-> running, old |-> current_co]]
      /\ current_co' = c /\ running' = c /\ wild' = FALSE /\ pctx' \in Saved
      /\ Below' = Below \cup {c} /\ ResumesOK' /\ NoCircle'
  BY <1>1, <1>3, ResumeControl
<1>5. started + 1 \in 1 .. MaxStarts /\ started + 1 # 0 /\ calls[running] + 1 \in 0 .. MaxCalls
  BY <1>2, CoAssumption DEF IInv, TypeOK
<1>6. TypeOK'
  <2>1. number' \in [Co -> 0 .. MaxStarts] /\ started' \in 0 .. MaxStarts
    BY <1>1, <1>2, <1>3, <1>5, CoAssumption DEF IInv, TypeOK
  <2>2. handles' \in [Thread -> SUBSET (Co \X (1 .. MaxStarts))]
    BY <1>1, <1>3, <1>5 DEF IInv, TypeOK
  <2> QED
    BY <1>2, <1>3, <1>4, <1>5, <2>1, <2>2 DEF IInv, TypeOK, Thread, Saved
<1>7. HandlesOK'
  <2> SUFFICES ASSUME NEW t \in Thread, NEW h \in handles'[t]
               PROVE  h[2] = number'[h[1]] \/ h[2] \in finished
    BY <1>2 DEF HandlesOK
  <2>1. number'[c] = started + 1 /\ \A d \in Co \ {c} : number'[d] = number[d]
    BY <1>1, <1>3 DEF IInv, TypeOK
  <2>2. CASE h = <<c, started + 1>>
    BY <2>1, <2>2
  <2>3. CASE h # <<c, started + 1>>
    <3>1. h \in handles[t] /\ h[1] \in Co /\ h[2] # 0
      BY <1>1, <2>3 DEF IInv, TypeOK
    <3>2. h[2] = number[h[1]] \/ h[2] \in finished
      BY <3>1 DEF IInv, HandlesOK
    <3>3. number[c] = 0 \/ number[c] \in finished
      BY <1>3 DEF IInv, SlotsOK
    <3> QED
      BY <2>1, <3>1, <3>2, <3>3
  <2> QED
    BY <2>2, <2>3
<1>8. number'[c] # 0 /\ \A d \in Co \ {c} : number'[d] = number[d]
  BY <1>1, <1>3, <1>5 DEF IInv, TypeOK
<1> QED
  BY <1>2, <1>3, <1>4, <1>6, <1>7, <1>8, ResumeIInv

LEMMA YieldParentIInv ==
  ASSUME IInv, May, co_yield_Parent, UNCHANGED <<started, number, handles, finished, waited>>
  PROVE  IInv'
<1>1. /\ running # Main /\ state[running] = "RUN" /\ Back(running)
      /\ state' = [state EXCEPT ![running] = "SUSPEND"]
      /\ ctx'   = [ctx EXCEPT ![running] = running]
  BY DEF co_yield_Parent, IInv
<1>2. /\ running \in Below /\ Below' = Below \ {running}
      /\ pctx' = [pctx EXCEPT ![running] = Unused]
      /\ current_co' = running' /\ running' \in Thread
      /\ wild' = FALSE /\ pctx' \in Saved /\ ResumesOK' /\ NoCircle'
  BY <1>1, BackStack
<1>3. running \in Co
  BY <1>2 DEF Below
<1>4. TypeOK'
  <2>1. calls' \in [Thread -> 0 .. MaxCalls]
    BY CoAssumption DEF May, IInv, TypeOK
  <2> QED
    BY <1>1, <1>2, <1>3, <2>1 DEF IInv, TypeOK, Thread, Saved
<1>5. SlotsOK'
  BY <1>1, <1>2, <1>3 DEF IInv, TypeOK, SlotsOK
<1>6. HandlesOK'
  BY DEF IInv, HandlesOK
<1>7. WaitsOK'
  BY <1>1, <1>2, <1>3 DEF IInv, TypeOK, WaitsOK
<1> QED
  BY <1>2, <1>4, <1>5, <1>6, <1>7 DEF IInv

LEMMA YieldOtherIInv ==
  ASSUME IInv, May, co_yield_Other, UNCHANGED <<started, number, handles, finished, waited>>
  PROVE  IInv'
<1>1. calls' \in [Thread -> 0 .. MaxCalls]
  BY CoAssumption DEF May, IInv, TypeOK
<1>2. CASE UNCHANGED control
  BY <1>1, <1>2 DEF control, IInv, TypeOK, SlotsOK, ResumesOK, NoCircle, HandlesOK, WaitsOK, Below
<1>3. ASSUME NEW c \in get_co("SUSPEND"), resume_co(c, state, ctx) PROVE IInv'
  <2>1. c \in Co /\ state[c] = "SUSPEND" /\ ctx[c] = c /\ c \notin Below /\ number[c] # 0
    BY <1>3 DEF get_co, IInv, SlotsOK
  <2>2. state = [state EXCEPT ![c] = "SUSPEND"] /\ ctx = [ctx EXCEPT ![c] = c]
    BY <2>1 DEF IInv, TypeOK
  <2>3. /\ state' = [state EXCEPT ![c] = "RUN"]
        /\ ctx' = [ctx EXCEPT ![c] = None]
        /\ pctx' = [pctx EXCEPT ![c] = [who |-> running, old |-> current_co]]
        /\ current_co' = c /\ running' = c /\ wild' = FALSE /\ pctx' \in Saved
        /\ Below' = Below \cup {c} /\ ResumesOK' /\ NoCircle'
    BY <1>3, <2>1, <2>2, ResumeControl
  <2>4. TypeOK'
    BY <1>1, <2>1, <2>3 DEF IInv, TypeOK, Thread, Saved
  <2>5. HandlesOK'
    BY DEF IInv, HandlesOK
  <2> QED
    BY <2>1, <2>3, <2>4, <2>5, ResumeIInv
<1> QED
  BY <1>2, <1>3 DEF co_yield_Other

LEMMA YieldNoneIInv ==
  ASSUME IInv, May, co_yield_None, UNCHANGED <<started, number, handles, finished, waited>>
  PROVE  IInv'
<1>1. calls' \in [Thread -> 0 .. MaxCalls]
  BY CoAssumption DEF May, IInv, TypeOK
<1>2. UNCHANGED control
  BY DEF co_yield_None, IInv, ResumesOK, SlotsOK, Below
<1> QED
  BY <1>1, <1>2 DEF control, IInv, TypeOK, SlotsOK, ResumesOK, NoCircle, HandlesOK, WaitsOK, Below

LEMMA FinishIInv ==
  ASSUME IInv, Finish PROVE IInv'
<1>1. /\ running # Main /\ Back(running)
      /\ state' = [state EXCEPT ![running] = "FREE"]
      /\ finished' = finished \cup {number[running]}
      /\ UNCHANGED <<ctx, started, number>>
      /\ calls'    = [calls EXCEPT ![running] = 0]
      /\ handles'  = [handles EXCEPT ![running] = {}]
      /\ waited'   = [waited EXCEPT ![running] = {}]
  BY DEF Finish
<1>2. /\ running \in Below /\ Below' = Below \ {running}
      /\ pctx' = [pctx EXCEPT ![running] = Unused]
      /\ current_co' = running' /\ running' \in Thread
      /\ wild' = FALSE /\ pctx' \in Saved /\ ResumesOK' /\ NoCircle'
  BY <1>1, BackStack
<1>3. running \in Co /\ state[running] \in {"RUN", "BEWAIT"}
  BY <1>2 DEF Below, IInv, SlotsOK
<1>4. TypeOK'
  <2>1. calls' \in [Thread -> 0 .. MaxCalls]
    BY <1>1, CoAssumption DEF IInv, TypeOK
  <2>2. number[running] \in 1 .. MaxStarts
    BY <1>3, CoAssumption DEF IInv, TypeOK, SlotsOK
  <2>3. finished' \subseteq 1 .. MaxStarts
    BY <1>1, <2>2 DEF IInv, TypeOK
  <2> QED
    BY <1>1, <1>2, <1>3, <2>1, <2>3 DEF IInv, TypeOK, Thread, Saved
<1>5. SlotsOK'
  BY <1>1, <1>2, <1>3 DEF IInv, TypeOK, SlotsOK
<1>6. HandlesOK'
  BY <1>1 DEF IInv, TypeOK, HandlesOK
<1>7. WaitsOK'
  <2> SUFFICES ASSUME NEW t \in Thread, NEW n \in waited'[t] \ finished'
               PROVE  \E d \in Co : number[d] = n /\ state'[d] = "BEWAIT" /\ pctx'[d].who = t
    BY <1>1 DEF WaitsOK
  <2>1. n \in waited[t] \ finished /\ n # number[running]
    BY <1>1 DEF IInv, TypeOK
  <2>2. PICK d \in Co : number[d] = n /\ state[d] = "BEWAIT" /\ pctx[d].who = t
    BY <2>1 DEF IInv, WaitsOK
  <2> QED
    BY <1>1, <1>2, <2>1, <2>2 DEF IInv, TypeOK
<1> QED
  BY <1>2, <1>4, <1>5, <1>6, <1>7 DEF IInv

LEMMA WaitIInv ==
  ASSUME ~WaitBelow, IInv, NEW c \in Co, NEW n \in 1 .. MaxStarts, co_wait(c, n)
  PROVE  IInv'
<1>1. /\ <<c, n>> \in handles[running] /\ c \notin Below
      /\ waited' = [waited EXCEPT ![running] = @ \cup {n}]
      /\ UNCHANGED <<calls, started, number, handles, finished>>
  BY DEF co_wait, user
<1>2. n = number[c] \/ n \in finished
  BY <1>1 DEF IInv, TypeOK, HandlesOK
<1>3. waited' \in [Thread -> SUBSET (1 .. MaxStarts)]
  BY <1>1 DEF IInv, TypeOK
<1>4. \A t \in Thread : \A m \in waited'[t] : m \in waited[t] \/ (t = running /\ m = n)
  BY <1>1 DEF IInv, TypeOK
<1>5. HandlesOK'
  BY <1>1 DEF IInv, HandlesOK
<1>6. CASE state[c] = "FREE"
  <2>1. UNCHANGED control
    BY <1>6 DEF co_wait
  <2>2. n \in finished
    BY <1>2, <1>6 DEF IInv, SlotsOK
  <2>3. WaitsOK'
    BY <1>1, <1>4, <2>1, <2>2 DEF control, IInv, WaitsOK
  <2> QED
    BY <1>1, <1>3, <1>5, <2>1, <2>3 DEF control, IInv, TypeOK, SlotsOK, ResumesOK, NoCircle, Below
<1>7. CASE state[c] # "FREE"
  <2>1. state[c] = "SUSPEND" /\ ctx[c] = c /\ number[c] # 0
    BY <1>1, <1>7 DEF IInv, TypeOK, SlotsOK
  <2>2. ctx = [ctx EXCEPT ![c] = c]
    BY <2>1 DEF IInv, TypeOK
  <2>3. /\ state' = [state EXCEPT ![c] = "BEWAIT"]
        /\ ctx' = [ctx EXCEPT ![c] = None]
        /\ pctx' = [pctx EXCEPT ![c] = [who |-> running, old |-> current_co]]
        /\ current_co' = c /\ running' = c /\ wild' = FALSE /\ pctx' \in Saved
        /\ Below' = Below \cup {c} /\ ResumesOK' /\ NoCircle'
    <3>1. resume_co(c, [state EXCEPT ![c] = "BEWAIT"], ctx)
      BY <1>7 DEF co_wait
    <3> QED
      BY <1>1, <2>2, <3>1, ResumeControl
  <2>4. TypeOK'
    BY <1>1, <1>3, <2>3 DEF IInv, TypeOK, Thread, Saved
  <2>5. /\ number'[c] # 0 /\ finished' = finished
        /\ \A d \in Co \ {c} : number'[d] = number[d]
        /\ \A t \in Thread : \A m \in waited'[t] \ finished :
             m \in waited[t] \/ (t = running /\ m = number'[c] /\ "BEWAIT" = "BEWAIT")
    BY <1>1, <1>2, <1>4, <2>1
  <2>6. "BEWAIT" \in {"RUN", "BEWAIT"} /\ c \notin Below
    BY <1>1
  <2> QED
    BY <1>5, <2>3, <2>4, <2>5, <2>6, ResumeIInv, Zenon
<1> QED
  BY <1>6, <1>7

LEMMA StepIInv ==
  ASSUME ~WaitBelow PROVE IInv /\ [Next]_vars => IInv'
<1> SUFFICES ASSUME IInv, [Next]_vars PROVE IInv'
  OBVIOUS
<1>1. CASE co_start
  BY <1>1, StartIInv
<1>2. CASE co_yield
  BY <1>2, YieldParentIInv, YieldOtherIInv, YieldNoneIInv DEF co_yield
<1>3. CASE Finish
  BY <1>3, FinishIInv
<1>4. ASSUME NEW c \in Co, NEW n \in 1 .. MaxStarts, co_wait(c, n) PROVE IInv'
  BY <1>4, WaitIInv
<1>5. CASE UNCHANGED vars
  BY <1>5, SMTT(30) DEF vars, control, user, IInv, TypeOK, SlotsOK, ResumesOK, NoCircle, HandlesOK, WaitsOK, Below
<1> QED
  BY <1>1, <1>2, <1>3, <1>4, <1>5 DEF Next

LEMMA Inductive ==
  ASSUME ~WaitBelow PROVE Spec => []IInv
BY InitIInv, StepIInv, PTL DEF Spec

----------------------------------------------------------------------------
(* What follows from it. *)

\* Every swapcontext of co.c finds a context that was saved and not used since,
\* and no assertion on a state fails.
THEOREM NoStaleSwitches ==
  ASSUME ~WaitBelow PROVE Spec => []NoStaleSwitch
<1>1. IInv => NoStaleSwitch
  BY DEF IInv, NoStaleSwitch
<1> QED
  BY Inductive, <1>1, PTL

\* current_co and the states of the coroutines agree with the saved contexts.
THEOREM ContextsAreSound ==
  ASSUME ~WaitBelow PROVE Spec => []ContextsSound
<1>1. IInv => ContextsSound
  BY CoAssumption DEF IInv, SlotsOK, ContextsSound, Below, Thread
<1> QED
  BY Inductive, <1>1, PTL

\* co_wait returns only when the coroutine has finished: the thread that waits
\* is on the stack of resumes, below a coroutine that does not yield to it.
THEOREM WaitsForTheEnd ==
  ASSUME ~WaitBelow PROVE Spec => []WaitsForEnd
<1>1. IInv => WaitsForEnd
  <2> SUFFICES ASSUME IInv, NEW n \in waited[running], n \notin finished PROVE FALSE
    BY DEF WaitsForEnd
  <2>1. PICK c \in Co : state[c] = "BEWAIT" /\ pctx[c].who = running
    BY DEF IInv, TypeOK, WaitsOK
  <2> QED
    BY <2>1 DEF IInv, SlotsOK, ResumesOK
<1> QED
  BY Inductive, <1>1, PTL

\* While the main program runs nothing is below it, so its own waits meet the
\* condition, whatever it waits for: libco/tests/main.c waits only there.
THEOREM MainAlone ==
  ASSUME ~WaitBelow PROVE Spec => [](running = Main => Below = {})
<1>1. IInv => (running = Main => Below = {})
  <2> SUFFICES ASSUME IInv, running = Main, Below # {} PROVE FALSE
    OBVIOUS
  <2>1. PICK c \in Below : pctx[c].who \notin Below
    BY DEF IInv, NoCircle
  <2> QED
    BY <2>1 DEF IInv, ResumesOK
<1> QED
  BY Inductive, <1>1, PTL
=============================================================================
