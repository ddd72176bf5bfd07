------------------------------- MODULE Input --------------------------------
(***************************************************************************)
(* The keyboard of kernel/src/devices/input/input.c: the controller's      *)
(* queue of scan codes and its interrupt; input_task, which drains the     *)
(* queue, follows the modifier keys and pushes events into a ring; and the *)
(* readers (tty_task, a reader of /dev/input), which pop them.             *)
(*                                                                         *)
(* The semaphores are counters: that sem_wait and sem_signal of kmt.c are  *)
(* atomic to their callers is shown in module Semaphore.                   *)
(***************************************************************************)
EXTENDS Naturals, SequencesExt

CONSTANTS Reader,
          Key,       \* the keys in use, a subset of AllKey
          NEVENTS,   \* slots of the ring
          MaxCodes   \* bound on the scan codes of a behaviour

AllKey == {"lshift", "rshift", "capslock", "lctrl", "lalt",
           "a", "1", "return",
           "escape",     \* a key keymap has no character for
           "unknown"}    \* a scan code the table has no key for

ASSUME InputAssumption == /\ Key \subseteq AllKey
                          /\ NEVENTS \in Nat \ {0, 1} /\ MaxCodes \in Nat

Nobody    == "nobody"
InputTask == "input-task"
Task      == Reader \cup {InputTask}

ASSUME ReaderAssumption == Nobody \notin Task /\ InputTask \notin Reader

keymap       == [k \in {"a", "1", "return"} |->
                   CASE k = "a" -> "a" [] k = "1" -> "1" [] OTHER -> "\n"]
keymap_shift == [k \in {"a", "1", "return"} |->
                   CASE k = "a" -> "A" [] k = "1" -> "!" [] OTHER -> "nul"]

Event == [ctrl : BOOLEAN, alt : BOOLEAN, data : {"a", "A", "1", "!", "\n", "nul"}]
event(c, a, d) == [ctrl |-> c, alt |-> a, data |-> d]
NoEvent == event(FALSE, FALSE, "nul")

Code == [key : Key, down : BOOLEAN]

VARIABLES held,       \* the keys that are down
          hw,         \* the controller's queue of codes
          irq,        \* the interrupt is pending
          codes,      \* how many codes there were
          sem_kbdirq, event_sem,
          capslock, down,             \* input_t: capslock, and the modifiers
          events, front, rear, lock,  \* input_t: the ring and its lock
          pc,
          ev,         \* the event a task pushes or popped
          halted,     \* "no", or the message of the panic
          typed,      \* the events the keyboard's history stands for
          popped      \* the events readers took, in the order they took them

keyboard == <<held, codes, typed>>
modifier == <<capslock, down>>
ring     == <<events, front, rear>>
vars     == <<keyboard, hw, irq, sem_kbdirq, event_sem, modifier, ring, lock,
              pc, ev, halted, popped>>

Init ==
  /\ held = {} /\ hw = <<>> /\ irq = FALSE /\ codes = 0
  /\ sem_kbdirq = 0 /\ event_sem = 0
  /\ capslock = FALSE /\ down = {}
  /\ events = [i \in 0 .. NEVENTS - 1 |-> NoEvent] /\ front = 0 /\ rear = 0
  /\ lock = Nobody
  /\ pc = [t \in Task |-> IF t = InputTask THEN "read_key" ELSE "idle"]
  /\ ev = [t \in Task |-> NoEvent]
  /\ halted = "no"
  /\ typed = <<>> /\ popped = <<>>

Move(t, a, b) == halted = "no" /\ pc[t] = a /\ pc' = [pc EXCEPT ![t] = b]

----------------------------------------------------------------------------
(* The keyboard.  typed says what a key means when it is pressed: the      *)
(* modifiers are those that are down on the keyboard at that moment, and   *)
(* caps lock is on if it was pressed an odd number of times.               *)

Locked == "capsLocked"
Holds(K) == held \cap K # {}

Meaning(k) ==
  IF k \notin DOMAIN keymap THEN <<>>
  ELSE IF Holds({"lctrl", "lalt"})
    THEN << event("lctrl" \in held, "lalt" \in held, keymap[k]) >>
  ELSE LET upper == IF k = "a" /\ Locked \in held
                      THEN ~Holds({"lshift", "rshift"})
                      ELSE Holds({"lshift", "rshift"})
       IN << event(FALSE, FALSE, IF upper THEN keymap_shift[k] ELSE keymap[k]) >>

\* The controller raises its line when its queue becomes non-empty.
Sends(k, d) == /\ codes < MaxCodes
               /\ codes' = codes + 1
               /\ hw'  = Append(hw, [key |-> k, down |-> d])
               /\ irq' = (irq \/ hw = <<>>)
               /\ UNCHANGED <<sem_kbdirq, event_sem, modifier, ring, lock, pc, ev,
                              halted, popped>>

Press(k) == /\ Sends(k, TRUE)
            /\ held'  = IF k = "capslock"
                          THEN (held \cup {k, Locked}) \ (held \cap {Locked})
                          ELSE held \cup {k}
            /\ typed' = typed \o Meaning(k)

Release(k) == /\ k \in held
              /\ Sends(k, FALSE)
              /\ held' = held \ {k}
              /\ UNCHANGED typed

\* The interrupt, on some CPU between any two steps.
input_notify ==
  /\ halted = "no" /\ irq
  /\ irq' = FALSE
  /\ sem_kbdirq' = sem_kbdirq + 1
  /\ UNCHANGED <<keyboard, hw, event_sem, modifier, ring, lock, pc, ev, popped, halted>>

----------------------------------------------------------------------------
(* input_task *)

\* Taking a code from the controller makes it raise its line for the next.
read_key == /\ hw'  = Tail(hw)
            /\ irq' = (irq \/ Tail(hw) # <<>>)

Idle == /\ Move(InputTask, "read_key", "wait")
        /\ UNCHANGED <<modifier, ev>>

\* Mutant: a key that comes up lets go of its twin on the other side as well.
Modifiers_Twin(c) ==
  /\ capslock' = IF c.down /\ c.key = "capslock" THEN ~capslock ELSE capslock
  /\ down' = IF c.key \notin {"lshift", "rshift", "lctrl", "lalt"} THEN down
             ELSE IF c.down THEN down \cup {c.key}
             ELSE down \ (IF c.key \in {"lshift", "rshift"} THEN {"lshift", "rshift"} ELSE {c.key})

\* The modifier keys' part of input_keydown.
Modifiers(c) ==
  /\ capslock' = IF c.down /\ c.key = "capslock" THEN ~capslock ELSE capslock
  /\ down' = IF c.key \notin {"lshift", "rshift", "lctrl", "lalt"} THEN down
             ELSE IF c.down THEN down \cup {c.key} ELSE down \ {c.key}

Shift == {"lshift", "rshift"} \cap down # {}
Ctrl  == "lctrl" \in down
Alt   == "lalt" \in down

\* The event input_keydown pushes for a key that keymap has.
Translated(k) ==
  LET shift == IF k = "a" THEN Shift # capslock ELSE Shift
  IN IF Ctrl \/ Alt THEN event(Ctrl, Alt, keymap[k])
     ELSE event(FALSE, FALSE, IF shift THEN keymap_shift[k] ELSE keymap[k])

\* read_key() and input_keydown() up to push_event.  A code without a key
\* reads as 0 and ends the loop, as an empty controller does.
input_keydown ==
  \/ hw = <<>> /\ Idle /\ UNCHANGED <<hw, irq>>
  \/ /\ hw # <<>> /\ read_key
     /\ LET c == Head(hw)
        IN \/ c.key = "unknown" /\ Idle
           \/ /\ c.key # "unknown"
              /\ Modifiers(c)
              /\ IF c.down /\ c.key \in DOMAIN keymap
                   THEN /\ Move(InputTask, "read_key", "push")
                        /\ ev' = [ev EXCEPT ![InputTask] = Translated(c.key)]
                   ELSE Move(InputTask, "read_key", "read_key") /\ UNCHANGED ev

Read == input_keydown
        /\ UNCHANGED <<keyboard, sem_kbdirq, event_sem, ring, lock, halted, popped>>

Await == /\ Move(InputTask, "wait", "read_key")
         /\ sem_kbdirq > 0 /\ sem_kbdirq' = sem_kbdirq - 1
         /\ UNCHANGED <<keyboard, hw, irq, event_sem, modifier, ring, lock, ev, halted, popped>>

----------------------------------------------------------------------------
(* push_event and pop_event *)

device == <<keyboard, hw, irq, sem_kbdirq, modifier>>

Lock(t, a, b) == /\ lock = Nobody /\ lock' = t
                 /\ Move(t, a, b)
                 /\ UNCHANGED <<device, event_sem, ring, ev, halted, popped>>

Unlock(t, a, b) == /\ lock' = Nobody
                   /\ Move(t, a, b)
                   /\ UNCHANGED <<device, event_sem, ring, ev, halted, popped>>

Push_Lock == Lock(InputTask, "push", "store")

Push_Store ==
  /\ Move(InputTask, "store", "stored")
  /\ events' = [events EXCEPT ![rear] = ev[InputTask]]
  /\ rear'   = (rear + 1) % NEVENTS
  /\ halted' = IF rear' = front THEN "input queue full" ELSE halted
  /\ UNCHANGED <<device, event_sem, front, lock, ev, popped>>

Push_Unlock == Unlock(InputTask, "stored", "signal")

\* Mutant: only the first of several events wakes a reader.
Push_Signal_First ==
  /\ Move(InputTask, "signal", "read_key")
  /\ event_sem' = IF rear = (front + 1) % NEVENTS THEN event_sem + 1 ELSE event_sem
  /\ UNCHANGED <<device, ring, lock, ev, halted, popped>>

Push_Signal ==
  /\ Move(InputTask, "signal", "read_key")
  /\ event_sem' = event_sem + 1
  /\ UNCHANGED <<device, ring, lock, ev, halted, popped>>

push_event == Push_Lock \/ Push_Store \/ Push_Unlock \/ Push_Signal

\* Mutant: two readers pass for one event.
Pop_Wait_Loose(r) ==
  /\ Move(r, "idle", "pop")
  /\ event_sem > 0 /\ event_sem' \in {event_sem, event_sem - 1}
  /\ UNCHANGED <<device, ring, lock, ev, halted, popped>>

Pop_Wait(r) ==
  /\ Move(r, "idle", "pop")
  /\ event_sem > 0 /\ event_sem' = event_sem - 1
  /\ UNCHANGED <<device, ring, lock, ev, halted, popped>>

Pop_Lock(r) == Lock(r, "pop", "take")

Pop_Take(r) ==
  /\ Move(r, "take", "taken")
  /\ IF rear = front
       THEN halted' = "input queue empty" /\ UNCHANGED <<front, ev, popped>>
       ELSE /\ front'  = (front + 1) % NEVENTS
            /\ ev'     = [ev EXCEPT ![r] = events[front]]
            /\ popped' = Append(popped, events[front])
            /\ UNCHANGED halted
  /\ UNCHANGED <<device, event_sem, events, rear, lock>>

Pop_Unlock(r) == Unlock(r, "taken", "idle")

pop_event(r) == Pop_Wait(r) \/ Pop_Lock(r) \/ Pop_Take(r) \/ Pop_Unlock(r)

----------------------------------------------------------------------------
input_task == Read \/ Await \/ push_event

Next == \/ \E k \in Key : Press(k) \/ Release(k)
        \/ input_notify
        \/ input_task
        \/ \E r \in Reader : pop_event(r)

Spec == Init /\ [][Next]_vars

\* Interrupts are served, and every task runs again and again (module Kmt),
\* so that a task whose semaphore stays positive passes it.
FairSpec == /\ Spec
            /\ WF_vars(input_notify)
            /\ WF_vars(input_task)
            /\ \A r \in Reader : WF_vars(pop_event(r))

----------------------------------------------------------------------------
(* Properties *)

TypeOK ==
  /\ held \subseteq Key \cup {Locked}
  /\ hw \in Seq(Code) /\ irq \in BOOLEAN /\ codes \in 0 .. MaxCodes
  /\ sem_kbdirq \in Nat /\ event_sem \in Nat
  /\ capslock \in BOOLEAN /\ down \subseteq Key
  /\ events \in [0 .. NEVENTS - 1 -> Event]
  /\ front \in 0 .. NEVENTS - 1 /\ rear \in 0 .. NEVENTS - 1
  /\ lock \in Task \cup {Nobody}
  /\ pc \in [Task -> {"read_key", "wait", "push", "store", "stored", "signal",
                      "idle", "pop", "take", "taken"}]
  /\ ev \in [Task -> Event]
  /\ halted \in {"no", "input queue full", "input queue empty"}
  /\ typed \in Seq(Event) /\ popped \in Seq(Event)

\* The events in the ring, from front to rear.
Queued == [i \in 1 .. (rear + NEVENTS - front) % NEVENTS |-> events[(front + i - 1) % NEVENTS]]

\* Keys are never lost, doubled, reordered or seen under modifiers other than
\* those that were down when they were pressed, however late input_task and
\* the readers run: what was popped, then what is queued, then what is being
\* pushed, is what was typed so far, and all of it once the codes are read.
Pushing == IF pc[InputTask] \in {"push", "store"} THEN << ev[InputTask] >> ELSE <<>>

KeysInOrder ==
  halted = "no" =>
    LET seen == popped \o Queued \o Pushing
    IN /\ IsPrefix(seen, typed)
       /\ hw = <<>> => seen = typed

\* The machine is halted only for a full ring, in which NEVENTS events wait,
\* and never for an empty one: who passed event_sem finds an event, for the
\* count in the semaphore, the readers between it and the ring, and the ring
\* agree.  Every variable keeps its type.
HaltsRightly ==
  /\ TypeOK
  /\ halted # "input queue empty"
  /\ halted = "input queue full" => Len(typed) - Len(popped) >= NEVENTS

\* Every key is delivered in the end, although a code without a key makes
\* input_task sleep with codes still in the controller, and interrupts that
\* come before the last one was served are one.
Delivered ==
  \A n \in 1 .. MaxCodes :
    (Len(typed) >= n) ~> (Len(popped) >= n \/ halted # "no")
=============================================================================
