----------------------------- MODULE InputProofs -----------------------------
(***************************************************************************)
(* Proofs about Input, for any readers, any number of slots and any number *)
(* of scan codes: keys come out in the order and with the meaning they     *)
(* were typed with, and the only panic is that of a full ring.             *)
(*                                                                         *)
(* The keyboard's history is related to what input_task will make of the   *)
(* codes in the controller by replaying them: ds are the modifiers after   *)
(* each of those codes, ps how many of the events typed come before then.  *)
(***************************************************************************)
EXTENDS Input, Integers, FiniteSetTheorems, SequenceTheorems, TLAPS

Size == (rear + NEVENTS - front) % NEVENTS

\* How many of the events typed input_task has read the codes of.
Pushes == IF pc[InputTask] \in {"push", "store"} THEN 1 ELSE 0
Seen   == Len(popped) + Size + Pushes

\* What was popped, the ring and the event being pushed are the events typed,
\* one after the other.
RingOK ==
  /\ Seen <= Len(typed)
  /\ \A i \in 1 .. Len(popped) : popped[i] = typed[i]
  /\ \A i \in 1 .. Size : events[(front + i - 1) % NEVENTS] = typed[Len(popped) + i]
  /\ Pushes = 1 => ev[InputTask] = typed[Seen]

\* Every event in the ring is promised to a reader, in event_sem, by one that
\* has passed it, or by the push that is about to signal.
Popping == {r \in Reader : pc[r] \in {"pop", "take"}}
CountOK ==
  /\ IsFiniteSet(Popping)
  /\ event_sem + Cardinality(Popping)
       + (IF pc[InputTask] \in {"stored", "signal"} THEN 1 ELSE 0) = Size

\* What the meaning of a key depends on: the modifier keys that are down, and
\* Locked if caps lock is on.
ModKey == {"lshift", "rshift", "lctrl", "lalt"}
Mods   == IF capslock THEN down \cup {Locked} ELSE down
ModsAfter(d, c) ==
  IF c.key = "capslock" /\ c.down THEN (d \cup {Locked}) \ (d \cap {Locked})
  ELSE IF c.key \notin ModKey THEN d
  ELSE IF c.down THEN d \cup {c.key} ELSE d \ {c.key}

\* Whether the code c makes an event, and the one it makes.
Gives(c) == c.down /\ c.key \in DOMAIN keymap
EventAt(d, k) ==
  LET shift == d \cap {"lshift", "rshift"} # {}
      upper == IF k = "a" /\ Locked \in d THEN ~shift ELSE shift
  IN IF "lctrl" \in d \/ "lalt" \in d THEN event("lctrl" \in d, "lalt" \in d, keymap[k])
     ELSE event(FALSE, FALSE, IF upper THEN keymap_shift[k] ELSE keymap[k])

ReplayedBy(ds, ps) ==
  /\ ds[0] = Mods /\ ds[Len(hw)] = held \cap (ModKey \cup {Locked})
  /\ ps[0] = Seen /\ ps[Len(hw)] = Len(typed)
  /\ \A i \in 1 .. Len(hw) :
       /\ ds[i] = ModsAfter(ds[i - 1], hw[i])
       /\ ps[i] = ps[i - 1] + (IF Gives(hw[i]) THEN 1 ELSE 0)
       /\ ps[i] <= Len(typed)
       /\ Gives(hw[i]) => typed[ps[i]] = EventAt(ds[i - 1], hw[i].key)

\* down never has Locked in it, nor a key that is not a modifier.
Replayed == /\ down \subseteq ModKey
            /\ \E ds \in [Nat -> SUBSET (Key \cup {Locked})], ps \in [Nat -> Nat] : ReplayedBy(ds, ps)

IInv == /\ TypeOK
        /\ halted # "input queue empty"
        /\ halted = "input queue full" => Len(typed) - Len(popped) >= NEVENTS
        /\ halted = "no" => RingOK /\ CountOK /\ Replayed

----------------------------------------------------------------------------
(* The ring. *)

\* How far apart the ends are, and where the i-th event is.
LEMMA RingSize ==
  ASSUME NEW n \in Nat \ {0}, NEW f \in 0 .. n - 1, NEW r \in 0 .. n - 1
  PROVE  (r + n - f) % n = IF f <= r THEN r - f ELSE (r - f) + n
OBVIOUS

LEMMA RingNext ==
  ASSUME NEW n \in Nat \ {0}, NEW f \in 0 .. n - 1
  PROVE  (f + 1) % n = IF f + 1 = n THEN 0 ELSE f + 1
OBVIOUS

LEMMA RingSlot ==
  ASSUME NEW n \in Nat \ {0}, NEW f \in 0 .. n - 1, NEW i \in 1 .. n
  PROVE  (f + i - 1) % n = IF f + i - 1 < n THEN f + i - 1 ELSE (f + i - 1) - n
OBVIOUS

\* A push fills the slot after the last event; it meets front exactly when the
\* ring had room for no other.
PushMeets(n, f, r, s) ==
  /\ s \in 0 .. n - 1
  /\ (r + 1) % n = f => s = n - 1
  /\ (r + 1) % n # f => (((r + 1) % n) + n - f) % n = s + 1
  /\ (f + (s + 1) - 1) % n = r
  /\ \A i \in 1 .. s : (f + i - 1) % n # r /\ (f + i - 1) % n \in 0 .. n - 1
  /\ (r + 1) % n \in 0 .. n - 1

LEMMA RingPush ==
  ASSUME NEW n \in Nat \ {0}, NEW f \in 0 .. n - 1, NEW r \in 0 .. n - 1,
         NEW s, s = (r + n - f) % n
  PROVE  PushMeets(n, f, r, s)
<1>1. s = IF f <= r THEN r - f ELSE (r - f) + n
  BY RingSize
<1>2. (r + 1) % n = IF r + 1 = n THEN 0 ELSE r + 1
  BY RingNext
<1>3. s \in 0 .. n - 1
  BY <1>1
<1>4. (r + 1) % n # f => (((r + 1) % n) + n - f) % n = s + 1
  <2> DEFINE q == (r + 1) % n
  <2>1. q \in 0 .. n - 1 /\ q = IF r + 1 = n THEN 0 ELSE r + 1
    BY <1>2
  <2> HIDE DEF q
  <2>2. (q + n - f) % n = IF f <= q THEN q - f ELSE (q - f) + n
    BY <2>1, RingSize
  <2> QED
    BY <1>1, <2>1, <2>2 DEF q
<1>5. (f + (s + 1) - 1) % n = r
  <2>1. (f + (s + 1) - 1) % n = IF f + (s + 1) - 1 < n THEN f + (s + 1) - 1 ELSE (f + (s + 1) - 1) - n
    BY <1>3, RingSlot
  <2> QED
    BY <1>1, <2>1
<1>6. ASSUME NEW i \in 1 .. s PROVE (f + i - 1) % n # r /\ (f + i - 1) % n \in 0 .. n - 1
  <2>1. (f + i - 1) % n = IF f + i - 1 < n THEN f + i - 1 ELSE (f + i - 1) - n
    BY <1>3, RingSlot
  <2> QED
    BY <1>1, <2>1
<1> QED
  BY <1>1, <1>2, <1>3, <1>4, <1>5, <1>6, SMTT(30) DEF PushMeets

\* A pop from a ring that is not empty moves every event one place forward.
PopMoves(n, f, r, s) ==
  /\ s \in 1 .. n - 1
  /\ (f + 1) % n \in 0 .. n - 1
  /\ (r + n - ((f + 1) % n)) % n = s - 1
  /\ (f + 1 - 1) % n = f
  /\ \A i \in 1 .. s - 1 : (((f + 1) % n) + i - 1) % n = (f + (i + 1) - 1) % n

LEMMA RingPop ==
  ASSUME NEW n \in Nat \ {0}, NEW f \in 0 .. n - 1, NEW r \in 0 .. n - 1, r # f,
         NEW s, s = (r + n - f) % n
  PROVE  PopMoves(n, f, r, s)
<1>1. s = IF f <= r THEN r - f ELSE (r - f) + n
  BY RingSize
<1> DEFINE q == (f + 1) % n
<1>2. q \in 0 .. n - 1 /\ q = IF f + 1 = n THEN 0 ELSE f + 1
  BY RingNext
<1> HIDE DEF q
<1>3. (r + n - q) % n = IF q <= r THEN r - q ELSE (r - q) + n
  BY <1>2, RingSize
<1>4. (f + 1 - 1) % n = f
  BY RingSlot
<1>5. ASSUME NEW i \in 1 .. s - 1 PROVE (q + i - 1) % n = (f + (i + 1) - 1) % n
  <2>1. s - 1 < n /\ i \in 1 .. n /\ i + 1 \in 1 .. n
    BY <1>1
  <2>2. (q + i - 1) % n = IF q + i - 1 < n THEN q + i - 1 ELSE (q + i - 1) - n
    BY <1>2, <2>1, RingSlot
  <2>3. (f + (i + 1) - 1) % n = IF f + (i + 1) - 1 < n THEN f + (i + 1) - 1 ELSE (f + (i + 1) - 1) - n
    BY <2>1, RingSlot
  <2> QED
    BY <1>2, <2>1, <2>2, <2>3
<1>6. s \in 1 .. n - 1 /\ (r + n - q) % n = s - 1
  BY <1>1, <1>2, <1>3
<1> QED
  BY <1>2, <1>4, <1>5, <1>6 DEF q, PopMoves

----------------------------------------------------------------------------
(* What a key means. *)

LEMMA KeymapTypes ==
  ASSUME NEW k \in DOMAIN keymap
  PROVE  /\ k \in {"a", "1", "return"}
         /\ keymap[k] \in {"a", "A", "1", "!", "\n", "nul"}
         /\ keymap_shift[k] \in {"a", "A", "1", "!", "\n", "nul"}
BY DEF keymap, keymap_shift

LEMMA EventType ==
  ASSUME NEW k \in DOMAIN keymap, NEW d
  PROVE  EventAt(d, k) \in Event
<1>1. /\ keymap[k] \in {"a", "A", "1", "!", "\n", "nul"}
      /\ keymap_shift[k] \in {"a", "A", "1", "!", "\n", "nul"}
  BY KeymapTypes
<1>2. ASSUME NEW c \in BOOLEAN, NEW a \in BOOLEAN, NEW x \in {"a", "A", "1", "!", "\n", "nul"}
      PROVE  event(c, a, x) \in Event
  BY DEF event, Event
<1>3. event("lctrl" \in d, "lalt" \in d, keymap[k]) \in Event
  <2>1. ("lctrl" \in d) \in BOOLEAN /\ ("lalt" \in d) \in BOOLEAN
    OBVIOUS
  <2> QED
    BY <1>1, <1>2, <2>1
<1>4. event(FALSE, FALSE, keymap[k]) \in Event /\ event(FALSE, FALSE, keymap_shift[k]) \in Event
  BY <1>1, <1>2
<1> QED
  BY <1>3, <1>4 DEF EventAt

\* The keyboard and input_task agree on it, given the same modifiers.
LEMMA MeaningOfKey ==
  ASSUME NEW k
  PROVE  Meaning(k) = IF k \in DOMAIN keymap
                      THEN << EventAt(held \cap (ModKey \cup {Locked}), k) >> ELSE << >>
<1> DEFINE d == held \cap (ModKey \cup {Locked})
<1>1. /\ Holds({"lctrl", "lalt"}) <=> ("lctrl" \in d \/ "lalt" \in d)
      /\ Holds({"lshift", "rshift"}) <=> (d \cap {"lshift", "rshift"} # {})
      /\ Locked \in held <=> Locked \in d
      /\ ("lctrl" \in held) = ("lctrl" \in d)
      /\ ("lalt" \in held) = ("lalt" \in d)
  BY DEF Holds, ModKey
<1> QED
  BY <1>1 DEF Meaning, EventAt

LEMMA TranslatedIs ==
  ASSUME NEW k, down \subseteq ModKey, capslock \in BOOLEAN
  PROVE  Translated(k) = EventAt(Mods, k)
<1>1. /\ Shift <=> (Mods \cap {"lshift", "rshift"} # {})
      /\ capslock <=> Locked \in Mods
      /\ ("lctrl" \in down) = ("lctrl" \in Mods)
      /\ ("lalt" \in down) = ("lalt" \in Mods)
  BY DEF Shift, Mods, ModKey, Locked
<1>2. (IF k = "a" THEN Shift # capslock ELSE Shift)
        <=> IF k = "a" /\ Locked \in Mods THEN ~(Mods \cap {"lshift", "rshift"} # {})
            ELSE Mods \cap {"lshift", "rshift"} # {}
  BY <1>1 DEF Shift
<1> QED
  BY <1>1, <1>2 DEF Translated, EventAt, Ctrl, Alt

----------------------------------------------------------------------------
(* Arithmetic that the steps below need, away from the state. *)

LEMMA OneMore ==
  ASSUME NEW m \in Nat, NEW x \in 0 .. m, x < m PROVE x + 1 \in 0 .. m
OBVIOUS

LEMMA NextPlace ==
  ASSUME NEW p \in Nat, NEW q \in Nat, NEW l \in Nat, NEW t \in Nat, NEW b \in BOOLEAN,
         l <= t, p <= l, p = q + (IF b THEN 1 ELSE 0)
  PROVE  p <= t /\ (b => p \in 1 .. l)
OBVIOUS

LEMMA StillFull ==
  ASSUME NEW n \in Nat, NEW t \in Nat, NEW u \in Nat, NEW p \in Nat, t <= u, t - p >= n
  PROVE  u - p >= n
OBVIOUS

LEMMA NoRoom ==
  ASSUME NEW n \in Nat, NEW t \in Nat, NEW p \in Nat, NEW z, z = n - 1, p + z + 1 <= t
  PROVE  t - p >= n
OBVIOUS

LEMMA Counters ==
  ASSUME IInv
  PROVE  /\ codes \in 0 .. MaxCodes /\ sem_kbdirq \in Nat /\ event_sem \in Nat
         /\ irq \in BOOLEAN /\ capslock \in BOOLEAN
         /\ Len(typed) \in Nat /\ Len(popped) \in Nat /\ Len(hw) \in Nat
<1>1. typed \in Seq(Event) /\ popped \in Seq(Event) /\ hw \in Seq(Code)
  BY DEF IInv, TypeOK
<1>2. /\ codes \in 0 .. MaxCodes /\ sem_kbdirq \in Nat /\ event_sem \in Nat
      /\ irq \in BOOLEAN /\ capslock \in BOOLEAN
  BY DEF IInv, TypeOK
<1> QED
  BY <1>1, <1>2, LenProperties

LEMMA SubSeqOfSeq ==
  ASSUME NEW S, NEW s \in Seq(S), NEW n \in Nat, n <= Len(s)
  PROVE  /\ SubSeq(s, 1, n) \in Seq(S) /\ Len(SubSeq(s, 1, n)) = n
         /\ \A i \in 1 .. n : SubSeq(s, 1, n)[i] = s[i]
<1>1. \A i \in 1 .. n : s[i] \in S
  OBVIOUS
<1> QED
  BY <1>1, SubSeqProperties

LEMMA Ends ==
  ASSUME TypeOK
  PROVE  /\ front \in 0 .. NEVENTS - 1 /\ rear \in 0 .. NEVENTS - 1
         /\ NEVENTS \in Nat \ {0} /\ Size \in 0 .. NEVENTS - 1 /\ Size \in Nat
<1>1. front \in 0 .. NEVENTS - 1 /\ rear \in 0 .. NEVENTS - 1 /\ NEVENTS \in Nat \ {0}
  BY InputAssumption DEF TypeOK
<1>2. Size \in 0 .. NEVENTS - 1
  BY <1>1, RingPush DEF Size, PushMeets
<1> QED
  BY <1>1, <1>2

----------------------------------------------------------------------------
(* The invariant is inductive. *)

LEMMA InitIInv == Init => IInv
<1> SUFFICES ASSUME Init PROVE IInv
  OBVIOUS
<1>1. TypeOK
  <2>1. NoEvent \in Event
    BY DEF NoEvent, event, Event
  <2>2. 0 \in 0 .. NEVENTS - 1 /\ 0 \in 0 .. MaxCodes
    BY InputAssumption
  <2>3. << >> \in Seq(Code) /\ << >> \in Seq(Event)
    BY EmptySeq
  <2> QED
    BY <2>1, <2>2, <2>3 DEF Init, TypeOK, Task
<1>2. Size = 0
  BY InputAssumption, RingSize DEF Init, Size
<1>3. Pushes = 0 /\ Len(popped) = 0 /\ Len(typed) = 0 /\ Len(hw) = 0
  BY DEF Init, Pushes, Task
<1>4. RingOK
  BY <1>2, <1>3 DEF RingOK, Seen
<1>5. CountOK
  <2>1. Popping = {}
    BY ReaderAssumption DEF Init, Popping, Task
  <2> QED
    BY <1>2, <2>1, FS_EmptySet DEF Init, CountOK, Task
<1>6. Replayed
  <2>1. PICK ds \in [Nat -> SUBSET (Key \cup {Locked})], ps \in [Nat -> Nat] :
          ds = [i \in Nat |-> {}] /\ ps = [i \in Nat |-> 0]
    OBVIOUS
  <2>2. ds[0] = {} /\ ps[0] = 0
    BY <2>1
  <2>3. Mods = {} /\ held \cap (ModKey \cup {Locked}) = {} /\ Seen = 0
    BY <1>2, <1>3 DEF Init, Seen, Mods
  <2>4. ReplayedBy(ds, ps)
    BY <1>3, <2>2, <2>3 DEF ReplayedBy
  <2> QED
    BY <2>4 DEF Init, Replayed
<1> QED
  BY <1>1, <1>4, <1>5, <1>6 DEF Init, IInv

\* A step away from the keyboard, the controller and the ring keeps the history.
LEMMA Frame ==
  ASSUME RingOK, Replayed, Pushes' = Pushes, ev'[InputTask] = ev[InputTask],
         UNCHANGED <<events, front, rear, popped, typed, hw, capslock, down, held>>
  PROVE  RingOK' /\ Replayed'
<1>1. Size' = Size /\ Seen' = Seen
  BY DEF Size, Seen
<1>2. RingOK'
  BY <1>1 DEF RingOK
<1>3. Mods' = Mods /\ \A ds, ps : ReplayedBy(ds, ps)' <=> ReplayedBy(ds, ps)
  BY <1>1 DEF ReplayedBy, Mods
<1> QED
  BY <1>2, <1>3 DEF Replayed

\* One code more in the controller, and one event more typed if it makes one.
Sent(c) ==
  /\ hw' = Append(hw, c)
  /\ UNCHANGED <<capslock, down, popped, events, front, rear, pc, ev>>
  /\ held' \in SUBSET (Key \cup {Locked})
  /\ held' \cap (ModKey \cup {Locked}) = ModsAfter(held \cap (ModKey \cup {Locked}), c)
  /\ typed' \in Seq(Event)
  /\ Len(typed') = Len(typed) + (IF Gives(c) THEN 1 ELSE 0)
  /\ \A i \in 1 .. Len(typed) : typed'[i] = typed[i]
  /\ Gives(c) => typed'[Len(typed) + 1] = EventAt(held \cap (ModKey \cup {Locked}), c.key)

LEMMA SendReplayed ==
  ASSUME IInv, halted = "no", NEW c \in Code, Sent(c)
  PROVE  RingOK' /\ Replayed'
<1>0. /\ Len(hw) \in Nat /\ Len(typed) \in Nat /\ Len(popped) \in Nat /\ Len(typed') \in Nat
      /\ Len(typed) <= Len(typed')
  <2>1. Len(hw) \in Nat /\ Len(typed) \in Nat /\ Len(popped) \in Nat
    BY LenProperties DEF IInv, TypeOK
  <2> QED
    BY <2>1 DEF Sent
<1>1. Len(hw') = Len(hw) + 1 /\ hw'[Len(hw) + 1] = c /\ \A i \in 1 .. Len(hw) : hw'[i] = hw[i]
  BY <1>0, AppendProperties DEF IInv, TypeOK, Sent
<1>2. Size' = Size /\ Pushes' = Pushes /\ Seen' = Seen /\ Mods' = Mods
  BY DEF Size, Pushes, Seen, Mods, Sent
<1>3. Size \in Nat /\ Seen \in Nat
  BY <1>0, InputAssumption, RingSize DEF Size, Seen, Pushes, IInv, TypeOK
<1>4. RingOK
  BY DEF IInv
<1>5. RingOK'
  <2>1. \A i \in 1 .. Len(popped) : i \in 1 .. Len(typed)
    BY <1>0, <1>3, <1>4 DEF RingOK, Seen, Pushes
  <2>2. \A i \in 1 .. Size : Len(popped) + i \in 1 .. Len(typed)
    BY <1>0, <1>3, <1>4 DEF RingOK, Seen, Pushes
  <2>3. Pushes = 1 => Seen \in 1 .. Len(typed)
    BY <1>0, <1>3, <1>4 DEF RingOK, Seen
  <2>4. Seen <= Len(typed')
    BY <1>0, <1>3, <1>4 DEF RingOK
  <2> QED
    BY <1>2, <1>4, <2>1, <2>2, <2>3, <2>4 DEF RingOK, Sent
<1>6. PICK ds \in [Nat -> SUBSET (Key \cup {Locked})], ps \in [Nat -> Nat] : ReplayedBy(ds, ps)
  BY DEF IInv, Replayed
<1>7. PICK L \in Nat, T \in Nat : L = Len(hw) /\ T = Len(typed')
  BY <1>0
<1>8. PICK es, qs : /\ es = [ds EXCEPT ![L + 1] = ModsAfter(ds[L], c)]
                    /\ qs = [ps EXCEPT ![L + 1] = T]
  OBVIOUS
<1>9. /\ ds[L] = held \cap (ModKey \cup {Locked}) /\ ds[0] = Mods
      /\ ps[L] = Len(typed) /\ ps[0] = Seen
  BY <1>6, <1>7 DEF ReplayedBy
<1>10. /\ ModsAfter(ds[L], c) = held' \cap (ModKey \cup {Locked})
       /\ ModsAfter(ds[L], c) \in SUBSET (Key \cup {Locked})
  BY <1>9 DEF Sent
<1>11. es \in [Nat -> SUBSET (Key \cup {Locked})] /\ qs \in [Nat -> Nat]
  BY <1>8, <1>10
<1>12. /\ \A i \in 0 .. L : es[i] = ds[i] /\ qs[i] = ps[i]
       /\ es[L + 1] = ModsAfter(ds[L], c)
       /\ qs[L + 1] = T
  BY <1>8
<1>13. /\ es[L + 1] = ModsAfter(es[L], c)
       /\ qs[L + 1] = qs[L] + (IF Gives(c) THEN 1 ELSE 0)
       /\ qs[L + 1] <= T
       /\ Gives(c) => typed'[qs[L + 1]] = EventAt(es[L], c.key)
  <2>1. es[L] = ds[L] /\ qs[L] = ps[L]
    BY <1>12
  <2>2. T = Len(typed) + (IF Gives(c) THEN 1 ELSE 0)
    BY <1>7 DEF Sent
  <2> QED
    BY <1>9, <1>12, <2>1, <2>2 DEF Sent
<1>14. ASSUME NEW i \in 1 .. L
       PROVE  /\ es[i] = ModsAfter(es[i - 1], hw'[i])
              /\ qs[i] = qs[i - 1] + (IF Gives(hw'[i]) THEN 1 ELSE 0)
              /\ qs[i] <= T
              /\ Gives(hw'[i]) => typed'[qs[i]] = EventAt(es[i - 1], hw'[i].key)
  <2>1. i - 1 \in 0 .. L /\ i \in 0 .. L /\ i \in Nat /\ i - 1 \in Nat
    OBVIOUS
  <2>2. es[i] = ds[i] /\ qs[i] = ps[i] /\ es[i - 1] = ds[i - 1] /\ qs[i - 1] = ps[i - 1]
    BY <1>12, <2>1
  <2>3. /\ ds[i] = ModsAfter(ds[i - 1], hw[i])
        /\ ps[i] = ps[i - 1] + (IF Gives(hw[i]) THEN 1 ELSE 0)
        /\ ps[i] <= Len(typed)
        /\ Gives(hw[i]) => typed[ps[i]] = EventAt(ds[i - 1], hw[i].key)
    BY <1>6, <1>7 DEF ReplayedBy
  <2>4. hw'[i] = hw[i]
    BY <1>1, <1>7
  <2>5. ps[i] \in Nat /\ ps[i - 1] \in Nat
    BY <2>1
  <2>6. ps[i] <= T /\ (Gives(hw[i]) => ps[i] \in 1 .. Len(typed))
    <3>1. ps[i] <= Len(typed) /\ (Gives(hw[i]) => ps[i] = ps[i - 1] + 1)
      BY <2>3
    <3>2. Len(typed) <= T
      BY <1>0, <1>7
    <3>3. ps[i] = ps[i - 1] + (IF Gives(hw[i]) THEN 1 ELSE 0) /\ Gives(hw[i]) \in BOOLEAN
      BY <2>3 DEF Gives
    <3>4. Len(typed) \in Nat /\ T \in Nat
      BY <1>0, <1>7
    <3> HIDE <1>6
    <3> QED
      BY <2>5, <3>1, <3>2, <3>3, <3>4, NextPlace
  <2>7. Gives(hw[i]) => typed'[ps[i]] = typed[ps[i]]
    BY <2>6 DEF Sent
  <2> QED
    BY <2>2, <2>3, <2>4, <2>6, <2>7
<1>15. ReplayedBy(es, qs)'
  <2>1. Len(hw') = L + 1 /\ hw'[L + 1] = c /\ Len(typed') = T
    BY <1>1, <1>7
  <2>2. /\ es[0] = Mods' /\ qs[0] = Seen'
        /\ es[L + 1] = held' \cap (ModKey \cup {Locked})
        /\ qs[L + 1] = T
    <3>1. 0 \in 0 .. L
      OBVIOUS
    <3> QED
      BY <1>2, <1>9, <1>10, <1>12, <3>1
  <2>3. ASSUME NEW i \in 1 .. L + 1
        PROVE  /\ es[i] = ModsAfter(es[i - 1], hw'[i])
               /\ qs[i] = qs[i - 1] + (IF Gives(hw'[i]) THEN 1 ELSE 0)
               /\ qs[i] <= T
               /\ Gives(hw'[i]) => typed'[qs[i]] = EventAt(es[i - 1], hw'[i].key)
    <3>1. CASE i \in 1 .. L
      BY <1>14, <3>1
    <3>2. CASE i = L + 1
      <4>1. i - 1 = L /\ hw'[i] = c
        BY <2>1, <3>2
      <4> QED
        BY <1>13, <3>2, <4>1
    <3> QED
      BY <3>1, <3>2
  <2> QED
    BY <2>1, <2>2, <2>3 DEF ReplayedBy
<1> QED
  BY <1>5, <1>11, <1>15 DEF Replayed, IInv, Sent

LEMMA PressIInv ==
  ASSUME IInv, NEW k \in Key, Press(k) PROVE IInv'
<1> DEFINE c == [key |-> k, down |-> TRUE]
           d == held \cap (ModKey \cup {Locked})
<1>1. /\ hw' = Append(hw, c) /\ irq' \in BOOLEAN /\ codes' \in 0 .. MaxCodes
      /\ UNCHANGED <<sem_kbdirq, event_sem, capslock, down, events, front, rear, lock, pc, ev,
                     halted, popped>>
  <2>1. irq' = (irq \/ hw = << >>) /\ codes < MaxCodes /\ codes' = codes + 1
    BY DEF Press, Sends
  <2>2. irq' \in BOOLEAN
    BY <2>1
  <2>3. codes' \in 0 .. MaxCodes
    BY <2>1, Counters, OneMore, InputAssumption
  <2> QED
    BY <2>2, <2>3 DEF Press, Sends, modifier, ring
<1>2. c \in Code /\ c.key = k /\ c.down
  BY DEF Code
<1>3. /\ Meaning(k) = IF Gives(c) THEN << EventAt(d, k) >> ELSE << >>
      /\ Gives(c) => EventAt(d, k) \in Event
  BY <1>2, MeaningOfKey, EventType DEF Gives
<1> DEFINE e == EventAt(d, k)
<1> HIDE DEF e
<1>4. /\ typed' \in Seq(Event)
      /\ Len(typed') = Len(typed) + (IF Gives(c) THEN 1 ELSE 0)
      /\ \A i \in 1 .. Len(typed) : typed'[i] = typed[i]
      /\ Gives(c) => typed'[Len(typed) + 1] = e
  <2>1. typed \in Seq(Event) /\ Len(typed) \in Nat
    BY LenProperties DEF IInv, TypeOK
  <2>2. CASE Gives(c)
    <3>1. typed' = typed \o << e >> /\ e \in Event
      BY <1>3, <2>2 DEF Press, e
    <3>2. typed' = Append(typed, e)
      BY <2>1, <3>1, AppendIsConcat
    <3> QED
      BY <2>1, <2>2, <3>1, <3>2, AppendProperties
  <2>3. CASE ~Gives(c)
    <3>1. typed' = typed
      BY <1>3, <2>1, <2>3, ConcatEmptySeq DEF Press
    <3> QED
      BY <2>1, <2>3, <3>1
  <2> QED
    BY <2>2, <2>3
<1>5. /\ held' \in SUBSET (Key \cup {Locked})
      /\ held' \cap (ModKey \cup {Locked}) = ModsAfter(d, c)
  <2>1. held \in SUBSET (Key \cup {Locked}) /\ Locked # k /\ Locked \notin ModKey /\ "capslock" \notin ModKey
    BY InputAssumption DEF IInv, TypeOK, Locked, ModKey, AllKey
  <2>2. CASE k = "capslock"
    <3>1. held' = (held \cup {k, Locked}) \ (held \cap {Locked})
      BY <2>2 DEF Press
    <3>2. ModsAfter(d, c) = (d \cup {Locked}) \ (d \cap {Locked})
      BY <1>2, <2>2 DEF ModsAfter
    <3> HIDE DEF c
    <3> QED
      BY <2>1, <2>2, <3>1, <3>2
  <2>3. CASE k # "capslock"
    <3>1. held' = held \cup {k}
      BY <2>3 DEF Press
    <3>2. ModsAfter(d, c) = IF k \in ModKey THEN d \cup {k} ELSE d
      BY <1>2, <2>3 DEF ModsAfter
    <3> HIDE DEF c
    <3> QED
      BY <2>1, <2>3, <3>1, <3>2
  <2> QED
    BY <2>2, <2>3
<1>6. hw' \in Seq(Code)
  BY <1>1, <1>2, AppendProperties DEF IInv, TypeOK
<1>7. TypeOK'
  BY <1>1, <1>4, <1>5, <1>6 DEF IInv, TypeOK
<1>8. Sent(c)
  BY <1>1, <1>2, <1>4, <1>5 DEF Sent, e
<1> HIDE DEF c
<1>9. halted = "no" => RingOK' /\ Replayed'
  BY <1>2, <1>8, SendReplayed
<1>10. halted = "no" => CountOK'
  BY <1>1 DEF IInv, CountOK, Popping, Size
<1>11. halted' = "input queue full" => Len(typed') - Len(popped') >= NEVENTS
  <2>1. Len(typed) \in Nat /\ Len(popped) \in Nat
    BY LenProperties DEF IInv, TypeOK
  <2>2. Len(typed') \in Nat /\ Len(typed) <= Len(typed')
    BY <1>4, <2>1
  <2>3. halted = "input queue full" => Len(typed) - Len(popped) >= NEVENTS
    BY DEF IInv
  <2> QED
    BY <1>1, <2>1, <2>2, <2>3, StillFull, InputAssumption
<1> QED
  BY <1>1, <1>7, <1>9, <1>10, <1>11 DEF IInv

LEMMA ReleaseIInv ==
  ASSUME IInv, NEW k \in Key, Release(k) PROVE IInv'
<1> DEFINE c == [key |-> k, down |-> FALSE]
           d == held \cap (ModKey \cup {Locked})
<1>1. /\ hw' = Append(hw, c) /\ irq' \in BOOLEAN /\ codes' \in 0 .. MaxCodes
      /\ held' = held \ {k}
      /\ UNCHANGED <<sem_kbdirq, event_sem, capslock, down, events, front, rear, lock, pc, ev,
                     halted, popped, typed>>
  <2>1. irq' = (irq \/ hw = << >>) /\ codes < MaxCodes /\ codes' = codes + 1
    BY DEF Release, Sends
  <2>2. irq' \in BOOLEAN
    BY <2>1
  <2>3. codes' \in 0 .. MaxCodes
    BY <2>1, Counters, OneMore, InputAssumption
  <2> QED
    BY <2>2, <2>3 DEF Release, Sends, modifier, ring
<1>2. c \in Code /\ c.key = k /\ ~c.down /\ ~Gives(c)
  BY DEF Code, Gives
<1>3. /\ held' \in SUBSET (Key \cup {Locked})
      /\ held' \cap (ModKey \cup {Locked}) = ModsAfter(d, c)
  <2>1. held \in SUBSET (Key \cup {Locked}) /\ Locked # k /\ Locked \notin ModKey
    BY InputAssumption DEF IInv, TypeOK, Locked, ModKey, AllKey
  <2>2. ModsAfter(d, c) = IF k \in ModKey THEN d \ {k} ELSE d
    BY <1>2 DEF ModsAfter
  <2> HIDE DEF c
  <2> QED
    BY <1>1, <2>1, <2>2
<1>4. hw' \in Seq(Code)
  BY <1>1, <1>2, AppendProperties DEF IInv, TypeOK
<1>5. TypeOK'
  BY <1>1, <1>3, <1>4 DEF IInv, TypeOK
<1>6. Len(typed) \in Nat
  BY LenProperties DEF IInv, TypeOK
<1> HIDE DEF c
<1>7. Sent(c)
  <2>1. typed' \in Seq(Event) /\ typed' = typed
    BY <1>1 DEF IInv, TypeOK
  <2>2. Len(typed') = Len(typed) + (IF Gives(c) THEN 1 ELSE 0)
    BY <1>2, <1>6, <2>1
  <2> QED
    BY <1>1, <1>2, <1>3, <2>1, <2>2 DEF Sent
<1>8. halted = "no" => RingOK' /\ Replayed'
  BY <1>2, <1>7, SendReplayed
<1>9. halted = "no" => CountOK'
  BY <1>1 DEF IInv, CountOK, Popping, Size
<1> QED
  BY <1>1, <1>5, <1>8, <1>9 DEF IInv

LEMMA NotifyIInv ==
  ASSUME IInv, input_notify PROVE IInv'
<1>1. /\ irq' = FALSE /\ sem_kbdirq' = sem_kbdirq + 1 /\ halted = "no"
      /\ UNCHANGED <<held, codes, typed, hw, event_sem, capslock, down, events, front, rear,
                     lock, pc, ev, popped, halted>>
  BY DEF input_notify, keyboard, modifier, ring
<1>2. TypeOK'
  <2>1. sem_kbdirq \in Nat /\ irq' = FALSE /\ sem_kbdirq' = sem_kbdirq + 1
    BY <1>1, Counters
  <2>2. irq' \in BOOLEAN
    BY <2>1
  <2>3. sem_kbdirq' \in Nat
    BY <2>1
  <2> QED
    BY <1>1, <2>2, <2>3 DEF IInv, TypeOK
<1>3. RingOK' /\ Replayed'
  BY <1>1, Frame DEF IInv, Pushes
<1>4. CountOK'
  BY <1>1 DEF IInv, CountOK, Popping, Size
<1> QED
  BY <1>1, <1>2, <1>3, <1>4 DEF IInv

LEMMA AwaitIInv ==
  ASSUME IInv, Await PROVE IInv'
<1>1. /\ pc[InputTask] = "wait" /\ pc' = [pc EXCEPT ![InputTask] = "read_key"] /\ halted = "no"
      /\ sem_kbdirq > 0 /\ sem_kbdirq' = sem_kbdirq - 1
      /\ UNCHANGED <<held, codes, typed, hw, irq, event_sem, capslock, down, events, front, rear,
                     lock, ev, popped, halted>>
  BY DEF Await, Move, keyboard, modifier, ring
<1>2. InputTask \in Task
  BY DEF Task
<1>3. TypeOK'
  BY <1>1, <1>2 DEF IInv, TypeOK
<1>4. RingOK' /\ Replayed'
  BY <1>1, <1>2, Frame DEF IInv, TypeOK, Pushes
<1>5. CountOK'
  <2>1. Popping' = Popping
    BY <1>1, <1>2, ReaderAssumption DEF Popping, IInv, TypeOK
  <2> QED
    BY <1>1, <1>2, <2>1 DEF IInv, TypeOK, CountOK, Size
<1> QED
  BY <1>1, <1>3, <1>4, <1>5 DEF IInv

\* input_task takes a code: the replay of the others starts from it.
Took(c) ==
  /\ hw # << >> /\ c = Head(hw) /\ hw' = Tail(hw)
  /\ down' \subseteq ModKey /\ Mods' = ModsAfter(Mods, c)
  /\ Pushes = 0 /\ Pushes' = (IF Gives(c) THEN 1 ELSE 0)
  /\ Gives(c) => ev'[InputTask] = EventAt(Mods, c.key)
  /\ UNCHANGED <<held, typed, popped, events, front, rear>>

LEMMA TakeReplayed ==
  ASSUME IInv, halted = "no", NEW c, Took(c)
  PROVE  RingOK' /\ Replayed'
<1>1. Size' = Size /\ RingOK
  BY DEF Size, Took, IInv
<1>2. PICK ds \in [Nat -> SUBSET (Key \cup {Locked})], ps \in [Nat -> Nat] : ReplayedBy(ds, ps)
  BY DEF IInv, Replayed
<1>3. hw \in Seq(Code) /\ hw # << >> /\ hw' = Tail(hw) /\ c = Head(hw)
  BY DEF IInv, TypeOK, Took
<1>4. PICK L \in Nat : Len(hw) = L + 1 /\ Len(hw') = L
  <2>1. Len(hw) \in Nat \ {0} /\ Len(hw') = Len(hw) - 1
    BY <1>3, EmptySeq, LenProperties, HeadTailProperties
  <2> QED
    BY <2>1
<1>5. hw[1] = c /\ \A i \in 1 .. L : hw'[i] = hw[i + 1]
  BY <1>3, <1>4, HeadTailProperties
<1>6. PICK es, qs : es = [i \in Nat |-> ds[i + 1]] /\ qs = [i \in Nat |-> ps[i + 1]]
  OBVIOUS
<1>7. es \in [Nat -> SUBSET (Key \cup {Locked})] /\ qs \in [Nat -> Nat]
  BY <1>6
<1>8. \A i \in Nat : es[i] = ds[i + 1] /\ qs[i] = ps[i + 1]
  BY <1>6
<1>9. /\ ds[0] = Mods /\ ps[0] = Seen
      /\ ds[L + 1] = held \cap (ModKey \cup {Locked}) /\ ps[L + 1] = Len(typed)
  BY <1>2, <1>4 DEF ReplayedBy
<1>10. ASSUME NEW i \in 1 .. L + 1
       PROVE  /\ ds[i] = ModsAfter(ds[i - 1], hw[i])
              /\ ps[i] = ps[i - 1] + (IF Gives(hw[i]) THEN 1 ELSE 0)
              /\ ps[i] <= Len(typed)
              /\ Gives(hw[i]) => typed[ps[i]] = EventAt(ds[i - 1], hw[i].key)
  BY <1>2, <1>4 DEF ReplayedBy
<1>11. /\ ds[1] = Mods'
       /\ ps[1] = Seen + (IF Gives(c) THEN 1 ELSE 0)
       /\ ps[1] <= Len(typed)
       /\ Gives(c) => typed[ps[1]] = EventAt(Mods, c.key)
  <2>1. 1 \in 1 .. L + 1 /\ 1 - 1 = 0
    OBVIOUS
  <2>2. /\ ds[1] = ModsAfter(ds[0], hw[1])
        /\ ps[1] = ps[0] + (IF Gives(hw[1]) THEN 1 ELSE 0)
        /\ ps[1] <= Len(typed)
        /\ Gives(hw[1]) => typed[ps[1]] = EventAt(ds[0], hw[1].key)
    BY <1>10, <2>1
  <2> QED
    BY <1>5, <1>9, <2>2 DEF Took
<1>12. Seen' = ps[1]
  <2>1. Len(popped) \in Nat /\ Size \in Nat
    BY Counters, Ends DEF IInv
  <2>2. Seen = Len(popped) + Size + 0 /\ Seen' = Len(popped) + Size + (IF Gives(c) THEN 1 ELSE 0)
    BY <1>1 DEF Seen, Took
  <2> QED
    BY <1>11, <2>1, <2>2
<1>13. RingOK'
  <2>1. Seen' <= Len(typed')
    BY <1>11, <1>12 DEF Took
  <2>2. Pushes' = 1 => ev'[InputTask] = typed'[Seen']
    BY <1>11, <1>12 DEF Took
  <2> QED
    BY <1>1, <2>1, <2>2 DEF RingOK, Took
<1>14. ASSUME NEW i \in 1 .. L
       PROVE  /\ es[i] = ModsAfter(es[i - 1], hw'[i])
              /\ qs[i] = qs[i - 1] + (IF Gives(hw'[i]) THEN 1 ELSE 0)
              /\ qs[i] <= Len(typed)
              /\ Gives(hw'[i]) => typed[qs[i]] = EventAt(es[i - 1], hw'[i].key)
  <2>1. i \in Nat /\ i - 1 \in Nat /\ i + 1 \in 1 .. L + 1 /\ (i + 1) - 1 = i /\ (i - 1) + 1 = i
    OBVIOUS
  <2>2. es[i] = ds[i + 1] /\ qs[i] = ps[i + 1] /\ es[i - 1] = ds[i] /\ qs[i - 1] = ps[i]
    BY <1>8, <2>1
  <2>3. /\ ds[i + 1] = ModsAfter(ds[i], hw[i + 1])
        /\ ps[i + 1] = ps[i] + (IF Gives(hw[i + 1]) THEN 1 ELSE 0)
        /\ ps[i + 1] <= Len(typed)
        /\ Gives(hw[i + 1]) => typed[ps[i + 1]] = EventAt(ds[i], hw[i + 1].key)
    BY <1>10, <2>1
  <2> QED
    BY <1>5, <2>2, <2>3
<1>15. ReplayedBy(es, qs)'
  <2>1. es[0] = ds[1] /\ qs[0] = ps[1] /\ es[L] = ds[L + 1] /\ qs[L] = ps[L + 1]
    BY <1>8
  <2>2. typed' = typed /\ held' = held
    BY DEF Took
  <2> QED
    BY <1>4, <1>9, <1>11, <1>12, <1>14, <2>1, <2>2 DEF ReplayedBy
<1> QED
  BY <1>7, <1>13, <1>15 DEF Replayed, Took

\* The modifiers input_task follows.
LEMMA ModifiersFollow ==
  ASSUME NEW c, Modifiers(c), down \subseteq ModKey, capslock \in BOOLEAN
  PROVE  /\ Mods' = ModsAfter(Mods, c) /\ down' \subseteq ModKey
         /\ capslock' \in BOOLEAN /\ down' \subseteq down \cup {c.key}
<1>1. Locked \notin ModKey /\ "capslock" \notin ModKey /\ Locked \notin down
  BY DEF Locked, ModKey
<1>2. down' = IF c.key \notin ModKey THEN down
              ELSE IF c.down THEN down \cup {c.key} ELSE down \ {c.key}
  BY DEF Modifiers, ModKey
<1>3. down' \subseteq ModKey /\ down' \subseteq down \cup {c.key}
  BY <1>2
<1>4. CASE c.key = "capslock" /\ c.down
  <2>1. capslock' = ~capslock /\ down' = down
    BY <1>1, <1>2, <1>4 DEF Modifiers
  <2>2. ModsAfter(Mods, c) = (Mods \cup {Locked}) \ (Mods \cap {Locked})
    BY <1>4 DEF ModsAfter
  <2>3. CASE capslock = TRUE
    <3>1. Mods = down \cup {Locked} /\ capslock' = FALSE
      BY <2>1, <2>3 DEF Mods
    <3>2. Mods' = down
      BY <2>1, <3>1 DEF Mods
    <3> QED
      BY <1>1, <1>3, <2>2, <3>1, <3>2
  <2>4. CASE capslock = FALSE
    <3>1. Mods = down /\ capslock' = TRUE
      BY <2>1, <2>4 DEF Mods
    <3>2. Mods' = down \cup {Locked}
      BY <2>1, <3>1 DEF Mods
    <3> QED
      BY <1>1, <1>3, <2>2, <3>1, <3>2
  <2> QED
    BY <2>3, <2>4
<1>5. CASE ~(c.key = "capslock" /\ c.down)
  <2>1. capslock' = capslock
    BY <1>5 DEF Modifiers
  <2>2. ModsAfter(Mods, c) = IF c.key \notin ModKey THEN Mods
                             ELSE IF c.down THEN Mods \cup {c.key} ELSE Mods \ {c.key}
    BY <1>5 DEF ModsAfter
  <2>3. Mods' = IF capslock THEN down' \cup {Locked} ELSE down'
    BY <2>1 DEF Mods
  <2>4. Mods' = ModsAfter(Mods, c)
    BY <1>1, <1>2, <2>2, <2>3 DEF Mods
  <2> QED
    BY <1>3, <2>1, <2>4
<1> QED
  BY <1>4, <1>5

LEMMA ReadIInv ==
  ASSUME IInv, Read PROVE IInv'
<1>1. /\ input_keydown
      /\ UNCHANGED <<held, codes, typed, sem_kbdirq, event_sem, events, front, rear, lock,
                     halted, popped>>
  BY DEF Read, keyboard, ring
<1>2. InputTask \in Task /\ \A r \in Reader : r # InputTask
  BY ReaderAssumption DEF Task
<1>3. /\ TypeOK /\ down \subseteq ModKey /\ hw \in Seq(Code) /\ ev \in [Task -> Event]
      /\ capslock \in BOOLEAN /\ down \subseteq Key /\ irq \in BOOLEAN
      /\ pc \in [Task -> {"read_key", "wait", "push", "store", "stored", "signal",
                          "idle", "pop", "take", "taken"}]
  BY <1>1 DEF IInv, TypeOK, Replayed, input_keydown, Idle, Move
<1>4. ASSUME NEW n \in {"read_key", "wait", "push"}, halted = "no", pc[InputTask] = "read_key",
             pc' = [pc EXCEPT ![InputTask] = n],
             hw' \in Seq(Code), irq' \in BOOLEAN, capslock' \in BOOLEAN, down' \subseteq Key,
             ev' \in [Task -> Event], RingOK', Replayed'
      PROVE  IInv'
  <2>1. TypeOK'
    <3>1. pc' \in [Task -> {"read_key", "wait", "push", "store", "stored", "signal",
                            "idle", "pop", "take", "taken"}]
      BY <1>3, <1>4
    <3> QED
      BY <1>1, <1>3, <1>4, <3>1 DEF TypeOK
  <2>2. CountOK'
    <3>1. Popping' = Popping
      BY <1>2, <1>3, <1>4 DEF Popping, Task
    <3>2. pc[InputTask] \notin {"stored", "signal"} /\ pc'[InputTask] \notin {"stored", "signal"}
      BY <1>2, <1>3, <1>4
    <3> QED
      BY <1>1, <1>4, <3>1, <3>2 DEF IInv, CountOK, Size
  <2> QED
    BY <1>1, <1>4, <2>1, <2>2 DEF IInv
<1>5. CASE hw = << >> /\ Idle /\ UNCHANGED <<hw, irq>>
  <2>1. /\ halted = "no" /\ pc[InputTask] = "read_key" /\ pc' = [pc EXCEPT ![InputTask] = "wait"]
        /\ UNCHANGED <<hw, irq, capslock, down, ev>>
    BY <1>5 DEF Idle, Move, modifier
  <2>2. Pushes' = Pushes
    BY <1>2, <1>3, <2>1 DEF Pushes
  <2>3. RingOK' /\ Replayed'
    BY <1>1, <2>1, <2>2, Frame DEF IInv
  <2> QED
    BY <1>3, <1>4, <2>1, <2>3
<1>6. CASE hw # << >> /\ read_key
  <2>1. PICK c : c = Head(hw)
    OBVIOUS
  <2>2. c \in Code /\ hw' \in Seq(Code) /\ hw' = Tail(hw) /\ hw # << >>
    BY <1>3, <1>6, <2>1, HeadTailProperties DEF read_key
  <2>3. irq' \in BOOLEAN
    <3>1. irq' = (irq \/ Tail(hw) # << >>)
      BY <1>6 DEF read_key
    <3> QED
      BY <3>1
  <2>4. c.key \in Key /\ c.down \in BOOLEAN
    BY <2>2 DEF Code
  <2>5. CASE c.key = "unknown" /\ Idle
    <3>1. /\ halted = "no" /\ pc[InputTask] = "read_key" /\ pc' = [pc EXCEPT ![InputTask] = "wait"]
          /\ UNCHANGED <<capslock, down, ev>>
      BY <2>5 DEF Idle, Move, modifier
    <3>2. Pushes = 0 /\ Pushes' = 0
      BY <1>2, <1>3, <3>1 DEF Pushes
    <3>3. ~Gives(c) /\ ModsAfter(Mods, c) = Mods
      BY <2>5 DEF Gives, keymap, ModsAfter, ModKey
    <3>4. Took(c)
      BY <1>1, <1>3, <2>1, <2>2, <3>1, <3>2, <3>3 DEF Took, Mods
    <3>5. RingOK' /\ Replayed'
      BY <3>1, <3>4, TakeReplayed
    <3> QED
      BY <1>3, <1>4, <2>2, <2>3, <3>1, <3>5
  <2>6. CASE c.key # "unknown" /\ Modifiers(c) /\ c.down /\ c.key \in DOMAIN keymap
             /\ Move(InputTask, "read_key", "push") /\ ev' = [ev EXCEPT ![InputTask] = Translated(c.key)]
    <3>1. halted = "no" /\ pc[InputTask] = "read_key" /\ pc' = [pc EXCEPT ![InputTask] = "push"]
      BY <2>6 DEF Move
    <3>2. Pushes = 0 /\ Pushes' = 1
      BY <1>2, <1>3, <3>1 DEF Pushes
    <3>3. /\ Mods' = ModsAfter(Mods, c) /\ down' \subseteq ModKey
          /\ capslock' \in BOOLEAN /\ down' \subseteq down \cup {c.key}
      BY <1>3, <2>6, ModifiersFollow
    <3>4. /\ Translated(c.key) = EventAt(Mods, c.key)
          /\ Translated(c.key) \in Event
      BY <1>3, <2>6, TranslatedIs, EventType
    <3>5. ev' \in [Task -> Event] /\ ev'[InputTask] = EventAt(Mods, c.key)
      BY <1>2, <1>3, <2>6, <3>4
    <3>6. Gives(c)
      BY <2>6 DEF Gives
    <3>7. Took(c)
      BY <1>1, <2>1, <2>2, <3>2, <3>3, <3>5, <3>6 DEF Took
    <3>8. RingOK' /\ Replayed'
      BY <3>1, <3>7, TakeReplayed
    <3> QED
      BY <1>3, <1>4, <2>2, <2>3, <2>4, <3>1, <3>3, <3>5, <3>8
  <2>7. CASE c.key # "unknown" /\ Modifiers(c) /\ ~(c.down /\ c.key \in DOMAIN keymap)
             /\ Move(InputTask, "read_key", "read_key") /\ UNCHANGED ev
    <3>1. /\ halted = "no" /\ pc[InputTask] = "read_key" /\ pc' = [pc EXCEPT ![InputTask] = "read_key"]
          /\ ev' = ev
      BY <2>7 DEF Move
    <3>2. Pushes = 0 /\ Pushes' = 0
      BY <1>2, <1>3, <3>1 DEF Pushes
    <3>3. /\ Mods' = ModsAfter(Mods, c) /\ down' \subseteq ModKey
          /\ capslock' \in BOOLEAN /\ down' \subseteq down \cup {c.key}
      BY <1>3, <2>7, ModifiersFollow
    <3>4. ~Gives(c)
      BY <2>7 DEF Gives
    <3>5. Took(c)
      BY <1>1, <2>1, <2>2, <3>2, <3>3, <3>4 DEF Took
    <3>6. RingOK' /\ Replayed'
      BY <3>1, <3>5, TakeReplayed
    <3> QED
      BY <1>3, <1>4, <2>2, <2>3, <2>4, <3>1, <3>3, <3>6
  <2>8. \/ c.key = "unknown" /\ Idle
        \/ /\ c.key # "unknown" /\ Modifiers(c)
           /\ IF c.down /\ c.key \in DOMAIN keymap
                THEN /\ Move(InputTask, "read_key", "push")
                     /\ ev' = [ev EXCEPT ![InputTask] = Translated(c.key)]
                ELSE Move(InputTask, "read_key", "read_key") /\ UNCHANGED ev
    BY <1>1, <1>6, <2>1 DEF input_keydown
  <2> QED
    BY <2>5, <2>6, <2>7, <2>8
<1> QED
  BY <1>1, <1>5, <1>6 DEF input_keydown

----------------------------------------------------------------------------
(* push_event and pop_event *)

\* Taking or leaving the lock moves a task between two places that mean the
\* same to the invariant.
LEMMA LockIInv ==
  ASSUME IInv, NEW t \in Task,
         NEW a, NEW b \in {"read_key", "store", "signal", "take", "idle"},
         Move(t, a, b), lock' \in Task \cup {Nobody},
         UNCHANGED <<device, event_sem, ring, ev, halted, popped>>,
         \/ t = InputTask /\ (a \in {"push", "store"} <=> b = "store")
                          /\ (a \in {"stored", "signal"} <=> b = "signal")
         \/ t # InputTask /\ (a \in {"pop", "take"} <=> b = "take")
  PROVE  IInv'
<1>1. /\ halted = "no" /\ pc[t] = a /\ pc' = [pc EXCEPT ![t] = b]
      /\ UNCHANGED <<held, codes, typed, hw, irq, sem_kbdirq, event_sem, capslock, down, events, front,
                     rear, ev, popped, halted>>
  BY DEF Move, device, keyboard, modifier, ring
<1>2. InputTask \in Task /\ \A r \in Reader : r # InputTask /\ r \in Task
  BY ReaderAssumption DEF Task
<1>3. pc \in [Task -> {"read_key", "wait", "push", "store", "stored", "signal",
                      "idle", "pop", "take", "taken"}]
  BY DEF IInv, TypeOK
<1>4. TypeOK'
  <2>1. pc' \in [Task -> {"read_key", "wait", "push", "store", "stored", "signal",
                          "idle", "pop", "take", "taken"}]
    BY <1>1, <1>3
  <2> QED
    BY <1>1, <2>1 DEF IInv, TypeOK
<1>5. /\ pc'[InputTask] \in {"push", "store"} <=> pc[InputTask] \in {"push", "store"}
      /\ pc'[InputTask] \in {"stored", "signal"} <=> pc[InputTask] \in {"stored", "signal"}
  BY <1>1, <1>2, <1>3
<1>6. Popping' = Popping
  BY <1>1, <1>2, <1>3 DEF Popping
<1>7. RingOK' /\ Replayed'
  <2>1. Pushes' = Pushes
    BY <1>5 DEF Pushes
  <2> QED
    BY <1>1, <2>1, Frame DEF IInv
<1>8. CountOK'
  BY <1>1, <1>5, <1>6 DEF IInv, CountOK, Size
<1> QED
  BY <1>1, <1>4, <1>7, <1>8 DEF IInv

LEMMA PushStoreIInv ==
  ASSUME IInv, Push_Store PROVE IInv'
<1>1. /\ halted = "no" /\ pc[InputTask] = "store" /\ pc' = [pc EXCEPT ![InputTask] = "stored"]
      /\ events' = [events EXCEPT ![rear] = ev[InputTask]]
      /\ rear' = (rear + 1) % NEVENTS
      /\ halted' = IF rear' = front THEN "input queue full" ELSE halted
      /\ UNCHANGED <<held, codes, typed, hw, irq, sem_kbdirq, event_sem, capslock, down, front,
                     lock, ev, popped>>
  BY DEF Push_Store, Move, device, keyboard, modifier
<1>2. InputTask \in Task /\ \A r \in Reader : r # InputTask /\ r \in Task
  BY ReaderAssumption DEF Task
<1>3. /\ TypeOK /\ RingOK /\ CountOK /\ Replayed
      /\ pc \in [Task -> {"read_key", "wait", "push", "store", "stored", "signal",
                          "idle", "pop", "take", "taken"}]
      /\ events \in [0 .. NEVENTS - 1 -> Event] /\ ev[InputTask] \in Event
  BY <1>1, <1>2 DEF IInv, TypeOK
<1>4. /\ front \in 0 .. NEVENTS - 1 /\ rear \in 0 .. NEVENTS - 1
      /\ NEVENTS \in Nat \ {0} /\ Size \in Nat
      /\ Len(typed) \in Nat /\ Len(popped) \in Nat
  BY <1>3, Ends, Counters
<1>5. /\ (rear + 1) % NEVENTS = front => Size = NEVENTS - 1
      /\ (rear + 1) % NEVENTS # front => (((rear + 1) % NEVENTS) + NEVENTS - front) % NEVENTS = Size + 1
      /\ (front + (Size + 1) - 1) % NEVENTS = rear
      /\ \A i \in 1 .. Size : (front + i - 1) % NEVENTS # rear /\ (front + i - 1) % NEVENTS \in 0 .. NEVENTS - 1
      /\ (rear + 1) % NEVENTS \in 0 .. NEVENTS - 1
  <2>1. Size = (rear + NEVENTS - front) % NEVENTS
    BY DEF Size
  <2>2. PushMeets(NEVENTS, front, rear, Size)
    BY <1>4, <2>1, RingPush
  <2> QED
    BY <2>2 DEF PushMeets
<1>6. TypeOK'
  <2>1. pc' \in [Task -> {"read_key", "wait", "push", "store", "stored", "signal",
                          "idle", "pop", "take", "taken"}]
    BY <1>1, <1>3
  <2>2. events' \in [0 .. NEVENTS - 1 -> Event]
    BY <1>1, <1>3
  <2>3. rear' \in 0 .. NEVENTS - 1
    BY <1>1, <1>5
  <2>4. halted' \in {"no", "input queue full", "input queue empty"}
    BY <1>1
  <2> QED
    BY <1>1, <1>3, <2>1, <2>2, <2>3, <2>4 DEF TypeOK
<1>7. Pushes = 1 /\ Pushes' = 0
  BY <1>1, <1>2, <1>3 DEF Pushes
<1>8. Seen = Len(popped) + Size + 1 /\ Seen <= Len(typed) /\ ev[InputTask] = typed[Seen]
  BY <1>3, <1>7 DEF Seen, RingOK
<1>9. CASE rear' = front
  <2>1. halted' = "input queue full" /\ Size = NEVENTS - 1
    BY <1>1, <1>5, <1>9
  <2>2. Len(typed) - Len(popped) >= NEVENTS
    <3>1. Len(popped) + Size + 1 <= Len(typed)
      BY <1>8
    <3> QED
      BY <1>4, <2>1, <3>1, NoRoom
  <2> QED
    BY <1>1, <1>6, <2>1, <2>2 DEF IInv
<1>10. CASE rear' # front
  <2>1. halted' = "no" /\ Size' = Size + 1
    BY <1>1, <1>5, <1>10 DEF Size
  <2>2. Seen' = Seen
    BY <1>1, <1>4, <1>7, <1>8, <2>1 DEF Seen
  <2>3. ASSUME NEW i \in 1 .. Size + 1
        PROVE  events'[(front + i - 1) % NEVENTS] = typed[Len(popped) + i]
    <3>1. CASE i = Size + 1
      <4>1. (front + i - 1) % NEVENTS = rear
        BY <1>5, <3>1
      <4>2. events'[rear] = ev[InputTask]
        BY <1>1, <1>3, <1>4
      <4>3. Len(popped) + i = Seen
        BY <1>4, <1>8, <3>1
      <4> QED
        BY <1>8, <4>1, <4>2, <4>3
    <3>2. CASE i # Size + 1
      <4>1. i \in 1 .. Size
        BY <1>4, <3>2
      <4>2. (front + i - 1) % NEVENTS # rear /\ (front + i - 1) % NEVENTS \in 0 .. NEVENTS - 1
        BY <1>5, <4>1
      <4>3. events'[(front + i - 1) % NEVENTS] = events[(front + i - 1) % NEVENTS]
        BY <1>1, <1>3, <4>2
      <4> QED
        BY <1>3, <4>1, <4>3 DEF RingOK
    <3> QED
      BY <3>1, <3>2
  <2>4. RingOK'
    BY <1>1, <1>3, <1>7, <1>8, <2>1, <2>2, <2>3 DEF RingOK
  <2>5. CountOK'
    <3>1. Popping' = Popping
      BY <1>1, <1>2, <1>3 DEF Popping
    <3>2. pc[InputTask] \notin {"stored", "signal"} /\ pc'[InputTask] \in {"stored", "signal"}
      BY <1>1, <1>2, <1>3
    <3>3. IsFiniteSet(Popping) /\ Cardinality(Popping) \in Nat /\ event_sem \in Nat
      BY <1>3, FS_CardinalityType, Counters DEF CountOK
    <3>4. event_sem + Cardinality(Popping) + 0 = Size
      BY <1>3, <3>2 DEF CountOK
    <3>5. event_sem + Cardinality(Popping) + 1 = Size + 1
      BY <1>4, <3>3, <3>4
    <3> QED
      BY <1>1, <2>1, <3>1, <3>2, <3>3, <3>5 DEF CountOK
  <2>6. Replayed'
    <3>1. Mods' = Mods /\ \A ds, ps : ReplayedBy(ds, ps)' <=> ReplayedBy(ds, ps)
      BY <1>1, <2>2, ZenonT(30) DEF ReplayedBy, Mods
    <3> QED
      BY <1>1, <1>3, <3>1 DEF Replayed
  <2> QED
    BY <1>6, <2>1, <2>4, <2>5, <2>6 DEF IInv
<1> QED
  BY <1>9, <1>10

LEMMA PushSignalIInv ==
  ASSUME IInv, Push_Signal PROVE IInv'
<1>1. /\ halted = "no" /\ pc[InputTask] = "signal" /\ pc' = [pc EXCEPT ![InputTask] = "read_key"]
      /\ event_sem' = event_sem + 1
      /\ UNCHANGED <<held, codes, typed, hw, irq, sem_kbdirq, capslock, down, events, front, rear,
                     lock, ev, popped, halted>>
  BY DEF Push_Signal, Move, device, keyboard, modifier, ring
<1>2. InputTask \in Task /\ \A r \in Reader : r # InputTask /\ r \in Task
  BY ReaderAssumption DEF Task
<1>3. /\ TypeOK /\ RingOK /\ CountOK /\ Replayed
      /\ pc \in [Task -> {"read_key", "wait", "push", "store", "stored", "signal",
                          "idle", "pop", "take", "taken"}]
  BY <1>1 DEF IInv, TypeOK
<1>4. event_sem \in Nat /\ event_sem' \in Nat
  BY <1>1, Counters
<1>5. TypeOK'
  <2>1. pc' \in [Task -> {"read_key", "wait", "push", "store", "stored", "signal",
                          "idle", "pop", "take", "taken"}]
    BY <1>1, <1>3
  <2> QED
    BY <1>1, <1>3, <1>4, <2>1 DEF TypeOK
<1>6. RingOK' /\ Replayed'
  <2>1. Pushes' = Pushes
    BY <1>1, <1>2, <1>3 DEF Pushes
  <2> QED
    BY <1>1, <1>3, <2>1, Frame
<1>7. CountOK'
  <2>1. Popping' = Popping
    BY <1>1, <1>2, <1>3 DEF Popping
  <2>2. pc[InputTask] \in {"stored", "signal"} /\ pc'[InputTask] \notin {"stored", "signal"}
    BY <1>1, <1>2, <1>3
  <2>3. IsFiniteSet(Popping) /\ Cardinality(Popping) \in Nat
    BY <1>3, FS_CardinalityType DEF CountOK
  <2>4. event_sem + Cardinality(Popping) + 1 = Size /\ Size' = Size
    BY <1>1, <1>3, <2>2 DEF CountOK, Size
  <2>5. event_sem' + Cardinality(Popping) + 0 = Size
    BY <1>1, <1>4, <2>3, <2>4
  <2> QED
    BY <2>1, <2>2, <2>3, <2>4, <2>5 DEF CountOK
<1> QED
  BY <1>1, <1>5, <1>6, <1>7 DEF IInv

LEMMA PopWaitIInv ==
  ASSUME IInv, NEW r \in Reader, Pop_Wait(r) PROVE IInv'
<1>1. /\ halted = "no" /\ pc[r] = "idle" /\ pc' = [pc EXCEPT ![r] = "pop"]
      /\ event_sem > 0 /\ event_sem' = event_sem - 1
      /\ UNCHANGED <<held, codes, typed, hw, irq, sem_kbdirq, capslock, down, events, front, rear,
                     lock, ev, popped, halted>>
  BY DEF Pop_Wait, Move, device, keyboard, modifier, ring
<1>2. InputTask \in Task /\ r # InputTask /\ \A q \in Reader : q \in Task
  BY ReaderAssumption DEF Task
<1>3. /\ TypeOK /\ RingOK /\ CountOK /\ Replayed
      /\ pc \in [Task -> {"read_key", "wait", "push", "store", "stored", "signal",
                          "idle", "pop", "take", "taken"}]
  BY <1>1 DEF IInv, TypeOK
<1>4. event_sem \in Nat
  BY Counters
<1>5. event_sem' \in Nat
  BY <1>1, <1>4
<1>6. TypeOK'
  <2>1. pc' \in [Task -> {"read_key", "wait", "push", "store", "stored", "signal",
                          "idle", "pop", "take", "taken"}]
    BY <1>1, <1>3
  <2> QED
    BY <1>1, <1>3, <1>5, <2>1 DEF TypeOK
<1>7. pc'[InputTask] = pc[InputTask]
  BY <1>1, <1>2, <1>3
<1>8. RingOK' /\ Replayed'
  <2>1. Pushes' = Pushes
    BY <1>7 DEF Pushes
  <2> QED
    BY <1>1, <1>3, <2>1, Frame
<1>9. CountOK'
  <2>1. Popping' = Popping \cup {r} /\ r \notin Popping
    BY <1>1, <1>2, <1>3 DEF Popping
  <2>2. IsFiniteSet(Popping) /\ Cardinality(Popping) \in Nat
    BY <1>3, FS_CardinalityType DEF CountOK
  <2>3. IsFiniteSet(Popping') /\ Cardinality(Popping') = Cardinality(Popping) + 1
    BY <2>1, <2>2, FS_AddElement
  <2>4. PICK x \in {0, 1} : x = IF pc[InputTask] \in {"stored", "signal"} THEN 1 ELSE 0
    OBVIOUS
  <2>5. event_sem + Cardinality(Popping) + x = Size /\ Size' = Size
    BY <1>1, <1>3, <2>4 DEF CountOK, Size
  <2>6. event_sem' + Cardinality(Popping') + x = Size'
    BY <1>1, <1>4, <2>2, <2>3, <2>5
  <2> QED
    BY <1>7, <2>3, <2>4, <2>6 DEF CountOK
<1> QED
  BY <1>1, <1>6, <1>8, <1>9 DEF IInv

LEMMA PopTakeIInv ==
  ASSUME IInv, NEW r \in Reader, Pop_Take(r) PROVE IInv'
<1>1. /\ halted = "no" /\ pc[r] = "take" /\ pc' = [pc EXCEPT ![r] = "taken"]
      /\ UNCHANGED <<held, codes, typed, hw, irq, sem_kbdirq, event_sem, capslock, down, events,
                     rear, lock>>
  BY DEF Pop_Take, Move, device, keyboard, modifier
<1>2. InputTask \in Task /\ r \in Task /\ r # InputTask /\ \A q \in Reader : q \in Task
  BY ReaderAssumption DEF Task
<1>3. /\ TypeOK /\ RingOK /\ CountOK /\ Replayed
      /\ pc \in [Task -> {"read_key", "wait", "push", "store", "stored", "signal",
                          "idle", "pop", "take", "taken"}]
      /\ events \in [0 .. NEVENTS - 1 -> Event] /\ ev \in [Task -> Event] /\ popped \in Seq(Event)
  BY <1>1 DEF IInv, TypeOK
<1>4. /\ front \in 0 .. NEVENTS - 1 /\ rear \in 0 .. NEVENTS - 1
      /\ NEVENTS \in Nat \ {0} /\ Size \in Nat
      /\ Len(typed) \in Nat /\ Len(popped) \in Nat /\ event_sem \in Nat
  BY <1>3, Ends, Counters
<1>5. pc'[InputTask] = pc[InputTask] /\ Pushes' = Pushes /\ Pushes \in {0, 1}
  <2>1. pc'[InputTask] = pc[InputTask]
    BY <1>1, <1>2, <1>3
  <2> QED
    BY <2>1 DEF Pushes
<1>6. PICK x \in {0, 1} : x = IF pc[InputTask] \in {"stored", "signal"} THEN 1 ELSE 0
  OBVIOUS
<1>7. /\ IsFiniteSet(Popping) /\ Cardinality(Popping) \in Nat
      /\ event_sem + Cardinality(Popping) + x = Size
  BY <1>3, <1>6, FS_CardinalityType DEF CountOK
<1>8. /\ Popping' = Popping \ {r} /\ r \in Popping
  BY <1>1, <1>2, <1>3 DEF Popping
<1>9. /\ IsFiniteSet(Popping') /\ Cardinality(Popping') = Cardinality(Popping) - 1
      /\ Cardinality(Popping') \in Nat
  BY <1>7, <1>8, FS_RemoveElement, FS_CardinalityType
<1>10. Size # 0
  BY <1>4, <1>7, <1>9
<1>11. rear # front
  <2>1. Size = IF front <= rear THEN rear - front ELSE (rear - front) + NEVENTS
    BY <1>4, RingSize DEF Size
  <2> QED
    BY <1>4, <1>10, <2>1
<1>12. /\ front' = (front + 1) % NEVENTS /\ ev' = [ev EXCEPT ![r] = events[front]]
       /\ popped' = Append(popped, events[front]) /\ halted' = halted
  BY <1>11 DEF Pop_Take
<1>13. /\ (front + 1) % NEVENTS \in 0 .. NEVENTS - 1
       /\ (rear + NEVENTS - ((front + 1) % NEVENTS)) % NEVENTS = Size - 1
       /\ (front + 1 - 1) % NEVENTS = front
       /\ \A i \in 1 .. Size - 1 : (((front + 1) % NEVENTS) + i - 1) % NEVENTS = (front + (i + 1) - 1) % NEVENTS
  <2>1. Size = (rear + NEVENTS - front) % NEVENTS
    BY DEF Size
  <2>2. PopMoves(NEVENTS, front, rear, Size)
    BY <1>4, <1>11, <2>1, RingPop
  <2> QED
    BY <2>2 DEF PopMoves
<1>14. Size' = Size - 1
  BY <1>1, <1>12, <1>13 DEF Size
<1>15. /\ popped' \in Seq(Event) /\ Len(popped') = Len(popped) + 1
       /\ popped'[Len(popped) + 1] = events[front]
       /\ \A i \in 1 .. Len(popped) : popped'[i] = popped[i]
  <2>1. events[front] \in Event
    BY <1>3, <1>4
  <2> QED
    BY <1>3, <1>12, <2>1, AppendProperties
<1>16. TypeOK'
  <2>1. pc' \in [Task -> {"read_key", "wait", "push", "store", "stored", "signal",
                          "idle", "pop", "take", "taken"}]
    BY <1>1, <1>3
  <2>2. ev' \in [Task -> Event]
    <3>1. events[front] \in Event
      BY <1>3, <1>4
    <3> QED
      BY <1>3, <1>12, <3>1
  <2>3. front' \in 0 .. NEVENTS - 1
    BY <1>12, <1>13
  <2> QED
    BY <1>1, <1>3, <1>12, <1>15, <2>1, <2>2, <2>3 DEF TypeOK
<1>17. Seen' = Seen
  <2>1. Seen = Len(popped) + Size + Pushes /\ Seen' = (Len(popped) + 1) + (Size - 1) + Pushes
    BY <1>5, <1>14, <1>15 DEF Seen
  <2> QED
    BY <1>4, <1>5, <2>1
<1>18. RingOK'
  <2>1. events[front] = typed[Len(popped) + 1]
    <3>1. 1 \in 1 .. Size
      BY <1>4, <1>10
    <3>2. events[(front + 1 - 1) % NEVENTS] = typed[Len(popped) + 1]
      BY <1>3, <3>1 DEF RingOK
    <3> QED
      BY <1>13, <3>2
  <2>2. ASSUME NEW i \in 1 .. Len(popped) + 1 PROVE popped'[i] = typed[i]
    <3>1. CASE i = Len(popped) + 1
      BY <1>15, <2>1, <3>1
    <3>2. CASE i # Len(popped) + 1
      <4>1. i \in 1 .. Len(popped)
        BY <1>4, <3>2
      <4> QED
        BY <1>3, <1>15, <4>1 DEF RingOK
    <3> QED
      BY <3>1, <3>2
  <2>3. ASSUME NEW i \in 1 .. Size - 1
        PROVE  events[(front' + i - 1) % NEVENTS] = typed[(Len(popped) + 1) + i]
    <3>1. i + 1 \in 1 .. Size /\ Len(popped) + (i + 1) = (Len(popped) + 1) + i
      BY <1>4
    <3>2. events[(front + (i + 1) - 1) % NEVENTS] = typed[Len(popped) + (i + 1)]
      BY <1>3, <3>1 DEF RingOK
    <3>3. (front' + i - 1) % NEVENTS = (front + (i + 1) - 1) % NEVENTS
      BY <1>12, <1>13
    <3> QED
      BY <3>1, <3>2, <3>3
  <2>4. Pushes = 1 => ev'[InputTask] = typed[Seen]
    <3>1. ev'[InputTask] = ev[InputTask]
      BY <1>2, <1>3, <1>12
    <3> QED
      BY <1>3, <3>1 DEF RingOK
  <2>5. Seen <= Len(typed)
    BY <1>3 DEF RingOK
  <2> QED
    BY <1>1, <1>5, <1>14, <1>15, <1>17, <2>2, <2>3, <2>4, <2>5 DEF RingOK
<1>19. CountOK'
  <2>1. event_sem' + Cardinality(Popping') + x = Size'
    BY <1>1, <1>4, <1>7, <1>9, <1>14
  <2>2. x = IF pc'[InputTask] \in {"stored", "signal"} THEN 1 ELSE 0
    BY <1>5, <1>6
  <2> QED
    BY <1>9, <2>1, <2>2 DEF CountOK
<1>20. Replayed'
  <2>1. Mods' = Mods /\ \A ds, ps : ReplayedBy(ds, ps)' <=> ReplayedBy(ds, ps)
    BY <1>1, <1>17 DEF ReplayedBy, Mods
  <2> QED
    BY <1>1, <1>3, <2>1 DEF Replayed
<1> QED
  BY <1>1, <1>12, <1>16, <1>18, <1>19, <1>20 DEF IInv

LEMMA StutterIInv ==
  ASSUME IInv, UNCHANGED vars PROVE IInv'
<1>1. UNCHANGED <<held, codes, typed, hw, irq, sem_kbdirq, event_sem, capslock, down, events, front,
                  rear, lock, pc, ev, halted, popped>>
  BY DEF vars, keyboard, modifier, ring
<1>2. TypeOK'
  BY <1>1 DEF IInv, TypeOK
<1>3. halted = "no" => RingOK' /\ Replayed'
  BY <1>1, Frame DEF IInv, Pushes
<1>4. halted = "no" => CountOK'
  BY <1>1 DEF IInv, CountOK, Popping, Size
<1> QED
  BY <1>1, <1>2, <1>3, <1>4 DEF IInv

LEMMA StepIInv == IInv /\ [Next]_vars => IInv'
<1> SUFFICES ASSUME IInv, [Next]_vars PROVE IInv'
  OBVIOUS
<1>1. InputTask \in Task /\ \A r \in Reader : r \in Task /\ r # InputTask
  BY ReaderAssumption DEF Task
<1>2. ASSUME NEW k \in Key, Press(k) PROVE IInv'
  BY <1>2, PressIInv
<1>3. ASSUME NEW k \in Key, Release(k) PROVE IInv'
  BY <1>3, ReleaseIInv
<1>4. CASE input_notify
  BY <1>4, NotifyIInv
<1>5. CASE Read
  BY <1>5, ReadIInv
<1>6. CASE Await
  BY <1>6, AwaitIInv
<1>7. CASE Push_Lock
  <2>1. lock' \in Task \cup {Nobody}
    BY <1>1, <1>7 DEF Push_Lock, Lock
  <2> QED
    BY <1>1, <1>7, <2>1, LockIInv DEF Push_Lock, Lock
<1>8. CASE Push_Store
  BY <1>8, PushStoreIInv
<1>9. CASE Push_Unlock
  <2>1. lock' \in Task \cup {Nobody}
    BY <1>9 DEF Push_Unlock, Unlock
  <2> QED
    BY <1>1, <1>9, <2>1, LockIInv DEF Push_Unlock, Unlock
<1>10. CASE Push_Signal
  BY <1>10, PushSignalIInv
<1>11. ASSUME NEW r \in Reader, pop_event(r) PROVE IInv'
  <2>1. CASE Pop_Wait(r)
    BY <2>1, PopWaitIInv
  <2>2. CASE Pop_Lock(r)
    <3>1. lock' \in Task \cup {Nobody}
      BY <1>1, <2>2 DEF Pop_Lock, Lock
    <3> QED
      BY <1>1, <2>2, <3>1, LockIInv DEF Pop_Lock, Lock
  <2>3. CASE Pop_Take(r)
    BY <2>3, PopTakeIInv
  <2>4. CASE Pop_Unlock(r)
    <3>1. lock' \in Task \cup {Nobody}
      BY <2>4 DEF Pop_Unlock, Unlock
    <3> QED
      BY <1>1, <2>4, <3>1, LockIInv DEF Pop_Unlock, Unlock
  <2> QED
    BY <1>11, <2>1, <2>2, <2>3, <2>4 DEF pop_event
<1>12. CASE UNCHANGED vars
  BY <1>12, StutterIInv
<1> QED
  BY <1>2, <1>3, <1>4, <1>5, <1>6, <1>7, <1>8, <1>9, <1>10, <1>11, <1>12
  DEF Next, input_task, push_event

THEOREM Inductive == Spec => []IInv
  BY InitIInv, StepIInv, PTL DEF Spec

----------------------------------------------------------------------------
(* What follows from it. *)

\* input.c panics for a full ring only, and only when NEVENTS events wait in
\* it: a reader that has passed event_sem finds an event, whatever the other
\* readers and input_task did in between.
THEOREM HaltsForFullRing == Spec => []HaltsRightly
<1>1. IInv => HaltsRightly
  BY DEF IInv, HaltsRightly
<1> QED
  BY <1>1, Inductive, PTL

\* Keys are never lost, doubled, reordered or read under other modifiers than
\* those they were pressed with: what readers popped, the ring and the event
\* input_task is pushing are the first of the events typed, and all of them
\* when the controller has no code left.
THEOREM KeysStayInOrder == Spec => []KeysInOrder
<1>1. ASSUME IInv PROVE KeysInOrder
  <2> SUFFICES ASSUME halted = "no"
               PROVE  LET seen == popped \o Queued \o Pushing
                      IN IsPrefix(seen, typed) /\ (hw = << >> => seen = typed)
    BY DEF KeysInOrder
  <2> DEFINE seen == popped \o Queued \o Pushing
  <2>1. /\ TypeOK /\ RingOK /\ Replayed /\ InputTask \in Task
        /\ popped \in Seq(Event) /\ typed \in Seq(Event) /\ events \in [0 .. NEVENTS - 1 -> Event]
        /\ ev \in [Task -> Event]
    BY <1>1 DEF IInv, TypeOK, Task
  <2>2. Size \in Nat /\ Len(popped) \in Nat /\ Len(typed) \in Nat
    BY <1>1, <2>1, Ends, Counters
  <2>3. /\ Queued \in Seq(Event) /\ Len(Queued) = Size
        /\ \A i \in 1 .. Size : Queued[i] = typed[Len(popped) + i]
    <3>1. Queued = [i \in 1 .. Size |-> events[(front + i - 1) % NEVENTS]]
      BY DEF Queued, Size
    <3>2. \A i \in 1 .. Size : events[(front + i - 1) % NEVENTS] = typed[Len(popped) + i]
      BY <2>1 DEF RingOK
    <3>3. \A i \in 1 .. Size : Len(popped) + i \in 1 .. Len(typed)
      <4>1. Seen <= Len(typed) /\ Seen = Len(popped) + Size + Pushes /\ Pushes \in {0, 1}
        BY <2>1 DEF RingOK, Seen, Pushes
      <4> QED
        BY <2>2, <4>1
    <3>4. \A i \in 1 .. Size : events[(front + i - 1) % NEVENTS] \in Event
      BY <2>1, <3>2, <3>3, ElementOfSeq
    <3> QED
      BY <2>2, <3>1, <3>2, <3>4
  <2>4. /\ Pushing \in Seq(Event) /\ Len(Pushing) = Pushes /\ Pushes \in {0, 1}
        /\ \A i \in 1 .. Pushes : Pushing[i] = typed[Seen]
    <3>1. CASE pc[InputTask] \in {"push", "store"}
      <4>1. Pushing = << ev[InputTask] >> /\ Pushes = 1 /\ ev[InputTask] \in Event
        BY <2>1, <3>1 DEF Pushing, Pushes
      <4>2. ev[InputTask] = typed[Seen]
        BY <2>1, <4>1 DEF RingOK
      <4> QED
        BY <4>1, <4>2
    <3>2. CASE pc[InputTask] \notin {"push", "store"}
      BY <3>2 DEF Pushing, Pushes
    <3> QED
      BY <3>1, <3>2
  <2>5. Seen = Len(popped) + Size + Pushes /\ Seen <= Len(typed) /\ Seen \in Nat
    BY <2>1, <2>2, <2>4 DEF RingOK, Seen
  <2>6. /\ popped \o Queued \in Seq(Event) /\ Len(popped \o Queued) = Len(popped) + Size
        /\ \A i \in 1 .. Len(popped) + Size : (popped \o Queued)[i] =
              IF i <= Len(popped) THEN popped[i] ELSE Queued[i - Len(popped)]
    BY <2>1, <2>3, ConcatProperties
  <2>7. /\ seen \in Seq(Event) /\ Len(seen) = Seen
        /\ \A i \in 1 .. Seen : seen[i] =
              IF i <= Len(popped) + Size THEN (popped \o Queued)[i]
              ELSE Pushing[i - (Len(popped) + Size)]
    <3>1. /\ seen \in Seq(Event) /\ Len(seen) = Len(popped \o Queued) + Len(Pushing)
          /\ \A i \in 1 .. Len(popped \o Queued) + Len(Pushing) : seen[i] =
                IF i <= Len(popped \o Queued) THEN (popped \o Queued)[i]
                ELSE Pushing[i - Len(popped \o Queued)]
      BY <2>4, <2>6, ConcatProperties
    <3>2. Len(popped \o Queued) = Len(popped) + Size /\ Len(popped \o Queued) + Len(Pushing) = Seen
      BY <2>4, <2>5, <2>6
    <3> QED
      BY <3>1, <3>2
  <2>8. ASSUME NEW i \in 1 .. Seen PROVE seen[i] = typed[i]
    <3>1. CASE i <= Len(popped)
      <4>1. i \in 1 .. Len(popped) /\ i \in 1 .. Len(popped) + Size
        BY <2>2, <3>1
      <4>2. popped[i] = typed[i]
        BY <2>1, <4>1 DEF RingOK
      <4> QED
        BY <2>2, <2>6, <2>7, <3>1, <4>1, <4>2
    <3>2. CASE i > Len(popped) /\ i <= Len(popped) + Size
      <4>1. /\ i - Len(popped) \in 1 .. Size /\ Len(popped) + (i - Len(popped)) = i
            /\ i \in 1 .. Len(popped) + Size /\ ~(i <= Len(popped))
        BY <2>2, <3>2
      <4>2. Queued[i - Len(popped)] = typed[i]
        BY <2>3, <4>1
      <4> QED
        BY <2>6, <2>7, <3>2, <4>1, <4>2
    <3>3. CASE i > Len(popped) + Size
      <4>1. i - (Len(popped) + Size) = 1 /\ Pushes = 1 /\ i = Seen /\ ~(i <= Len(popped) + Size)
        BY <2>2, <2>4, <2>5, <3>3
      <4>2. Pushing[1] = typed[Seen]
        BY <2>4, <4>1
      <4> QED
        BY <2>7, <4>1, <4>2
    <3>4. i \in Nat /\ Len(popped) \in Nat /\ Len(popped) + Size \in Nat
      BY <2>2, <2>5
    <3>5. i <= Len(popped) \/ (i > Len(popped) /\ i <= Len(popped) + Size) \/ i > Len(popped) + Size
      BY <3>4
    <3> QED
      BY <3>1, <3>2, <3>3, <3>5
  <2> HIDE DEF seen
  <2>9. IsPrefix(seen, typed)
    <3>1. /\ SubSeq(seen, 1, Seen) \in Seq(Event) /\ Len(SubSeq(seen, 1, Seen)) = Seen
          /\ \A i \in 1 .. Seen : SubSeq(seen, 1, Seen)[i] = seen[i]
      BY <2>5, <2>7, SubSeqOfSeq
    <3>2. /\ SubSeq(typed, 1, Seen) \in Seq(Event) /\ Len(SubSeq(typed, 1, Seen)) = Seen
          /\ \A i \in 1 .. Seen : SubSeq(typed, 1, Seen)[i] = typed[i]
      BY <2>1, <2>2, <2>5, SubSeqOfSeq
    <3>3. SubSeq(seen, 1, Seen) = SubSeq(typed, 1, Seen)
      BY <2>8, <3>1, <3>2, SeqEqual
    <3> QED
      BY <2>5, <2>7, <3>3 DEF IsPrefix
  <2>10. ASSUME hw = << >> PROVE seen = typed
    <3>1. Len(hw) = 0
      BY <2>10
    <3>2. PICK ds \in [Nat -> SUBSET (Key \cup {Locked})], ps \in [Nat -> Nat] : ReplayedBy(ds, ps)
      BY <2>1 DEF Replayed
    <3>3. Seen = Len(typed)
      BY <3>1, <3>2 DEF ReplayedBy
    <3> QED
      BY <2>1, <2>7, <2>8, <3>3, SeqEqual
  <2> QED
    BY <2>9, <2>10 DEF seen
<1> QED
  BY <1>1, Inductive, PTL
=============================================================================
