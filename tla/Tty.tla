-------------------------------- MODULE Tty ---------------------------------
(***************************************************************************)
(* The terminals of kernel/src/devices/tty/tty.c: tty_task, which takes    *)
(* keyboard events (module Input), cooks them into the current terminal's  *)
(* queue and echoes them, the programs that read lines and write text, and *)
(* the frame buffer of video.c that shows one terminal.                    *)
(*                                                                         *)
(* A critical section of tty->lock is one step, except that of tty_render, *)
(* which calls the frame buffer for each cell of the screen: all of them,  *)
(* for dirty[] begins set and nothing clears it.  Taking the lock is part  *)
(* of its first such step, giving it back part of the last.  What text is, *)
(* and what characters do to it, is in module Screen.                      *)
(***************************************************************************)
EXTENDS Screen

CONSTANTS Tty,          \* the terminals; tty1 is the first one shown
          tty1,
          Shell,        \* programs that read and write
          Char,         \* the characters that are typed
          Output,       \* the strings that programs write
          SZ,           \* TTY_COOK_BUF_SZ
          MaxEvents     \* bound on the keyboard events, of which a program's
                        \* write takes the place of two

AllChar == {"x", "y", "enter", "backspace", "ctrlD", "nul"}

ASSUME TtyAssumption == /\ tty1 \in Tty /\ Char \subseteq AllChar
                        /\ Output \subseteq Seq(AllChar \cup Control)
                        /\ SZ \in Nat \ {0, 1}
                        /\ MaxEvents \in Nat

TtyTask == "tty-task"
Nobody  == "nobody"
Proc    == Shell \cup {TtyTask}

ASSUME ProcAssumption == Nobody \notin Proc /\ TtyTask \notin Shell

VARIABLES queue,    \* tty->queue: buf, front and rear
          cooked,   \* the value of tty->cooked
          lock,     \* tty_render's hold of tty->lock
          text,     \* tty->buf and tty->cursor
          output,   \* all that was written to each terminal
          ttydev,   \* tty_task's terminal
          current,  \* fb->info->current, as the terminal on that display
          screen,   \* what each cell of the screen shows, and of which terminal
          pc, on,   \* the terminal a process is busy with
          str,      \* the characters a process cooks or writes
          cell,     \* the next cell a process draws
          events,   \* how many there were
          out,      \* the lines read from each terminal
          halted

cook  == <<queue, cooked, out>>
video == <<lock, current, screen, cell>>
texts == <<text, output>>
vars  == <<cook, video, texts, ttydev, pc, on, str, events, halted>>

Index == 0 .. SZ - 1
Queue == [buf : [Index -> AllChar], front : Index, rear : Index]

Init ==
  /\ queue   = [t \in Tty |-> [buf |-> [i \in Index |-> "nul"], front |-> 0, rear |-> 0]]
  /\ cooked  = [t \in Tty |-> 0]
  /\ lock    = [t \in Tty |-> Nobody]
  /\ text = [t \in Tty |-> Empty] /\ output = [t \in Tty |-> <<>>]
  /\ ttydev  = tty1 /\ current = tty1
  /\ screen  = [c \in Place |-> <<tty1, "garbage">>]
  /\ pc      = [p \in Proc |-> IF p = TtyTask THEN "render" ELSE "idle"]
  /\ on      = [p \in Proc |-> tty1]
  /\ str     = [p \in Proc |-> <<>>]
  /\ cell    = [p \in Proc |-> 0]
  /\ events  = 0
  /\ out     = [t \in Tty |-> <<>>]
  /\ halted  = FALSE

Move(p, a, b) == ~halted /\ pc[p] = a /\ pc' = [pc EXCEPT ![p] = b]
Free(t)       == lock[t] = Nobody

----------------------------------------------------------------------------
(* The queue *)

After(i)  == (i + 1) % SZ
Before(i) == (i + SZ - 1) % SZ

Full(q) == After(q.rear) = q.front

\* The queue with one more character and a 0 behind it.
tty_enqueue(q, c) ==
  [q EXCEPT !.buf  = [@ EXCEPT ![q.rear] = c, ![After(q.rear)] = "nul"],
            !.rear = After(q.rear)]

\* Mutant: only an empty queue stops backspace.
Erasable_Any(q) == q.rear # q.front

\* tty_pop_back erases nothing if the last character is a 0: the end of a
\* completed line, or what pmm->alloc left in the buffer.
Erasable(q) == q.buf[Before(q.rear)] # "nul"

tty_pop_back(q) == [q EXCEPT !.rear = Before(q.rear),
                             !.buf  = [@ EXCEPT ![Before(q.rear)] = "nul"]]

\* How far the first 0 is from the front, and the characters before it.
LineLength(q) == CHOOSE n \in Index : /\ q.buf[(q.front + n) % SZ] = "nul"
                                      /\ \A m \in 0 .. n - 1 : q.buf[(q.front + m) % SZ] # "nul"
FirstLine(q)  == [i \in 1 .. LineLength(q) |-> q.buf[(q.front + i - 1) % SZ]]

----------------------------------------------------------------------------
(* tty_task *)

\* A character, or ctrl-d; ctrl or alt with another key does nothing here.
Take_Char(c) ==
  /\ Move(TtyTask, "idle", "cook")
  /\ str' = [str EXCEPT ![TtyTask] = <<c>>]
  /\ on'  = [on EXCEPT ![TtyTask] = ttydev]
  /\ UNCHANGED <<cook, video, texts, ttydev, halted>>

\* alt with a digit.
Take_Alt(t) ==
  /\ t # ttydev
  /\ Move(TtyTask, "idle", "switch")
  /\ ttydev' = t /\ on' = [on EXCEPT ![TtyTask] = t]
  /\ UNCHANGED <<cook, video, texts, str, halted>>

Take == /\ events < MaxEvents /\ events' = events + 1
        /\ (\E c \in Char : Take_Char(c)) \/ (\E t \in Tty : Take_Alt(t))

\* tty_cook: the new queue, whether it overflows, the lines it completes and
\* whether the character is echoed.
Panics(q, c) == \/ c # "backspace" /\ Full(q)
                \/ c = "enter" /\ Full(tty_enqueue(q, c))

Cooked(q, c) ==
  CASE c = "enter" -> tty_enqueue(tty_enqueue(q, c), "nul")
    [] c = "backspace" -> IF Erasable(q) THEN tty_pop_back(q) ELSE q
    [] OTHER    -> tty_enqueue(q, c)

Echoes(q, c) == c # "ctrlD" /\ (c = "backspace" => Erasable(q))

\* Mutant: every character that ends up as a 0-terminated string wakes a reader.
tty_cook_Eager ==
  LET t == on[TtyTask]
      q == queue[t]
      c == Head(str[TtyTask])
  IN /\ pc[TtyTask] = "cook"
     /\ Free(t)
     /\ ~Panics(q, c)
     /\ Move(TtyTask, "cook", IF Echoes(q, c) THEN "write" ELSE "idle")
     /\ queue'  = [queue EXCEPT ![t] = Cooked(q, c)]
     /\ cooked' = [cooked EXCEPT ![t] = IF c \in {"enter", "ctrlD"} THEN @ + 1 ELSE @]
     /\ UNCHANGED <<out, halted, video, texts, ttydev, on, str, events>>

tty_cook ==
  LET t == on[TtyTask]
      q == queue[t]
      c == Head(str[TtyTask])
  IN /\ pc[TtyTask] = "cook"
     /\ Free(t)
     /\ IF Panics(q, c)
          THEN /\ Move(TtyTask, "cook", "idle")
               /\ halted' = TRUE /\ UNCHANGED cook
          ELSE /\ Move(TtyTask, "cook", IF Echoes(q, c) THEN "write" ELSE "idle")
               /\ queue'  = [queue EXCEPT ![t] = Cooked(q, c)]
               /\ cooked' = [cooked EXCEPT ![t] = IF c = "enter" THEN @ + 1 ELSE @]
               /\ UNCHANGED <<out, halted>>
     /\ UNCHANGED <<video, texts, ttydev, on, str, events>>

\* The frame buffer is told of the new display, and "" is written.
Switch == /\ Move(TtyTask, "switch", "write")
          /\ current' = on[TtyTask]
          /\ str' = [str EXCEPT ![TtyTask] = <<>>]
          /\ UNCHANGED <<cook, lock, screen, cell, texts, ttydev, on, events, halted>>

tty_task == Take \/ tty_cook \/ Switch

----------------------------------------------------------------------------
(* tty_read and tty_write *)

Read_Call(s, t) == /\ Move(s, "idle", "wait")
                   /\ on' = [on EXCEPT ![s] = t]
                   /\ UNCHANGED <<cook, video, texts, ttydev, str, events, halted>>

Read_Wait(s) == /\ Move(s, "wait", "read")
                /\ cooked[on[s]] > 0
                /\ cooked' = [cooked EXCEPT ![on[s]] = @ - 1]
                /\ UNCHANGED <<queue, out, video, texts, ttydev, on, str, events, halted>>

Read_Take(s) ==
  LET t == on[s]
      q == queue[t]
  IN /\ Move(s, "read", "idle")
     /\ Free(t)
     /\ out'   = [out EXCEPT ![t] = Append(@, FirstLine(q))]
     /\ queue' = [queue EXCEPT ![t].front = (q.front + LineLength(q) + 1) % SZ]
     /\ UNCHANGED <<cooked, video, texts, ttydev, on, str, events, halted>>

Write_Call(s, t) == /\ events + 2 <= MaxEvents /\ events' = events + 2
                    /\ Move(s, "idle", "write")
                    /\ on' = [on EXCEPT ![s] = t]
                    /\ \E w \in Output : str' = [str EXCEPT ![s] = w]
                    /\ UNCHANGED <<cook, video, texts, ttydev, halted>>

Write(p) == /\ Move(p, "write", "render")
            /\ Free(on[p])
            /\ text'   = [text EXCEPT ![on[p]] = tty_puts(@, str[p])]
            /\ output' = [output EXCEPT ![on[p]] = @ \o str[p]]
            /\ str'    = [str EXCEPT ![p] = <<>>]
            /\ UNCHANGED <<cook, video, ttydev, on, events, halted>>

\* Mutant: the frame buffer draws the sprites of any display.
fb_write_Any(t, i) == [screen EXCEPT ![i] = <<t, Cell(text[t], i)>>]

\* The screen after the sprites of cell i of terminal t: they are drawn if
\* their display is the current one.
fb_write(t, i) == IF t = current THEN [screen EXCEPT ![i] = <<t, Cell(text[t], i)>>]
                                 ELSE screen

tty_render(p) ==
  LET t == on[p]
      i == cell[p]
  IN /\ IF i = 0 THEN Free(t) ELSE lock[t] = p
     /\ screen' = fb_write(t, i)
     /\ cell'   = [cell EXCEPT ![p] = (i + 1) % size]
     /\ lock'   = [lock EXCEPT ![t] = IF i = size - 1 THEN Nobody ELSE p]
     /\ Move(p, "render", IF i = size - 1 THEN "idle" ELSE "render")
     /\ UNCHANGED <<cook, current, texts, ttydev, on, str, events, halted>>

tty_read(s)   == (\E t \in Tty : Read_Call(s, t)) \/ Read_Wait(s) \/ Read_Take(s)

Next == \/ tty_task
        \/ \E s \in Shell : tty_read(s) \/ \E t \in Tty : Write_Call(s, t)
        \/ \E p \in Proc : Write(p) \/ tty_render(p)

Spec == Init /\ [][Next]_vars

----------------------------------------------------------------------------
(* Properties *)

Shows == AllChar \cup {Blank, "cursor"}

TypeOK ==
  /\ queue \in [Tty -> Queue] /\ cooked \in [Tty -> Nat]
  /\ lock \in [Tty -> Proc \cup {Nobody}]
  /\ text \in [Tty -> [buf : [Place -> AllChar \cup {Blank}], cursor : Place]]
  /\ output \in [Tty -> Seq(AllChar \cup Control)] /\ events \in 0 .. MaxEvents
  /\ ttydev \in Tty /\ current \in Tty
  /\ screen \in [Place -> Tty \X (Shows \cup {"garbage"})]
  /\ pc \in [Proc -> {"idle", "cook", "switch", "wait", "read", "write", "render"}]
  /\ on \in [Proc -> Tty] /\ str \in [Proc -> Seq(AllChar \cup Control)]
  /\ cell \in [Proc -> Place]
  /\ out \in [Tty -> Seq(Seq(AllChar))]
  /\ halted \in BOOLEAN

\* The characters from front to rear.
Contents(q) == [i \in 1 .. (q.rear + SZ - q.front) % SZ |-> q.buf[(q.front + i - 1) % SZ]]

\* The places of the 0s among them, in any order and the k-th of them.
Ends(s)   == {i \in DOMAIN s : s[i] = "nul"}
End(s, k) == IF k = 0 THEN 0
             ELSE CHOOSE i \in Ends(s) : Cardinality({j \in Ends(s) : j <= i}) = k

\* cooked counts the lines in the queue that no reader has laid claim to: a
\* reader that passed it finds a whole line, and no line waits unannounced.
\* Every variable keeps its type.
Claims(t) == Cardinality({s \in Shell : pc[s] = "read" /\ on[s] = t})

CookedAgree == /\ TypeOK
               /\ \A t \in Tty : cooked[t] + Claims(t) = Cardinality(Ends(Contents(queue[t])))

\* Reading a terminal gives the lines that were typed to it, whole, as edited,
\* and in order: the ring of characters, with its 0s and its wrap, its two
\* ends moved by different tasks, implements LineAbs.  Backspace never eats
\* into a completed line, and switching terminals mixes no lines.
Completed(s) == [k \in 1 .. Cardinality(Ends(s)) |-> SubSeq(s, End(s, k - 1) + 1, End(s, k) - 1)]
Unfinished(s) == SubSeq(s, End(s, Cardinality(Ends(s))) + 1, Len(s))

Ready == [t \in Tty |-> Completed(Contents(queue[t]))]
Edit  == [t \in Tty |-> Unfinished(Contents(queue[t]))]

Line == INSTANCE LineAbs WITH edit <- Edit, ready <- Ready, Return <- "enter",
                              Char <- AllChar \ {"enter", "backspace"}
LineDiscipline == Line!Spec

\* The screen shows the terminal the keys go to, with all that was written to
\* it, whenever nobody is between a write, or a switch, and the end of the
\* render that follows it: renders of other terminals that began before the
\* switch, and later writes to them, leave no trace.
Settled == (\A p \in Proc : pc[p] \notin {"switch", "write", "render"}) =>
             \A i \in Place : screen[i] = <<ttydev, Cell(text[ttydev], i)>>

\* Scrolling loses nothing but what leaves at the top: the window of each
\* terminal shows its text where it was written, after any characters.
ShowsText == \A t \in Tty : text[t] = Tape(output[t])
=============================================================================
