------------------------------- MODULE Screen -------------------------------
(***************************************************************************)
(* The text of a terminal of kernel/src/devices/tty/tty.c, as functions:   *)
(* a window of lines and columns and a cursor, and what each character     *)
(* does to them.  (The cells that it marks in dirty[] are left out: they   *)
(* begin marked, and nothing clears a mark.)  At the end, what the window  *)
(* should show: the last part of a tape of all the text there was.         *)
(***************************************************************************)
EXTENDS Integers, SequencesExt

CONSTANTS columns, lines

ASSUME ScreenAssumption == /\ columns \in Nat \ {0} /\ lines \in Nat \ {0}
                           /\ columns * lines > 1

size  == columns * lines
Place == 0 .. size - 1
Blank == "blank"

Control == {"cr", "backspace", "enter"}

\* tty->buf and tty->cursor - tty->buf, as tty_init makes them.
Empty == [buf |-> [i \in Place |-> Blank], cursor |-> 0]

Column(i) == i % columns

\* Mutant: the new last line is not cleared.
tty_upd_scrollup_Stale(x) ==
  [buf    |-> [i \in Place |-> IF i + columns < size THEN x.buf[i + columns] ELSE x.buf[i]],
   cursor |-> x.cursor - columns]

\* Lines move up by one and the last is cleared.
tty_upd_scrollup(x) ==
  [buf    |-> [i \in Place |-> IF i + columns < size THEN x.buf[i + columns] ELSE Blank],
   cursor |-> x.cursor - columns]

tty_upd_cr(x) == [x EXCEPT !.cursor = @ - Column(@)]
tty_upd_lf(x) == [x EXCEPT !.cursor = @ + columns]

\* Backspace stops at the top of the window.
tty_upd_backsp(x) == IF x.cursor = 0 THEN x
                     ELSE [buf    |-> [x.buf EXCEPT ![x.cursor - 1] = Blank],
                           cursor |-> x.cursor - 1]

tty_upd_putc(x, ch) == [buf    |-> [x.buf EXCEPT ![x.cursor] = ch],
                        cursor |-> x.cursor + 1]

Scrolled(x) == IF x.cursor = size THEN tty_upd_scrollup(x) ELSE x

\* The text after a character; a line feed also returns the carriage.
tty_putc(x, ch) == CASE ch = "cr"        -> tty_upd_cr(x)
                     [] ch = "backspace" -> tty_upd_backsp(x)
                     [] ch = "enter"     -> Scrolled(tty_upd_lf(tty_upd_cr(x)))
                     [] OTHER            -> Scrolled(tty_upd_putc(x, ch))

\* The text after the characters of s, one by one.
tty_puts(x, s) == LET Put[i \in 0 .. Len(s)] == IF i = 0 THEN x ELSE tty_putc(Put[i - 1], s[i])
                  IN Put[Len(s)]

\* What tty_render draws in cell i.
Cell(x, i) == IF i = x.cursor THEN "cursor" ELSE x.buf[i]

----------------------------------------------------------------------------
(* The reference: text stays where it is written on the tape, and the      *)
(* window moves down to where the cursor gets.                             *)

Start == [text |-> [i \in {} |-> Blank], pos |-> 0, top |-> 0]

At(f, i)       == IF i \in DOMAIN f THEN f[i] ELSE Blank
With(f, i, ch) == [j \in DOMAIN f \cup {i} |-> IF j = i THEN ch ELSE f[j]]

Go(y, p) == [y EXCEPT !.pos = p, !.top = IF p >= y.top + size THEN @ + columns ELSE @]

Step(y, ch) ==
  CASE ch = "cr"        -> Go(y, y.pos - Column(y.pos))
    [] ch = "enter"     -> Go(y, y.pos - Column(y.pos) + columns)
    [] ch = "backspace" -> IF y.pos = y.top THEN y
                           ELSE Go([y EXCEPT !.text = With(@, y.pos - 1, Blank)], y.pos - 1)
    [] OTHER            -> Go([y EXCEPT !.text = With(@, y.pos, ch)], y.pos + 1)

\* The tape after the characters of s.
Played(s) == LET Run[i \in 0 .. Len(s)] == IF i = 0 THEN Start ELSE Step(Run[i - 1], s[i])
             IN Run[Len(s)]

Tape(s) == [buf    |-> [i \in Place |-> At(Played(s).text, Played(s).top + i)],
            cursor |-> Played(s).pos - Played(s).top]
=============================================================================
