------------------------------- MODULE Video --------------------------------
(***************************************************************************)
(* The console's frame buffer (vid.c): kputc() as a row of drawing steps   *)
(* on (row, col), with the handlers, which print in the middle of it, and  *)
(* the clock that the timer's handler draws into row 0.                    *)
(*                                                                         *)
(* A cell is the set of glyphs that are drawn over each other in it.  The  *)
(* cursor's glyph has every pixel set: to take it off clears the cell.     *)
(***************************************************************************)
EXTENDS Naturals, Sequences

CONSTANTS
  Letter,       \* ordinary characters
  Rows, Cols,   \* the screen: 25 and 80 in the code
  ClockCol,     \* the column of the clock
  MaxChars,     \* bound: characters written
  Blank         \* no character

VARIABLES
  scr,          \* [cell, row, col]: the frame buffer and kputc()'s position
  pc, ch,       \* the step of a kputc() in progress, and its character
  digit,        \* clock[ ]
  text,         \* history: what a terminal would show, [cell, row, col]
  written,      \* history: the number of characters written
  hidden,       \* history: \b has left the screen without a cursor
  disturbed     \* history: a handler has printed in the middle of a kputc()

vars == <<scr, pc, ch, digit, text, written, hidden, disturbed>>

Cursor == "cursor"
Digits == {"0", "1"}
Cell == (1..Rows) \X (1..Cols)
Here(s) == <<s.row, s.col>>
At(s, glyphs) == [s EXCEPT !.cell[Here(s)] = glyphs]

Init ==
  /\ scr = [cell |-> [c \in Cell |-> {}], row |-> 1, col |-> 1]
  /\ text = [cell |-> [c \in Cell |-> Blank], row |-> 1, col |-> 1]
  /\ pc = "idle" /\ ch = Blank /\ digit = "0"
  /\ written = 0 /\ hidden = TRUE /\ disturbed = FALSE
-----------------------------------------------------------------------------
\* clrcursor(), kpchar() and putcursor().
Clear(s) == At(s, {})
Drawn(s, c) == At(s, s.cell[Here(s)] \cup {c})

\* scroll(): below the last row of text the frame buffer is black.
\* (Mutant: the last row stays.)
ScrollKeeps(s) ==
  [s EXCEPT !.cell = [c \in Cell |-> IF c[1] < Rows THEN s.cell[<<c[1] + 1, c[2]>>] ELSE s.cell[c]]]
Scroll(s) ==
  [s EXCEPT !.cell = [c \in Cell |-> IF c[1] < Rows THEN s.cell[<<c[1] + 1, c[2]>>] ELSE {}]]
Down(s) == IF s.row = Rows THEN Scroll(s) ELSE [s EXCEPT !.row = @ + 1]

\* The position after c.
Moved(s, c) ==
  CASE c = "cr" -> [s EXCEPT !.col = 1]
    [] c = "nl" -> Down(s)
    [] c = "bs" -> IF s.col = 1 THEN s ELSE Clear([s EXCEPT !.col = @ - 1])
    [] OTHER -> IF s.col < Cols THEN [s EXCEPT !.col = @ + 1] ELSE Down([s EXCEPT !.col = 1])
CursorLost(s, c) == c = "bs" /\ s.col = 1

\* kputc() as a whole.
Kputc(s, c) ==
  LET drawn == IF c \in Letter THEN Drawn(Clear(s), c) ELSE Clear(s)
  IN  IF CursorLost(s, c) THEN drawn ELSE Drawn(Moved(drawn, c), Cursor)

\* A terminal of Rows lines that keeps nothing under its cursor, told c: kputc()
\* clears the cell that it is about to leave, so that a carriage return at the end
\* of a line blanks what stands there, and "\r\n" the first letter of the line.
ScrolledText(t) ==
  IF t.row < Rows THEN [t EXCEPT !.row = @ + 1]
  ELSE [t EXCEPT !.cell = [c \in Cell |-> IF c[1] < Rows THEN t.cell[<<c[1] + 1, c[2]>>] ELSE Blank]]
Told(t, c) ==
  CASE c = "cr" -> [At(t, Blank) EXCEPT !.col = 1]
    [] c = "nl" -> ScrolledText(At(t, Blank))
    [] c = "bs" -> IF t.col = 1 THEN At(t, Blank) ELSE At([At(t, Blank) EXCEPT !.col = @ - 1], Blank)
    [] OTHER -> LET new == At(t, c)
                IN  IF t.col < Cols THEN [new EXCEPT !.col = @ + 1]
                    ELSE ScrolledText([new EXCEPT !.col = 1])

\* Any character may follow any: printf() and conwrite() pass on what they are
\* given, and a handler may print between a newline and its carriage return.
Writes(c) ==
  /\ written < MaxChars
  /\ written' = written + 1
  /\ text' = Told(text, c)
-----------------------------------------------------------------------------
(* A process in kputc() *)

Begin(c) ==
  /\ pc = "idle" /\ Writes(c)
  /\ scr' = Clear(scr) /\ ch' = c
  /\ pc' = IF c \in Letter THEN "draw" ELSE "move"
  /\ UNCHANGED <<digit, hidden, disturbed>>

Draw ==
  /\ pc = "draw"
  /\ scr' = Drawn(scr, ch) /\ pc' = "move"
  /\ UNCHANGED <<ch, digit, text, written, hidden, disturbed>>

Move ==
  /\ pc = "move"
  /\ scr' = Moved(scr, ch)
  /\ hidden' = CursorLost(scr, ch)
  /\ pc' = IF CursorLost(scr, ch) THEN "idle" ELSE "show"
  /\ UNCHANGED <<ch, digit, text, written, disturbed>>

Show ==
  /\ pc = "show"
  /\ scr' = Drawn(scr, Cursor) /\ pc' = "idle" /\ ch' = Blank
  /\ UNCHANGED <<digit, text, written, hidden, disturbed>>

(* Interrupts *)

\* A handler prints a character.
HandlerPrints(c) ==
  /\ Writes(c)
  /\ scr' = Kputc(scr, c)
  /\ hidden' = CursorLost(scr, c)
  /\ disturbed' = (disturbed \/ pc # "idle")
  /\ UNCHANGED <<pc, ch, digit>>

\* A second: the digits of the last time are taken off, the new ones drawn.
Tick(d) ==
  /\ scr' = [scr EXCEPT !.cell[<<1, ClockCol>>] = (@ \ {digit}) \cup {d}]
  /\ digit' = d
  /\ UNCHANGED <<pc, ch, text, written, hidden, disturbed>>

Chars == Letter \cup {"nl", "cr", "bs"}
Next ==
  \/ \E c \in Chars : Begin(c) \/ HandlerPrints(c)
  \/ Draw \/ Move \/ Show
  \/ \E d \in Digits : Tick(d)
Spec == Init /\ [][Next]_vars
-----------------------------------------------------------------------------
\* Every variable holds a value of its type.
TypeOK ==
  /\ scr.cell \in [Cell -> SUBSET (Letter \cup Digits \cup {Cursor})]
  /\ Here(scr) \in Cell /\ Here(text) \in Cell
  /\ pc \in {"idle", "draw", "move", "show"} /\ digit \in Digits
  /\ written \in 0..MaxChars

\* The console shows what the terminal would, and the cursor at its end and
\* nowhere else, except where the clock is, and until a handler prints in the
\* middle of a character.
Legible ==
  pc = "idle" /\ ~disturbed =>
    \A c \in Cell \ {<<1, ClockCol>>} :
      /\ scr.cell[c] \ {Cursor} = {text.cell[c]} \ {Blank}
      /\ Cursor \in scr.cell[c] <=> c = Here(scr) /\ ~hidden
=============================================================================
