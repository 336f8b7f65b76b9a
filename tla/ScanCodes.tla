------------------------------ MODULE ScanCodes ------------------------------
(***************************************************************************)
(* How the two keyboard handlers of driver/kbd.c decode scan codes.  Each  *)
(* interrupt brings one code; a key's press and release are one, two or    *)
(* three of them, so the handlers keep state between interrupts.           *)
(*                                                                         *)
(* A code is [key, up]: set 1 has a code of its own for a release, set 2   *)
(* sends "F0" before the key's code.  "E0" comes before the codes of the   *)
(* keys that the larger keyboards added.  What a key yields is [key,       *)
(* upper], a line end or an end of file.  Left out are the keys that do    *)
(* nothing but print (F1 to F4), Caps Lock and Alt.                        *)
(***************************************************************************)
EXTENDS Integers, SequencesExt

CONSTANTS
  Key,          \* the keys that are pressed and released: "shift", "control"
                \* and ordinary ones, "c" and "d" among them
  Tapped,       \* keys with an E0 code that are released before anything else
                \* is pressed or released: "arrow", "rcontrol"
  MaxWire       \* bound: how many codes the keyboard holds back, and how far
                \* esc counts

VARIABLES
  keyset,                   \* the scan code set that kbd_init() found, 1 or 2
  held,                     \* the keys that are down
  wire,                     \* the codes on their way to the CPU, first comes first
  asked,                    \* what the keys pressed stand for, as far as their
                            \* codes are still on the wire
  esc, shift, control, escKey,  \* the globals of kbd_handler1()
  release,                  \* and of kbd_handler2(), which has shifted for shift
  stored,                   \* what the last interrupt put into kp->buf
  defect                    \* a key has been used whose release the handler does not
                            \* see through: Control in set 2, right Control in set 1

keyboard == <<held, wire, asked, defect>>
handler == <<esc, shift, control, escKey, release, stored>>
vars == <<keyset, keyboard, handler>>

Modifier == {"shift", "control", "rcontrol"}
Lower(k) == [key |-> k, upper |-> FALSE]
LineEnd == Lower("line end")
EndOfFile == Lower("end of file")
Arrow == "arrow"
NoKey == "no key"

\* kbd_init() and the zeroes of .bss
Init ==
  /\ keyset \in {1, 2} /\ defect = FALSE
  /\ held = {} /\ wire = <<>> /\ asked = <<>> /\ stored = <<>>
  /\ esc = 0 /\ shift = FALSE /\ control = FALSE /\ release = FALSE /\ escKey = NoKey

\* What an ordinary key stands for.  Set 1 knows Control-C by its lower case
\* letter, set 2 by its code.
Meaning(k, upper, ctl) ==
  CASE ctl /\ k = "c" /\ ~ (keyset = 1 /\ upper) -> LineEnd
    [] ctl /\ k = "d" -> EndOfFile
    [] OTHER -> [key |-> k, upper |-> upper]
-----------------------------------------------------------------------------
(* The keyboard *)

Prefixed(k) == IF k \in Tapped THEN <<[key |-> "E0", up |-> FALSE]>> ELSE <<>>
PressCodes(k) == Prefixed(k) \o <<[key |-> k, up |-> FALSE]>>
ReleaseCodes(k) ==
  Prefixed(k) \o
  IF keyset = 1 THEN <<[key |-> k, up |-> TRUE]>>
  ELSE <<[key |-> "F0", up |-> FALSE], [key |-> k, up |-> FALSE]>>

Press(k) ==
  /\ k \notin held /\ Len(wire) < MaxWire
  /\ held' = held \cup {k}
  /\ wire' = wire \o PressCodes(k)
  /\ asked' = IF k \in Modifier THEN asked
              ELSE Append(asked, Meaning(k, "shift" \in held, "control" \in held))
  /\ defect' = (defect \/ (keyset = 2 /\ k = "control"))
  /\ UNCHANGED <<keyset, handler>>

Release(k) ==
  /\ k \in held /\ Len(wire) < MaxWire
  /\ held' = held \ {k}
  /\ wire' = wire \o ReleaseCodes(k)
  /\ UNCHANGED <<keyset, asked, defect, handler>>

Tap(k) ==
  /\ keyset = 1 /\ Len(wire) < MaxWire /\ esc < MaxWire
  /\ wire' = wire \o PressCodes(k) \o ReleaseCodes(k)
  /\ asked' = IF k = Arrow THEN asked \o <<Lower(Arrow), LineEnd>> ELSE asked
  /\ defect' = (defect \/ k = "rcontrol")
  /\ UNCHANGED <<keyset, held, handler>>
-----------------------------------------------------------------------------
(* The handlers; c is the code that came *)

\* kbd_handler1() when esc is 1 or 2: the codes up to a second E0 are passed
\* over, the next one is taken for the release of a key with an E0 code, and
\* only some leave esc at 0.  (Mutants: escKey is whatever code came; the
\* release of Control is not looked for.)
EscKeyOf(c) == IF c.key = Arrow THEN Arrow ELSE escKey
ControlUp == control' = FALSE
Escaped(c, e) ==
  /\ \/ /\ e = 1 \/ c.key = "E0"
        /\ esc' = e /\ stored' = <<>>
        /\ UNCHANGED <<escKey, control>>
     \/ /\ e = 2 /\ c.key \in {"control", "rcontrol"}
        /\ ControlUp
        /\ esc' = e /\ stored' = <<>>
        /\ UNCHANGED escKey
     \/ /\ e = 2 /\ c.key \notin {"E0", "control", "rcontrol"}
        /\ esc' = 0
        /\ escKey' = EscKeyOf(c)
        /\ stored' = <<Lower(escKey'), LineEnd>>
        /\ UNCHANGED control
  /\ UNCHANGED <<shift, release>>

\* The rest of kbd_handler1().  (Mutant: a release of shift is not looked for.)
ShiftSticks(c) == c.key = "shift" \/ shift
ShiftAfter(c) == IF c.key = "shift" THEN ~ c.up ELSE shift
Ordinary(c, e) ==
  /\ esc' = e
  /\ shift' = ShiftAfter(c)
  /\ control' = IF c.key \in {"control", "rcontrol"} THEN ~ c.up ELSE control
  /\ stored' = IF c.up \/ c.key \in Modifier \cup {"E0"} THEN <<>>
               ELSE <<Meaning(c.key, shift, control)>>
  /\ UNCHANGED <<escKey, release>>

Handler1(c) ==
  LET e == IF c.key = "E0" THEN esc + 1 ELSE esc IN
  \/ e \in {1, 2} /\ Escaped(c, e)
  \/ e \notin {1, 2} /\ Ordinary(c, e)

\* kbd_handler2().  A code that follows F0 is a release, and only shift's is
\* told from the others, whose test comes first.  (Mutant: not even shift's.)
ShiftKept(c) == shift
ShiftUp(c) == shift /\ c.key # "shift"
Handler2(c) ==
  /\ \/ c.key = "F0" /\ release' = TRUE /\ stored' = <<>> /\ UNCHANGED <<shift, control>>
     \/ /\ release /\ c.key # "F0"
        /\ release' = FALSE /\ stored' = <<>>
        /\ shift' = ShiftUp(c)
        /\ UNCHANGED control
     \/ /\ ~ release /\ c.key \in {"shift", "control"}
        /\ shift' = (shift \/ c.key = "shift")
        /\ control' = (control \/ c.key = "control")
        /\ stored' = <<>>
        /\ UNCHANGED release
     \/ /\ ~ release /\ c.key \notin {"F0", "shift", "control"}
        /\ stored' = <<Meaning(c.key, shift, control)>>
        /\ control' = (control /\ c.key \notin {"c", "d"})
        /\ UNCHANGED <<release, shift>>
  /\ UNCHANGED <<esc, escKey>>

Interrupt ==
  /\ wire # <<>>
  /\ wire' = Tail(wire)
  /\ \/ keyset = 1 /\ Handler1(Head(wire))
     \/ keyset = 2 /\ Handler2(Head(wire))
  /\ asked' = SubSeq(asked, Len(stored') + 1, Len(asked))
  /\ UNCHANGED <<keyset, held, defect>>

Next ==
  \/ Interrupt
  \/ \E k \in Key : Press(k) \/ Release(k)
  \/ \E k \in Tapped : Tap(k)

Spec == Init /\ [][Next]_vars
-----------------------------------------------------------------------------
\* Every variable holds a value of its type.
Yield == {LineEnd, EndOfFile} \cup [key : Key \cup Tapped \cup {NoKey}, upper : BOOLEAN]
TypeOK ==
  /\ keyset \in {1, 2} /\ held \subseteq Key
  /\ wire \in Seq([key : Key \cup Tapped \cup {"E0", "F0"}, up : BOOLEAN])
  /\ asked \in Seq(Yield) /\ stored \in Seq(Yield)
  /\ esc \in Nat /\ escKey \in {NoKey, Arrow}
  /\ {shift, control, release, defect} \subseteq BOOLEAN

\* However presses and releases overlap, each key gives the character it stands
\* for, with the modifiers that were down when it was pressed; but not any more
\* when the handler has missed a release of Control (set 2) or of the right
\* Control key, after which esc stays at 2 (set 1).
KeysDecoded ==
  [][Len(wire') < Len(wire) /\ ~ defect => IsPrefix(stored', asked)]_vars

\* kbd.c: "Right Control release", "ONLY catch release of shift, control".  With set
\* 1, once all codes are in, the driver takes Control for down only if it is,
\* also when esc is stuck.
ControlIsHeld == keyset = 1 /\ wire = <<>> /\ control => "control" \in held
==============================================================================
