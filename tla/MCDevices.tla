------------------------------ MODULE MCDevices ------------------------------
(***************************************************************************)
(* The device drivers on small instances.  They share no state, so a       *)
(* behaviour is one of a single driver, the others resting in their        *)
(* initial state; device says which.                                       *)
(***************************************************************************)
EXTENDS Integers, FiniteSets

CONSTANTS
  None,
  r1, Readers,         \* who reads the keyboard alone; and all who read it or the line
  Char, Newline, Old,  \* what they read, the end of a line, what is none of these
  KBN, BUFLEN,         \* the rings, for a single reader and for several
  MaxKeys, MaxSent,    \* bounds on what is typed
  Plain, MaxWire,      \* the keys that are no modifiers, and a bound on the codes under way
  Callers, p0,         \* who reads and writes the SD card, and P0 among them, who polls
  Blocks, Chunk, Chunks, \* its blocks, what a chunk holds, and how many make a block
  NNODE, MaxTime, User,\* the timer's nodes and times, and who asks for them
  Letter, Rows, Cols,  \* the screen, what is written on it,
  ClockCol, MaxChars   \* the clock's place, and a bound on what is written

\* What the theorems presume.
ASSUME RingSizes ==
  /\ KBN \in Nat \ {0} /\ BUFLEN \in Nat \ {0} /\ IsFiniteSet(Readers)
  /\ Old \notin Char \cup {Newline}
ASSUME KeyNames == Plain \cap {"shift", "control", "rcontrol", "arrow", "E0", "F0"} = {}
ASSUME CardSizes ==
  Blocks # {} /\ Chunk # {} /\ Chunks \in Nat \ {0} /\ None \notin [1..Chunks -> Chunk]
ASSUME TimerSizes == NNODE \in Nat /\ MaxTime \in Nat
ASSUME ScreenSizes ==
  /\ Rows \in Nat \ {0} /\ Cols \in Nat \ {0} /\ ClockCol \in 1..Cols /\ MaxChars \in Nat
  /\ None \notin Letter /\ Letter \cap {"nl", "cr", "bs", "cursor"} = {}

VARIABLES
  device,
  keyset, buf, head, tail, data, pc, sig, typed, got, late, spoilt,
  held, wire, asked, esc, shift, control, escKey, release, stored, defect,
  inbuf, inhead, intail, value, queue, at, line, pending, sent, received, overrun,
  card, transfer, drv, mem, req, call, mixed,
  tq, free, signal, wild,
  scr, step, ch, digit, text, written, hidden, disturbed

\* The keyboard has one reader, or several.
OneReader == INSTANCE Keyboard WITH Reader <- {r1}
AllReaders == INSTANCE Keyboard WITH Reader <- Readers, KBN <- BUFLEN, MaxKeys <- MaxSent
Decoder == INSTANCE ScanCodes WITH
  Key <- {"shift", "control"} \cup Plain, Tapped <- {"arrow", "rcontrol"}
SerialLine == INSTANCE Uart WITH
  Reader <- Readers, Enter <- Newline, MaxKeys <- MaxSent,
  pc <- at, sig <- pending, typed <- sent, got <- received, spoilt <- overrun
\* Processes that share a card that may fail.
Card == INSTANCE Sdc WITH
  Proc <- Callers, P0 <- p0, Block <- Blocks, Val <- Chunk, N <- Chunks,
  pc <- call, disturbed <- mixed
Timer == INSTANCE TimerQueue WITH Proc <- User
Console == INSTANCE Video WITH Blank <- None, pc <- step

keyboard == <<keyset, buf, head, tail, data, pc, sig, typed, got, late, spoilt>>
decoder == <<held, wire, asked, esc, shift, control, escKey, release, stored, defect>>
serial == <<inbuf, inhead, intail, value, queue, at, line, pending, sent, received, overrun>>
sdc == <<card, transfer, drv, mem, req, call, mixed>>
timer == <<tq, free, signal, wild>>
console == <<scr, step, ch, digit, text, written, hidden, disturbed>>
vars == <<device, keyboard, decoder, serial, sdc, timer, console>>

Init ==
  /\ \/ device = "readers" /\ AllReaders!Init
     \/ device \in {"keyboard", "decoder", "serial", "card", "timer", "console"}
        /\ OneReader!Init
  /\ Decoder!Init /\ SerialLine!Init /\ Card!Init /\ Timer!Init /\ Console!Init
  /\ device \in {"serial", "card", "timer", "console"} => keyset = 1

KeyboardSteps(A) ==
  /\ device = "keyboard" /\ A
  /\ UNCHANGED <<device, decoder, serial, sdc, timer, console>>
CardSteps(A) ==
  /\ device = "card" /\ A
  /\ UNCHANGED <<device, keyboard, decoder, serial, timer, console>>

Next ==
  \/ KeyboardSteps(OneReader!Next)
  \/ /\ device = "readers" /\ AllReaders!Next
     /\ UNCHANGED <<device, decoder, serial, sdc, timer, console>>
  \/ /\ device = "decoder" /\ Decoder!Next
     /\ UNCHANGED <<device, keyboard, serial, sdc, timer, console>>
  \/ /\ device = "serial" /\ SerialLine!Next
     /\ UNCHANGED <<device, keyboard, decoder, sdc, timer, console>>
  \/ CardSteps(Card!Next)
  \/ /\ device = "timer" /\ Timer!Next
     /\ UNCHANGED <<device, keyboard, decoder, serial, sdc, console>>
  \/ /\ device = "console" /\ Console!Next
     /\ UNCHANGED <<device, keyboard, decoder, serial, sdc, timer>>

\* With the fairness of Keyboard's and of Sdc's FairSpec.
Spec ==
  /\ Init /\ [][Next]_vars
  /\ WF_vars(KeyboardSteps(OneReader!KernelStep(r1)))
  /\ WF_vars(CardSteps(Card!RxInterrupt \/ Card!TxInterrupt))
  /\ \A p \in Callers : WF_vars(CardSteps(Card!Go(p)))
-----------------------------------------------------------------------------
\* Every variable holds a value of its type, as the driver's module says.
TypeOK ==
  /\ device # "readers" => OneReader!TypeOK
  /\ device = "readers" => AllReaders!TypeOK
  /\ Decoder!TypeOK /\ SerialLine!TypeOK /\ Card!TypeOK /\ Timer!TypeOK /\ Console!TypeOK

\* No alarm of itimer() is late, however many fall due together, but by what
\* requests with negative times put it off.
NeverLate == Timer!NeverLate

\* What kgetc() and sgetc() return is what was typed and what came over the line,
\* in order, until a ring is overrun or a reader is killed; and the serial line's
\* semaphore counts the characters that are there for somebody who has not been
\* let past it, or the readers who wait.
InOrder ==
  OneReader!InOrder /\ SerialLine!InOrder

\* kgetc() sleeps beside a character only if that came between its look and its
\* sleep.
SleepsOnEmpty ==
  /\ device # "readers" => OneReader!SleepsOnEmpty
  /\ device = "readers" => AllReaders!SleepsOnEmpty

\* A single reader of the keyboard that is signalled leaves kgetc() and dies; and
\* getblock() and putblock() return unless the card fails, a second process calls
\* one while another waits, or a signal ends the wait.
CallsEnd ==
  /\ device = "keyboard" => OneReader!SignalledReaderDies
  /\ Card!AllReturn

\* Each key gives the character it stands for, with the modifiers that were down
\* when it was pressed, until the handler has missed a release; and with scan code
\* set 1 Control is taken for down only if it is.
KeysDecoded == Decoder!KeysDecoded /\ []Decoder!ControlIsHeld

\* The console shows what a terminal that clears the cell under the cursor at each
\* control character would, the clock apart, until a handler prints in the middle
\* of a character.
Legible == Console!Legible

\* getblock() and putblock() read and write whole blocks at one instant, until a
\* second process calls one while another waits, or a signal ends the wait.
BlocksMoved == Card!WholeBlocks
==============================================================================
