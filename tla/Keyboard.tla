------------------------------- MODULE Keyboard -------------------------------
(***************************************************************************)
(* The keyboard of driver/kbd.c: the interrupt handler puts characters     *)
(* into a ring, kgetc() takes them out one at a time and sleeps while      *)
(* there is none.  kgetc() masks interrupts while it looks at the ring but *)
(* not between its look and ksleep().  The kernel is not preempted, so     *)
(* only a handler can come in between.                                     *)
(*                                                                         *)
(* Scan codes are left out: a key press is the character it yields.  So    *)
(* are room and kline: nothing that is linked ever looks at them.          *)
(***************************************************************************)
EXTENDS Integers, SequencesExt

CONSTANTS
  Reader,       \* the processes that read the keyboard
  Char,         \* what is typed
  Newline,      \* what Control-C is stored as
  Old,          \* whatever a slot held before
  KBN,          \* characters the ring holds
  MaxKeys       \* bound: how many characters are typed, or not typed but read

Slots == 0..(KBN - 1)

VARIABLES
  keyset,                  \* the scan code set, 1 or 2
  buf, head, tail, data,   \* kbd
  pc,                      \* where each reader is
  sig,                     \* the readers with signal 2 (or another) pending
  typed,                   \* what was stored, in order
  got,                     \* what kgetc() has returned, in order, except the Old
                           \* character that a killed reader is made to read
  late,                    \* a character came between a look and its sleep, and
                           \* none since
  spoilt                   \* a handler that does not look whether the ring is full
                           \* overran it, or a kill has advanced head

ring == <<buf, head, tail, data>>
vars == <<keyset, ring, pc, sig, typed, got, late, spoilt>>

\* kbd_init()
Init ==
  /\ keyset \in {1, 2}
  /\ buf = [i \in Slots |-> Old]
  /\ head = 0 /\ tail = 0 /\ data = 0
  /\ pc = [p \in Reader |-> "user"]
  /\ sig = {}
  /\ typed = <<>> /\ got = <<>>
  /\ late = FALSE /\ spoilt = FALSE
-----------------------------------------------------------------------------
(* Interrupts *)

\* kwakeup(&kp->data).  (Mutant: of somebody else.)
WakesNobody == pc
Woken == [p \in Reader |-> IF pc[p] = "asleep" THEN "woken" ELSE pc[p]]

InWindow == \E p \in Reader : pc[p] = "window"

\* Bound: nobody types a whole ring full between a look and its sleep.
InTime == InWindow => data + 2 < KBN

\* buf[head++] = c, head %= KBN.  After a kill head may be KBN: the store then
\* hits head itself, which ends up anywhere.  (Mutants: head does not wrap; head
\* is advanced before it is used.)
StoreNoWrap(c) ==
  /\ buf' = [buf EXCEPT ![head] = c]
  /\ head' = head + 1
StoreNext(c) ==
  /\ buf' = [buf EXCEPT ![(head + 1) % KBN] = c]
  /\ head' = (head + 1) % KBN
Store(c) ==
  \/ /\ head \in Slots
     /\ buf' = [buf EXCEPT ![head] = c]
     /\ head' = (head + 1) % KBN
  \/ /\ head = KBN
     /\ head' \in Slots
     /\ UNCHANGED buf

\* Only the first scan code set's handler looks whether the ring is full.
\* (Mutant: neither does.)
NeverFull == FALSE
Full == keyset = 1 /\ data = KBN

Arrives(c) ==
  /\ Store(c)
  /\ data' = data + 1
  /\ typed' = Append(typed, c)
  /\ late' = InWindow
  /\ spoilt' = (spoilt \/ data >= KBN)

\* kbd_handler1() or kbd_handler2() with an ordinary key.
Key(c) ==
  /\ Len(typed) < MaxKeys /\ InTime
  /\ ~ Full
  /\ Arrives(c)
  /\ pc' = Woken
  /\ UNCHANGED <<keyset, tail, sig, got>>

\* Control-C: everyone on the terminal gets signal 2, and a line end forces
\* whoever reads out of kgetc().  The process that was interrupted handles its
\* signal at the end of the interrupt.  (Mutant: no line end is stored.)
NoForcedLine == pc' = pc /\ UNCHANGED <<buf, head, data, typed, late, spoilt>>
ForcedLine ==
  \/ /\ ~ Full
     /\ Arrives(Newline)
     /\ pc' = [p \in Reader |-> IF pc[p] = "window" THEN "gone" ELSE Woken[p]]
  \/ /\ Full
     /\ pc' = [p \in Reader |-> IF pc[p] = "window" THEN "gone" ELSE pc[p]]
     /\ UNCHANGED <<buf, head, data, typed, late, spoilt>>

ControlC ==
  /\ Len(typed) < MaxKeys /\ InTime
  /\ ForcedLine
  /\ sig' = {p \in Reader : pc[p] \notin {"gone", "window"}}
  /\ UNCHANGED <<keyset, tail, got>>

\* kbd_handler1(), an arrow key: two characters, and no look at data.
Arrow(c) ==
  /\ keyset = 1 /\ Len(typed) + 1 < MaxKeys /\ InTime /\ head \in Slots
  /\ buf' = [buf EXCEPT ![head] = c, ![(head + 1) % KBN] = Newline]
  /\ head' = (head + 2) % KBN
  /\ data' = data + 2
  /\ typed' = typed \o <<c, Newline>>
  /\ late' = InWindow
  /\ spoilt' = (spoilt \/ data + 2 > KBN)
  /\ pc' = Woken
  /\ UNCHANGED <<keyset, tail, sig, got>>
-----------------------------------------------------------------------------
(* Readers *)

\* A process that is about to look into the ring: it makes its read system
\* call (conread(), one character at a time), or it has been woken.
Looks(p, from) ==
  /\ pc[p] = from /\ (from = "user" => p \notin sig)
  /\ ~ InWindow

\* kgetc(), a look that finds no character: interrupts are enabled again.
Empty(p, from) ==
  /\ Looks(p, from) /\ data = 0
  /\ pc' = [pc EXCEPT ![p] = "window"]
  /\ UNCHANGED <<keyset, ring, sig, typed, got, late, spoilt>>

\* ksleep(&kp->data)
Sleep(p) ==
  /\ pc[p] = "window"
  /\ pc' = [pc EXCEPT ![p] = "asleep"]
  /\ UNCHANGED <<keyset, ring, sig, typed, got, late, spoilt>>

\* kgetc(), a look that finds some.
Take(p, from) ==
  /\ Looks(p, from) /\ data # 0
  /\ got' = IF p \in sig /\ buf[tail] = Old THEN got ELSE Append(got, buf[tail])
  /\ tail' = (tail + 1) % KBN
  /\ data' = data - 1
  /\ pc' = [pc EXCEPT ![p] = "user"]
  /\ UNCHANGED <<keyset, buf, head, sig, typed, late, spoilt>>

\* kpsig() on the way to user mode or, by the timer's interrupt, in it.
Die(p) ==
  /\ pc[p] = "user" /\ p \in sig
  /\ ~ InWindow
  /\ pc' = [pc EXCEPT ![p] = "gone"]
  /\ sig' = sig \ {p}
  /\ UNCHANGED <<keyset, ring, typed, got, late, spoilt>>

\* The sleeper that kkill() wakes is to read a character that nobody typed.
Pretend ==
  /\ head < KBN
  /\ buf' = [buf EXCEPT ![head] = Old]
  /\ head' = head + 1
  /\ data' = data + 1
  /\ spoilt' = TRUE

\* kkill() of a reader by somebody else.
Kill(p) ==
  /\ pc[p] # "gone" /\ p \notin sig
  /\ ~ InWindow
  /\ sig' = sig \cup {p}
  /\ \/ pc[p] = "asleep" /\ pc' = Woken /\ Pretend
     \/ pc[p] # "asleep" /\ UNCHANGED <<pc, buf, head, data, spoilt>>
  /\ UNCHANGED <<keyset, tail, typed, got, late>>

\* kkill() of a process that sleeps on something else than the keyboard.
KillOther ==
  /\ Len(got) + data < MaxKeys
  /\ ~ InWindow
  /\ Pretend
  /\ UNCHANGED <<keyset, tail, pc, sig, typed, got, late>>

Interrupt == ControlC \/ \E c \in Char : Key(c) \/ Arrow(c)
Read(p) == Take(p, "user") \/ Empty(p, "user")
KernelStep(p) == Take(p, "woken") \/ Empty(p, "woken") \/ Sleep(p) \/ Die(p)
Next == Interrupt \/ KillOther \/ \E p \in Reader : Read(p) \/ KernelStep(p) \/ Kill(p)

Spec == Init /\ [][Next]_vars

\* A process that is ready in the kernel gets the CPU and goes on.
FairSpec == Spec /\ \A p \in Reader : WF_vars(KernelStep(p))
-----------------------------------------------------------------------------
\* Every variable holds a value of its type.
TypeOK ==
  /\ buf \in [Slots -> Char \cup {Newline, Old}]
  /\ keyset \in {1, 2} /\ {late, spoilt} \subseteq BOOLEAN
  /\ head \in 0..KBN /\ tail \in Slots /\ data \in Nat
  /\ pc \in [Reader -> {"user", "woken", "window", "asleep", "gone"}]
  /\ sig \subseteq Reader
  /\ typed \in Seq(Char \cup {Newline}) /\ got \in Seq(Char \cup {Newline, Old})

\* Readers get what was typed, each character once and in order, although the
\* handler runs at any point of kgetc() and more is typed than the ring holds;
\* until the ring is overrun or a kill lets somebody read what nobody typed.
InOrder == ~ spoilt => IsPrefix(got, typed)

\* kgetc() must not sleep beside a character.  It does when the character comes
\* between its look and its sleep, but never otherwise.
SleepsOnEmpty ==
  \A p \in Reader : pc[p] = "asleep" /\ data > 0 => late \/ spoilt

\* kbd.c: Control-C forces a line so that the process handles the signal when
\* it leaves the kernel.  It does, whatever it was doing, and so does a reader
\* that is killed.  (With scan code set 1 only while the ring is sound: what a
\* full ring drops is also the line that would have woken the reader.)
SignalledReaderDies ==
  \A p \in Reader : p \in sig ~> (pc[p] = "gone" \/ (keyset = 1 /\ spoilt))
=============================================================================
