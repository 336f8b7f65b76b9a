---------------------------------- MODULE Uart ----------------------------------
(***************************************************************************)
(* Input from a serial line, driver/uart.c: the interrupt handler puts     *)
(* characters into the ring inbuf and does V on inchar, sgetc() does P and *)
(* takes one.  Nobody looks whether the ring is full.  The semaphore is    *)
(* that of driver/pv.c; its queue is in order of priority, and the readers' *)
(* priorities are equal here.                                              *)
(***************************************************************************)
EXTENDS ProcQueue

CONSTANTS
  Reader,       \* the processes that read the line
  Char,         \* what is typed
  Enter,       \* the end of a line; Control-C is stored as one
  Old,          \* whatever a slot held before
  BUFLEN,       \* characters the ring holds
  MaxKeys       \* bound: how many characters are typed

Slots == 0..(BUFLEN - 1)

VARIABLES
  inbuf, inhead, intail,    \* uart[]
  value, queue,             \* its semaphore inchar
  pc,                       \* where each reader is: "past" has yet to take a
                            \* character
  line,                     \* the readers that want a whole line, in usgets()
  sig,                      \* the readers with a signal pending
  typed, got,               \* what was stored and what sgetc() returned, in order
  spoilt                    \* the ring was overrun, or a reader was killed in sgetc()

ring == <<inbuf, inhead, intail>>
inchar == <<value, queue>>
vars == <<ring, inchar, pc, line, sig, typed, got, spoilt>>

\* uart_init()
Init ==
  /\ inbuf = [i \in Slots |-> Old] /\ inhead = 0 /\ intail = 0
  /\ value = 0 /\ queue = <<>>
  /\ pc = [p \in Reader |-> "user"] /\ line = {} /\ sig = {}
  /\ typed = <<>> /\ got = <<>> /\ spoilt = FALSE
-----------------------------------------------------------------------------
(* The semaphore; at is pc as the rest of the step leaves it *)

\* P() by p.
P(p, at) ==
  /\ value' = value - 1
  /\ \/ /\ value' < 0
        /\ queue' = Append(queue, p)
        /\ pc' = [at EXCEPT ![p] = "blocked"]
     \/ /\ value' >= 0
        /\ pc' = [at EXCEPT ![p] = "past"]
        /\ UNCHANGED queue

\* V() by the handler: the value when it wakes somebody.
Wakes(v) == v <= 0
V(at) ==
  /\ value' = value + 1
  /\ \/ /\ Wakes(value')
        /\ queue' = Tail(queue)
        /\ pc' = [at EXCEPT ![Head(queue)] = "past"]
     \/ /\ ~ Wakes(value')
        /\ pc' = at
        /\ UNCHANGED queue
-----------------------------------------------------------------------------
(* Interrupts *)

\* Where the handler puts a character.
HeadSlot == inhead

\* uart0_handler() or uart1_handler().  Control-C gives everyone on the line
\* signal 2 and is stored as a line end.  After a kill inhead may be BUFLEN: the
\* store then hits what is behind inbuf, inhead among it.
Stored(c) ==
  /\ \/ /\ inhead \in Slots
        /\ inbuf' = [inbuf EXCEPT ![HeadSlot] = c]
        /\ inhead' = (inhead + 1) % BUFLEN
     \/ /\ inhead = BUFLEN
        /\ inhead' \in Slots
        /\ UNCHANGED inbuf
  /\ typed' = Append(typed, c)
  /\ spoilt' = (spoilt \/ Len(typed) - Len(got) >= BUFLEN)
  /\ V(pc)
  /\ UNCHANGED intail

Handler(c) ==
  /\ Len(typed) < MaxKeys
  /\ Stored(c)
  /\ UNCHANGED <<line, sig, got>>

ControlC ==
  /\ Len(typed) < MaxKeys
  /\ Stored(Enter)
  /\ sig' = {p \in Reader : pc[p] # "gone"}
  /\ UNCHANGED <<line, got>>

\* Any other interrupt, that finds p in sgetc() after P().
DieInKernel(p) ==
  /\ pc[p] = "past" /\ p \in sig
  /\ pc' = [pc EXCEPT ![p] = "gone"]
  /\ sig' = sig \ {p}
  /\ spoilt' = TRUE
  /\ UNCHANGED <<ring, inchar, line, typed, got>>
-----------------------------------------------------------------------------
(* Readers *)

\* serread(): one character, or a line.
Read(p, wholeLine) ==
  /\ pc[p] = "user" /\ p \notin sig
  /\ P(p, pc)
  /\ line' = IF wholeLine THEN line \cup {p} ELSE line \ {p}
  /\ UNCHANGED <<ring, sig, typed, got, spoilt>>

\* usgets() goes on to the end of the line.
TakesMore(p, c) == p \in line /\ c # Enter

\* sgetc() after P().
Take(p) ==
  LET c == inbuf[intail] IN
  /\ pc[p] = "past"
  /\ intail' = (intail + 1) % BUFLEN
  /\ got' = Append(got, c)
  /\ \/ /\ TakesMore(p, c)
        /\ P(p, pc)
     \/ /\ ~ TakesMore(p, c)
        /\ pc' = [pc EXCEPT ![p] = "user"]
        /\ UNCHANGED inchar
  /\ UNCHANGED <<inbuf, inhead, line, sig, typed, spoilt>>

\* kpsig() on the way to user mode or, by the timer's interrupt, in it.
Die(p) ==
  /\ pc[p] = "user" /\ p \in sig
  /\ pc' = [pc EXCEPT ![p] = "gone"]
  /\ sig' = sig \ {p}
  /\ UNCHANGED <<ring, inchar, line, typed, got, spoilt>>

\* kkill(): a blocked reader is taken off the semaphore by wV() and reads a
\* character that nobody typed.
Kill(p) ==
  /\ pc[p] # "gone" /\ p \notin sig
  /\ sig' = sig \cup {p}
  /\ \/ /\ pc[p] = "blocked" /\ inhead < BUFLEN
        /\ inhead' = inhead + 1
        /\ value' = value + 1
        /\ queue' = Unlinked(queue, p)
        /\ pc' = [pc EXCEPT ![p] = "past"]
        /\ spoilt' = TRUE
     \/ /\ pc[p] # "blocked"
        /\ UNCHANGED <<inhead, inchar, pc, spoilt>>
  /\ UNCHANGED <<inbuf, intail, line, typed, got>>

KernelStep(p) == Take(p) \/ Die(p)
Next ==
  \/ ControlC
  \/ \E c \in Char \cup {Enter} : Handler(c)
  \/ \E p \in Reader :
       \/ KernelStep(p) \/ DieInKernel(p) \/ Kill(p)
       \/ \E wholeLine \in BOOLEAN : Read(p, wholeLine)

Spec == Init /\ [][Next]_vars

-----------------------------------------------------------------------------
\* Every variable holds a value of its type.
TypeOK ==
  /\ inbuf \in [Slots -> Char \cup {Enter, Old}]
  /\ inhead \in 0..BUFLEN /\ intail \in Slots
  /\ value \in Int /\ queue \in Seq(Reader)
  /\ pc \in [Reader -> {"user", "blocked", "past", "gone"}]
  /\ line \subseteq Reader /\ sig \subseteq Reader
  /\ typed \in Seq(Char \cup {Enter}) /\ got \in Seq(Char \cup {Enter, Old})
  /\ spoilt \in BOOLEAN

\* The semaphore counts the characters: as many are free to take as there are
\* in the ring and nobody has been let past P() for; who is blocked is in the
\* queue, once, and the value says how many they are.
Past == {p \in Reader : pc[p] = "past"}
CountsCharacters ==
  /\ ~ spoilt => value = Len(typed) - Len(got) - Cardinality(Past) - Len(queue)
  /\ \A p \in Reader : pc[p] = "blocked" <=> p \in Range(queue)
  /\ NoDup(queue)
  /\ queue # <<>> => value = - Len(queue)

\* Readers of characters and of lines get what was typed, each character once
\* and in order; until the ring is overrun or a reader is killed in sgetc().
SerialInOrder == ~ spoilt => IsPrefix(got, typed)

\* Both: a reader whom P() lets past finds the oldest character nobody has taken.
InOrder == SerialInOrder /\ CountsCharacters
=================================================================================
