------------------------------ MODULE TimerQueue ------------------------------
(***************************************************************************)
(* The interval timers of driver/timer.c: itimer(t) asks for a SIGALRM in  *)
(* t seconds.  The requests wait in tq, a list in order of time in which   *)
(* each node holds the seconds after the one before it; timer0_handler     *)
(* takes a second off it once a second.  kitimer() masks interrupts and    *)
(* the handler runs masked, so each is one action.                         *)
(***************************************************************************)
EXTENDS Integers, SequencesExt

CONSTANTS
  Proc,         \* the processes
  NNODE,        \* timer nodes
  MaxTime       \* the longest time asked for: kitimer() takes any int, and is
                \* given those from -MaxTime to MaxTime

VARIABLES
  tq,           \* the timer queue; left is not in the code: the seconds the
                \* process should still have to wait
  free,         \* how many nodes are on the free list ft
  signal,       \* the processes with SIGALRM pending
  wild          \* a request was written through the null pointer of an empty ft

vars == <<tq, free, signal, wild>>

Node == [time : Int, who : Proc, left : Int]

\* timer_init()
Init == tq = <<>> /\ free = NNODE /\ signal = {} /\ wild = FALSE
-----------------------------------------------------------------------------
\* The time from now on at which the list says that its i-th node is due.
Until(q) ==
  LET u[i \in 0..Len(q)] == IF i = 0 THEN 0 ELSE u[i - 1] + q[i].time IN u

\* kitimer(): the new node goes before the first that is due later.  (Mutant:
\* to the end.)
AtEnd(q, t) == Len(q) + 1
Place(q, t) == Min({i \in 1..Len(q) : Until(q)[i] > t} \cup {Len(q) + 1})

\* The list with the i-th node brought forward by d.  (Mutant: not at all.)
SameTime(q, i, d) == q
Sooner(q, i, d) == IF i \in 1..Len(q) THEN [q EXCEPT ![i].time = @ - d] ELSE q

\* A time of 0 or less means at the next second, as 1 does.  The bound: a negative
\* one comes only while nobody has to wait for more than MaxTime.
Itimer(p, t) ==
  /\ free > 0
  /\ t < 0 => \A i \in 1..Len(tq) : tq[i].left <= MaxTime
  /\ free' = free - 1
  /\ LET i == Place(tq, t)
         d == t - Until(tq)[i - 1]
         node == [time |-> d, who |-> p, left |-> IF t > 0 THEN t ELSE 1]
     IN tq' = InsertAt(Sooner(tq, i, d), i, node)
  /\ UNCHANGED <<signal, wild>>

\* get_tnode() does not look whether there is a node: the request is written over
\* the exception vectors at address 0, and nothing is said of what follows.
NoNode ==
  /\ free = 0
  /\ wild' = TRUE
  /\ UNCHANGED <<tq, free, signal>>

\* A node that is due has said by how much the next one is later, so a negative
\* time puts off everybody behind it by as much.
PutOff == IF tq[1].time < 0 THEN - tq[1].time ELSE 0

\* timer0_handler at a full second: the loop goes on, second by second, until
\* it has taken one from a node that has more than that.
Second ==
  /\ tq # <<>>
  /\ LET n == Min({i \in 1..Len(tq) : tq[i].time > 1} \cup {Len(tq) + 1})
         rest == SubSeq(Sooner(tq, n, 1), n, Len(tq))
     IN  /\ tq' = [i \in 1..Len(rest) |-> [rest[i] EXCEPT !.left = @ - 1 + PutOff]]
         /\ signal' = signal \cup {tq[i].who : i \in 1..(n - 1)}
         /\ free' = free + (n - 1)
  /\ UNCHANGED wild

\* The process handles its SIGALRM.
Handle(p) ==
  /\ p \in signal
  /\ signal' = signal \ {p}
  /\ UNCHANGED <<tq, free, wild>>

Next ==
  /\ ~ wild
  /\ \/ Second \/ NoNode
     \/ \E p \in Proc : Handle(p) \/ \E t \in (-MaxTime)..MaxTime : Itimer(p, t)

Spec == Init /\ [][Next]_vars
-----------------------------------------------------------------------------
\* Every variable holds a value of its type, in particular no node has a negative
\* time but the first of the list, so the list is in order of time; the nodes are
\* in the list or free.
TypeOK ==
  /\ tq \in Seq(Node)
  /\ \A i \in 2..Len(tq) : tq[i].time >= 0
  /\ free \in 0..NNODE /\ free + Len(tq) = NNODE
  /\ signal \subseteq Proc /\ wild \in BOOLEAN

\* No alarm is late but for requests with a negative time, and for those by no more
\* than they asked for, in whatever order the requests came and however many fell
\* due together: after each second everything still in the list has to wait for
\* more.  itimer(-5) before itimer(3) puts the second alarm off by 5 seconds: its
\* node says 8.  An alarm may also be early: the handler's loop goes on to the next
\* node with the second it has already used.
NeverLate == \A i \in 1..Len(tq) : tq[i].left > 0
=============================================================================
