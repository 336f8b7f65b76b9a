---------------------------- MODULE PipeChannel ----------------------------
(***************************************************************************)
(* What a pipe promises: a bounded channel from those who hold its writing *)
(* end to those who hold its reading end.  What comes out is what went in, *)
(* in order, and what goes in is what a write was given: a write returns   *)
(* when all of it has gone in.  A read returns something, and only if the  *)
(* pipe is empty and nobody can write any more, nothing; without readers a *)
(* write is given up.  A pipe whose ends are gone is empty, and stays      *)
(* empty until it is made again.                                           *)
(***************************************************************************)
EXTENDS Naturals, Sequences, FiniteSetsExt

CONSTANTS
  Pipe, Process,
  Message,      \* what one write may be given: not empty
  Most,         \* the most bytes one read may ask for
  Cap           \* bytes that a pipe holds

VARIABLES
  chan,              \* the bytes in the pipe
  readers, writers,  \* whether somebody holds its end
  call,              \* what each process waits for
  got                \* what its last read returned

cvars == <<chan, readers, writers, call, got>>

Idle == [kind |-> "idle"]
Writing(q, left) == [kind |-> "write", pipe |-> q, left |-> left]
Reading(q, most) == [kind |-> "read", pipe |-> q, most |-> most]

CInit ==
  /\ chan = [q \in Pipe |-> <<>>] /\ got = [p \in Process |-> <<>>]
  /\ readers = [q \in Pipe |-> FALSE] /\ writers = [q \in Pipe |-> FALSE]
  /\ call = [p \in Process |-> Idle]
-----------------------------------------------------------------------------
\* Only a pipe that nobody can use is made, and nothing is in it.
Make(q) ==
  /\ ~ readers[q] /\ ~ writers[q]
  /\ readers' = [readers EXCEPT ![q] = TRUE] /\ writers' = [writers EXCEPT ![q] = TRUE]
  /\ UNCHANGED <<chan, call, got>>

\* The last descriptor of one end is closed; with the other end's, what nobody has
\* read is gone.
Emptied(q, other) == IF other[q] THEN chan ELSE [chan EXCEPT ![q] = <<>>]
NoReader(q) ==
  /\ readers[q] /\ readers' = [readers EXCEPT ![q] = FALSE]
  /\ chan' = Emptied(q, writers)
  /\ UNCHANGED <<writers, call, got>>
NoWriter(q) ==
  /\ writers[q] /\ writers' = [writers EXCEPT ![q] = FALSE]
  /\ chan' = Emptied(q, readers)
  /\ UNCHANGED <<readers, call, got>>

\* A call begins.
Begin(p, c) ==
  /\ call[p] = Idle
  /\ call' = [call EXCEPT ![p] = c] /\ got' = [got EXCEPT ![p] = <<>>]
  /\ UNCHANGED <<chan, readers, writers>>
BeginWrite(p) == \E q \in Pipe, s \in Message : writers[q] /\ Begin(p, Writing(q, s))
BeginRead(p) == \E q \in Pipe, n \in 1..Most : readers[q] /\ Begin(p, Reading(q, n))

\* The next bytes of a write go in, as many as fit.
Put(p, q) ==
  /\ call[p].kind = "write" /\ call[p].pipe = q /\ readers[q]
  /\ LET left == call[p].left
         k == Min({Cap - Len(chan[q]), Len(left)})
     IN  /\ chan' = [chan EXCEPT ![q] = @ \o SubSeq(left, 1, k)]
         /\ call' = [call EXCEPT ![p] = IF k = Len(left) THEN Idle
                                        ELSE Writing(q, SubSeq(left, k + 1, Len(left)))]
  /\ UNCHANGED <<readers, writers, got>>

GiveUp(p, q) ==
  /\ call[p].kind = "write" /\ call[p].pipe = q /\ ~ readers[q]
  /\ call' = [call EXCEPT ![p] = Idle]
  /\ UNCHANGED <<chan, readers, writers, got>>

\* A read takes the oldest bytes, all that there are if it asked for as many.
Take(p, q) ==
  /\ call[p].kind = "read" /\ call[p].pipe = q /\ chan[q] # <<>>
  /\ LET k == Min({Len(chan[q]), call[p].most})
     IN  /\ got' = [got EXCEPT ![p] = SubSeq(chan[q], 1, k)]
         /\ chan' = [chan EXCEPT ![q] = SubSeq(@, k + 1, Len(@))]
  /\ call' = [call EXCEPT ![p] = Idle]
  /\ UNCHANGED <<readers, writers>>

EndOfFile(p, q) ==
  /\ call[p].kind = "read" /\ call[p].pipe = q /\ chan[q] = <<>> /\ ~ writers[q]
  /\ call' = [call EXCEPT ![p] = Idle]
  /\ UNCHANGED <<chan, readers, writers, got>>

\* A process has ended, and what it had read is gone.
Forget(p) ==
  /\ call[p] = Idle /\ got' = [got EXCEPT ![p] = <<>>]
  /\ UNCHANGED <<chan, readers, writers, call>>

CNext ==
  \/ \E q \in Pipe : Make(q) \/ NoReader(q) \/ NoWriter(q)
  \/ \E p \in Process : BeginWrite(p) \/ BeginRead(p) \/ Forget(p)
  \/ \E p \in Process, q \in Pipe : Put(p, q) \/ GiveUp(p, q) \/ Take(p, q) \/ EndOfFile(p, q)

CSpec == CInit /\ [][CNext]_cvars
=============================================================================
