------------------------------ MODULE Messages ------------------------------
(***************************************************************************)
(* Messages between processes (mes.c).  mbuf_init() is called nowhere: the *)
(* lock of the free buffers is 0 at boot and there are no buffers, so that *)
(* a sender, and whoever waits for a message, blocks until kkill() takes   *)
(* it off its semaphore (wV()) as if it had been given to it.  A process   *)
(* may survive that, if it ignores the signal.                             *)
(***************************************************************************)
EXTENDS ProcQueue, FiniteSets

CONSTANTS
  User,         \* processes
  MaxKills      \* bound: kills of those that are blocked

VARIABLES
  at,           \* process -> where it is: free (no process), out (of mes.c), sending
                \* (blocked in get_mbuf()), inside (get_mbuf()'s lock), receiving
                \* (blocked in krecv()), taking (past that), astray
  dies,         \* process -> a signal is pending that it does not ignore
  mlock,        \* [value, queue]
  message,      \* process -> res->message.value
  mqueue,       \* process -> res->mqueue: null, or the word at address 0
  kills         \* history: blocked senders that were killed

vars == <<at, dies, mlock, message, mqueue, kills>>

Init ==
  /\ at = [p \in User |-> "out"] /\ dies = [p \in User |-> FALSE]
  /\ mlock = [value |-> 0, queue |-> <<>>]
  /\ message = [p \in User |-> 0] /\ mqueue = [p \in User |-> "null"]
  /\ kills = 0

In(place) == {p \in User : at[p] = place}
-----------------------------------------------------------------------------
\* fork()
Born(p) ==
  /\ at[p] = "free" /\ at' = [at EXCEPT ![p] = "out"]
  /\ message' = [message EXCEPT ![p] = 0] /\ mqueue' = [mqueue EXCEPT ![p] = "null"]
  /\ UNCHANGED <<dies, mlock, kills>>

\* kpsig() on the way out of a call.
Dies(p) ==
  /\ at[p] = "out" /\ dies[p]
  /\ at' = [at EXCEPT ![p] = "free"] /\ dies' = [dies EXCEPT ![p] = FALSE]
  /\ UNCHANGED <<mlock, message, mqueue, kills>>

\* ksend() to another process, as far as get_mbuf()'s P(&mlock).
Send(p) ==
  /\ at[p] = "out" /\ ~dies[p]
  /\ IF mlock.value > 0
     THEN mlock' = [mlock EXCEPT !.value = @ - 1] /\ at' = [at EXCEPT ![p] = "inside"]
     ELSE /\ mlock' = [value |-> mlock.value - 1, queue |-> Append(mlock.queue, p)]
          /\ at' = [at EXCEPT ![p] = "sending"]
  /\ UNCHANGED <<dies, message, mqueue, kills>>

\* The rest of get_mbuf(), which finds no buffer: V(&mlock), and ksend() fails.
NoBuffer(p) ==
  LET value == mlock.value + 1 IN
  /\ at[p] = "inside"
  /\ IF value <= 0
     THEN /\ at' = [at EXCEPT ![p] = "out", ![First(mlock.queue)] = "inside"]
          /\ mlock' = [value |-> value, queue |-> Rest(mlock.queue)]
     ELSE at' = [at EXCEPT ![p] = "out"] /\ mlock' = [mlock EXCEPT !.value = value]
  /\ UNCHANGED <<dies, message, mqueue, kills>>

\* krecv(), as far as P(&running->res->message).
Receive(p) ==
  /\ at[p] = "out" /\ ~dies[p]
  /\ message' = [message EXCEPT ![p] = @ - 1]
  /\ at' = [at EXCEPT ![p] = IF message[p] > 0 THEN "taking" ELSE "receiving"]
  /\ UNCHANGED <<dies, mlock, mqueue, kills>>

\* demqueue() of an empty list reads the link of a buffer at address 0: the next
\* time the list begins with what it found there, and what is read is anybody's guess.
Take(p) ==
  /\ at[p] = "taking"
  /\ at' = [at EXCEPT ![p] = IF mqueue[p] = "null" THEN "out" ELSE "astray"]
  /\ mqueue' = [mqueue EXCEPT ![p] = "word"]
  /\ UNCHANGED <<dies, mlock, message, kills>>

\* wV() on mlock.  (Mutant: the value is left alone.)
OffQueue(p) == [mlock EXCEPT !.queue = Unlinked(@, p)]
Unblocked(p) == [value |-> mlock.value + 1, queue |-> Unlinked(mlock.queue, p)]

\* kkill() with a signal that is deadly or ignored.
Kill(p, deadly) ==
  /\ at[p] # "free"
  /\ dies' = [dies EXCEPT ![p] = @ \/ deadly]
  /\ CASE at[p] = "sending" ->
            /\ kills < MaxKills /\ kills' = kills + 1
            /\ mlock' = Unblocked(p) /\ at' = [at EXCEPT ![p] = "inside"]
            /\ UNCHANGED message
       [] at[p] = "receiving" ->
            /\ message' = [message EXCEPT ![p] = @ + 1]
            /\ at' = [at EXCEPT ![p] = "taking"]
            /\ UNCHANGED <<mlock, kills>>
       [] OTHER -> UNCHANGED <<at, mlock, message, kills>>
  /\ UNCHANGED mqueue

Next ==
  /\ In("astray") = {}
  /\ \E p \in User :
       \/ Born(p) \/ Dies(p) \/ Send(p) \/ NoBuffer(p) \/ Receive(p) \/ Take(p)
       \/ \E deadly \in BOOLEAN : Kill(p, deadly)
Spec == Init /\ [][Next]_vars
-----------------------------------------------------------------------------
\* Every variable holds a value of its type.
TypeOK ==
  /\ at \in [User -> {"free", "out", "sending", "inside", "receiving", "taking", "astray"}]
  /\ dies \in [User -> BOOLEAN]
  /\ mlock \in [value : Int, queue : Seq(User)]
  /\ message \in [User -> Int] /\ mqueue \in [User -> {"null", "word"}]
  /\ kills \in 0..MaxKills

\* Nobody is in get_mbuf()'s critical section before a blocked sender has been
\* killed, and then as many can be at once as have been; after the first, nobody
\* stays blocked once it is empty.  Whoever is blocked is in the queue, in either
\* case, and nobody is ever given a message.
SendersCounted ==
  /\ Cardinality(In("inside")) <= kills
  /\ mlock.value + Cardinality(In("sending") \cup In("inside")) = kills
  /\ Range(mlock.queue) = In("sending") /\ NoDup(mlock.queue)
  /\ kills > 0 /\ In("inside") = {} => In("sending") = {}
  /\ \A p \in User : message[p] = -Cardinality({p} \cap In("receiving"))
=============================================================================
