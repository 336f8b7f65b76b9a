---------------------------------- MODULE Sdc ----------------------------------
(***************************************************************************)
(* The SD card driver of driver/sdc.c.  getblock() and putblock() set up   *)
(* the globals that the interrupt handler works on, send the card a        *)
(* command and wait on a semaphore until the handler has moved the last    *)
(* chunk of the block.  Nothing in the code keeps a second process from    *)
(* doing so before the first is done, nor a signal from ending the wait:   *)
(* disturbed says that either has happened, and what is promised here is   *)
(* promised until then; fs/read.c:56 expects more, that the driver "will   *)
(* enforce one at a time".                                                 *)
(***************************************************************************)
EXTENDS Integers, SequencesExt

CONSTANTS
  Proc,         \* the processes that read and write blocks
  P0,           \* P0, which polls instead of waiting, or nobody
  Block,        \* the blocks of the card
  Val,          \* what a chunk can hold
  None,         \* what a chunk of a buffer holds before it is read
  N             \* interrupts a block takes

Data == [1..N -> Val]
Way == {"read", "write"}

VARIABLES
  card,         \* the blocks
  transfer,     \* the card's side of a transfer: way, block and the data so far
  drv,          \* for each way, the driver's variables: the process whose buffer
                \* rxbuf points into, rxcount, rxdone, and rxsem's value and queue
  mem,          \* each process's buffer
  req,          \* what each process has asked for
  pc,           \* "idle", "started" (before P or the polling), "blocked" or
                \* "back" (woken or done, and not yet on its way out)
  disturbed     \* history: a call has come while another waited, or a signal has
                \* taken a process out of its wait

vars == <<card, transfer, drv, mem, req, pc, disturbed>>

NoTransfer == [way |-> "none"]
Failed == [way |-> "failed"]
Idle == [buf |-> None, count |-> 0, done |-> FALSE, value |-> 0, queue |-> <<>>]

\* sdc_init()
Init ==
  /\ card = [b \in Block |-> [i \in 1..N |-> CHOOSE v \in Val : TRUE]]
  /\ transfer = NoTransfer
  /\ drv = [w \in Way |-> Idle]
  /\ mem = [p \in Proc |-> [i \in 1..N |-> None]]
  /\ req = [p \in Proc |-> [way |-> "read", block |-> CHOOSE b \in Block : TRUE]]
  /\ pc = [p \in Proc |-> "idle"]
  /\ disturbed = FALSE
-----------------------------------------------------------------------------
(* The calls *)

\* The kernel is not preempted: whoever is in the driver has the CPU until P().
HasCPU == \A q \in Proc : pc[q] # "started"
Waiting == {q \in Proc : pc[q] = "blocked"}

\* Both calls up to the write to DATACTRL, which starts the transfer.  Whoever
\* waits is forgotten by the semaphore that is set up anew.
Start(p, w, b) ==
  /\ pc[p] = "idle" /\ HasCPU
  /\ disturbed' = (disturbed \/ Waiting # {})
  /\ pc' = [pc EXCEPT ![p] = "started"]
  /\ req' = [req EXCEPT ![p] = [way |-> w, block |-> b]]
  /\ drv' = [drv EXCEPT ![w] = [Idle EXCEPT !.buf = p, !.count = N]]
  /\ transfer' = [way |-> w, block |-> b, data |-> <<>>]

Getblock(p, b) ==
  /\ Start(p, "read", b)
  /\ mem' = [mem EXCEPT ![p] = [i \in 1..N |-> None]]
  /\ UNCHANGED card

\* P0 never writes.
Putblock(p, b, v) ==
  /\ p # P0
  /\ Start(p, "write", b)
  /\ mem' = [mem EXCEPT ![p] = [i \in 1..N |-> v]]
  /\ UNCHANGED card

\* P(&rxsem) or P(&txsem).  (Mutant: the semaphore is reset only now.)
LateReset(s, p) == [s EXCEPT !.value = -1, !.queue = <<p>>]
Down(s, p) ==
  [s EXCEPT !.value = @ - 1, !.queue = IF s.value <= 0 THEN Append(@, p) ELSE @]

Wait(p) ==
  LET w == req[p].way IN
  /\ pc[p] = "started" /\ p # P0
  /\ drv' = [drv EXCEPT ![w] = Down(@, p)]
  /\ pc' = [pc EXCEPT ![p] = IF drv'[w].value < 0 THEN "blocked" ELSE "back"]
  /\ UNCHANGED <<card, transfer, mem, req, disturbed>>

\* kkill() of a process that waits: wV() lets it go on with what it has.
Kill(p) ==
  LET w == req[p].way IN
  /\ pc[p] = "blocked"
  /\ drv' = [drv EXCEPT ![w].value = @ + 1, ![w].queue = Remove(@, p)]
  /\ pc' = [pc EXCEPT ![p] = "back"]
  /\ disturbed' = TRUE
  /\ UNCHANGED <<card, transfer, mem, req>>

\* while (rxdone == 0);
Poll(p) ==
  /\ pc[p] = "started" /\ p = P0
  /\ drv[req[p].way].done
  /\ pc' = [pc EXCEPT ![p] = "back"]
  /\ UNCHANGED <<card, transfer, drv, mem, req, disturbed>>

\* The caller goes on.
Return(p) ==
  /\ pc[p] = "back" /\ HasCPU
  /\ pc' = [pc EXCEPT ![p] = "idle"]
  /\ UNCHANGED <<card, transfer, drv, mem, req, disturbed>>
-----------------------------------------------------------------------------
(* sdc_handler() *)

\* V(&rxsem) or V(&txsem): whom it wakes, and the semaphore.
Wakes(s) == IF s.value < 0 THEN {Head(s.queue)} ELSE {}
Up(s) == [s EXCEPT !.value = @ + 1, !.queue = IF s.value < 0 THEN Tail(@) ELSE @]

\* The end of an interrupt that moved a chunk, s being what it left of the
\* variables: after the last one the transfer is stopped and the caller woken.
\* (Mutant: one chunk early.)
Early(s) == s.count <= 1
AllMoved(s) == s.count = 0
Moved(w, s, data) ==
  \/ /\ AllMoved(s)
     /\ drv' = [drv EXCEPT ![w] = [Up(s) EXCEPT !.done = TRUE]]
     /\ pc' = [p \in Proc |-> IF p \in Wakes(s) THEN "back" ELSE pc[p]]
     /\ transfer' = NoTransfer
  \/ /\ ~ AllMoved(s)
     /\ drv' = [drv EXCEPT ![w] = s]
     /\ transfer' = [transfer EXCEPT !.data = data]
     /\ UNCHANGED pc

\* What rxbuf or txbuf points at, having started at the buffer.
Place(s) == N - s.count + 1

\* RxFull: a chunk from the card.
RxInterrupt ==
  /\ transfer.way = "read"
  /\ LET s == drv["read"]
         data == Append(transfer.data, card[transfer.block][Len(transfer.data) + 1])
     IN  /\ s.count > 0
         /\ mem' = [mem EXCEPT ![s.buf][Place(s)] = data[Len(data)]]
         /\ Moved("read", [s EXCEPT !.count = @ - 1], data)
  /\ UNCHANGED <<card, req, disturbed>>

\* TxEmpty: a chunk to the card, which stores the block when it has it all.
TxInterrupt ==
  /\ transfer.way = "write"
  /\ LET s == drv["write"]
         data == Append(transfer.data, mem[s.buf][Place(s)])
     IN  /\ s.count > 0
         /\ card' = IF Len(data) = N THEN [card EXCEPT ![transfer.block] = data] ELSE card
         /\ Moved("write", [s EXCEPT !.count = @ - 1], data)
  /\ UNCHANGED <<mem, req, disturbed>>

\* A chunk with an error: nothing is moved, and the card goes no further.
ErrorInterrupt ==
  /\ transfer.way \in Way
  /\ transfer' = Failed
  /\ UNCHANGED <<card, drv, mem, req, pc, disturbed>>

Interrupt == RxInterrupt \/ TxInterrupt \/ ErrorInterrupt
Go(p) == Wait(p) \/ Poll(p) \/ Return(p)
\* What follows a disturbance is left open.
Next ==
  /\ ~ disturbed
  /\ \/ Interrupt
     \/ \E p \in Proc :
          \/ Go(p) \/ Kill(p)
          \/ \E b \in Block : Getblock(p, b) \/ \E v \in Val : Putblock(p, b, v)

Spec == Init /\ [][Next]_vars

\* A process that has the CPU goes on, and the card interrupts.
FairSpec == Spec /\ WF_vars(RxInterrupt \/ TxInterrupt) /\ \A p \in Proc : WF_vars(Go(p))
-----------------------------------------------------------------------------
\* Every variable holds a value of its type; until a disturbance the semaphores'
\* queues are as long as their values say.
TypeOK ==
  /\ card \in [Block -> Data]
  /\ mem \in [Proc -> [1..N -> Val \cup {None}]]
  /\ pc \in [Proc -> {"idle", "started", "blocked", "back"}]
  /\ \A w \in Way :
       /\ drv[w].buf \in Proc \cup {None} /\ drv[w].count \in 0..N
       /\ ~ disturbed =>
            /\ drv[w].value <= 1
            /\ Len(drv[w].queue) = IF drv[w].value < 0 THEN - drv[w].value ELSE 0

\* Until a disturbance, every call reads or writes a whole block at one instant,
\* whenever the interrupts come, and also while others that have been woken wait
\* for the CPU.
Done(p) == pc[p] = "back" \/ (pc[p] = "started" /\ drv[req[p].way].count = 0)
Disk == INSTANCE AtomicDisk WITH
  NoData <- None,
  content <- card,
  stage <- [p \in Proc |->
    IF pc[p] = "idle" THEN "idle" ELSE IF Done(p) THEN "done" ELSE "asked"],
  request <- [p \in Proc |->
    [block |-> req[p].block, data |-> IF req[p].way = "write" THEN mem[p] ELSE None]],
  result <- [p \in Proc |-> IF Done(p) /\ req[p].way = "read" THEN mem[p] ELSE None]
WholeBlocks == Disk!Init /\ [][disturbed' \/ [Disk!Next]_(Disk!vars)]_vars

\* Wherever between the command and P() the interrupts come, a call returns; unless
\* the card fails, which sdc_handler() does not tell it, or there is a disturbance:
\* of two processes that wait one never returns.
AllReturn ==
  \A p \in Proc :
    pc[p] \in {"started", "blocked"} ~> (pc[p] = "back" \/ transfer = Failed \/ disturbed)
===============================================================================
