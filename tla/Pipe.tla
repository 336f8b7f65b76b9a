-------------------------------- MODULE Pipe --------------------------------
(***************************************************************************)
(* Pipes (kernel/pipe.c) and the descriptors that lead to them: the file   *)
(* descriptors of each process, the open file table and the pipe table,    *)
(* under pipe, read, write, close, dup, dup2, fork and exit.               *)
(*                                                                         *)
(* No interrupt handler touches a pipe and the kernel is not preempted, so *)
(* a system call is one action up to the ksleep() it may run into.  kexit  *)
(* is one action per descriptor: closing a regular file in between can     *)
(* block.  A descriptor of a file or a terminal is just File: what happens *)
(* to it does not concern the pipes.  A pipe() that fails for want of an   *)
(* entry changes nothing and is left out.                                  *)
(***************************************************************************)
EXTENDS Integers, FiniteSets, SequencesExt

CONSTANTS
  Proc,         \* the processes
  NFD,          \* descriptors of a process
  NOFT,         \* open file table entries
  NPIPE,        \* pipes
  PSIZE,        \* bytes a pipe holds
  Byte,         \* what is written
  MaxBytes,     \* the most bytes one write or read asks for
  Calls,        \* the system calls in use
  StdFds,       \* the descriptors of terminals that the first process has
  File,         \* what they point to
  None          \* the null pointer; no event

Fds == 0..(NFD - 1)
Ofts == 0..(NOFT - 1)
Pipes == 0..(NPIPE - 1)
Slots == 0..(PSIZE - 1)
Points == {"none", "user", "read", "write", "exit"}
Events == {"data", "room"} \X Pipes

ASSUME PipeAssumption ==
  /\ IsFiniteSet(Proc)
  /\ NFD \in Nat \ {0} /\ NOFT \in Nat /\ NPIPE \in Nat
  /\ PSIZE \in Nat \ {0}
  /\ MaxBytes \in Nat
  /\ StdFds \subseteq Fds
  /\ {None, File} \cap (Ofts \cup Events) = {}
  /\ None # File

VARIABLES
  fd,                                  \* res->fd[ ]
  mode, refCount, pipePtr,             \* oft[ ]
  busy, nreader, nwriter,              \* pipe[ ]
  buf, head, tail, data, room,         \* pipe[ ]: the ring of bytes
  pc,                                  \* where each process is
  event,                               \* what it sleeps on, or None
  cur,                                 \* the descriptor of its read or write
  want,                                \* the n of its read
  todo,                                \* the bytes its write has yet to put
  ubuf                                 \* what its last read stored in user space

oftVars == <<mode, refCount, pipePtr>>
endVars == <<busy, nreader, nwriter>>
ringVars == <<buf, head, tail, data, room>>
callVars == <<cur, want, todo, ubuf>>
vars == <<fd, oftVars, endVars, ringVars, pc, event, callVars>>
-----------------------------------------------------------------------------
\* pipe_init(), and a first process without pipes.
Init ==
  /\ mode = [o \in Ofts |-> "file"]
  /\ refCount = [o \in Ofts |-> 0]
  /\ pipePtr = [o \in Ofts |-> None]
  /\ busy = [q \in Pipes |-> FALSE]
  /\ nreader = [q \in Pipes |-> 0]
  /\ nwriter = [q \in Pipes |-> 0]
  /\ buf = [q \in Pipes |-> [k \in Slots |-> None]]
  /\ head = [q \in Pipes |-> 0]
  /\ tail = [q \in Pipes |-> 0]
  /\ data = [q \in Pipes |-> 0]
  /\ room = [q \in Pipes |-> 0]
  /\ \E p \in Proc :
       /\ pc = [r \in Proc |-> IF r = p THEN "user" ELSE "none"]
       /\ fd = [r \in Proc |-> [i \in Fds |->
                  IF r = p /\ i \in StdFds THEN File ELSE None]]
  /\ event = [p \in Proc |-> None]
  /\ cur = [p \in Proc |-> 0]
  /\ want = [p \in Proc |-> 0]
  /\ todo = [p \in Proc |-> <<>>]
  /\ ubuf = [p \in Proc |-> <<>>]
-----------------------------------------------------------------------------
At(p, point) == pc[p] = point /\ event[p] = None

Calling(p, call) == At(p, "user") /\ call \in Calls

\* kwakeup(e), by a process that stays awake.
Wakeup(e) == event' = [r \in Proc |-> IF event[r] = e THEN None ELSE event[r]]

\* kwakeup(e1); ksleep(e2).  (Mutant: nobody is woken first.)
SleepOnly(p, e1, e2) == event' = [event EXCEPT ![p] = e2]
WakeupAndSleep(p, e1, e2) ==
  event' = [r \in Proc |-> IF r = p THEN e2 ELSE IF event[r] = e1 THEN None ELSE event[r]]

\* The call returns; its parameters are gone.
Returns(p) ==
  /\ pc' = [pc EXCEPT ![p] = "user"]
  /\ cur' = [cur EXCEPT ![p] = 0]
  /\ want' = [want EXCEPT ![p] = 0]

FreeFds(p) == {i \in Fds : fd[p][i] = None}

\* How many descriptors of p point to open file table entry o; those that are
\* the given end of pipe q.  (Mutant of Refs: none is seen.)
NoRefs(p, o) == 0
Refs(p, o) == Cardinality({i \in Fds : fd[p][i] = o})
Ends(p, q, end) ==
  {i \in Fds : fd[p][i] \in Ofts /\ mode[fd[p][i]] = end /\ pipePtr[fd[p][i]] = q}
-----------------------------------------------------------------------------
\* kpipe(): the first free pipe, two free open file table entries, two free fds.
MakePipe(p) ==
  /\ Calling(p, "pipe")
  /\ LET q == Min({x \in Pipes : ~busy[x]})
         o1 == Min({x \in Ofts : refCount[x] = 0})
         o2 == Min({x \in Ofts : refCount[x] = 0} \ {o1})
         i1 == Min(FreeFds(p))
         i2 == Min(FreeFds(p) \ {i1})
     IN  /\ \E x \in Pipes : ~busy[x]
         /\ Cardinality({x \in Ofts : refCount[x] = 0}) >= 2
         /\ Cardinality(FreeFds(p)) >= 2
         /\ busy' = [busy EXCEPT ![q] = TRUE]
         /\ nreader' = [nreader EXCEPT ![q] = 1]
         /\ nwriter' = [nwriter EXCEPT ![q] = 1]
         /\ head' = [head EXCEPT ![q] = 0]
         /\ tail' = [tail EXCEPT ![q] = 0]
         /\ data' = [data EXCEPT ![q] = 0]
         /\ room' = [room EXCEPT ![q] = PSIZE]
         /\ mode' = [mode EXCEPT ![o1] = "READ_PIPE", ![o2] = "WRITE_PIPE"]
         /\ refCount' = [refCount EXCEPT ![o1] = 1, ![o2] = 1]
         /\ pipePtr' = [pipePtr EXCEPT ![o1] = q, ![o2] = q]
         /\ fd' = [fd EXCEPT ![p][i1] = o1, ![p][i2] = o2]
  /\ UNCHANGED <<buf, pc, event, callVars>>

\* close_pipe(i) by p, after which the descriptor is "new": None for the close
\* system call, what is copied for dup2 over a pipe.
\* (Mutant: nobody is woken.)
DownOne(n) == n - 1

WakeNobody(e) == UNCHANGED event
WakeOther(e) == Wakeup(e)

ClosePipe(p, i, new) ==
  LET o == fd[p][i]
      q == pipePtr[o]
      last == refCount[o] = 1
      reader == mode[o] = "READ_PIPE"
  IN  /\ fd' = [fd EXCEPT ![p][i] = new]
      /\ refCount' = [r \in Ofts |-> refCount[r] - (IF r = o THEN 1 ELSE 0)
                                                 + (IF r = new THEN 1 ELSE 0)]
      /\ nreader' = IF reader THEN [nreader EXCEPT ![q] = DownOne(@)] ELSE nreader
      /\ nwriter' = IF reader THEN nwriter ELSE [nwriter EXCEPT ![q] = DownOne(@)]
      /\ \/ /\ last /\ (IF reader THEN nwriter[q] ELSE nreader[q]) <= 0
            /\ busy' = [busy EXCEPT ![q] = FALSE]
            /\ UNCHANGED event
         \/ /\ ~ (last /\ (IF reader THEN nwriter[q] ELSE nreader[q]) <= 0)
            /\ UNCHANGED busy
            /\ WakeOther(IF reader THEN <<"room", q>> ELSE <<"data", q>>)

\* myclose(i): close_pipe() for a pipe.
CloseAny(p, i, new) ==
  \/ fd[p][i] \in Ofts /\ ClosePipe(p, i, new)
  \/ /\ fd[p][i] \notin Ofts
     /\ fd' = [fd EXCEPT ![p][i] = new]
     /\ refCount' = [r \in Ofts |-> refCount[r] + (IF r = new THEN 1 ELSE 0)]
     /\ UNCHANGED <<endVars, event>>

Close(p, i) ==
  /\ Calling(p, "close")
  /\ fd[p][i] # None
  /\ CloseAny(p, i, None)
  /\ UNCHANGED <<mode, pipePtr, ringVars, pc, callVars>>

\* kdup(i): the first free descriptor; the counts of the pipe's end go up.
Dup(p, i) ==
  /\ Calling(p, "dup")
  /\ fd[p][i] \in Ofts
  /\ FreeFds(p) # {}
  /\ LET o == fd[p][i]
         q == pipePtr[o]
     IN  /\ fd' = [fd EXCEPT ![p][Min(FreeFds(p))] = o]
         /\ refCount' = [refCount EXCEPT ![o] = @ + 1]
         /\ nreader' = [nreader EXCEPT ![q] = @ + (IF mode[o] = "READ_PIPE" THEN 1 ELSE 0)]
         /\ nwriter' = [nwriter EXCEPT ![q] = @ + (IF mode[o] = "WRITE_PIPE" THEN 1 ELSE 0)]
  /\ UNCHANGED <<mode, pipePtr, busy, ringVars, pc, event, callVars>>

\* kdup2(i, k): refCount goes up, the counts of the pipe's end do not.
Dup2(p, i, k) ==
  /\ Calling(p, "dup2")
  /\ fd[p][i] # None /\ i # k
  /\ CloseAny(p, k, fd[p][i])
  /\ UNCHANGED <<mode, pipePtr, ringVars, pc, callVars>>

\* The part of fork() that copies descriptors.  (Mutant: each pipe end counts once.)
CountOnce(n, s) == n + (IF s # {} THEN 1 ELSE 0)
CountEach(n, s) == n + Cardinality(s)

Fork(p, c) ==
  /\ Calling(p, "fork")
  /\ pc[c] = "none"
  /\ fd' = [fd EXCEPT ![c] = fd[p]]
  /\ refCount' = [o \in Ofts |-> refCount[o] + Refs(p, o)]
  /\ nreader' = [q \in Pipes |-> CountEach(nreader[q], Ends(p, q, "READ_PIPE"))]
  /\ nwriter' = [q \in Pipes |-> CountEach(nwriter[q], Ends(p, q, "WRITE_PIPE"))]
  /\ pc' = [pc EXCEPT ![c] = "user"]
  /\ UNCHANGED <<mode, pipePtr, busy, ringVars, event, callVars>>
-----------------------------------------------------------------------------
\* kread() on a pipe, up to read_pipe()'s loop.
Read(p, i, n) ==
  /\ Calling(p, "read")
  /\ fd[p][i] \in Ofts /\ mode[fd[p][i]] = "READ_PIPE"
  /\ cur' = [cur EXCEPT ![p] = i]
  /\ want' = [want EXCEPT ![p] = n]
  /\ ubuf' = [ubuf EXCEPT ![p] = <<>>]
  /\ pc' = [pc EXCEPT ![p] = "read"]
  /\ UNCHANGED <<fd, oftVars, endVars, ringVars, event, todo>>

\* A ring index k places on.
Forward(x, k) == (x + k) % PSIZE

\* The k oldest bytes of pipe q.
Oldest(q, k) == [j \in 1..k |-> buf[q][(tail[q] + j - 1) % PSIZE]]

\* read_pipe()'s loop: take what there is, else wait for a writer, else end of file.
ReadLoop(p) ==
  /\ At(p, "read")
  /\ LET q == pipePtr[fd[p][cur[p]]]
         k == Min({data[q], want[p]})
     IN  \/ /\ data[q] > 0
            /\ ubuf' = [ubuf EXCEPT ![p] = Oldest(q, k)]
            /\ tail' = [tail EXCEPT ![q] = Forward(@, k)]
            /\ data' = [data EXCEPT ![q] = @ - k]
            /\ room' = [room EXCEPT ![q] = @ + k]
            /\ Wakeup(<<"room", q>>)
            /\ Returns(p)
         \/ /\ data[q] = 0 /\ nwriter[q] > 0
            /\ WakeupAndSleep(p, <<"room", q>>, <<"data", q>>)
            /\ UNCHANGED <<ubuf, tail, data, room, pc, cur, want>>
         \/ /\ data[q] = 0 /\ nwriter[q] <= 0
            /\ Returns(p)
            /\ UNCHANGED <<ubuf, tail, data, room, event>>
  /\ UNCHANGED <<fd, oftVars, endVars, buf, head, todo>>

\* kwrite() to a pipe, up to write_pipe()'s loop.
Write(p, i, s) ==
  /\ Calling(p, "write")
  /\ fd[p][i] \in Ofts /\ mode[fd[p][i]] = "WRITE_PIPE"
  /\ cur' = [cur EXCEPT ![p] = i]
  /\ todo' = [todo EXCEPT ![p] = s]
  /\ ubuf' = [ubuf EXCEPT ![p] = <<>>]
  /\ pc' = [pc EXCEPT ![p] = "write"]
  /\ UNCHANGED <<fd, oftVars, endVars, ringVars, event, want>>

\* The ring with the first k bytes of s stored from its head on.  (Mutant:
\* from its tail on, over what is still to be read.)
StoredAtTail(q, s, k) ==
  [j \in Slots |->
     LET d == (j - tail[q]) % PSIZE IN IF d < k THEN s[d + 1] ELSE buf[q][j]]
Stored(q, s, k) ==
  [j \in Slots |->
     LET d == (j - head[q]) % PSIZE IN IF d < k THEN s[d + 1] ELSE buf[q][j]]

\* write_pipe()'s loop: without readers the writer dies; else put what fits,
\* and sleep if that was not all.
WriteLoop(p) ==
  /\ At(p, "write")
  /\ LET q == pipePtr[fd[p][cur[p]]]
         k == Min({room[q], Len(todo[p])})
     IN  \/ /\ nreader[q] <= 0
            /\ pc' = [pc EXCEPT ![p] = "exit"]
            /\ UNCHANGED <<buf, head, data, room, todo, event, cur, want>>
         \/ /\ nreader[q] > 0
            /\ buf' = [buf EXCEPT ![q] = Stored(q, todo[p], k)]
            /\ head' = [head EXCEPT ![q] = Forward(@, k)]
            /\ data' = [data EXCEPT ![q] = @ + k]
            /\ room' = [room EXCEPT ![q] = @ - k]
            /\ todo' = [todo EXCEPT ![p] = SubSeq(@, k + 1, Len(@))]
            /\ \/ /\ k = Len(todo[p])
                  /\ Wakeup(<<"data", q>>)
                  /\ Returns(p)
               \/ /\ k < Len(todo[p])
                  /\ WakeupAndSleep(p, <<"data", q>>, <<"room", q>>)
                  /\ UNCHANGED <<pc, cur, want>>
  /\ UNCHANGED <<fd, oftVars, endVars, tail, ubuf>>
-----------------------------------------------------------------------------
\* exit(), or a signal handled at the return to user mode.
Exit(p) ==
  /\ Calling(p, "exit")
  /\ pc' = [pc EXCEPT ![p] = "exit"]
  /\ UNCHANGED <<fd, oftVars, endVars, ringVars, event, callVars>>

\* kexit() closes the next descriptor.
ExitClose(p) ==
  /\ At(p, "exit")
  /\ \E i \in Fds : fd[p][i] # None
  /\ CloseAny(p, Min({i \in Fds : fd[p][i] # None}), None)
  /\ UNCHANGED <<mode, pipePtr, ringVars, pc, callVars>>

\* The rest of kexit(); the PROC can be forked again.
ExitDone(p) ==
  /\ At(p, "exit")
  /\ \A i \in Fds : fd[p][i] = None
  /\ pc' = [pc EXCEPT ![p] = "none"]
  /\ todo' = [todo EXCEPT ![p] = <<>>]
  /\ ubuf' = [ubuf EXCEPT ![p] = <<>>]
  /\ cur' = [cur EXCEPT ![p] = 0]
  /\ want' = [want EXCEPT ![p] = 0]
  /\ UNCHANGED <<fd, oftVars, endVars, ringVars, event>>

\* kkill() of a sleeper: kwakeup(p->event), and the loops look again.
Kill(p) ==
  /\ event[p] # None
  /\ Wakeup(event[p])
  /\ UNCHANGED <<fd, oftVars, endVars, ringVars, pc, callVars>>
-----------------------------------------------------------------------------
Messages == UNION {[1..n -> Byte] : n \in 1..MaxBytes}

Call(p) ==
  \/ MakePipe(p) \/ Exit(p)
  \/ \E i \in Fds : Close(p, i) \/ Dup(p, i)
  \/ \E c \in Proc : Fork(p, c)
  \/ \E i \in Fds, n \in 1..MaxBytes : Read(p, i, n)
  \/ \E i \in Fds, s \in Messages : Write(p, i, s)

Loop(p) == ReadLoop(p) \/ WriteLoop(p) \/ ExitClose(p) \/ ExitDone(p)

Next == \E p \in Proc : Call(p) \/ Loop(p) \/ Kill(p)

Spec == Init /\ [][Next]_vars

\* dup2 is kept apart: it miscounts the ends of a pipe, so only what says so and
\* ShellPipe, which uses it as the shell does, take it in.
NextDup2 == Next \/ \E p \in Proc, i, k \in Fds : Dup2(p, i, k)
SpecDup2 == Init /\ [][NextDup2]_vars

\* A ready process in the kernel gets the CPU again and goes on.
FairSpec == Spec /\ \A p \in Proc : WF_vars(Loop(p))
-----------------------------------------------------------------------------
\* Every variable holds a value of its type.
TypeOK ==
  /\ fd \in [Proc -> [Fds -> Ofts \cup {None, File}]]
  /\ mode \in [Ofts -> {"file", "READ_PIPE", "WRITE_PIPE"}]
  /\ refCount \in [Ofts -> Nat]
  /\ pipePtr \in [Ofts -> Pipes \cup {None}]
  /\ busy \in [Pipes -> BOOLEAN]
  /\ nreader \in [Pipes -> Int] /\ nwriter \in [Pipes -> Int]
  /\ buf \in [Pipes -> [Slots -> Byte \cup {None}]]
  /\ head \in [Pipes -> Slots] /\ tail \in [Pipes -> Slots]
  /\ data \in [Pipes -> 0..PSIZE] /\ room \in [Pipes -> 0..PSIZE]
  /\ pc \in [Proc -> Points]
  /\ event \in [Proc -> Events \cup {None}]
  /\ cur \in [Proc -> Fds]
  /\ want \in [Proc -> 0..MaxBytes]
  /\ todo \in [Proc -> Messages \cup {<<>>}]
  /\ ubuf \in [Proc -> Messages \cup {<<>>}]

\* All the descriptors of all the processes that are one end of pipe q.
AllEnds(q, end) == UNION {{<<p, i>> : i \in Ends(p, q, end)} : p \in Proc}

\* Every open file table entry knows how many descriptors share it.
RefsExact ==
  \A o \in Ofts : refCount[o] =
    Cardinality({x \in Proc \X Fds : fd[x[1]][x[2]] = o})

\* After any series of pipe, fork, dup, close and exit the counts of a pipe in
\* use are the numbers of descriptors that lead to it, so that end of file and
\* broken pipe are decided on facts; and a pipe is free exactly when none does.
CountsExact ==
  /\ RefsExact
  /\ \A q \in Pipes :
       /\ busy[q] =>
            /\ nreader[q] = Cardinality(AllEnds(q, "READ_PIPE"))
            /\ nwriter[q] = Cardinality(AllEnds(q, "WRITE_PIPE"))
       /\ busy[q] <=> AllEnds(q, "READ_PIPE") \cup AllEnds(q, "WRITE_PIPE") # {}

\* No lost wakeup: who sleeps for data has none to read and a writer left to
\* wait for; who sleeps for room finds the pipe full and a reader left.
NoMissedWakeup ==
  \A p \in Proc : \A q \in Pipes :
    /\ event[p] = <<"data", q>> => data[q] = 0 /\ nwriter[q] > 0
    /\ event[p] = <<"room", q>> => room[q] = 0 /\ nreader[q] > 0

\* Whether anybody holds an end of each pipe, and what is in it.
Held(end) == [q \in Pipes |-> AllEnds(q, end) # {}]
InRing == [q \in Pipes |-> IF busy[q] THEN Oldest(q, data[q]) ELSE <<>>]

\* The call that a process is in: what is still to be written, or asked for.
InPipe(p) ==
  LET q == pipePtr[fd[p][cur[p]]]
  IN  CASE pc[p] = "write" -> [kind |-> "write", pipe |-> q, left |-> todo[p]]
        [] pc[p] = "read" -> [kind |-> "read", pipe |-> q, most |-> want[p]]
        [] OTHER -> [kind |-> "idle"]

\* Seen from outside, each pipe is a FIFO channel of PSIZE bytes between those who
\* hold its ends: no byte of a write is lost, doubled or reordered, none is left over
\* from the pipe's last use, and only who can never succeed is turned away.
Channel == INSTANCE PipeChannel WITH
  Pipe <- Pipes, Process <- Proc, Message <- Messages, Most <- MaxBytes, Cap <- PSIZE,
  chan <- InRing, readers <- Held("READ_PIPE"), writers <- Held("WRITE_PIPE"),
  call <- [p \in Proc |-> InPipe(p)], got <- ubuf
FifoChannel == Channel!CSpec

\* pipe.c and si_sh.c: a read returns end of file when the pipe has no data and
\* no writer, and a descriptor made by dup2 is a writer like the one it copies.
EndOfFileIsTrue ==
  [][\A p \in Proc : LET q == pipePtr[fd[p][cur[p]]] IN
       pc[p] = "read" /\ pc'[p] = "user" /\ data[q] = 0 =>
         AllEnds(q, "WRITE_PIPE") = {}]_vars
-----------------------------------------------------------------------------
\* A read of a pipe whose writers are gone returns, and a writer whose readers are
\* gone dies, also if they already slept.
EndsLearn ==
  \A p \in Proc :
    /\ (pc[p] = "read" /\ nwriter[pipePtr[fd[p][cur[p]]]] = 0) ~> pc[p] = "user"
    /\ (pc[p] = "write" /\ nreader[pipePtr[fd[p][cur[p]]]] = 0) ~> pc[p] \in {"exit", "none"}
=============================================================================
