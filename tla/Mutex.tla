------------------------------- MODULE Mutex -------------------------------
(***************************************************************************)
(* One mutex of kernel/thread.c, with PROC.next as the pointer that it is: *)
(* a mutex's queue and readyQueue are chained through the same field, and  *)
(* neither dequeue() nor the scheduler clears it.  The kernel is not       *)
(* preemptible, so a call is one action up to its tswitch().               *)
(***************************************************************************)
EXTENDS Integers, FiniteSets, SequencesExt

CONSTANTS
  User,         \* threads; PROC 0 is the idle loop, of the lowest priority
  Null          \* the null pointer

VARIABLES
  next,         \* PROC.next
  readyQueue,   \* the first ready PROC
  running,
  status,       \* PROC.status
  mstatus,      \* mutex.status: created or not
  owner,        \* mutex.owner (Null for -1)
  value,        \* mutex.value
  queue,        \* mutex.queue
  at,           \* PROC -> where it is: outside, in mutex_lock(), inside
  sem,          \* the threads whose PROC.sem is not null: left over from a P() in
                \* the disk's driver that V() ended
  pushed        \* history: kkill() has taken a thread for one that waits in P()

vars == <<next, readyQueue, running, status, mstatus, owner, value, queue, at, sem, pushed>>
Proc == User \cup {0}
Pri(p) == IF p = 0 THEN 0 ELSE 1

\* kthread() has made the threads: each is enqueued in front of PROC 0, the
\* creator, who comes first, has made the mutex.
Init ==
  LET order == SetToSeq(User) \o <<0>>
  IN  /\ running = order[1] /\ readyQueue = order[2]
      /\ next = [p \in Proc |-> IF p = 0 THEN Null
                   ELSE order[1 + CHOOSE i \in DOMAIN order : order[i] = p]]
      /\ status = [p \in Proc |-> "READY"] /\ at = [p \in Proc |-> "outside"]
      /\ mstatus = 1 /\ owner = Null /\ value = 1 /\ queue = Null
      /\ sem = {} /\ pushed = FALSE
-----------------------------------------------------------------------------
\* The first PROC along the chain from p that is in S, if any is: what a loop
\* over p = p->next stops at.  A chain that closes on itself is walked for ever.
Follow(nxt, p, S) ==
  LET q[i \in 0..Cardinality(Proc)] ==
        IF i = 0 THEN p ELSE IF q[i - 1] \in {Null} \cup S THEN q[i - 1] ELSE nxt[q[i - 1]]
  IN  q[Cardinality(Proc)]
Ends(nxt, p, S) == p = Null \/ Follow(nxt, p, S) \in S
Reached(nxt, p) ==
  {q \in Proc : p # Null /\ Follow(nxt, p, {q}) = q}
LastOf(nxt) == {q \in Proc : nxt[q] = Null}

\* enqueue(&readyQueue, p) on [next, head]
Before(nxt, p) == {q \in Proc : nxt[q] = Null \/ Pri(p) > Pri(nxt[q])}
Enqueued(s, p) ==
  IF s.head = Null \/ Pri(p) > Pri(s.head)
  THEN [next |-> [s.next EXCEPT ![p] = s.head], head |-> p]
  ELSE LET q == Follow(s.next, s.head, Before(s.next, p))
       IN  [next |-> [s.next EXCEPT ![p] = s.next[q], ![q] = p], head |-> s.head]
CanEnqueue(s, p) ==
  s.head # Null /\ Pri(p) <= Pri(s.head) => Ends(s.next, s.head, Before(s.next, p))

\* scheduler()
Switch(s) ==
  /\ s.head # Null
  /\ running' = s.head /\ readyQueue' = s.next[s.head] /\ next' = s.next

Ready == [next |-> next, head |-> readyQueue]

\* A slice ends in user mode, or P0 looks for work.
Preempt ==
  /\ at[running] # "locking" /\ readyQueue # Null /\ CanEnqueue(Ready, running)
  /\ Switch(Enqueued(Ready, running))
  /\ UNCHANGED <<status, mstatus, owner, value, queue, at, sem, pushed>>

Creat(p) ==
  /\ mstatus = 0
  /\ mstatus' = 1 /\ value' = 1 /\ queue' = Null /\ owner' = Null
  /\ UNCHANGED <<next, readyQueue, running, status, at, sem, pushed>>

Destroy(p) ==
  /\ mstatus = 1 /\ owner = p /\ value >= 0
  /\ mstatus' = 0 /\ owner' = Null
  /\ at' = [at EXCEPT ![p] = "outside"]
  /\ UNCHANGED <<next, readyQueue, running, status, value, queue, sem, pushed>>

\* mutex_lock() of a free mutex, and of one that is locked by somebody else.
Lock(p) ==
  /\ at[p] = "outside" /\ mstatus = 1 /\ value > 0
  /\ value' = value - 1 /\ owner' = p
  /\ at' = [at EXCEPT ![p] = "inside"]
  /\ UNCHANGED <<next, readyQueue, running, status, mstatus, queue, sem, pushed>>

\* The new waiter goes behind the last one, and then the link to it, instead of
\* its own, is cleared; an empty queue leaves its own as it was in readyQueue.
Waiter(p) ==
  IF queue = Null THEN next
  ELSE [next EXCEPT ![Follow(next, queue, LastOf(next))] = Null]
LockBlock(p) ==
  /\ at[p] = "outside" /\ mstatus = 1 /\ value <= 0 /\ owner # p
  /\ value' = value - 1
  /\ Ends(next, queue, LastOf(next))
  /\ queue' = IF queue = Null THEN p ELSE queue
  /\ status' = [status EXCEPT ![p] = "BLOCK"]
  /\ at' = [at EXCEPT ![p] = "locking"]
  /\ Switch([next |-> Waiter(p), head |-> readyQueue])
  /\ UNCHANGED <<mstatus, owner, sem, pushed>>

\* Back from tswitch().
Locked(p) ==
  /\ at[p] = "locking"
  /\ owner' = p /\ at' = [at EXCEPT ![p] = "inside"]
  /\ UNCHANGED <<next, readyQueue, running, status, mstatus, value, queue, sem, pushed>>

\* Who may unlock.  (Mutant: anybody.)
Anybody(p) == TRUE
IsOwner(p) == owner = p

\* mutex_unlock() without and with a waiter to wake.
Unlock(p) ==
  /\ mstatus = 1 /\ IsOwner(p) /\ value = 0
  /\ value' = 1 /\ at' = [at EXCEPT ![p] = "outside"]
  /\ UNCHANGED <<next, readyQueue, running, status, mstatus, owner, queue, sem, pushed>>

UnlockWake(p) ==
  /\ mstatus = 1 /\ IsOwner(p) /\ value < 0 /\ queue # Null
  /\ value' = value + 1 /\ at' = [at EXCEPT ![p] = "outside"]
  /\ queue' = next[queue] /\ owner' = queue
  /\ status' = [status EXCEPT ![queue] = "READY"]
  /\ CanEnqueue(Ready, queue)
  /\ LET s == Enqueued(Ready, queue)
     IN  next' = s.next /\ readyQueue' = s.head
  /\ UNCHANGED <<running, mstatus, sem, pushed>>

\* A thread reads from the disk, and has waited for it.
Reads(p) ==
  /\ sem' = sem \cup {p}
  /\ UNCHANGED <<next, readyQueue, running, status, mstatus, owner, value, queue, at, pushed>>

\* kkill() of a thread that is blocked in mutex_lock(): wV() makes it ready if its
\* sem is not null.  It leaves the mutex's queue as it is.
Kill(p) ==
  /\ status[p] = "BLOCK" /\ p \in sem /\ CanEnqueue(Ready, p)
  /\ LET s == Enqueued(Ready, p)
     IN  next' = s.next /\ readyQueue' = s.head
  /\ status' = [status EXCEPT ![p] = "READY"]
  /\ sem' = sem \ {p} /\ pushed' = TRUE
  /\ UNCHANGED <<running, mstatus, owner, value, queue, at>>

Next ==
  \/ Preempt
  \/ \E p \in User : Kill(p)
  \/ \E p \in User :
       /\ running = p
       /\ \/ Locked(p)
          \/ /\ at[p] # "locking"
             /\ Reads(p) \/ Creat(p) \/ Destroy(p) \/ Lock(p) \/ LockBlock(p) \/ Unlock(p) \/ UnlockWake(p)
Spec == Init /\ [][Next]_vars

\* Every variable holds a value of its type.
TypeOK ==
  /\ next \in [Proc -> Proc \cup {Null}] /\ readyQueue \in Proc \cup {Null}
  /\ running \in Proc /\ status \in [Proc -> {"READY", "BLOCK"}]
  /\ mstatus \in 0..1 /\ owner \in Proc \cup {Null} /\ value \in Int
  /\ queue \in Proc \cup {Null} /\ at \in [Proc -> {"outside", "locking", "inside"}]
  /\ sem \subseteq User /\ pushed \in BOOLEAN

\* Mutual exclusion: no two threads are between mutex_lock() and mutex_unlock(),
\* whatever else the shared links of the queues do to the waiters; until kkill()
\* makes a waiter ready that has not been given the mutex, which then takes it.
CriticalAlone == ~ pushed => Cardinality({p \in User : at[p] = "inside"}) <= 1

\* Whoever is blocked in mutex_lock() is in the mutex's queue, where the comment
\* in mutex_lock() says mutex_unlock() will find him.
WaitersQueued == \A p \in User : status[p] = "BLOCK" => p \in Reached(next, queue)
=============================================================================
