------------------------------- MODULE Process -------------------------------
(***************************************************************************)
(* The process core of the kernel: the PROC table with its ready queue,    *)
(* sleep list, semaphore queue and free list; fork, exit, wait, sleep and  *)
(* wakeup, pause, kill, and the two ways a process loses the CPU (tswitch  *)
(* in the kernel, the timer in user mode).                                 *)
(*                                                                         *)
(* The kernel is not preemptible: between two calls of tswitch() only      *)
(* interrupt handlers run besides the running process.  A system call is   *)
(* one action up to its first tswitch() or to the point where an interrupt *)
(* could tell the difference; pc[p] is where p stands.                     *)
(***************************************************************************)
EXTENDS ProcQueue, FiniteSets

CONSTANTS
  NPROC,        \* number of PROC slots; P0 is the idle loop, P1 is init
  Priorities,   \* the values a process gives to ksetpri
  MaxPause,     \* the longest pause() in seconds
  KillPoints,   \* kernel points at which the IRQ path may kill the running PROC
  InitCalls,    \* the system calls P1 makes
  UserCalls,    \* the system calls the other processes make
  PAUSE, DEV,   \* sleep events: the PAUSE constant, any device or pipe event
  NoEvent       \* event 0

Pid == 0..(NPROC - 1)
UserPid == 2..(NPROC - 1)
Points == {"idle", "user", "fork", "wait", "exit", "wakeP1", "gone", "ret"}
Calls == {"fork", "wait", "pause", "devsleep", "read", "setpri", "switch", "kill"}

ASSUME ProcAssumption ==
  /\ NPROC \in Nat /\ NPROC >= 3
  /\ Priorities \subseteq Int
  /\ MaxPause \in Nat
  /\ KillPoints \subseteq {"fork", "wait", "exit", "wakeP1", "gone"}
  /\ InitCalls \subseteq Calls /\ UserCalls \subseteq Calls
  /\ {PAUSE, DEV, NoEvent} \cap Pid = {}
  /\ PAUSE # DEV /\ PAUSE # NoEvent /\ DEV # NoEvent

VARIABLES
  status,      \* PROC.status (PAUSE is a SLEEP on event PAUSE)
  ppid,        \* PROC.ppid
  parent,      \* PROC.parent, as the pid it points to
  priority,    \* PROC.priority
  event,       \* PROC.event; a sleep on a PROC's address is that PROC's pid
  pause,       \* PROC.pause
  sig,         \* a signal with the default action (die) is pending
  pc,          \* where the process is
  running,     \* the running PROC
  readyQueue,
  sleepList,
  semQueue,    \* PROCs blocked in P(): the queue of a minode lock (any semaphore)
  freeList,
  newborn,     \* the PROC that the running fork() is still building, if any
  waking,      \* the event of the kwakeup() loop in progress, or NoEvent
  unwoken,     \* that loop's list tmp
  ticking      \* the paused PROCs this second's timer loop has yet to visit

procVars == <<status, ppid, parent, priority, event, pause, sig, pc>>
listVars == <<readyQueue, sleepList, semQueue, freeList>>
vars == <<procVars, listVars, running, newborn, waking, unwoken, ticking>>
-----------------------------------------------------------------------------
\* The free list that init() builds behind P0 and P1.  (Mutant: one slot too many.)
FreeSlotsPlusOne == [i \in 1..(NPROC - 1) |-> i + 1]
FreeSlots == [i \in 1..(NPROC - 2) |-> i + 1]

(***************************************************************************)
(* Boot is over: init() made P0, si_kfork("si_init") made P1, and P0 is in *)
(* its idle loop.                                                          *)
(***************************************************************************)
Init ==
  /\ status = [p \in Pid |-> IF p <= 1 THEN "READY" ELSE "FREE"]
  /\ ppid = [p \in Pid |-> 0]
  /\ parent = [p \in Pid |-> 0]
  /\ priority = [p \in Pid |-> IF p = 1 THEN 128 ELSE 0]
  /\ event = [p \in Pid |-> NoEvent]
  /\ pause = [p \in Pid |-> 0]
  /\ sig = [p \in Pid |-> FALSE]
  /\ pc = [p \in Pid |-> IF p = 0 THEN "idle" ELSE IF p = 1 THEN "ret" ELSE "gone"]
  /\ running = 0
  /\ readyQueue = Single(1)
  /\ sleepList = Nil
  /\ semQueue = Nil
  /\ freeList = FreeSlots
  /\ newborn = {}
  /\ waking = NoEvent
  /\ unwoken = Nil
  /\ ticking = {}
-----------------------------------------------------------------------------
\* No masked loop (kwakeup, the timer's scan) is in progress.
Unmasked == waking = NoEvent /\ ticking = {}

At(p, point) == running = p /\ pc[p] = point /\ Unmasked

\* svc_handler: a pending signal is handled before the call is made, so a
\* call proper starts only when there is none.
Calling(p, call) ==
  /\ At(p, "user")
  /\ ~sig[p]
  /\ call \in IF p = 1 THEN InitCalls ELSE UserCalls

\* tswitch() by a running PROC that is no longer READY.
LeaveCPU ==
  /\ readyQueue # Nil
  /\ running' = First(readyQueue)
  /\ readyQueue' = Rest(readyQueue)

\* tswitch() by a running PROC that stays READY.
YieldCPU ==
  LET q == Enqueue(readyQueue, priority, running)
  IN  running' = First(q) /\ readyQueue' = Rest(q)

\* ksleep(e) by p, which resumes at "next".
SleepOn(p, e, next) ==
  /\ event' = [event EXCEPT ![p] = e]
  /\ status' = [status EXCEPT ![p] = "SLEEP"]
  /\ sleepList' = Enqueue(sleepList, priority, p)
  /\ pc' = [pc EXCEPT ![p] = next]
  /\ LeaveCPU

\* P(s) by p when s has no permit left.
BlockOn(p, next) ==
  /\ status' = [status EXCEPT ![p] = "BLOCK"]
  /\ semQueue' = Enqueue(semQueue, priority, p)
  /\ pc' = [pc EXCEPT ![p] = next]
  /\ LeaveCPU

\* Mutant of Children: a ZOMBIE is passed over.
LiveChildren(p) ==
  {c \in 1..(NPROC - 1) : status[c] \notin {"FREE", "ZOMBIE"} /\ ppid[c] = p}
Children(p) == {c \in 1..(NPROC - 1) : status[c] # "FREE" /\ ppid[c] = p}
Zombies(p) == {c \in 1..(NPROC - 1) : status[c] = "ZOMBIE" /\ ppid[c] = p}
-----------------------------------------------------------------------------
(* fork *)

\* fork() up to the copy of the image: the child is READY, in no list.
Fork(p) ==
  /\ Calling(p, "fork")
  /\ freeList # Nil
  /\ LET c == First(freeList) IN
       /\ status' = [status EXCEPT ![c] = "READY"]
       /\ ppid' = [ppid EXCEPT ![c] = p]
       /\ parent' = [parent EXCEPT ![c] = p]
       /\ priority' = [priority EXCEPT ![c] = 1]
       /\ sig' = [sig EXCEPT ![c] = FALSE]
       /\ pc' = [pc EXCEPT ![p] = "fork", ![c] = "ret"]
       /\ newborn' = {c}
  /\ freeList' = Rest(freeList)
  /\ UNCHANGED <<event, pause, running, readyQueue, sleepList, semQueue,
                 waking, unwoken, ticking>>

\* fork() from the copy to its return: the child enters readyQueue.
ForkEnqueue(p) ==
  /\ At(p, "fork")
  /\ \E c \in newborn : readyQueue' = Enqueue(readyQueue, priority, c)
  /\ newborn' = {}
  /\ pc' = [pc EXCEPT ![p] = "ret"]
  /\ UNCHANGED <<status, ppid, parent, priority, event, pause, sig, running,
                 sleepList, semQueue, freeList, waking, unwoken, ticking>>
-----------------------------------------------------------------------------
(* wait *)

\* kwait() with a child: enter the loop.  Without one it returns -1.
Wait(p) ==
  /\ Calling(p, "wait")
  /\ Children(p) # {}
  /\ pc' = [pc EXCEPT ![p] = "wait"]
  /\ UNCHANGED <<status, ppid, parent, priority, event, pause, sig, listVars,
                 running, newborn, waking, unwoken, ticking>>

\* One scan of kwait() that finds a ZOMBIE child: the first one is freed.
WaitReap(p) ==
  /\ At(p, "wait")
  /\ Zombies(p) # {}
  /\ LET c == Min(Zombies(p)) IN
       /\ status' = [status EXCEPT ![c] = "FREE"]
       /\ freeList' = PutLast(freeList, c)
  /\ pc' = [pc EXCEPT ![p] = "ret"]
  /\ UNCHANGED <<ppid, parent, priority, event, pause, sig, readyQueue,
                 sleepList, semQueue, running, newborn, waking, unwoken, ticking>>

\* One scan that finds none: sleep on the own PROC address, then scan again.
WaitSleep(p) ==
  /\ At(p, "wait")
  /\ Zombies(p) = {}
  /\ SleepOn(p, p, "wait")
  /\ UNCHANGED <<ppid, parent, priority, pause, sig, semQueue, freeList,
                 newborn, waking, unwoken, ticking>>
-----------------------------------------------------------------------------
(* exit *)

\* The exit system call.  P1 gets -1 back and lives on.
Exit(p) ==
  /\ At(p, "user") /\ ~sig[p] /\ p # 1
  /\ pc' = [pc EXCEPT ![p] = "exit"]
  /\ UNCHANGED <<status, ppid, parent, priority, event, pause, sig, listVars,
                 running, newborn, waking, unwoken, ticking>>

\* kpsig() with a pending signal: on the way into or out of a system call, and
\* after every interrupt, wherever the kernel was interrupted.
Die(p) ==
  /\ running = p /\ Unmasked /\ sig[p]
  /\ pc[p] \in {"user", "ret"} \cup KillPoints
  /\ sig' = [sig EXCEPT ![p] = FALSE]
  /\ pc' = [pc EXCEPT ![p] = "exit"]
  /\ newborn' = {}
  /\ UNCHANGED <<status, ppid, parent, priority, event, pause, listVars,
                 running, waking, unwoken, ticking>>

\* kexit() blocks while it closes files and gives back the cwd.
ExitBlock(p) ==
  /\ At(p, "exit")
  /\ BlockOn(p, "exit")
  /\ UNCHANGED <<ppid, parent, priority, event, pause, sig, sleepList, freeList,
                 newborn, waking, unwoken, ticking>>

\* kexit() still has P1 to wake when it gave children away.  (Mutant: never.)
NeverWakesP1(kids) == "gone"
AfterZombie(kids) == IF kids # {} THEN "wakeP1" ELSE "gone"

\* Whom it wakes.  (Mutant: whoever sleeps on its own address.)
OwnAddress(p) == p
ParentAddress(p) == parent[p]

\* kexit(): drop the signals, give the children to P1, become a ZOMBIE and
\* start waking the parent.
ExitFinal(p) ==
  /\ At(p, "exit")
  /\ LET kids == Children(p) IN
       /\ ppid' = [c \in Pid |-> IF c \in kids THEN 1 ELSE ppid[c]]
       /\ parent' = [c \in Pid |-> IF c \in kids THEN 1 ELSE parent[c]]
       /\ pc' = [pc EXCEPT ![p] = AfterZombie(kids)]
  /\ status' = [status EXCEPT ![p] = "ZOMBIE"]
  /\ sig' = [sig EXCEPT ![p] = FALSE]
  /\ waking' = ParentAddress(p)
  /\ UNCHANGED <<priority, event, pause, listVars, running, newborn, unwoken, ticking>>

\* kexit() gave children away: P1 is woken too.
ExitWakeP1(p) ==
  /\ At(p, "wakeP1")
  /\ waking' = 1
  /\ pc' = [pc EXCEPT ![p] = "gone"]
  /\ UNCHANGED <<status, ppid, parent, priority, event, pause, sig, listVars,
                 running, newborn, unwoken, ticking>>

\* The tswitch() a ZOMBIE never returns from.
ExitSwitch(p) ==
  /\ At(p, "gone")
  /\ LeaveCPU
  /\ UNCHANGED <<procVars, sleepList, semQueue, freeList, newborn, waking,
                 unwoken, ticking>>
-----------------------------------------------------------------------------
(* The other system calls that matter to the lists *)

Pause(p, y) ==
  /\ Calling(p, "pause")
  /\ pause' = [pause EXCEPT ![p] = y]
  /\ SleepOn(p, PAUSE, "ret")
  /\ UNCHANGED <<ppid, parent, priority, sig, semQueue, freeList, newborn,
                 waking, unwoken, ticking>>

\* A read of a terminal or a pipe that finds nothing.
DevSleep(p) ==
  /\ Calling(p, "devsleep")
  /\ SleepOn(p, DEV, "ret")
  /\ UNCHANGED <<ppid, parent, priority, pause, sig, semQueue, freeList,
                 newborn, waking, unwoken, ticking>>

\* A file system call that waits for a locked minode.
Read(p) ==
  /\ Calling(p, "read")
  /\ BlockOn(p, "ret")
  /\ UNCHANGED <<ppid, parent, priority, event, pause, sig, sleepList, freeList,
                 newborn, waking, unwoken, ticking>>

SetPri(p, v) ==
  /\ Calling(p, "setpri")
  /\ priority' = [priority EXCEPT ![p] = v]
  /\ UNCHANGED <<status, ppid, parent, event, pause, sig, pc, listVars,
                 running, newborn, waking, unwoken, ticking>>

\* kswitch()
Switch(p) ==
  /\ Calling(p, "switch")
  /\ pc' = [pc EXCEPT ![p] = "ret"]
  /\ YieldCPU
  /\ UNCHANGED <<status, ppid, parent, priority, event, pause, sig, sleepList,
                 semQueue, freeList, newborn, waking, unwoken, ticking>>

\* kkill(sig, t) on a PROC that is neither asleep nor blocked.
KillReady(p, t) ==
  /\ Calling(p, "kill")
  /\ status[t] = "READY"
  /\ sig' = [sig EXCEPT ![t] = TRUE]
  /\ pc' = [pc EXCEPT ![p] = "ret"]
  /\ UNCHANGED <<status, ppid, parent, priority, event, pause, listVars,
                 running, newborn, waking, unwoken, ticking>>

\* kkill(sig, t) on a sleeper: kwakeup(t->event) wakes whoever sleeps on it.
KillSleep(p, t) ==
  /\ Calling(p, "kill")
  /\ status[t] = "SLEEP"
  /\ sig' = [sig EXCEPT ![t] = TRUE]
  /\ pc' = [pc EXCEPT ![p] = "ret"]
  /\ waking' = event[t]
  /\ UNCHANGED <<status, ppid, parent, priority, event, pause, listVars,
                 running, newborn, unwoken, ticking>>

\* kkill(sig, t) on a blocked PROC: wV(t) takes it out of the semaphore queue.
KillBlock(p, t) ==
  /\ Calling(p, "kill")
  /\ status[t] = "BLOCK"
  /\ sig' = [sig EXCEPT ![t] = TRUE]
  /\ pc' = [pc EXCEPT ![p] = "ret"]
  /\ semQueue' = Unlinked(semQueue, t)
  /\ status' = [status EXCEPT ![t] = "READY"]
  /\ readyQueue' = Enqueue(readyQueue, priority, t)
  /\ UNCHANGED <<ppid, parent, priority, event, pause, sleepList, freeList,
                 running, newborn, waking, unwoken, ticking>>

\* goUmode without a signal.
Return(p) ==
  /\ At(p, "ret") /\ ~sig[p]
  /\ pc' = [pc EXCEPT ![p] = "user"]
  /\ UNCHANGED <<status, ppid, parent, priority, event, pause, sig, listVars,
                 running, newborn, waking, unwoken, ticking>>

\* P0's loop in main().
Idle ==
  /\ At(0, "idle")
  /\ readyQueue # Nil
  /\ YieldCPU
  /\ UNCHANGED <<procVars, sleepList, semQueue, freeList, newborn, waking,
                 unwoken, ticking>>
-----------------------------------------------------------------------------
(* Interrupts *)

\* timer0_handler: the slice is over in user mode and someone but P0 is ready.
Preempt(p) ==
  /\ At(p, "user")
  /\ readyQueue # Nil /\ First(readyQueue) # 0
  /\ YieldCPU
  /\ UNCHANGED <<procVars, sleepList, semQueue, freeList, newborn, waking,
                 unwoken, ticking>>

\* A handler posts a signal: Control-C, or SIGALRM from the timer queue.
PostSignal(t) ==
  /\ Unmasked
  /\ status[t] # "FREE"
  /\ sig' = [sig EXCEPT ![t] = TRUE]
  /\ UNCHANGED <<status, ppid, parent, priority, event, pause, pc, listVars,
                 running, newborn, waking, unwoken, ticking>>

\* A device handler calls kwakeup; with no sleeper it changes nothing.
WakeDev ==
  /\ Unmasked
  /\ \E p \in Pid : status[p] = "SLEEP" /\ event[p] = DEV
  /\ waking' = DEV
  /\ UNCHANGED <<procVars, listVars, running, newborn, unwoken, ticking>>

\* V() on the semaphore by the holder of the minode, or by a device handler.
Unblock ==
  /\ Unmasked
  /\ semQueue # Nil
  /\ LET p == First(semQueue) IN
       /\ status' = [status EXCEPT ![p] = "READY"]
       /\ readyQueue' = Enqueue(readyQueue, priority, p)
  /\ semQueue' = Rest(semQueue)
  /\ UNCHANGED <<ppid, parent, priority, event, pause, sig, pc, sleepList,
                 freeList, running, newborn, waking, unwoken, ticking>>

\* timer0_handler at a full second: visit the paused PROCs in slot order.
TickSecond ==
  /\ Unmasked
  /\ ticking' = {p \in 1..(NPROC - 1) : status[p] = "SLEEP" /\ event[p] = PAUSE}
  /\ ticking' # {}
  /\ UNCHANGED <<procVars, listVars, running, newborn, waking, unwoken>>

\* One of them: a second less, and off the sleep list at zero.
TickStep ==
  /\ ticking # {}
  /\ LET p == Min(ticking) IN
       /\ ticking' = ticking \ {p}
       /\ pause' = [pause EXCEPT ![p] = @ - 1]
       /\ \/ /\ pause[p] - 1 > 0
             /\ UNCHANGED <<status, event, priority, sleepList, readyQueue>>
          \/ /\ pause[p] - 1 <= 0
             /\ sleepList' = Unlinked(sleepList, p)
             /\ status' = [status EXCEPT ![p] = "READY"]
             /\ event' = [event EXCEPT ![p] = NoEvent]
             /\ priority' = [priority EXCEPT ![p] = 128]
             /\ readyQueue' = Enqueue(readyQueue, priority', p)
  /\ UNCHANGED <<ppid, parent, sig, pc, semQueue, freeList, running, newborn,
                 waking, unwoken>>

\* kwakeup(), with interrupts masked: one PROC off the sleep list.
WakeStep ==
  /\ waking # NoEvent
  /\ sleepList # Nil
  /\ LET p == First(sleepList) IN
       \/ /\ event[p] = waking
          /\ status' = [status EXCEPT ![p] = "READY"]
          /\ readyQueue' = Enqueue(readyQueue, priority, p)
          /\ UNCHANGED unwoken
       \/ /\ event[p] # waking
          /\ unwoken' = Enqueue(unwoken, priority, p)
          /\ UNCHANGED <<status, readyQueue>>
  /\ sleepList' = Rest(sleepList)
  /\ UNCHANGED <<ppid, parent, priority, event, pause, sig, pc, semQueue,
                 freeList, running, newborn, waking, ticking>>

\* kwakeup() ends: the others are the sleep list again.
WakeEnd ==
  /\ waking # NoEvent
  /\ sleepList = Nil
  /\ sleepList' = unwoken
  /\ unwoken' = Nil
  /\ waking' = NoEvent
  /\ UNCHANGED <<procVars, readyQueue, semQueue, freeList, running, newborn, ticking>>
-----------------------------------------------------------------------------
UserStep(p) ==
  \/ Fork(p) \/ Wait(p) \/ Exit(p) \/ DevSleep(p) \/ Read(p) \/ Switch(p)
  \/ \E y \in 1..MaxPause : Pause(p, y)
  \/ \E v \in Priorities : SetPri(p, v)
  \/ \E t \in UserPid : KillReady(p, t) \/ KillSleep(p, t) \/ KillBlock(p, t)

KernelStep(p) ==
  \/ ForkEnqueue(p) \/ WaitReap(p) \/ WaitSleep(p)
  \/ Die(p) \/ ExitBlock(p) \/ ExitFinal(p) \/ ExitWakeP1(p) \/ ExitSwitch(p)
  \/ Return(p)

MaskedStep == WakeStep \/ WakeEnd \/ TickStep

Interrupt ==
  \/ \E p \in Pid \ {0} : Preempt(p)
  \/ \E t \in UserPid : PostSignal(t)
  \/ WakeDev \/ Unblock \/ TickSecond

Next ==
  \/ \E p \in Pid \ {0} : UserStep(p) \/ KernelStep(p)
  \/ MaskedStep \/ Interrupt \/ Idle

Spec == Init /\ [][Next]_vars

(***************************************************************************)
(* What the machine owes: code that runs goes on running, masked loops     *)
(* included; si_init's loop keeps calling; the timer does not miss every   *)
(* one of infinitely many visits to user mode.  Signals end at some time:  *)
(* a process killed again whenever it is in kexit() never gets out of it.  *)
(* Nothing is asked of the other programs or of the devices.               *)
(***************************************************************************)
Fairness ==
  /\ WF_vars(MaskedStep)
  /\ WF_vars(Idle)
  /\ WF_vars(UserStep(1))
  /\ \A p \in Pid \ {0} : WF_vars(KernelStep(p)) /\ SF_vars(Preempt(p))
  /\ <>[][\A p \in Pid : sig'[p] => sig[p]]_vars

FairSpec == Spec /\ Fairness
-----------------------------------------------------------------------------
(* Types *)

Statuses == {"FREE", "READY", "SLEEP", "BLOCK", "ZOMBIE"}
Events == Pid \cup {PAUSE, DEV, NoEvent}

PidList == Seq(Pid)

\* Every variable holds a value of its type; every list holds pids.
TypeOK ==
  /\ status \in [Pid -> Statuses]
  /\ ppid \in [Pid -> Pid]
  /\ parent \in [Pid -> Pid]
  /\ priority \in [Pid -> Int]
  /\ event \in [Pid -> Events]
  /\ pause \in [Pid -> Int]
  /\ sig \in [Pid -> BOOLEAN]
  /\ pc \in [Pid -> Points]
  /\ running \in Pid
  /\ readyQueue \in PidList
  /\ sleepList \in PidList
  /\ semQueue \in PidList
  /\ freeList \in PidList
  /\ newborn \in SUBSET Pid
  /\ waking \in Events
  /\ unwoken \in PidList
  /\ ticking \in SUBSET Pid
-----------------------------------------------------------------------------
(* Safety *)

\* Which list a PROC is in follows from its status alone, whatever mixture of
\* system calls and interrupts moved it: a READY one runs, waits in readyQueue
\* or is the child fork() is building (an unlinked READY PROC never runs again);
\* a SLEEPing one is in sleepList or in the wakeup loop's rest of it, and so on.
StatusIsPlace ==
  \A p \in Pid :
    /\ p \in Range(readyQueue) <=>
         status[p] = "READY" /\ p # running /\ p \notin newborn
    /\ p \in Range(sleepList) \cup Range(unwoken) <=> status[p] = "SLEEP"
    /\ p \in Range(semQueue) <=> status[p] = "BLOCK"
    /\ p \in Range(freeList) <=> status[p] = "FREE"

\* No list holds a PROC twice, so unlinking it once removes it.
NoDuplicates ==
  /\ NoDup(readyQueue) /\ NoDup(semQueue) /\ NoDup(freeList)
  /\ NoDup(sleepList) /\ NoDup(unwoken)
  /\ Range(sleepList) \cap Range(unwoken) = {}

\* scheduler() never dequeues a null pointer: when anyone but P0 runs, somebody
\* (P0 at the least) is in readyQueue.
SchedulerHasNext == running # 0 => readyQueue # Nil

\* The family tree after any series of fork, exit and wait: the parent that a
\* live or ZOMBIE process is to be reaped by exists and is itself no ZOMBIE, and
\* the pid (used by kwait) and the pointer (used by kexit) name the same PROC.
LiveParent ==
  \A c \in UserPid : status[c] # "FREE" =>
    /\ parent[c] = ppid[c]
    /\ ppid[c] # 0
    /\ status[ppid[c]] \notin {"FREE", "ZOMBIE"}

\* No lost wakeup in wait/exit: a parent does not sleep in kwait() over a ZOMBIE
\* child, except while the kexit() that made the ZOMBIE (or gave it to P1) is
\* still on its way to wake that parent.
NoMissedZombie ==
  \A p \in Pid :
    status[p] = "SLEEP" /\ event[p] = p /\ Zombies(p) # {} =>
      \/ waking = p /\ p \in Range(sleepList)
      \/ p = 1 /\ pc[running] = "wakeP1"

\* What StatusIsPlace and NoDuplicates rest on: who may run, who may be newborn,
\* and that the wakeup loop and the timer's loop never overlap.
SwitchState ==
  /\ status[0] = "READY"
  /\ \/ status[running] = "READY"
     \/ status[running] = "ZOMBIE" /\ pc[running] \in {"exit", "wakeP1", "gone"}
  /\ \A p \in Pid : pc[p] \in {"wakeP1", "gone"} => status[p] \in {"ZOMBIE", "FREE"}
  /\ \A c \in newborn : status[c] = "READY" /\ c # running /\ c # 0
  /\ \A c, d \in newborn : c = d
  /\ newborn # {} => pc[running] = "fork"
  /\ \A p \in ticking : status[p] = "SLEEP"
  /\ waking = NoEvent => unwoken = Nil
  /\ waking # NoEvent => ticking = {}

\* The inductive invariant of the lists.
ListInv == TypeOK /\ StatusIsPlace /\ NoDuplicates /\ SwitchState

\* The inductive invariant of the family tree: P1 is always there to be given
\* children, and is no child of its own.
FamilyInv ==
  /\ LiveParent
  /\ ~ sig[1] /\ pc[1] \notin {"exit", "wakeP1", "gone"}
  /\ status[1] \notin {"FREE", "ZOMBIE"}

\* Whoever is given the CPU has no better one waiting.
HighestRuns ==
  [][running' # running =>
       \A q \in Range(readyQueue') : priority'[q] <= priority'[running']]_vars

\* signal.c says that kpsig() runs when a process is about to return to user
\* mode: a signal ends a process in user mode or at that point only.
KilledAtReturn ==
  [][\A p \in Pid : sig[p] /\ pc'[p] = "exit" /\ pc[p] # "exit" =>
       pc[p] \in {"user", "ret"}]_vars
-----------------------------------------------------------------------------
(* Liveness *)

\* init never hangs in wait() over an orphan: once it has a ZOMBIE child its
\* wait() returns.
InitReaps == (pc[1] = "wait" /\ Zombies(1) # {}) ~> (pc[1] # "wait")

\* Round robin: among processes of one priority nobody in readyQueue is passed
\* over for ever.
RoundRobin == \A p \in UserPid : (p \in Range(readyQueue)) ~> (running = p)
=============================================================================
