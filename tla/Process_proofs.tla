---------------------------- MODULE Process_proofs ----------------------------
(***************************************************************************)
(* Theorems about Process for any number of processes, any priorities and  *)
(* any system calls.                                                       *)
(***************************************************************************)
EXTENDS Process, ListFacts

(* What the assumption says about the pids. *)
LEMMA PidFacts ==
  /\ Pid \subseteq Nat /\ 0 \in Pid /\ 1 \in Pid
  /\ UserPid \subseteq Pid /\ 0 \notin UserPid /\ 1 \notin UserPid
  /\ \A c \in Pid : c # 0 => c \in 1..(NPROC - 1)
  /\ 1..(NPROC - 1) \subseteq Pid
  /\ PAUSE \notin Pid /\ DEV \notin Pid /\ NoEvent \notin Pid
BY ProcAssumption DEF Pid, UserPid

(* Membership in the enumerated types. *)
LEMMA ValueFacts ==
  /\ "FREE" \in Statuses /\ "READY" \in Statuses /\ "SLEEP" \in Statuses
  /\ "BLOCK" \in Statuses /\ "ZOMBIE" \in Statuses
  /\ "fork" \in Points /\ "wait" \in Points /\ "exit" \in Points /\ "ret" \in Points
  /\ "wakeP1" \in Points /\ "gone" \in Points /\ "user" \in Points /\ "idle" \in Points
  /\ Pid \subseteq Events
  /\ PAUSE \in Events /\ DEV \in Events /\ NoEvent \in Events
BY DEF Statuses, Points, Events

(* The facts of ListFacts for lists of pids. *)
LEMMA EnqueuePid ==
  ASSUME NEW q \in PidList, NEW pri \in [Pid -> Int], NEW p \in Pid
  PROVE  /\ Enqueue(q, pri, p) \in PidList /\ Enqueue(q, pri, p) # Nil
         /\ Range(Enqueue(q, pri, p)) = Range(q) \cup {p}
         /\ NoDup(q) /\ p \notin Range(q) => NoDup(Enqueue(q, pri, p))
BY EnqueueFacts DEF PidList

LEMMA DequeuePid ==
  ASSUME NEW q \in PidList, q # Nil
  PROVE  /\ First(q) \in Pid /\ Rest(q) \in PidList
         /\ Range(q) = {First(q)} \cup Range(Rest(q))
         /\ NoDup(q) => NoDup(Rest(q)) /\ First(q) \notin Range(Rest(q))
BY DequeueFacts DEF PidList

LEMMA UnlinkPid ==
  ASSUME NEW q \in PidList, NEW p \in Pid
  PROVE  /\ Unlinked(q, p) \in PidList
         /\ NoDup(q) => NoDup(Unlinked(q, p)) /\ Range(Unlinked(q, p)) = Range(q) \ {p}
BY UnlinkedFacts DEF PidList

LEMMA PutLastPid ==
  ASSUME NEW q \in PidList, NEW p \in Pid
  PROVE  /\ PutLast(q, p) \in PidList /\ Range(PutLast(q, p)) = Range(q) \cup {p}
         /\ NoDup(q) /\ p \notin Range(q) => NoDup(PutLast(q, p))
BY PutLastFacts DEF PidList

LEMMA ShortLists ==
  /\ Nil \in PidList /\ Range(Nil) = {} /\ NoDup(Nil)
  /\ \A p \in Pid : /\ Single(p) \in PidList /\ Range(Single(p)) = {p}
                    /\ NoDup(Single(p))
BY NilFacts, SingletonFacts DEF PidList

LEMMA FreeSlotsFacts ==
  FreeSlots \in PidList /\ Range(FreeSlots) = UserPid /\ NoDup(FreeSlots)
<1>1. NPROC - 2 \in Nat /\ \A i \in 1..(NPROC - 2) : i + 1 \in Pid
  BY ProcAssumption DEF Pid
<1>2. FreeSlots \in Seq(Pid) /\ Len(FreeSlots) = NPROC - 2
  BY <1>1, IsASeq, LenProperties DEF FreeSlots
<1>3. \A i \in 1..(NPROC - 2) : FreeSlots[i] = i + 1
  BY DEF FreeSlots
<1>4. NoDup(FreeSlots)
  BY <1>1, <1>2, <1>3 DEF NoDup
<1>5. ASSUME NEW x \in Range(FreeSlots) PROVE x \in UserPid
  <2>1. PICK i \in 1..(NPROC - 2) : FreeSlots[i] = x
    BY <1>2, InRange
  <2>2. x = i + 1
    BY <1>3, <2>1
  <2> QED BY <2>2, ProcAssumption DEF UserPid
<1>6. ASSUME NEW x \in UserPid PROVE x \in Range(FreeSlots)
  <2>1. x - 1 \in 1..(NPROC - 2) /\ (x - 1) + 1 = x
    BY ProcAssumption DEF UserPid
  <2> QED BY <1>2, <1>3, <2>1, InRange
<1> QED BY <1>2, <1>4, <1>5, <1>6 DEF PidList

(* The scheduler picks a PROC of readyQueue and takes it out. *)
LEMMA LeaveCPUFacts ==
  ASSUME TypeOK, LeaveCPU
  PROVE  /\ running' \in Pid /\ readyQueue' \in PidList
         /\ running' \in Range(readyQueue)
         /\ Range(readyQueue) = {running'} \cup Range(readyQueue')
         /\ NoDup(readyQueue) => NoDup(readyQueue') /\ running' \notin Range(readyQueue')
<1>1. readyQueue \in PidList
  BY DEF TypeOK
<1>2. readyQueue # Nil /\ running' = First(readyQueue) /\ readyQueue' = Rest(readyQueue)
  BY DEF LeaveCPU
<1> QED BY <1>1, <1>2, DequeuePid

(* The same when the running PROC competes. *)
LEMMA YieldCPUFacts ==
  ASSUME TypeOK, YieldCPU
  PROVE  /\ running' \in Pid /\ readyQueue' \in PidList
         /\ Range(readyQueue) \cup {running} = {running'} \cup Range(readyQueue')
         /\ NoDup(readyQueue) /\ running \notin Range(readyQueue) =>
              NoDup(readyQueue') /\ running' \notin Range(readyQueue')
<1> DEFINE q == Enqueue(readyQueue, priority, running)
<1>1. readyQueue \in PidList /\ priority \in [Pid -> Int] /\ running \in Pid
  BY DEF TypeOK
<1>2. /\ q \in PidList /\ q # Nil /\ Range(q) = Range(readyQueue) \cup {running}
      /\ NoDup(readyQueue) /\ running \notin Range(readyQueue) => NoDup(q)
  BY <1>1, EnqueuePid
<1>3. running' = First(q) /\ readyQueue' = Rest(q)
  BY DEF YieldCPU
<1> HIDE DEF q
<1> QED BY <1>2, <1>3, DequeuePid
-----------------------------------------------------------------------------
LEMMA InitType == Init => TypeOK
<1> SUFFICES ASSUME Init PROVE TypeOK
  OBVIOUS
<1>2. Single(1) \in PidList /\ Nil \in PidList
  BY PidFacts, ShortLists
<1> QED BY <1>2, FreeSlotsFacts, PidFacts, ProcAssumption
        DEF Init, TypeOK, Statuses, Points, Events

(* Every action keeps the types. *)
LEMMA NextType == TypeOK /\ [Next]_vars => TypeOK'
<1> SUFFICES ASSUME TypeOK, [Next]_vars PROVE TypeOK'
  OBVIOUS
<1> USE PidFacts, ValueFacts
<1>1. CASE UNCHANGED vars
  BY <1>1 DEF vars, procVars, listVars, TypeOK
<1>2. ASSUME NEW p \in Pid, Fork(p) PROVE TypeOK'
  <2>1. First(freeList) \in Pid /\ Rest(freeList) \in PidList
    BY <1>2, DequeuePid DEF Fork, TypeOK
  <2> DEFINE c == First(freeList)
  <2> HIDE DEF c
  <2>2. /\ status' = [status EXCEPT ![c] = "READY"]
        /\ ppid' = [ppid EXCEPT ![c] = p] /\ parent' = [parent EXCEPT ![c] = p]
        /\ priority' = [priority EXCEPT ![c] = 1] /\ sig' = [sig EXCEPT ![c] = FALSE]
        /\ pc' = [pc EXCEPT ![p] = "fork", ![c] = "ret"] /\ newborn' = {c}
        /\ freeList' = Rest(freeList) /\ c \in Pid
    BY <1>2, <2>1 DEF Fork, c
  <2>3. status' \in [Pid -> Statuses] /\ pc' \in [Pid -> Points]
    BY <2>2 DEF TypeOK
  <2>4. ppid' \in [Pid -> Pid] /\ parent' \in [Pid -> Pid]
    BY <2>2 DEF TypeOK
  <2>5. priority' \in [Pid -> Int]
    BY <2>2 DEF TypeOK
  <2>6. sig' \in [Pid -> BOOLEAN]
    BY <2>2 DEF TypeOK
  <2>7. newborn' \in SUBSET Pid /\ freeList' \in PidList
    BY <2>1, <2>2
  <2>8. UNCHANGED <<event, pause, running, readyQueue, sleepList, semQueue,
                    waking, unwoken, ticking>>
    BY <1>2 DEF Fork
  <2> QED BY <2>3, <2>4, <2>5, <2>6, <2>7, <2>8 DEF TypeOK
<1>3. ASSUME NEW p \in Pid, ForkEnqueue(p) PROVE TypeOK'
  <2>1. readyQueue' \in PidList
    <3>1. PICK c \in newborn : readyQueue' = Enqueue(readyQueue, priority, c)
      BY <1>3 DEF ForkEnqueue
    <3>2. c \in Pid /\ readyQueue \in PidList /\ priority \in [Pid -> Int]
      BY DEF TypeOK
    <3> QED BY <3>1, <3>2, EnqueuePid
  <2> QED BY <1>3, <2>1 DEF ForkEnqueue, TypeOK
<1>4. ASSUME NEW p \in Pid, Wait(p) \/ Exit(p) \/ Return(p) \/ Die(p) PROVE TypeOK'
  <2>1. CASE Wait(p)
    BY <2>1 DEF Wait, listVars, TypeOK
  <2>2. CASE Exit(p)
    BY <2>2 DEF Exit, listVars, TypeOK
  <2>3. CASE Return(p)
    BY <2>3 DEF Return, listVars, TypeOK
  <2>4. CASE Die(p)
    BY <2>4 DEF Die, listVars, TypeOK
  <2> QED BY <1>4, <2>1, <2>2, <2>3, <2>4
<1>5. ASSUME NEW p \in Pid, WaitReap(p) PROVE TypeOK'
  <2>1. Min(Zombies(p)) \in Pid
    BY <1>5, MinOfNats DEF WaitReap, Zombies
  <2>2. PutLast(freeList, Min(Zombies(p))) \in PidList
    BY <2>1, PutLastPid DEF TypeOK
  <2> QED BY <1>5, <2>1, <2>2 DEF WaitReap, TypeOK
<1>6. ASSUME NEW p \in Pid, NEW e \in Events, NEW next \in Points, SleepOn(p, e, next)
      PROVE  /\ event' \in [Pid -> Events] /\ status' \in [Pid -> Statuses]
             /\ sleepList' \in PidList /\ pc' \in [Pid -> Points]
             /\ running' \in Pid /\ readyQueue' \in PidList
  BY <1>6, LeaveCPUFacts, EnqueuePid DEF SleepOn, TypeOK
<1>7. ASSUME NEW p \in Pid, NEW next \in Points, BlockOn(p, next)
      PROVE  /\ status' \in [Pid -> Statuses] /\ semQueue' \in PidList
             /\ pc' \in [Pid -> Points] /\ running' \in Pid /\ readyQueue' \in PidList
  BY <1>7, LeaveCPUFacts, EnqueuePid DEF BlockOn, TypeOK
<1>8. ASSUME NEW p \in Pid, WaitSleep(p) \/ DevSleep(p) PROVE TypeOK'
  BY <1>6, <1>8 DEF WaitSleep, DevSleep, TypeOK
<1>9. ASSUME NEW p \in Pid, NEW y \in 1..MaxPause, Pause(p, y) PROVE TypeOK'
  <2>1. SleepOn(p, PAUSE, "ret") /\ pause' = [pause EXCEPT ![p] = y] /\ y \in Int
    BY <1>9, ProcAssumption DEF Pause
  <2>2. pause' \in [Pid -> Int]
    BY <2>1 DEF TypeOK
  <2> QED BY <1>6, <1>9, <2>1, <2>2 DEF Pause, TypeOK
<1>10. ASSUME NEW p \in Pid, Read(p) \/ ExitBlock(p) PROVE TypeOK'
  BY <1>7, <1>10 DEF Read, ExitBlock, TypeOK
<1>11. ASSUME NEW p \in Pid, ExitFinal(p) \/ ExitWakeP1(p) PROVE TypeOK'
  <2>1. CASE ExitFinal(p)
    <3>1. /\ ppid' \in [Pid -> Pid] /\ parent' \in [Pid -> Pid]
          /\ parent[p] \in Events
      BY <2>1 DEF ExitFinal, TypeOK
    <3>2. pc' \in [Pid -> Points] /\ status' \in [Pid -> Statuses]
      BY <2>1 DEF ExitFinal, ParentAddress, AfterZombie, TypeOK
    <3> QED BY <2>1, <3>1, <3>2 DEF ExitFinal, ParentAddress, listVars, TypeOK
  <2>2. CASE ExitWakeP1(p)
    BY <2>2 DEF ExitWakeP1, listVars, TypeOK
  <2> QED BY <1>11, <2>1, <2>2
<1>12. ASSUME NEW p \in Pid, ExitSwitch(p) PROVE TypeOK'
  BY <1>12, LeaveCPUFacts DEF ExitSwitch, procVars, TypeOK
<1>13. ASSUME NEW p \in Pid, Switch(p) \/ Preempt(p) PROVE TypeOK'
  <2>1. running' \in Pid /\ readyQueue' \in PidList
    BY <1>13, YieldCPUFacts DEF Switch, Preempt
  <2>2. CASE Switch(p)
    BY <2>1, <2>2 DEF Switch, TypeOK
  <2>3. CASE Preempt(p)
    BY <2>1, <2>3 DEF Preempt, procVars, TypeOK
  <2> QED BY <1>13, <2>2, <2>3
<1>14. CASE Idle
  BY <1>14, YieldCPUFacts DEF Idle, procVars, TypeOK
<1>15. ASSUME NEW p \in Pid, NEW v \in Priorities, SetPri(p, v) PROVE TypeOK'
  BY <1>15, ProcAssumption DEF SetPri, listVars, TypeOK
<1>16. ASSUME NEW p \in Pid, NEW t \in UserPid, KillReady(p, t) \/ KillSleep(p, t)
       PROVE  TypeOK'
  <2>1. CASE KillReady(p, t)
    BY <2>1 DEF KillReady, listVars, TypeOK
  <2>2. CASE KillSleep(p, t)
    BY <2>2 DEF KillSleep, listVars, TypeOK
  <2> QED BY <1>16, <2>1, <2>2
<1>17. ASSUME NEW p \in Pid, NEW t \in UserPid, KillBlock(p, t) PROVE TypeOK'
  <2>1. semQueue' \in PidList /\ readyQueue' \in PidList
    BY <1>17, UnlinkPid, EnqueuePid DEF KillBlock, TypeOK
  <2> QED BY <1>17, <2>1 DEF KillBlock, TypeOK
<1>18. ASSUME NEW t \in UserPid, PostSignal(t) PROVE TypeOK'
  BY <1>18 DEF PostSignal, listVars, TypeOK
<1>19. CASE WakeDev \/ TickSecond
  BY <1>19 DEF WakeDev, TickSecond, procVars, listVars, TypeOK
<1>20. CASE Unblock
  <2>1. /\ First(semQueue) \in Pid /\ Rest(semQueue) \in PidList
        /\ readyQueue' \in PidList
    BY <1>20, DequeuePid, EnqueuePid DEF Unblock, TypeOK
  <2> QED BY <1>20, <2>1 DEF Unblock, TypeOK
<1>21. CASE TickStep
  <2> DEFINE p == Min(ticking)
  <2>1. p \in Pid
    BY <1>21, MinOfNats DEF TickStep, TypeOK
  <2> HIDE DEF p
  <2>2. ticking' = ticking \ {p} /\ pause' = [pause EXCEPT ![p] = @ - 1]
    BY <1>21 DEF TickStep, p
  <2>5. pause' \in [Pid -> Int]
    <3>1. pause \in [Pid -> Int]
      BY DEF TypeOK
    <3>2. pause[p] - 1 \in Int
      BY <2>1, <3>1
    <3> QED BY <2>1, <2>2, <3>1, <3>2
  <2>3. CASE UNCHANGED <<status, event, priority, sleepList, readyQueue>>
    BY <1>21, <2>1, <2>2, <2>3, <2>5 DEF TickStep, TypeOK
  <2>4. CASE /\ sleepList' = Unlinked(sleepList, p)
             /\ status' = [status EXCEPT ![p] = "READY"]
             /\ event' = [event EXCEPT ![p] = NoEvent]
             /\ priority' = [priority EXCEPT ![p] = 128]
             /\ readyQueue' = Enqueue(readyQueue, priority', p)
    <3>1. sleepList' \in PidList
      BY <2>1, <2>4, UnlinkPid DEF TypeOK
    <3>2. priority' \in [Pid -> Int]
      BY <2>1, <2>4 DEF TypeOK
    <3>3. readyQueue' \in PidList
      <4>1. readyQueue \in PidList
        BY DEF TypeOK
      <4>2. Enqueue(readyQueue, priority', p) \in PidList
        BY <2>1, <3>2, <4>1, EnqueuePid
      <4> QED BY <2>4, <4>2
    <3>4. status' \in [Pid -> Statuses] /\ event' \in [Pid -> Events]
      BY <2>1, <2>4 DEF TypeOK
    <3> QED BY <1>21, <2>1, <2>2, <2>4, <2>5, <3>1, <3>2, <3>3, <3>4 DEF TickStep, TypeOK
  <2> QED BY <1>21, <2>3, <2>4 DEF TickStep, p
<1>22. CASE WakeStep
  <2> DEFINE p == First(sleepList)
  <2>1. p \in Pid /\ sleepList' \in PidList
    BY <1>22, DequeuePid DEF WakeStep, TypeOK
  <2> HIDE DEF p
  <2>2. /\ Enqueue(readyQueue, priority, p) \in PidList
        /\ Enqueue(unwoken, priority, p) \in PidList
    BY <2>1, EnqueuePid DEF TypeOK
  <2>3. /\ status' \in [Pid -> Statuses]
        /\ readyQueue' \in PidList /\ unwoken' \in PidList
    <3>1. \/ status' = status /\ readyQueue' = readyQueue
             /\ unwoken' = Enqueue(unwoken, priority, p)
          \/ /\ status' = [status EXCEPT ![p] = "READY"] /\ unwoken' = unwoken
             /\ readyQueue' = Enqueue(readyQueue, priority, p)
      BY <1>22 DEF WakeStep, p
    <3>2. CASE status' = status /\ readyQueue' = readyQueue
      BY <2>2, <3>1, <3>2 DEF TypeOK
    <3>3. CASE /\ status' = [status EXCEPT ![p] = "READY"] /\ unwoken' = unwoken
               /\ readyQueue' = Enqueue(readyQueue, priority, p)
      BY <2>1, <2>2, <3>3 DEF TypeOK
    <3> QED BY <2>2, <3>1, <3>2, <3>3 DEF TypeOK
  <2> QED BY <1>22, <2>1, <2>3 DEF WakeStep, TypeOK
<1>23. CASE WakeEnd
  BY <1>23, ShortLists DEF WakeEnd, procVars, TypeOK
<1> QED BY <1>1, <1>2, <1>3, <1>4, <1>5, <1>8, <1>9, <1>10, <1>11, <1>12, <1>13, <1>14,
           <1>15, <1>16, <1>17, <1>18, <1>19, <1>20, <1>21, <1>22, <1>23
        DEF Next, UserStep, KernelStep, MaskedStep, Interrupt

(* Type correctness: whatever the system calls and interrupts do, every PROC
   field and every list holds a value of its type; no list ever holds a pid that
   is no slot of the PROC table. *)
THEOREM TypeCorrect == Spec => []TypeOK
BY InitType, NextType, PTL DEF Spec
-----------------------------------------------------------------------------
(* The lists and their parts of the invariant, apart from the types. *)
Places == StatusIsPlace /\ NoDuplicates /\ SwitchState

LEMMA InitPlaces == Init => Places
<1> SUFFICES ASSUME Init PROVE Places
  OBVIOUS
<1> USE PidFacts
<1>1. FreeSlots \in PidList /\ Range(FreeSlots) = UserPid /\ NoDup(FreeSlots)
  BY FreeSlotsFacts
<1>3. Range(Single(1)) = {1} /\ NoDup(Single(1))
  BY ShortLists
<1>4. Range(Nil) = {} /\ NoDup(Nil)
  BY ShortLists
<1>5. \A p \in Pid : p \in UserPid <=> p # 0 /\ p # 1
  BY ProcAssumption DEF Pid, UserPid
<1>6. \A p \in Pid : status[p] = IF p = 0 \/ p = 1 THEN "READY" ELSE "FREE"
  BY DEF Init, Pid
<1>7. StatusIsPlace
  BY <1>1, <1>3, <1>4, <1>5, <1>6 DEF Init, StatusIsPlace
<1>8. NoDuplicates
  BY <1>1, <1>3, <1>4 DEF Init, NoDuplicates
<1>9. SwitchState
  <2>1. \A p \in Pid : pc[p] = "gone" => p # 0 /\ p # 1
    BY DEF Init
  <2> QED BY <1>6, <2>1 DEF Init, SwitchState
<1> QED BY <1>7, <1>8, <1>9 DEF Places

(* A step that moves nobody keeps the places. *)
LEMMA PlacesFrame ==
  ASSUME StatusIsPlace, NoDuplicates,
         UNCHANGED <<status, running, newborn, readyQueue, sleepList, unwoken,
                     semQueue, freeList>>
  PROVE  StatusIsPlace' /\ NoDuplicates'
BY DEF StatusIsPlace, NoDuplicates

(* The running process leaves the CPU for a list of another status. *)
LEMMA LeaveFor ==
  ASSUME TypeOK, Places, LeaveCPU, newborn = {}, NEW st \in {"SLEEP", "BLOCK"},
         status' = [status EXCEPT ![running] = st], newborn' = newborn
  PROVE  /\ \A p \in Pid : p \in Range(readyQueue') <=>
              status'[p] = "READY" /\ p # running' /\ p \notin newborn'
         /\ NoDup(readyQueue')
         /\ status'[running'] = "READY" /\ running' # running
<1>1. /\ running' \in Pid /\ running' \in Range(readyQueue)
      /\ Range(readyQueue) = {running'} \cup Range(readyQueue')
      /\ NoDup(readyQueue') /\ running' \notin Range(readyQueue')
  BY LeaveCPUFacts DEF Places, NoDuplicates
<1>2. running \in Pid /\ status \in [Pid -> Statuses]
  BY DEF TypeOK
<1> QED BY <1>1, <1>2 DEF Places, StatusIsPlace

LEMMA SleepPlaces ==
  ASSUME TypeOK, Places, NEW e, NEW next \in {"wait", "ret"},
         running # 0, SleepOn(running, e, next), Unmasked, newborn = {},
         UNCHANGED <<semQueue, freeList, newborn, waking, unwoken, ticking>>
  PROVE  Places'
<1>1. /\ running \in Pid /\ sleepList \in PidList /\ priority \in [Pid -> Int]
      /\ status \in [Pid -> Statuses] /\ pc \in [Pid -> Points]
  BY DEF TypeOK
<1>2. running \notin Range(sleepList) /\ status[running] # "SLEEP"
  BY <1>1 DEF Places, StatusIsPlace, SwitchState
<1>3. /\ Range(sleepList') = Range(sleepList) \cup {running} /\ NoDup(sleepList')
  BY <1>1, <1>2, EnqueuePid DEF SleepOn, Places, NoDuplicates
<1>4. status' = [status EXCEPT ![running] = "SLEEP"] /\ LeaveCPU
  BY DEF SleepOn
<1>5. /\ \A p \in Pid : p \in Range(readyQueue') <=>
           status'[p] = "READY" /\ p # running' /\ p \notin newborn'
      /\ NoDup(readyQueue') /\ status'[running'] = "READY" /\ running' # running
  BY <1>4, LeaveFor
<1>6. status[running] \in {"READY", "ZOMBIE"}
  BY DEF Places, SwitchState
<1>7. StatusIsPlace'
  BY <1>1, <1>3, <1>4, <1>5, <1>6 DEF Places, StatusIsPlace
<1>8. NoDuplicates'
  <2>1. unwoken = Nil /\ Range(unwoken) = {}
    BY ShortLists DEF Places, SwitchState, Unmasked
  <2> QED BY <1>3, <1>5, <2>1 DEF Places, NoDuplicates
<1>9. SwitchState'
  <2>1. pc' = [pc EXCEPT ![running] = next]
    BY DEF SleepOn
  <2>2. status'[0] = "READY"
    BY <1>1, <1>4, PidFacts DEF Places, SwitchState
  <2> QED BY <1>1, <1>4, <1>5, <2>1, <2>2 DEF Places, SwitchState, Unmasked
<1> QED BY <1>7, <1>8, <1>9 DEF Places

LEMMA BlockPlaces ==
  ASSUME TypeOK, Places, NEW next \in {"exit", "ret"},
         running # 0, BlockOn(running, next), Unmasked, newborn = {},
         UNCHANGED <<sleepList, freeList, newborn, waking, unwoken, ticking>>
  PROVE  Places'
<1>1. /\ running \in Pid /\ semQueue \in PidList /\ priority \in [Pid -> Int]
      /\ status \in [Pid -> Statuses] /\ pc \in [Pid -> Points]
  BY DEF TypeOK
<1>2. running \notin Range(semQueue) /\ status[running] # "BLOCK"
  BY <1>1 DEF Places, StatusIsPlace, SwitchState
<1>3. /\ Range(semQueue') = Range(semQueue) \cup {running} /\ NoDup(semQueue')
  BY <1>1, <1>2, EnqueuePid DEF BlockOn, Places, NoDuplicates
<1>4. status' = [status EXCEPT ![running] = "BLOCK"] /\ LeaveCPU
  BY DEF BlockOn
<1>5. /\ \A p \in Pid : p \in Range(readyQueue') <=>
           status'[p] = "READY" /\ p # running' /\ p \notin newborn'
      /\ NoDup(readyQueue') /\ status'[running'] = "READY" /\ running' # running
  BY <1>4, LeaveFor
<1>6. status[running] \in {"READY", "ZOMBIE"}
  BY DEF Places, SwitchState
<1>7. StatusIsPlace'
  BY <1>1, <1>3, <1>4, <1>5, <1>6 DEF Places, StatusIsPlace
<1>8. NoDuplicates'
  BY <1>3, <1>5 DEF Places, NoDuplicates
<1>9. SwitchState'
  <2>1. pc' = [pc EXCEPT ![running] = next]
    BY DEF BlockOn
  <2>2. status'[0] = "READY"
    BY <1>1, <1>4, PidFacts DEF Places, SwitchState
  <2> QED BY <1>1, <1>4, <1>5, <2>1, <2>2 DEF Places, SwitchState, Unmasked
<1> QED BY <1>7, <1>8, <1>9 DEF Places

(* A PROC that was on no ready list becomes READY and enters readyQueue. *)
LEMMA EnterReady ==
  ASSUME TypeOK, Places, NEW t \in Pid, status[t] \in {"SLEEP", "BLOCK"},
         NEW pri \in [Pid -> Int],
         status' = [status EXCEPT ![t] = "READY"],
         readyQueue' = Enqueue(readyQueue, pri, t),
         UNCHANGED <<running, newborn>>
  PROVE  /\ \A p \in Pid : p \in Range(readyQueue') <=>
              status'[p] = "READY" /\ p # running' /\ p \notin newborn'
         /\ NoDup(readyQueue')
<1>1. readyQueue \in PidList /\ status \in [Pid -> Statuses]
  BY DEF TypeOK
<1>2. t \notin Range(readyQueue)
  BY DEF Places, StatusIsPlace
<1>3. Range(readyQueue') = Range(readyQueue) \cup {t} /\ NoDup(readyQueue')
  <2>1. NoDup(readyQueue)
    BY DEF Places, NoDuplicates
  <2> QED BY <1>1, <1>2, <2>1, EnqueuePid
<1>4. t # running /\ t \notin newborn
  BY DEF Places, SwitchState
<1>5. \A p \in Pid : p \in Range(readyQueue') <=>
         status'[p] = "READY" /\ p # running' /\ p \notin newborn'
  BY <1>1, <1>3, <1>4 DEF Places, StatusIsPlace
<1> QED BY <1>3, <1>5

(* The running process stays READY and competes for the CPU. *)
LEMMA YieldPlaces ==
  ASSUME TypeOK, Places, YieldCPU, Unmasked, newborn = {}, status[running] = "READY",
         NEW x \in {"idle", "user", "ret"}, pc' = [pc EXCEPT ![running] = x],
         UNCHANGED <<status, sleepList, semQueue, freeList, newborn, waking,
                     unwoken, ticking>>
  PROVE  Places'
<1>1. /\ running \in Pid /\ status \in [Pid -> Statuses] /\ pc \in [Pid -> Points]
  BY DEF TypeOK
<1>2. running \notin Range(readyQueue) /\ NoDup(readyQueue)
  BY <1>1 DEF Places, StatusIsPlace, NoDuplicates
<1>3. /\ running' \in Pid
      /\ Range(readyQueue) \cup {running} = {running'} \cup Range(readyQueue')
      /\ NoDup(readyQueue') /\ running' \notin Range(readyQueue')
  BY <1>2, YieldCPUFacts
<1>4. StatusIsPlace'
  BY <1>1, <1>3 DEF Places, StatusIsPlace
<1>5. NoDuplicates'
  BY <1>3 DEF Places, NoDuplicates
<1>6. status'[running'] = "READY"
  BY <1>1, <1>3 DEF Places, StatusIsPlace
<1>7. SwitchState'
  BY <1>1, <1>6 DEF Places, SwitchState, Unmasked
<1> QED BY <1>4, <1>5, <1>7 DEF Places

(* Every action keeps the places, unless a signal may end a fork() half way. *)
LEMMA NextPlaces ==
  ASSUME "fork" \notin KillPoints, TypeOK, Places, [Next]_vars
  PROVE  Places'
<1> USE PidFacts
<1>0. /\ status \in [Pid -> Statuses] /\ pc \in [Pid -> Points]
      /\ running \in Pid /\ newborn \subseteq Pid /\ ticking \subseteq Pid
      /\ readyQueue \in PidList /\ sleepList \in PidList /\ semQueue \in PidList
      /\ freeList \in PidList /\ unwoken \in PidList /\ priority \in [Pid -> Int]
  BY DEF TypeOK
<1>1. CASE UNCHANGED vars
  <2>1. StatusIsPlace' /\ NoDuplicates'
    BY <1>1, PlacesFrame DEF Places, vars, procVars, listVars
  <2>2. SwitchState'
    BY <1>1 DEF Places, SwitchState, vars, procVars, listVars
  <2> QED BY <2>1, <2>2 DEF Places
<1>2. ASSUME NEW p \in Pid \ {0}, Fork(p) PROVE Places'
  <2> DEFINE c == First(freeList)
             fl == Rest(freeList)
  <2>1. /\ c \in Pid /\ Range(freeList) = {c} \cup Range(fl)
        /\ NoDup(fl) /\ c \notin Range(fl)
    BY <1>0, <1>2, DequeuePid DEF Fork, Places, NoDuplicates
  <2> HIDE DEF c, fl
  <2>2. /\ status' = [status EXCEPT ![c] = "READY"] /\ newborn' = {c}
        /\ pc' = [pc EXCEPT ![p] = "fork", ![c] = "ret"] /\ freeList' = fl
        /\ UNCHANGED <<running, readyQueue, sleepList, semQueue, waking, unwoken, ticking>>
        /\ running = p /\ pc[p] = "user"
    BY <1>2 DEF Fork, Calling, At, c, fl
  <2>3. status[c] = "FREE" /\ c # running /\ c # 0
    BY <2>1, <1>0 DEF Places, StatusIsPlace, SwitchState
  <2>4. newborn = {}
    BY <2>2 DEF Places, SwitchState
  <2>5. StatusIsPlace'
    BY <1>0, <2>1, <2>2, <2>3, <2>4 DEF Places, StatusIsPlace
  <2>6. NoDuplicates'
    BY <2>1, <2>2 DEF Places, NoDuplicates
  <2>7. SwitchState'
    BY <1>0, <2>1, <2>2, <2>3 DEF Places, SwitchState
  <2> QED BY <2>5, <2>6, <2>7 DEF Places
<1>3. ASSUME NEW p \in Pid \ {0}, ForkEnqueue(p) PROVE Places'
  <2>1. PICK c \in newborn : readyQueue' = Enqueue(readyQueue, priority, c)
    BY <1>3 DEF ForkEnqueue
  <2>2. /\ newborn = {c} /\ status[c] = "READY" /\ c # running /\ c # 0 /\ c \in Pid
    <3>1. /\ \A d \in newborn : status[d] = "READY" /\ d # running /\ d # 0
          /\ \A d, e \in newborn : d = e
      BY DEF Places, SwitchState
    <3> QED BY <1>0, <2>1, <3>1
  <2>3. /\ Range(readyQueue') = Range(readyQueue) \cup {c} /\ NoDup(readyQueue')
    <3>1. c \notin Range(readyQueue) /\ NoDup(readyQueue)
      BY <2>2 DEF Places, StatusIsPlace, NoDuplicates
    <3> QED BY <1>0, <2>1, <2>2, <3>1, EnqueuePid
  <2>4. /\ newborn' = {} /\ pc' = [pc EXCEPT ![p] = "ret"]
        /\ UNCHANGED <<status, running, sleepList, semQueue, freeList, waking, unwoken, ticking>>
        /\ running = p
    BY <1>3 DEF ForkEnqueue, At
  <2>5. StatusIsPlace'
    BY <1>0, <2>2, <2>3, <2>4 DEF Places, StatusIsPlace
  <2>6. NoDuplicates'
    BY <2>3, <2>4 DEF Places, NoDuplicates
  <2>7. SwitchState'
    BY <1>0, <2>4 DEF Places, SwitchState
  <2> QED BY <2>5, <2>6, <2>7 DEF Places
<1>4. ASSUME NEW p \in Pid, NEW to \in {"user", "wait", "exit", "ret"},
             running = p, pc[p] # "fork", pc' = [pc EXCEPT ![p] = to],
             pc[p] \in {"user", "ret"} \/ to = "exit",
             newborn' = {} \/ newborn' = newborn, Unmasked,
             UNCHANGED <<status, running, readyQueue, sleepList, semQueue, freeList,
                         unwoken, ticking>>
      PROVE  Places'
  <2>1. newborn = {} /\ newborn' = {}
    BY <1>4 DEF Places, SwitchState
  <2>2. StatusIsPlace' /\ NoDuplicates'
    BY <1>4, <2>1, PlacesFrame DEF Places
  <2>3. SwitchState'
    BY <1>0, <1>4, <2>1 DEF Places, SwitchState, Unmasked
  <2> QED BY <2>2, <2>3 DEF Places
<1>5. ASSUME NEW p \in Pid \ {0}, Wait(p) \/ Exit(p) \/ Return(p) PROVE Places'
  <2>1. PICK to \in {"user", "wait", "exit", "ret"} : pc' = [pc EXCEPT ![p] = to]
    BY <1>5 DEF Wait, Exit, Return
  <2>2. /\ running = p /\ pc[p] \in {"user", "ret"} /\ Unmasked /\ newborn' = newborn
        /\ UNCHANGED <<status, running, readyQueue, sleepList, semQueue, freeList,
                       unwoken, ticking>>
    BY <1>5 DEF Wait, Exit, Return, Calling, At, listVars
  <2> QED BY <1>4, <2>1, <2>2
<1>6. ASSUME NEW p \in Pid \ {0}, Die(p) PROVE Places'
  <2>1. pc[p] # "fork"
    BY <1>6 DEF Die
  <2>2. /\ running = p /\ pc' = [pc EXCEPT ![p] = "exit"] /\ Unmasked /\ newborn' = {}
        /\ UNCHANGED <<status, running, readyQueue, sleepList, semQueue, freeList,
                       unwoken, ticking>>
    BY <1>6 DEF Die, listVars
  <2> QED BY <1>4, <2>1, <2>2
<1>7. ASSUME NEW p \in Pid \ {0}, NEW t \in UserPid, KillReady(p, t) \/ KillSleep(p, t)
      PROVE  Places'
  <2>1. /\ running = p /\ pc[p] = "user" /\ Unmasked /\ newborn' = newborn
        /\ pc' = [pc EXCEPT ![p] = "ret"]
        /\ UNCHANGED <<status, running, readyQueue, sleepList, semQueue, freeList,
                       unwoken, ticking>>
    BY <1>7 DEF KillReady, KillSleep, Calling, At, listVars
  <2> QED BY <1>4, <2>1
<1>8. ASSUME NEW p \in Pid \ {0}, WaitReap(p) PROVE Places'
  <2> DEFINE c == Min(Zombies(p))
  <2>1. c \in Zombies(p)
    BY <1>8, MinOfNats DEF WaitReap, Zombies
  <2> HIDE DEF c
  <2>2. /\ running = p /\ pc[p] = "wait" /\ Unmasked
        /\ status' = [status EXCEPT ![c] = "FREE"]
        /\ freeList' = PutLast(freeList, c) /\ pc' = [pc EXCEPT ![p] = "ret"]
        /\ UNCHANGED <<readyQueue, sleepList, semQueue, running, newborn, waking,
                       unwoken, ticking>>
    BY <1>8 DEF WaitReap, At, c
  <2>3. c \in Pid /\ c # 0 /\ c # running /\ status[c] = "ZOMBIE" /\ newborn = {}
    BY <2>1, <2>2 DEF Zombies, Places, SwitchState
  <2>4. Range(freeList') = Range(freeList) \cup {c} /\ NoDup(freeList')
    <3>1. c \notin Range(freeList) /\ NoDup(freeList)
      BY <2>3 DEF Places, StatusIsPlace, NoDuplicates
    <3> QED BY <1>0, <2>2, <2>3, <3>1, PutLastPid
  <2>5. StatusIsPlace'
    BY <1>0, <2>2, <2>3, <2>4 DEF Places, StatusIsPlace
  <2>6. NoDuplicates'
    BY <2>2, <2>4 DEF Places, NoDuplicates
  <2>7. SwitchState'
    BY <1>0, <2>2, <2>3 DEF Places, SwitchState, Unmasked
  <2> QED BY <2>5, <2>6, <2>7 DEF Places
<1>9. ASSUME NEW p \in Pid \ {0}, NEW e, NEW next \in {"wait", "ret"}, SleepOn(p, e, next),
             running = p, Unmasked, pc[p] \in {"user", "wait"},
             UNCHANGED <<semQueue, freeList, newborn, waking, unwoken, ticking>>
      PROVE  Places'
  <2>1. newborn = {}
    BY <1>9 DEF Places, SwitchState
  <2> QED BY <1>9, <2>1, SleepPlaces
<1>10. ASSUME NEW p \in Pid \ {0}, WaitSleep(p) \/ DevSleep(p) \/ \E y \in 1..MaxPause : Pause(p, y)
       PROVE  Places'
  <2>1. CASE WaitSleep(p)
    BY <1>9, <2>1 DEF WaitSleep, At
  <2>2. CASE DevSleep(p)
    BY <1>9, <2>2 DEF DevSleep, Calling, At
  <2>3. CASE \E y \in 1..MaxPause : Pause(p, y)
    BY <1>9, <2>3 DEF Pause, Calling, At
  <2> QED BY <1>10, <2>1, <2>2, <2>3
<1>11. ASSUME NEW p \in Pid \ {0}, Read(p) \/ ExitBlock(p) PROVE Places'
  <2>1. PICK next \in {"exit", "ret"} : BlockOn(p, next)
    BY <1>11 DEF Read, ExitBlock
  <2>2. /\ running = p /\ pc[p] \in {"user", "exit"} /\ Unmasked
        /\ UNCHANGED <<sleepList, freeList, newborn, waking, unwoken, ticking>>
    BY <1>11 DEF Read, ExitBlock, Calling, At
  <2>3. newborn = {}
    BY <2>2 DEF Places, SwitchState
  <2> QED BY <2>1, <2>2, <2>3, BlockPlaces
<1>12. ASSUME NEW p \in Pid \ {0}, ExitFinal(p) PROVE Places'
  <2>1. PICK x \in {"wakeP1", "gone"} : pc' = [pc EXCEPT ![p] = x]
    BY <1>12 DEF ExitFinal, AfterZombie
  <2>2. /\ running = p /\ pc[p] = "exit" /\ Unmasked
        /\ status' = [status EXCEPT ![p] = "ZOMBIE"]
        /\ UNCHANGED <<readyQueue, sleepList, semQueue, freeList, running, newborn,
                       unwoken, ticking>>
    BY <1>12 DEF ExitFinal, At, listVars
  <2>3. status[p] \in {"READY", "ZOMBIE"} /\ newborn = {}
    BY <2>2 DEF Places, SwitchState
  <2>4. StatusIsPlace'
    BY <1>0, <2>2, <2>3 DEF Places, StatusIsPlace
  <2>5. NoDuplicates'
    BY <2>2 DEF Places, NoDuplicates
  <2>6. SwitchState'
    BY <1>0, <2>1, <2>2, <2>3 DEF Places, SwitchState, Unmasked
  <2> QED BY <2>4, <2>5, <2>6 DEF Places
<1>13. ASSUME NEW p \in Pid \ {0}, ExitWakeP1(p) PROVE Places'
  <2>1. /\ running = p /\ pc[p] = "wakeP1" /\ Unmasked /\ pc' = [pc EXCEPT ![p] = "gone"]
        /\ UNCHANGED <<status, readyQueue, sleepList, semQueue, freeList, running,
                       newborn, unwoken, ticking>>
    BY <1>13 DEF ExitWakeP1, At, listVars
  <2>2. StatusIsPlace' /\ NoDuplicates'
    BY <2>1, PlacesFrame DEF Places
  <2>3. SwitchState'
    BY <1>0, <2>1 DEF Places, SwitchState, Unmasked
  <2> QED BY <2>2, <2>3 DEF Places
<1>14. ASSUME NEW p \in Pid \ {0}, ExitSwitch(p) PROVE Places'
  <2>1. /\ running = p /\ pc[p] = "gone" /\ Unmasked /\ LeaveCPU
        /\ UNCHANGED <<status, pc, sleepList, semQueue, freeList, newborn, waking,
                       unwoken, ticking>>
    BY <1>14 DEF ExitSwitch, At, procVars
  <2>2. status[p] = "ZOMBIE" /\ newborn = {}
    BY <1>0, <2>1 DEF Places, SwitchState
  <2>3. /\ running' \in Pid /\ running' \in Range(readyQueue)
        /\ Range(readyQueue) = {running'} \cup Range(readyQueue')
        /\ NoDup(readyQueue') /\ running' \notin Range(readyQueue')
    BY <2>1, LeaveCPUFacts DEF Places, NoDuplicates
  <2>4. StatusIsPlace'
    BY <1>0, <2>1, <2>2, <2>3 DEF Places, StatusIsPlace
  <2>5. NoDuplicates'
    BY <2>1, <2>3 DEF Places, NoDuplicates
  <2>6. status[running'] = "READY"
    BY <2>3 DEF Places, StatusIsPlace
  <2>7. SwitchState'
    BY <1>0, <2>1, <2>2, <2>6 DEF Places, SwitchState, Unmasked
  <2> QED BY <2>4, <2>5, <2>7 DEF Places
<1>15. ASSUME NEW p \in Pid, Switch(p) \/ Preempt(p) \/ (p = 0 /\ Idle) PROVE Places'
  <2>1. PICK x \in {"idle", "user", "ret"} : pc' = [pc EXCEPT ![p] = x]
    BY <1>0, <1>15 DEF Switch, Preempt, Idle, At, procVars
  <2>2. /\ running = p /\ pc[p] \in {"idle", "user"} /\ Unmasked /\ YieldCPU
        /\ UNCHANGED <<status, sleepList, semQueue, freeList, newborn, waking, unwoken, ticking>>
    BY <1>15 DEF Switch, Preempt, Idle, Calling, At, procVars
  <2>3. newborn = {} /\ status[p] = "READY"
    BY <2>2 DEF Places, SwitchState
  <2> QED BY <2>1, <2>2, <2>3, YieldPlaces
<1>16. ASSUME UNCHANGED <<status, pc, running, readyQueue, sleepList, semQueue, freeList,
                         newborn, unwoken>>,
              Unmasked, waking' = NoEvent \/ ticking' = {},
              \A p \in ticking' : status[p] = "SLEEP"
       PROVE  Places'
  <2>1. StatusIsPlace' /\ NoDuplicates'
    BY <1>16, PlacesFrame DEF Places
  <2>2. SwitchState'
    BY <1>0, <1>16 DEF Places, SwitchState, Unmasked
  <2> QED BY <2>1, <2>2 DEF Places
<1>17. ASSUME NEW p \in Pid, NEW v \in Priorities, SetPri(p, v) PROVE Places'
  BY <1>16, <1>17 DEF SetPri, Calling, At, Unmasked, listVars
<1>18. ASSUME NEW t \in UserPid, PostSignal(t) PROVE Places'
  BY <1>16, <1>18 DEF PostSignal, Unmasked, listVars
<1>19. CASE WakeDev \/ TickSecond
  BY <1>16, <1>19 DEF WakeDev, TickSecond, Unmasked, procVars, listVars
<1>20. ASSUME NEW p \in Pid \ {0}, NEW t \in UserPid, KillBlock(p, t) PROVE Places'
  <2>1. /\ running = p /\ pc[p] = "user" /\ Unmasked /\ status[t] = "BLOCK"
        /\ pc' = [pc EXCEPT ![p] = "ret"] /\ semQueue' = Unlinked(semQueue, t)
        /\ status' = [status EXCEPT ![t] = "READY"]
        /\ readyQueue' = Enqueue(readyQueue, priority, t)
        /\ UNCHANGED <<sleepList, freeList, running, newborn, waking, unwoken, ticking>>
    BY <1>20 DEF KillBlock, Calling, At
  <2>2. /\ \A q \in Pid : q \in Range(readyQueue') <=>
             status'[q] = "READY" /\ q # running' /\ q \notin newborn'
        /\ NoDup(readyQueue')
    BY <1>0, <2>1, EnterReady
  <2>3. Range(semQueue') = Range(semQueue) \ {t} /\ NoDup(semQueue')
    <3>1. t \in Pid /\ NoDup(semQueue)
      BY DEF Places, NoDuplicates
    <3>2. NoDup(Unlinked(semQueue, t)) /\ Range(Unlinked(semQueue, t)) = Range(semQueue) \ {t}
      BY <1>0, <3>1, UnlinkPid
    <3> QED BY <2>1, <3>2
  <2>4. newborn = {} /\ status[p] = "READY" /\ t # 0
    BY <2>1 DEF Places, SwitchState
  <2>5. StatusIsPlace'
    BY <1>0, <2>1, <2>2, <2>3 DEF Places, StatusIsPlace
  <2>6. NoDuplicates'
    BY <2>1, <2>2, <2>3 DEF Places, NoDuplicates
  <2>7. SwitchState'
    BY <1>0, <2>1, <2>4 DEF Places, SwitchState, Unmasked
  <2> QED BY <2>5, <2>6, <2>7 DEF Places
<1>21. CASE Unblock
  <2> DEFINE t == First(semQueue)
             sq == Rest(semQueue)
  <2>1. /\ t \in Pid /\ Range(semQueue) = {t} \cup Range(sq)
        /\ NoDup(sq) /\ t \notin Range(sq)
    BY <1>0, <1>21, DequeuePid DEF Unblock, Places, NoDuplicates
  <2> HIDE DEF t, sq
  <2>2. /\ Unmasked /\ semQueue' = sq /\ status' = [status EXCEPT ![t] = "READY"]
        /\ readyQueue' = Enqueue(readyQueue, priority, t)
        /\ UNCHANGED <<pc, sleepList, freeList, running, newborn, waking, unwoken, ticking>>
    BY <1>21 DEF Unblock, t, sq
  <2>3. status[t] = "BLOCK"
    BY <2>1 DEF Places, StatusIsPlace
  <2>4. /\ \A q \in Pid : q \in Range(readyQueue') <=>
             status'[q] = "READY" /\ q # running' /\ q \notin newborn'
        /\ NoDup(readyQueue')
    BY <1>0, <2>1, <2>2, <2>3, EnterReady
  <2>5. StatusIsPlace'
    BY <1>0, <2>1, <2>2, <2>3, <2>4 DEF Places, StatusIsPlace
  <2>6. NoDuplicates'
    BY <2>1, <2>2, <2>4 DEF Places, NoDuplicates
  <2>7. SwitchState'
    BY <1>0, <2>1, <2>2, <2>3 DEF Places, SwitchState, Unmasked
  <2> QED BY <2>5, <2>6, <2>7 DEF Places
<1>22. CASE TickStep
  <2> DEFINE t == Min(ticking)
  <2>1. t \in ticking
    BY <1>0, <1>22, MinOfNats DEF TickStep
  <2> HIDE DEF t
  <2>2. /\ ticking' = ticking \ {t} /\ ticking # {}
        /\ UNCHANGED <<pc, semQueue, freeList, running, newborn, waking, unwoken>>
    BY <1>22 DEF TickStep, t
  <2>3. /\ waking = NoEvent /\ unwoken = Nil /\ status[t] = "SLEEP" /\ t \in Pid
    BY <1>0, <2>1, <2>2 DEF Places, SwitchState
  <2>4. CASE UNCHANGED <<status, sleepList, readyQueue>>
    <3>1. StatusIsPlace' /\ NoDuplicates'
      BY <2>2, <2>4, PlacesFrame DEF Places
    <3>2. SwitchState'
      BY <2>2, <2>3, <2>4 DEF Places, SwitchState
    <3> QED BY <3>1, <3>2 DEF Places
  <2>5. CASE /\ sleepList' = Unlinked(sleepList, t)
             /\ status' = [status EXCEPT ![t] = "READY"]
             /\ priority' = [priority EXCEPT ![t] = 128]
             /\ readyQueue' = Enqueue(readyQueue, priority', t)
    <3>1. priority' \in [Pid -> Int]
      BY <1>0, <2>3, <2>5
    <3>2. /\ \A q \in Pid : q \in Range(readyQueue') <=>
               status'[q] = "READY" /\ q # running' /\ q \notin newborn'
          /\ NoDup(readyQueue')
      BY <2>2, <2>3, <2>5, <3>1, EnterReady
    <3>3. Range(sleepList') = Range(sleepList) \ {t} /\ NoDup(sleepList')
      BY <1>0, <2>3, <2>5, UnlinkPid DEF Places, NoDuplicates
    <3>4. Range(unwoken) = {}
      BY <2>3, ShortLists
    <3>5. StatusIsPlace'
      <4>1. \A q \in Pid : status'[q] = IF q = t THEN "READY" ELSE status[q]
        BY <1>0, <2>3, <2>5
      <4>2. \A q \in Pid :
              q \in Range(sleepList') \cup Range(unwoken') <=> status'[q] = "SLEEP"
        BY <2>2, <2>3, <3>3, <3>4, <4>1 DEF Places, StatusIsPlace
      <4>3. \A q \in Pid : /\ q \in Range(semQueue') <=> status'[q] = "BLOCK"
                           /\ q \in Range(freeList') <=> status'[q] = "FREE"
        BY <2>2, <2>3, <4>1 DEF Places, StatusIsPlace
      <4> QED BY <3>2, <4>2, <4>3 DEF StatusIsPlace
    <3>6. NoDuplicates'
      BY <2>2, <3>2, <3>3, <3>4 DEF Places, NoDuplicates
    <3>7. SwitchState'
      BY <1>0, <2>2, <2>3, <2>5 DEF Places, SwitchState
    <3> QED BY <3>5, <3>6, <3>7 DEF Places
  <2> QED BY <1>22, <2>4, <2>5 DEF TickStep, t
<1>23. CASE WakeStep
  <2> DEFINE t == First(sleepList)
             sl == Rest(sleepList)
  <2>1. /\ t \in Pid /\ Range(sleepList) = {t} \cup Range(sl)
        /\ NoDup(sl) /\ t \notin Range(sl)
    BY <1>0, <1>23, DequeuePid DEF WakeStep, Places, NoDuplicates
  <2> HIDE DEF t, sl
  <2>2. /\ waking # NoEvent /\ sleepList' = sl
        /\ UNCHANGED <<pc, semQueue, freeList, running, newborn, waking, ticking>>
    BY <1>23 DEF WakeStep, t, sl
  <2>3. status[t] = "SLEEP" /\ ticking = {} /\ t \notin Range(unwoken)
    BY <2>1, <2>2 DEF Places, StatusIsPlace, NoDuplicates, SwitchState
  <2>4. CASE /\ status' = [status EXCEPT ![t] = "READY"] /\ unwoken' = unwoken
             /\ readyQueue' = Enqueue(readyQueue, priority, t)
    <3>1. /\ \A q \in Pid : q \in Range(readyQueue') <=>
               status'[q] = "READY" /\ q # running' /\ q \notin newborn'
          /\ NoDup(readyQueue')
      BY <1>0, <2>1, <2>2, <2>3, <2>4, EnterReady
    <3>2. StatusIsPlace'
      BY <1>0, <2>1, <2>2, <2>3, <2>4, <3>1 DEF Places, StatusIsPlace
    <3>3. NoDuplicates'
      BY <2>1, <2>2, <2>4, <3>1 DEF Places, NoDuplicates
    <3>4. SwitchState'
      BY <1>0, <2>1, <2>2, <2>3, <2>4 DEF Places, SwitchState
    <3> QED BY <3>2, <3>3, <3>4 DEF Places
  <2>5. CASE /\ unwoken' = Enqueue(unwoken, priority, t)
             /\ UNCHANGED <<status, readyQueue>>
    <3>1. Range(unwoken') = Range(unwoken) \cup {t} /\ NoDup(unwoken')
      BY <1>0, <2>1, <2>3, <2>5, EnqueuePid DEF Places, NoDuplicates
    <3>2. StatusIsPlace'
      BY <1>0, <2>1, <2>2, <2>5, <3>1 DEF Places, StatusIsPlace
    <3>3. NoDuplicates'
      BY <2>1, <2>2, <2>5, <3>1 DEF Places, NoDuplicates
    <3>4. SwitchState'
      BY <1>0, <2>2, <2>3, <2>5 DEF Places, SwitchState
    <3> QED BY <3>2, <3>3, <3>4 DEF Places
  <2> QED BY <1>23, <2>4, <2>5 DEF WakeStep, t
<1>24. CASE WakeEnd
  <2>1. /\ waking' = NoEvent /\ sleepList = Nil /\ sleepList' = unwoken /\ unwoken' = Nil
        /\ waking # NoEvent
        /\ UNCHANGED <<status, pc, readyQueue, semQueue, freeList, running, newborn, ticking>>
    BY <1>24 DEF WakeEnd, procVars
  <2>2. Range(Nil) = {} /\ NoDup(Nil)
    BY ShortLists
  <2>3. StatusIsPlace'
    BY <2>1, <2>2 DEF Places, StatusIsPlace
  <2>4. NoDuplicates'
    BY <2>1, <2>2 DEF Places, NoDuplicates
  <2>5. SwitchState'
    BY <2>1 DEF Places, SwitchState
  <2> QED BY <2>3, <2>4, <2>5 DEF Places
<1>25. ASSUME NEW p \in Pid \ {0}, UserStep(p) PROVE Places'
  BY <1>2, <1>5, <1>7, <1>10, <1>11, <1>15, <1>17, <1>20, <1>25 DEF UserStep
<1>26. ASSUME NEW p \in Pid \ {0}, KernelStep(p) PROVE Places'
  BY <1>3, <1>5, <1>6, <1>8, <1>10, <1>11, <1>12, <1>13, <1>14, <1>26 DEF KernelStep
<1>27. CASE MaskedStep
  BY <1>22, <1>23, <1>24, <1>27 DEF MaskedStep
<1>28. CASE Interrupt
  BY <1>15, <1>18, <1>19, <1>21, <1>28 DEF Interrupt
<1>29. CASE Idle
  BY <1>15, <1>29
<1> QED BY <1>1, <1>25, <1>26, <1>27, <1>28, <1>29 DEF Next

(* No signal ends a fork() half way, nor a kexit() before it has woken P1. *)
HarmlessKills == "fork" \notin KillPoints /\ "wakeP1" \notin KillPoints

(* Every PROC is in the list its status names, and in no other: whatever mixture
   of fork, exit, wait, sleep, wakeup, kill and timer interrupts runs, a READY
   process runs, waits in readyQueue, or is the child its parent is copying. *)
THEOREM ListsCorrect ==
  ASSUME HarmlessKills PROVE Spec => []ListInv
<1>1. Init => ListInv
  BY InitType, InitPlaces DEF ListInv, Places
<1>2. ListInv /\ [Next]_vars => ListInv'
  BY HarmlessKills, NextType, NextPlaces DEF ListInv, Places, HarmlessKills
<1> QED BY <1>1, <1>2, PTL DEF Spec

THEOREM PlaceOfStatus ==
  ASSUME HarmlessKills PROVE Spec => []StatusIsPlace
BY ListsCorrect, PTL DEF ListInv

THEOREM NobodyTwice ==
  ASSUME HarmlessKills PROVE Spec => []NoDuplicates
BY ListsCorrect, PTL DEF ListInv

(* scheduler() always has somebody to dequeue: as long as another process runs,
   P0 is READY and therefore in readyQueue. *)
THEOREM SchedulerFinds ==
  ASSUME HarmlessKills PROVE Spec => []SchedulerHasNext
<1>1. ListInv => SchedulerHasNext
  <2> SUFFICES ASSUME ListInv, running # 0 PROVE readyQueue # Nil
    BY DEF SchedulerHasNext
  <2>1. 0 \in Range(readyQueue)
    BY PidFacts DEF ListInv, StatusIsPlace, SwitchState
  <2>2. Range(Nil) = {}
    BY ShortLists
  <2> QED BY <2>1, <2>2
<1> QED BY <1>1, ListsCorrect, PTL
-----------------------------------------------------------------------------
(* A step that changes no family ties, frees or buries only what is a ZOMBIE (or
   free) already, and takes nobody from the free list. *)
LEMMA FamilyFrame ==
  ASSUME TypeOK, FamilyInv, UNCHANGED <<ppid, parent>>,
         \A p \in Pid : status'[p] \in {"FREE", "ZOMBIE"} => status[p] \in {"FREE", "ZOMBIE"},
         \A p \in Pid : status[p] = "FREE" => status'[p] = "FREE",
         ~ sig'[1], pc'[1] \notin {"exit", "wakeP1", "gone"}
  PROVE  FamilyInv'
<1>1. \A c \in UserPid : c \in Pid /\ ppid[c] \in Pid
  BY PidFacts DEF TypeOK
<1>2. LiveParent'
  BY <1>1 DEF FamilyInv, LiveParent
<1>3. status'[1] \notin {"FREE", "ZOMBIE"}
  BY PidFacts DEF FamilyInv
<1> QED BY <1>2, <1>3 DEF FamilyInv

LEMMA NextFamily ==
  ASSUME ListInv, FamilyInv, [Next]_vars
  PROVE  FamilyInv'
<1> USE PidFacts
<1>0. /\ TypeOK /\ status \in [Pid -> Statuses] /\ pc \in [Pid -> Points]
      /\ ppid \in [Pid -> Pid] /\ parent \in [Pid -> Pid] /\ running \in Pid
      /\ freeList \in PidList /\ semQueue \in PidList /\ sleepList \in PidList
      /\ ticking \subseteq Pid
  BY DEF ListInv, TypeOK
<1>1. sig \in [Pid -> BOOLEAN] /\ ~ sig[1]
  BY DEF ListInv, TypeOK, FamilyInv
<1>2. pc[1] \notin {"exit", "wakeP1", "gone"} /\ status[1] \notin {"FREE", "ZOMBIE"}
  BY DEF FamilyInv
<1>3. CASE UNCHANGED vars
  BY <1>0, <1>1, <1>2, <1>3, FamilyFrame DEF vars, procVars
<1>4. ASSUME NEW p \in Pid \ {0}, Fork(p) PROVE FamilyInv'
  <2> DEFINE c == First(freeList)
  <2>1. c \in Pid /\ c \in Range(freeList)
    BY <1>0, <1>4, DequeuePid DEF Fork
  <2> HIDE DEF c
  <2>2. /\ status' = [status EXCEPT ![c] = "READY"]
        /\ ppid' = [ppid EXCEPT ![c] = p] /\ parent' = [parent EXCEPT ![c] = p]
        /\ pc' = [pc EXCEPT ![p] = "fork", ![c] = "ret"]
        /\ running = p /\ pc[p] = "user"
    BY <1>4 DEF Fork, Calling, At, c
  <2>3. status[c] = "FREE" /\ status[p] = "READY" /\ c # 1 /\ c # p
    BY <1>2, <2>1, <2>2 DEF ListInv, StatusIsPlace, SwitchState
  <2>4. LiveParent'
    <3>1. ASSUME NEW d \in UserPid, status'[d] # "FREE"
          PROVE  parent'[d] = ppid'[d] /\ ppid'[d] # 0 /\ status'[ppid'[d]] \notin {"FREE", "ZOMBIE"}
      BY <1>0, <2>1, <2>2, <2>3, <3>1 DEF FamilyInv, LiveParent
    <3> QED BY <3>1 DEF LiveParent
  <2>5. ~ sig'[1]
    BY <1>1, <1>4, <2>1, <2>3 DEF Fork, c
  <2>6. pc'[1] \notin {"exit", "wakeP1", "gone"} /\ status'[1] \notin {"FREE", "ZOMBIE"}
    BY <1>0, <1>2, <2>1, <2>2
  <2> QED BY <2>4, <2>5, <2>6 DEF FamilyInv
<1>5. ASSUME NEW p \in Pid \ {0}, ExitFinal(p) PROVE FamilyInv'
  <2> DEFINE kids == Children(p)
  <2>1. /\ \A c \in Pid : c \in kids <=> c # 0 /\ status[c] # "FREE" /\ ppid[c] = p
        /\ p # 1 /\ running = p
    BY <1>2, <1>5 DEF Children, ExitFinal, At
  <2> HIDE DEF kids
  <2>2. /\ ppid' = [c \in Pid |-> IF c \in kids THEN 1 ELSE ppid[c]]
        /\ parent' = [c \in Pid |-> IF c \in kids THEN 1 ELSE parent[c]]
        /\ status' = [status EXCEPT ![p] = "ZOMBIE"]
    BY <1>5 DEF ExitFinal, kids
  <2>3. status[p] # "FREE"
    BY <2>1 DEF ListInv, SwitchState
  <2>4. LiveParent'
    <3>1. ASSUME NEW d \in UserPid, status'[d] # "FREE"
          PROVE  parent'[d] = ppid'[d] /\ ppid'[d] # 0 /\ status'[ppid'[d]] \notin {"FREE", "ZOMBIE"}
      <4>1. d \in Pid /\ d # 0 /\ status[d] # "FREE"
        BY <1>0, <2>2, <2>3, <3>1
      <4>2. CASE d \in kids
        BY <1>0, <1>2, <2>1, <2>2, <4>1, <4>2
      <4>3. CASE d \notin kids
        <5>1. ppid[d] # p /\ ppid'[d] = ppid[d] /\ parent'[d] = parent[d]
          BY <2>1, <2>2, <4>1, <4>3
        <5> QED BY <1>0, <2>2, <4>1, <5>1 DEF FamilyInv, LiveParent
      <4> QED BY <4>2, <4>3
    <3> QED BY <3>1 DEF LiveParent
  <2>5. ~ sig'[1]
    BY <1>1, <1>5, <2>1 DEF ExitFinal
  <2>6. pc'[1] = pc[1]
    BY <1>0, <1>5, <2>1 DEF ExitFinal
  <2>7. status'[1] = status[1]
    BY <1>0, <2>1, <2>2
  <2> QED BY <1>2, <2>4, <2>5, <2>6, <2>7 DEF FamilyInv
<1>6. ASSUME NEW p \in Pid, NEW to \in {"user", "wait", "fork", "ret"},
             pc' = [pc EXCEPT ![p] = to], UNCHANGED <<status, ppid, parent>>, ~ sig'[1]
      PROVE  FamilyInv'
  BY <1>0, <1>2, <1>6, FamilyFrame
<1>7. ASSUME NEW p \in Pid \ {0}, Wait(p) \/ Return(p) \/ Switch(p) \/ ForkEnqueue(p)
      PROVE  FamilyInv'
  <2>1. PICK to \in {"user", "wait", "fork", "ret"} : pc' = [pc EXCEPT ![p] = to]
    BY <1>7 DEF Wait, Return, Switch, ForkEnqueue
  <2>2. UNCHANGED <<status, ppid, parent, sig>>
    BY <1>7 DEF Wait, Return, Switch, ForkEnqueue
  <2> QED BY <1>1, <1>6, <2>1, <2>2
<1>8. ASSUME NEW p \in Pid \ {0}, Exit(p) \/ Die(p) \/ ExitWakeP1(p) PROVE FamilyInv'
  <2>1. PICK to \in {"exit", "gone"} : pc' = [pc EXCEPT ![p] = to]
    BY <1>8 DEF Exit, Die, ExitWakeP1
  <2>2. p # 1
    BY <1>1, <1>2, <1>8 DEF Exit, Die, ExitWakeP1, At
  <2>3. UNCHANGED <<status, ppid, parent>>
    BY <1>8 DEF Exit, Die, ExitWakeP1
  <2>4. ~ sig'[1]
    BY <1>1, <1>8, <2>2 DEF Exit, Die, ExitWakeP1
  <2> QED BY <1>0, <1>2, <2>1, <2>2, <2>3, <2>4, FamilyFrame
<1>9. ASSUME NEW p \in Pid \ {0}, WaitReap(p) PROVE FamilyInv'
  <2> DEFINE c == Min(Zombies(p))
  <2>1. c \in Zombies(p)
    BY <1>9, MinOfNats DEF WaitReap, Zombies
  <2> HIDE DEF c
  <2>2. /\ c \in Pid /\ status[c] = "ZOMBIE" /\ status' = [status EXCEPT ![c] = "FREE"]
        /\ pc' = [pc EXCEPT ![p] = "ret"] /\ UNCHANGED <<ppid, parent, sig>>
    BY <1>9, <2>1 DEF WaitReap, Zombies, c
  <2> QED BY <1>0, <1>1, <1>2, <2>2, FamilyFrame
<1>10. ASSUME NEW p \in Pid \ {0}, NEW st \in {"SLEEP", "BLOCK"},
              NEW to \in {"wait", "ret", "exit"}, running = p, p = 1 => to # "exit",
              status' = [status EXCEPT ![p] = st], pc' = [pc EXCEPT ![p] = to],
              UNCHANGED <<ppid, parent, sig>>
       PROVE  FamilyInv'
  <2>1. status[p] # "FREE"
    BY <1>10 DEF ListInv, SwitchState
  <2> QED BY <1>0, <1>1, <1>2, <1>10, <2>1, FamilyFrame
<1>11. ASSUME NEW p \in Pid \ {0}, WaitSleep(p) \/ DevSleep(p) \/ \E y \in 1..MaxPause : Pause(p, y)
       PROVE  FamilyInv'
  <2>1. CASE WaitSleep(p)
    BY <1>10, <2>1 DEF WaitSleep, At, SleepOn
  <2>2. CASE DevSleep(p)
    BY <1>10, <2>2 DEF DevSleep, Calling, At, SleepOn
  <2>3. CASE \E y \in 1..MaxPause : Pause(p, y)
    BY <1>10, <2>3 DEF Pause, Calling, At, SleepOn
  <2> QED BY <1>11, <2>1, <2>2, <2>3
<1>12. ASSUME NEW p \in Pid \ {0}, Read(p) PROVE FamilyInv'
  BY <1>10, <1>12 DEF Read, Calling, At, BlockOn
<1>13. ASSUME NEW p \in Pid \ {0}, ExitBlock(p) PROVE FamilyInv'
  BY <1>2, <1>10, <1>13 DEF ExitBlock, At, BlockOn
<1>14. ASSUME UNCHANGED <<status, ppid, parent, sig, pc>> PROVE FamilyInv'
  BY <1>0, <1>1, <1>2, <1>14, FamilyFrame
<1>15. ASSUME NEW p \in Pid \ {0}, ExitSwitch(p) \/ Preempt(p) PROVE FamilyInv'
  BY <1>14, <1>15 DEF ExitSwitch, Preempt, procVars
<1>16. CASE Idle \/ WakeDev \/ TickSecond \/ WakeEnd
  BY <1>14, <1>16 DEF Idle, WakeDev, TickSecond, WakeEnd, procVars
<1>17. ASSUME NEW p \in Pid, NEW v \in Priorities, SetPri(p, v) PROVE FamilyInv'
  BY <1>14, <1>17 DEF SetPri
<1>18. ASSUME NEW p \in Pid \ {0}, NEW t \in UserPid, KillReady(p, t) \/ KillSleep(p, t)
       PROVE  FamilyInv'
  <2>1. /\ pc' = [pc EXCEPT ![p] = "ret"] /\ UNCHANGED <<status, ppid, parent>>
        /\ sig' = [sig EXCEPT ![t] = TRUE] /\ t # 1
    BY <1>18 DEF KillReady, KillSleep
  <2>2. ~ sig'[1]
    BY <1>1, <2>1
  <2> QED BY <1>6, <2>1, <2>2
<1>19. ASSUME NEW t \in UserPid, PostSignal(t) PROVE FamilyInv'
  <2>1. UNCHANGED <<status, ppid, parent, pc>> /\ sig' = [sig EXCEPT ![t] = TRUE] /\ t # 1
    BY <1>19 DEF PostSignal
  <2>2. ~ sig'[1]
    BY <1>1, <2>1
  <2> QED BY <1>0, <1>2, <2>1, <2>2, FamilyFrame
<1>20. ASSUME NEW t \in Pid, status[t] \in {"SLEEP", "BLOCK"},
              status' = [status EXCEPT ![t] = "READY"], UNCHANGED <<ppid, parent>>,
              ~ sig'[1], pc'[1] \notin {"exit", "wakeP1", "gone"}
       PROVE  FamilyInv'
  BY <1>0, <1>20, FamilyFrame
<1>21. ASSUME NEW p \in Pid \ {0}, NEW t \in UserPid, KillBlock(p, t) PROVE FamilyInv'
  <2>1. /\ status[t] = "BLOCK" /\ status' = [status EXCEPT ![t] = "READY"]
        /\ UNCHANGED <<ppid, parent>> /\ pc' = [pc EXCEPT ![p] = "ret"]
        /\ sig' = [sig EXCEPT ![t] = TRUE] /\ t # 1 /\ t \in Pid
    BY <1>21 DEF KillBlock
  <2>2. ~ sig'[1]
    BY <1>1, <2>1
  <2>3. pc'[1] \notin {"exit", "wakeP1", "gone"}
    BY <1>0, <1>2, <2>1
  <2> QED BY <1>20, <2>1, <2>2, <2>3
<1>22. CASE Unblock
  <2>1. First(semQueue) \in Pid /\ First(semQueue) \in Range(semQueue)
    BY <1>0, <1>22, DequeuePid DEF Unblock
  <2>2. status[First(semQueue)] = "BLOCK"
    BY <2>1 DEF ListInv, StatusIsPlace
  <2> QED BY <1>1, <1>2, <1>20, <1>22, <2>1, <2>2 DEF Unblock
<1>23. CASE TickStep
  <2>1. Min(ticking) \in ticking
    BY <1>0, <1>23, MinOfNats DEF TickStep
  <2>2. status[Min(ticking)] = "SLEEP"
    BY <2>1 DEF ListInv, SwitchState
  <2>3. \/ status' = status
        \/ status' = [status EXCEPT ![Min(ticking)] = "READY"]
    BY <1>23 DEF TickStep
  <2>4. UNCHANGED <<ppid, parent, sig, pc>>
    BY <1>23 DEF TickStep
  <2> QED BY <1>0, <1>1, <1>2, <1>14, <1>20, <2>1, <2>2, <2>3, <2>4
<1>24. CASE WakeStep
  <2>1. First(sleepList) \in Pid /\ First(sleepList) \in Range(sleepList)
    BY <1>0, <1>24, DequeuePid DEF WakeStep
  <2>2. status[First(sleepList)] = "SLEEP"
    BY <2>1 DEF ListInv, StatusIsPlace
  <2>3. \/ status' = status
        \/ status' = [status EXCEPT ![First(sleepList)] = "READY"]
    BY <1>24 DEF WakeStep
  <2>4. UNCHANGED <<ppid, parent, sig, pc>>
    BY <1>24 DEF WakeStep
  <2> QED BY <1>1, <1>2, <1>14, <1>20, <2>1, <2>2, <2>3, <2>4
<1>25. ASSUME NEW p \in Pid \ {0}, UserStep(p) PROVE FamilyInv'
  BY <1>4, <1>7, <1>8, <1>11, <1>12, <1>17, <1>18, <1>21, <1>25 DEF UserStep
<1>26. ASSUME NEW p \in Pid \ {0}, KernelStep(p) PROVE FamilyInv'
  BY <1>5, <1>7, <1>8, <1>9, <1>11, <1>13, <1>15, <1>26 DEF KernelStep
<1>27. CASE MaskedStep
  BY <1>16, <1>23, <1>24, <1>27 DEF MaskedStep
<1>28. CASE Interrupt
  BY <1>15, <1>16, <1>19, <1>22, <1>28 DEF Interrupt
<1> QED BY <1>3, <1>16, <1>25, <1>26, <1>27, <1>28 DEF Next

LEMMA InitFamily == Init => FamilyInv
<1> SUFFICES ASSUME Init PROVE FamilyInv
  OBVIOUS
<1>1. \A c \in UserPid : status[c] = "FREE"
  BY ProcAssumption, PidFacts DEF Init, UserPid
<1> QED BY <1>1, PidFacts DEF Init, FamilyInv, LiveParent

(* The family tree: every child, alive or ZOMBIE, has a parent that can still
   reap it; kexit() leaves no orphan behind and P1 takes them all. *)
THEOREM FamilyTree == ASSUME HarmlessKills PROVE Spec => []FamilyInv
<1>1. Init => ListInv /\ FamilyInv
  BY InitType, InitPlaces, InitFamily DEF ListInv, Places
<1>2. ListInv /\ FamilyInv /\ [Next]_vars => FamilyInv'
  BY NextFamily
<1> QED BY <1>1, <1>2, ListsCorrect, PTL DEF Spec
-----------------------------------------------------------------------------
(* A step outside kwakeup() that makes no ZOMBIE, and puts to sleep on itself only
   who has none, does not leave anybody asleep over one. *)
LEMMA MissedFrame ==
  ASSUME TypeOK, NoMissedZombie, waking = NoEvent,
         pc[running] = "wakeP1" => pc'[running'] = "wakeP1",
         \A c \in Pid : status'[c] = "ZOMBIE" => status[c] = "ZOMBIE" /\ ppid'[c] = ppid[c],
         \A q \in Pid : status'[q] = "SLEEP" /\ event'[q] = q =>
           (status[q] = "SLEEP" /\ event[q] = q) \/ Zombies(q) = {}
  PROVE  NoMissedZombie'
<1> SUFFICES ASSUME NEW q \in Pid, status'[q] = "SLEEP", event'[q] = q, Zombies(q)' # {}
             PROVE  q = 1 /\ pc'[running'] = "wakeP1"
  BY DEF NoMissedZombie
<1>1. PICK c \in 1..(NPROC - 1) : status'[c] = "ZOMBIE" /\ ppid'[c] = q
  BY DEF Zombies
<1>2. c \in Zombies(q)
  BY <1>1, PidFacts DEF Zombies
<1>3. status[q] = "SLEEP" /\ event[q] = q /\ waking # q
  BY <1>2, PidFacts
<1>4. q = 1 /\ pc[running] = "wakeP1"
  BY <1>2, <1>3 DEF NoMissedZombie
<1> QED BY <1>4

LEMMA NextMissed ==
  ASSUME HarmlessKills, ListInv, FamilyInv, NoMissedZombie, [Next]_vars
  PROVE  NoMissedZombie'
<1> USE PidFacts
<1>0. /\ TypeOK /\ status \in [Pid -> Statuses] /\ pc \in [Pid -> Points]
      /\ ppid \in [Pid -> Pid] /\ event \in [Pid -> Events] /\ running \in Pid
      /\ freeList \in PidList /\ semQueue \in PidList /\ sleepList \in PidList
      /\ ticking \subseteq Pid
  BY DEF ListInv, TypeOK
<1>1. CASE UNCHANGED vars
  BY <1>1 DEF vars, procVars, listVars, NoMissedZombie, Zombies
(* Steps of the running process that make no ZOMBIE. *)
<1>2. ASSUME NEW p \in Pid, running = p, Unmasked, pc[p] # "wakeP1",
             UNCHANGED <<ppid, event>>,
             \A c \in Pid : status'[c] # status[c] => status'[c] \notin {"SLEEP", "ZOMBIE"}
      PROVE  NoMissedZombie'
  BY <1>0, <1>2, MissedFrame DEF Unmasked
<1>3. ASSUME NEW p \in Pid, running = p, Unmasked, pc[p] # "wakeP1", UNCHANGED ppid,
             NEW e \in Events, event' = [event EXCEPT ![p] = e],
             status' = [status EXCEPT ![p] = "SLEEP"],
             e \notin Pid \/ Zombies(p) = {}
      PROVE  NoMissedZombie'
  BY <1>0, <1>3, MissedFrame DEF Unmasked
<1>4. ASSUME NEW p \in Pid \ {0}, Fork(p) PROVE NoMissedZombie'
  <2> DEFINE c == First(freeList)
  <2>1. c \in Pid
    BY <1>0, <1>4, DequeuePid DEF Fork
  <2> HIDE DEF c
  <2>2. /\ status' = [status EXCEPT ![c] = "READY"] /\ ppid' = [ppid EXCEPT ![c] = p]
        /\ pc[p] = "user" /\ running = p /\ waking = NoEvent /\ UNCHANGED event
    BY <1>4 DEF Fork, Calling, At, Unmasked, c
  <2> QED BY <1>0, <2>1, <2>2, MissedFrame
<1>5. ASSUME NEW p \in Pid \ {0},
             ForkEnqueue(p) \/ Wait(p) \/ Exit(p) \/ ExitSwitch(p) \/ Switch(p) \/ Return(p)
      PROVE  NoMissedZombie'
  <2>1. running = p /\ Unmasked /\ pc[p] # "wakeP1" /\ UNCHANGED <<status, ppid, event>>
    BY <1>5 DEF ForkEnqueue, Wait, Exit, ExitSwitch, Switch, Return, Calling, At, procVars
  <2> QED BY <1>2, <2>1
<1>6. ASSUME NEW p \in Pid \ {0}, Die(p) PROVE NoMissedZombie'
  <2>1. pc[p] # "wakeP1"
    BY <1>6 DEF Die, HarmlessKills
  <2> QED BY <1>2, <1>6, <2>1 DEF Die
<1>7. ASSUME NEW p \in Pid \ {0}, WaitReap(p) PROVE NoMissedZombie'
  <2> DEFINE c == Min(Zombies(p))
  <2>1. running = p /\ Unmasked /\ pc[p] = "wait" /\ UNCHANGED <<ppid, event>>
        /\ status' = [status EXCEPT ![c] = "FREE"]
    BY <1>7 DEF WaitReap, At, c
  <2> HIDE DEF c
  <2> QED BY <1>0, <1>2, <2>1
<1>8. ASSUME NEW p \in Pid \ {0}, WaitSleep(p) PROVE NoMissedZombie'
  <2>1. /\ running = p /\ Unmasked /\ pc[p] = "wait" /\ UNCHANGED ppid /\ Zombies(p) = {}
        /\ event' = [event EXCEPT ![p] = p] /\ status' = [status EXCEPT ![p] = "SLEEP"]
    BY <1>8 DEF WaitSleep, At, SleepOn
  <2> QED BY <1>3, <2>1, ValueFacts
<1>9. ASSUME NEW p \in Pid \ {0}, DevSleep(p) \/ \E y \in 1..MaxPause : Pause(p, y)
      PROVE  NoMissedZombie'
  <2>1. PICK e \in {DEV, PAUSE} :
          /\ running = p /\ Unmasked /\ pc[p] = "user" /\ UNCHANGED ppid
          /\ event' = [event EXCEPT ![p] = e] /\ status' = [status EXCEPT ![p] = "SLEEP"]
    BY <1>9 DEF DevSleep, Pause, Calling, At, SleepOn
  <2> QED BY <1>3, <2>1, ValueFacts
<1>10. ASSUME NEW p \in Pid \ {0}, Read(p) \/ ExitBlock(p) PROVE NoMissedZombie'
  <2>1. /\ running = p /\ Unmasked /\ pc[p] # "wakeP1" /\ UNCHANGED <<ppid, event>>
        /\ status' = [status EXCEPT ![p] = "BLOCK"]
    BY <1>10 DEF Read, ExitBlock, Calling, At, BlockOn
  <2> QED BY <1>0, <1>2, <2>1
<1>11. ASSUME NEW p \in Pid \ {0},
              \/ \E v \in Priorities : SetPri(p, v)
              \/ \E t \in UserPid : KillReady(p, t) \/ KillSleep(p, t)
       PROVE  NoMissedZombie'
  <2>1. running = p /\ Unmasked /\ pc[p] = "user" /\ UNCHANGED <<status, ppid, event>>
    BY <1>11 DEF SetPri, KillReady, KillSleep, Calling, At
  <2> QED BY <1>2, <2>1
<1>12. ASSUME NEW p \in Pid \ {0}, NEW t \in UserPid, KillBlock(p, t) PROVE NoMissedZombie'
  <2>1. /\ running = p /\ Unmasked /\ pc[p] = "user" /\ UNCHANGED <<ppid, event>>
        /\ status' = [status EXCEPT ![t] = "READY"]
    BY <1>12 DEF KillBlock, Calling, At
  <2> QED BY <1>0, <1>2, <2>1
<1>13. CASE Idle
  BY <1>2, <1>13 DEF Idle, At, procVars
<1>14. ASSUME NEW p \in Pid \ {0}, Preempt(p) PROVE NoMissedZombie'
  BY <1>2, <1>14 DEF Preempt, At, procVars
(* kexit() *)
<1>15. ASSUME NEW p \in Pid \ {0}, ExitFinal(p) PROVE NoMissedZombie'
  <2> DEFINE kids == Children(p)
  <2>1. /\ running = p /\ pc[p] = "exit" /\ waking = NoEvent /\ ticking = {}
        /\ ppid' = [c \in Pid |-> IF c \in kids THEN 1 ELSE ppid[c]]
        /\ pc' = [pc EXCEPT ![p] = IF kids # {} THEN "wakeP1" ELSE "gone"]
        /\ status' = [status EXCEPT ![p] = "ZOMBIE"] /\ waking' = parent[p]
        /\ UNCHANGED <<event, sleepList, running>>
    BY <1>15 DEF ExitFinal, At, Unmasked, AfterZombie, ParentAddress, listVars
  <2>2. p \in UserPid /\ status[p] # "FREE" /\ parent[p] = ppid[p]
    <3>1. p # 1
      BY <2>1 DEF FamilyInv
    <3>2. status[p] # "FREE"
      BY <2>1 DEF ListInv, SwitchState
    <3>3. p \in UserPid
      BY <3>1, ProcAssumption DEF Pid, UserPid
    <3> QED BY <3>2, <3>3 DEF FamilyInv, LiveParent
  <2> HIDE DEF kids
  <2> SUFFICES ASSUME NEW q \in Pid, status'[q] = "SLEEP", event'[q] = q, Zombies(q)' # {}
               PROVE  \/ waking' = q /\ q \in Range(sleepList)'
                      \/ q = 1 /\ pc'[running'] = "wakeP1"
    BY DEF NoMissedZombie
  <2>3. PICK c \in 1..(NPROC - 1) : status'[c] = "ZOMBIE" /\ ppid'[c] = q
    BY DEF Zombies
  <2>4. c \in Pid /\ status[q] = "SLEEP" /\ event[q] = q
    BY <1>0, <2>1
  <2>5. CASE c \in kids
    BY <1>0, <2>1, <2>3, <2>4, <2>5
  <2>6. CASE c \notin kids /\ c = p
    <3>1. waking' = q
      BY <2>1, <2>2, <2>3, <2>4, <2>6
    <3>2. unwoken = Nil
      BY <2>1 DEF ListInv, SwitchState
    <3>3. q \in Range(sleepList)
      BY <2>4, <3>2, ShortLists DEF ListInv, StatusIsPlace
    <3> QED BY <2>1, <3>1, <3>3
  <2>7. CASE c \notin kids /\ c # p
    <3>1. c \in Zombies(q)
      BY <1>0, <2>1, <2>3, <2>4, <2>7 DEF Zombies
    <3>2. waking = q \/ pc[running] = "wakeP1"
      BY <2>4, <3>1 DEF NoMissedZombie
    <3> QED BY <2>1, <3>2
  <2> QED BY <2>5, <2>6, <2>7
<1>16. ASSUME NEW p \in Pid \ {0}, ExitWakeP1(p) PROVE NoMissedZombie'
  <2>1. /\ running = p /\ waking = NoEvent /\ waking' = 1
        /\ UNCHANGED <<status, ppid, event, sleepList>>
    BY <1>16 DEF ExitWakeP1, At, Unmasked, listVars
  <2>2. unwoken = Nil
    BY <2>1 DEF ListInv, SwitchState
  <2>3. \A q \in Pid : status[q] = "SLEEP" => q \in Range(sleepList)
    BY <2>2, ShortLists DEF ListInv, StatusIsPlace
  <2> SUFFICES ASSUME NEW q \in Pid, status'[q] = "SLEEP", event'[q] = q, Zombies(q)' # {}
               PROVE  waking' = q /\ q \in Range(sleepList)'
    BY DEF NoMissedZombie
  <2>4. status[q] = "SLEEP" /\ event[q] = q /\ Zombies(q) # {}
    BY <2>1 DEF Zombies
  <2>5. q = 1
    BY <2>1, <2>4 DEF NoMissedZombie
  <2> QED BY <2>1, <2>3, <2>4, <2>5
(* Interrupts leave the running process where it is. *)
<1>17. ASSUME waking = NoEvent, UNCHANGED <<running, pc, ppid, event>>,
              \A c \in Pid : status'[c] # status[c] => status'[c] \notin {"SLEEP", "ZOMBIE"}
       PROVE  NoMissedZombie'
  BY <1>0, <1>17, MissedFrame
<1>18. CASE WakeDev \/ TickSecond \/ \E t \in UserPid : PostSignal(t)
  <2>1. waking = NoEvent /\ UNCHANGED <<running, pc, ppid, event, status>>
    BY <1>18 DEF WakeDev, TickSecond, PostSignal, Unmasked, procVars
  <2> QED BY <1>17, <2>1
<1>19. CASE Unblock
  <2>1. /\ waking = NoEvent /\ UNCHANGED <<running, pc, ppid, event>>
        /\ status' = [status EXCEPT ![First(semQueue)] = "READY"]
    BY <1>19 DEF Unblock, Unmasked
  <2> QED BY <1>0, <1>17, <2>1
<1>20. CASE TickStep
  <2> DEFINE p == Min(ticking)
  <2>1. waking = NoEvent
    BY <1>20 DEF TickStep, ListInv, SwitchState
  <2>2. /\ UNCHANGED <<running, pc, ppid>>
        /\ \/ UNCHANGED <<status, event>>
           \/ /\ status' = [status EXCEPT ![p] = "READY"]
              /\ event' = [event EXCEPT ![p] = NoEvent]
    BY <1>20 DEF TickStep, p
  <2> HIDE DEF p
  <2> QED BY <1>0, <2>1, <2>2, MissedFrame
(* kwakeup() *)
<1>21. CASE WakeStep
  <2> DEFINE p == First(sleepList)
  <2>1. p \in Pid /\ Range(sleepList) = {p} \cup Range(Rest(sleepList))
    BY <1>0, <1>21, DequeuePid DEF WakeStep
  <2>2. /\ UNCHANGED <<running, pc, ppid, event, waking>> /\ sleepList' = Rest(sleepList)
        /\ \/ event[p] = waking /\ status' = [status EXCEPT ![p] = "READY"]
           \/ event[p] # waking /\ UNCHANGED status
    BY <1>21 DEF WakeStep, p
  <2> HIDE DEF p
  <2> SUFFICES ASSUME NEW q \in Pid, status'[q] = "SLEEP", event'[q] = q, Zombies(q)' # {}
               PROVE  \/ waking' = q /\ q \in Range(sleepList)'
                      \/ q = 1 /\ pc'[running'] = "wakeP1"
    BY DEF NoMissedZombie
  <2>3. PICK c \in 1..(NPROC - 1) : status'[c] = "ZOMBIE" /\ ppid'[c] = q
    BY DEF Zombies
  <2>4. c \in Zombies(q) /\ status[q] = "SLEEP" /\ event[q] = q
    BY <1>0, <2>1, <2>2, <2>3 DEF Zombies
  <2>5. CASE q = 1 /\ pc[running] = "wakeP1"
    BY <2>2, <2>5
  <2>6. CASE waking = q /\ q \in Range(sleepList)
    <3>1. q # p
      BY <1>0, <2>2, <2>4, <2>6
    <3> QED BY <2>1, <2>2, <2>6, <3>1
  <2> QED BY <2>4, <2>5, <2>6 DEF NoMissedZombie
<1>22. CASE WakeEnd
  <2>1. /\ UNCHANGED <<running, pc, ppid, event, status>> /\ Range(sleepList) = {}
    BY <1>22, ShortLists DEF WakeEnd, procVars
  <2> SUFFICES ASSUME NEW q \in Pid, status'[q] = "SLEEP", event'[q] = q, Zombies(q)' # {}
               PROVE  q = 1 /\ pc'[running'] = "wakeP1"
    BY DEF NoMissedZombie
  <2>2. Zombies(q) # {}
    BY <2>1 DEF Zombies
  <2> QED BY <2>1, <2>2 DEF NoMissedZombie
<1>23. ASSUME NEW p \in Pid \ {0}, UserStep(p) PROVE NoMissedZombie'
  BY <1>4, <1>5, <1>9, <1>10, <1>11, <1>12, <1>23 DEF UserStep
<1>24. ASSUME NEW p \in Pid \ {0}, KernelStep(p) PROVE NoMissedZombie'
  BY <1>5, <1>6, <1>7, <1>8, <1>10, <1>15, <1>16, <1>24 DEF KernelStep
<1>25. CASE MaskedStep
  BY <1>20, <1>21, <1>22, <1>25 DEF MaskedStep
<1>26. CASE Interrupt
  BY <1>14, <1>18, <1>19, <1>26 DEF Interrupt
<1> QED BY <1>1, <1>13, <1>23, <1>24, <1>25, <1>26 DEF Next

(* No wakeup is lost between wait() and exit(): nobody sleeps in kwait() over a
   ZOMBIE child unless the kexit() that made it has yet to come to him. *)
THEOREM NoWakeupLost == ASSUME HarmlessKills PROVE Spec => []NoMissedZombie
<1>1. Init => NoMissedZombie
  BY PidFacts DEF Init, NoMissedZombie, Pid
<1>2. ListInv /\ FamilyInv /\ NoMissedZombie /\ [Next]_vars => NoMissedZombie'
  BY NextMissed
<1> QED BY <1>1, <1>2, ListsCorrect, FamilyTree, PTL DEF Spec
-----------------------------------------------------------------------------
(* Priorities *)

ReadySorted == SortedBy(readyQueue, priority)

(* Only the priorities of those in the list matter. *)
LEMMA SortedAgrees ==
  ASSUME NEW q \in PidList, NEW pri, NEW pri2, SortedBy(q, pri),
         \A x \in Range(q) : pri2[x] = pri[x]
  PROVE  SortedBy(q, pri2)
<1>1. \A i \in 1..Len(q) : q[i] \in Range(q)
  BY InRange DEF PidList
<1> QED BY <1>1 DEF SortedBy

(* The first has the highest. *)
LEMMA SortedFirst ==
  ASSUME NEW q \in PidList, q # Nil, NEW pri, SortedBy(q, pri)
  PROVE  /\ SortedBy(Rest(q), pri)
         /\ \A x \in Range(Rest(q)) : pri[x] <= pri[First(q)]
<1>1. /\ Len(q) \in Nat \ {0} /\ First(q) = q[1] /\ Rest(q) \in Seq(Pid)
      /\ Len(Rest(q)) = Len(q) - 1
      /\ \A i \in 1..Len(Rest(q)) : Rest(q)[i] = q[i + 1]
  BY HeadTailProperties, LenProperties, EmptySeq DEF Nil, PidList, First, Rest
<1>2. SortedBy(Rest(q), pri)
  <2> SUFFICES ASSUME NEW i \in 1..Len(Rest(q)), NEW j \in 1..Len(Rest(q)), i <= j
               PROVE  pri[Rest(q)[i]] >= pri[Rest(q)[j]]
    BY DEF SortedBy
  <2>1. i + 1 \in 1..Len(q) /\ j + 1 \in 1..Len(q) /\ i + 1 <= j + 1
    BY <1>1
  <2> QED BY <1>1, <2>1 DEF SortedBy
<1>3. ASSUME NEW x \in Range(Rest(q)) PROVE pri[x] <= pri[First(q)]
  <2>1. PICK i \in 1..Len(Rest(q)) : Rest(q)[i] = x
    BY <1>1, InRange
  <2>2. i + 1 \in 1..Len(q) /\ 1 \in 1..Len(q) /\ 1 <= i + 1 /\ x = q[i + 1]
    BY <1>1, <2>1
  <2>3. pri[q[1]] >= pri[q[i + 1]]
    BY <2>2 DEF SortedBy
  <2> QED BY <1>1, <2>2, <2>3
<1> QED BY <1>2, <1>3

(* scheduler() takes the first of a list that is sorted. *)
GivenTo == \A q \in Range(readyQueue') : priority'[q] <= priority'[running']
LEMMA NextSorted ==
  ASSUME ListInv, ReadySorted, [Next]_vars
  PROVE  ReadySorted' /\ (running' # running => GivenTo)
<1> USE PidFacts
<1>0. /\ TypeOK /\ priority \in [Pid -> Int] /\ readyQueue \in PidList
      /\ running \in Pid /\ newborn \subseteq Pid /\ ticking \subseteq Pid
      /\ semQueue \in PidList /\ sleepList \in PidList /\ freeList \in PidList
  BY DEF ListInv, TypeOK
<1>1. CASE UNCHANGED <<readyQueue, priority, running>>
  BY <1>1 DEF ReadySorted
<1>2. ASSUME NEW p \in Pid, readyQueue' = Enqueue(readyQueue, priority, p),
             UNCHANGED <<priority, running>>
      PROVE  ReadySorted' /\ (running' # running => GivenTo)
  BY <1>0, <1>2, EnqueueFacts DEF ReadySorted, PidList
<1>3. CASE LeaveCPU /\ UNCHANGED priority
  <2>1. readyQueue # Nil /\ running' = First(readyQueue) /\ readyQueue' = Rest(readyQueue)
    BY <1>3 DEF LeaveCPU
  <2> QED BY <1>0, <1>3, <2>1, SortedFirst DEF ReadySorted, GivenTo
<1>4. CASE YieldCPU /\ UNCHANGED priority
  <2> DEFINE q == Enqueue(readyQueue, priority, running)
  <2>1. running' = First(q) /\ readyQueue' = Rest(q)
    BY <1>4 DEF YieldCPU
  <2>2. q \in PidList /\ q # Nil
    BY <1>0, EnqueuePid
  <2>3. SortedBy(q, priority)
    BY <1>0, EnqueueFacts DEF ReadySorted, PidList
  <2> HIDE DEF q
  <2> QED BY <1>4, <2>1, <2>2, <2>3, SortedFirst DEF ReadySorted, GivenTo
<1>5. ASSUME NEW p \in Pid, NEW v, priority' = [priority EXCEPT ![p] = v],
             p \notin Range(readyQueue), UNCHANGED <<readyQueue, running>>
      PROVE  ReadySorted' /\ (running' # running => GivenTo)
  <2>1. \A x \in Range(readyQueue) : x \in Pid
    BY <1>0, InRange DEF PidList
  <2>2. \A x \in Range(readyQueue) : priority'[x] = priority[x]
    BY <1>0, <1>5, <2>1
  <2> QED BY <1>0, <1>5, <2>2, SortedAgrees DEF ReadySorted
<1>6. ASSUME NEW p \in Pid, UserStep(p)
      PROVE  ReadySorted' /\ (running' # running => GivenTo)
  <2>1. CASE Fork(p)
    <3>1. freeList # Nil /\ UNCHANGED <<readyQueue, running>>
          /\ priority' = [priority EXCEPT ![First(freeList)] = 1]
      BY <2>1 DEF Fork
    <3>2. First(freeList) \in Pid /\ First(freeList) \in Range(freeList)
      BY <1>0, <3>1, DequeuePid
    <3>3. First(freeList) \notin Range(readyQueue)
      BY <3>2 DEF ListInv, StatusIsPlace
    <3> QED BY <1>5, <3>1, <3>2, <3>3
  <2>2. ASSUME NEW v \in Priorities, SetPri(p, v)
        PROVE  ReadySorted' /\ (running' # running => GivenTo)
    <3>1. running = p /\ UNCHANGED <<readyQueue, running>>
          /\ priority' = [priority EXCEPT ![p] = v]
      BY <2>2 DEF SetPri, Calling, At, listVars
    <3>2. p \notin Range(readyQueue)
      BY <3>1 DEF ListInv, StatusIsPlace
    <3> QED BY <1>5, <3>1, <3>2
  <2>3. CASE Wait(p) \/ Exit(p)
    BY <1>1, <2>3 DEF Wait, Exit, listVars
  <2>4. CASE DevSleep(p) \/ Read(p) \/ \E y \in 1..MaxPause : Pause(p, y)
    BY <1>3, <2>4 DEF DevSleep, Read, Pause, SleepOn, BlockOn
  <2>5. CASE Switch(p)
    BY <1>4, <2>5 DEF Switch
  <2>6. ASSUME NEW t \in UserPid, KillReady(p, t) \/ KillSleep(p, t)
        PROVE  ReadySorted' /\ (running' # running => GivenTo)
    BY <1>1, <2>6 DEF KillReady, KillSleep, listVars
  <2>7. ASSUME NEW t \in UserPid, KillBlock(p, t)
        PROVE  ReadySorted' /\ (running' # running => GivenTo)
    BY <1>2, <2>7 DEF KillBlock
  <2> QED BY <1>6, <2>1, <2>2, <2>3, <2>4, <2>5, <2>6, <2>7 DEF UserStep
<1>7. ASSUME NEW p \in Pid, KernelStep(p)
      PROVE  ReadySorted' /\ (running' # running => GivenTo)
  <2>1. CASE ForkEnqueue(p)
    BY <1>0, <1>2, <2>1 DEF ForkEnqueue
  <2>2. CASE WaitReap(p) \/ Die(p) \/ ExitFinal(p) \/ ExitWakeP1(p) \/ Return(p)
    BY <1>1, <2>2 DEF WaitReap, Die, ExitFinal, ExitWakeP1, Return, listVars
  <2>3. CASE WaitSleep(p) \/ ExitBlock(p) \/ ExitSwitch(p)
    BY <1>3, <2>3 DEF WaitSleep, ExitBlock, ExitSwitch, SleepOn, BlockOn, procVars
  <2> QED BY <1>7, <2>1, <2>2, <2>3 DEF KernelStep
<1>8. CASE WakeStep
  <2>1. sleepList # Nil /\ UNCHANGED <<priority, running>>
        /\ (readyQueue' = Enqueue(readyQueue, priority, First(sleepList)) \/ UNCHANGED readyQueue)
    BY <1>8 DEF WakeStep
  <2>2. First(sleepList) \in Pid
    BY <1>0, <2>1, DequeuePid
  <2> QED BY <1>1, <1>2, <2>1, <2>2
<1>9. CASE TickStep
  <2> DEFINE p == Min(ticking)
  <2>1. p \in ticking
    BY <1>0, <1>9, MinOfNats DEF TickStep
  <2>2. p \in Pid /\ p \notin Range(readyQueue)
    BY <1>0, <2>1 DEF ListInv, StatusIsPlace, SwitchState
  <2>5. /\ running' = running
        /\ \/ UNCHANGED <<priority, readyQueue>>
           \/ /\ priority' = [priority EXCEPT ![p] = 128]
              /\ readyQueue' = Enqueue(readyQueue, priority', p)
    BY <1>9 DEF TickStep
  <2> HIDE DEF p
  <2>3. CASE UNCHANGED <<priority, readyQueue>>
    BY <1>1, <2>3, <2>5
  <2>4. CASE /\ priority' = [priority EXCEPT ![p] = 128]
             /\ readyQueue' = Enqueue(readyQueue, priority', p)
    <3>1. priority' \in [Pid -> Int]
      <4>1. 128 \in Int /\ priority \in [Pid -> Int]
        BY <1>0
      <4> QED BY <2>4, <4>1, Zenon
    <3>2. \A x \in Range(readyQueue) : x \in Pid /\ x # p
      BY <1>0, <2>2, InRange DEF PidList
    <3>3. SortedBy(readyQueue, priority')
      BY <1>0, <2>4, <3>2, SortedAgrees DEF ReadySorted
    <3>4. ASSUME NEW pri \in [Pid -> Int], SortedBy(readyQueue, pri)
          PROVE  SortedBy(Enqueue(readyQueue, pri, p), pri)
      BY <1>0, <2>2, <3>4, EnqueueFacts DEF PidList
    <3>5. SortedBy(readyQueue', priority')
      BY <2>4, <3>1, <3>3, <3>4
    <3> QED BY <2>5, <3>5 DEF ReadySorted
  <2> QED BY <2>3, <2>4, <2>5
<1>10. CASE WakeEnd \/ WakeDev \/ TickSecond \/ \E t \in UserPid : PostSignal(t)
  BY <1>1, <1>10 DEF WakeEnd, WakeDev, TickSecond, PostSignal, procVars, listVars
<1>11. CASE Unblock
  <2>1. First(semQueue) \in Pid
    BY <1>0, <1>11, DequeuePid DEF Unblock
  <2> QED BY <1>2, <1>11, <2>1 DEF Unblock
<1>12. CASE Idle \/ \E p \in Pid \ {0} : Preempt(p)
  BY <1>4, <1>12 DEF Idle, Preempt, procVars
<1>13. CASE UNCHANGED vars
  BY <1>1, <1>13 DEF vars, procVars, listVars
<1> QED BY <1>6, <1>7, <1>8, <1>9, <1>10, <1>11, <1>12, <1>13
        DEF Next, MaskedStep, Interrupt

(* Whoever is given the CPU, by scheduler() or by a time slice's end, has nobody
   of a higher priority waiting in readyQueue, whatever changes priorities meanwhile
   (queue.c's order, the 128 of a PROC woken from its pause, fork's 1, ksetpri). *)
THEOREM HighestFirst == ASSUME HarmlessKills PROVE Spec => HighestRuns
<1>1. Init => ReadySorted
  <2> SUFFICES ASSUME Init PROVE SortedBy(Single(1), priority)
    BY DEF Init, ReadySorted
  <2>1. Len(Single(1)) = 1 /\ Single(1)[1] = 1 /\ priority[1] = 128
    BY PidFacts DEF Single, Init
  <2> QED BY <2>1 DEF SortedBy
<1>2. ListInv /\ ReadySorted /\ [Next]_vars => ReadySorted'
  BY NextSorted
<1>3. ListInv /\ ReadySorted /\ [Next]_vars =>
        [running' # running =>
           \A q \in Range(readyQueue') : priority'[q] <= priority'[running']]_vars
  BY NextSorted DEF GivenTo
<1> QED BY <1>1, <1>2, <1>3, ListsCorrect, PTL DEF Spec, HighestRuns
=============================================================================
