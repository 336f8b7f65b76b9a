-------------------------- MODULE Services_proofs --------------------------
(***************************************************************************)
(* Theorems about the services: the console's session, for any number of   *)
(* process slots, any password file and any length of the pipelines;       *)
(* messages, for any processes; the images, for any number of them and any *)
(* program files that fit; the mutex, for any threads; the layer of system *)
(* calls, for any signals in use; the filters, for any texts.              *)
(***************************************************************************)
EXTENDS MCServices, ListFacts, FiniteSetTheorems

(* init's place in its loop tells who may be on the console: nobody when it is about
   to fork a login, and at most the one that it remembers while it waits. *)
InitKnows ==
  /\ prog[1] = "init" /\ at[1] \in {"fork", "wait"}
  /\ at[1] = "fork" => Leaders = {}
  /\ at[1] = "wait" => Leaders \subseteq {console}

SessionInv == TypeOK /\ InitKnows

(* There is a slot for init. *)
Sizes == N \in Nat \ {0} /\ MaxPipes \in Nat
-----------------------------------------------------------------------------
LEMMA SlotFacts ==
  ASSUME Sizes
  PROVE  /\ 1 \in Slot /\ Slot \subseteq Nat /\ NoPid \notin Slot /\ 0 \notin Slot
         /\ 0 \in 0..MaxPipes
BY DEF Sizes, Slot, NoPid

(* wait() finds a child that has ended. *)
LEMMA ReapedZombie ==
  ASSUME Sizes, NEW p \in Slot, Zombies(p) # {}
  PROVE  /\ Min(Zombies(p)) \in Slot \ {1}
         /\ prog[Min(Zombies(p))] = "zombie"
<1>1. Zombies(p) \subseteq Nat
  BY SlotFacts DEF Zombies, Children
<1>2. Min(Zombies(p)) \in Zombies(p)
  BY <1>1, MinOfNats
<1> QED BY <1>2 DEF Zombies, Children

(* A step of somebody else's by which nobody becomes a login or a shell who was
   neither. *)
LEMMA NoNewLeader ==
  ASSUME InitKnows, prog'[1] = prog[1], at'[1] = at[1], UNCHANGED console,
         \A p \in Slot : prog'[p] \in {"login", "sh"} => prog[p] \in {"login", "sh"}
  PROVE  InitKnows'
<1>1. Leaders' \subseteq Leaders
  BY DEF Leaders
<1> QED BY <1>1 DEF InitKnows

LEMMA ExitKeeps ==
  ASSUME Sizes, SessionInv, NEW p \in Slot \ {1}, Exits(p)
  PROVE  SessionInv'
<1>1. TypeOK'
  BY SlotFacts DEF SessionInv, TypeOK, Exits, Goes
<1>2. InitKnows'
  <2>1. prog'[1] = prog[1] /\ at'[1] = at[1] /\ UNCHANGED console
    BY SlotFacts DEF SessionInv, TypeOK, Exits, Goes
  <2>2. \A x \in Slot : prog'[x] \in {"login", "sh"} => prog[x] \in {"login", "sh"}
    BY DEF SessionInv, TypeOK, Exits
  <2> QED BY <2>1, <2>2, NoNewLeader DEF SessionInv
<1> QED BY <1>1, <1>2 DEF SessionInv

(* A fork of a command, or one that finds no slot. *)
LEMMA CommandForks ==
  ASSUME Sizes, SessionInv, NEW p \in Slot \ {1}, NEW left \in 0..MaxPipes,
         NEW then \in {"wait", "run", "stray"},
         \/ \E c \in Free :
              Born(c, p, "cmd", left) /\ at' = [at EXCEPT ![p] = then, ![c] = "start"]
         \/ Unborn /\ Goes(p, then),
         UNCHANGED console, typo' \in BOOLEAN
  PROVE  SessionInv'
<1>1. CASE Unborn /\ Goes(p, then)
  <2>1. TypeOK'
    BY <1>1 DEF SessionInv, TypeOK, Unborn, Goes
  <2>2. InitKnows'
    BY <1>1, NoNewLeader DEF SessionInv, TypeOK, Unborn, Goes
  <2> QED BY <2>1, <2>2 DEF SessionInv
<1>2. ASSUME NEW c \in Free, Born(c, p, "cmd", left),
             at' = [at EXCEPT ![p] = then, ![c] = "start"]
      PROVE  SessionInv'
  <2>1. c \in Slot \ {1}
    BY DEF Free, SessionInv, InitKnows
  <2>2. TypeOK'
    BY <1>2, <2>1 DEF SessionInv, TypeOK, Born
  <2>3. prog'[1] = prog[1] /\ at'[1] = at[1]
    BY <1>2, <2>1, SlotFacts DEF SessionInv, TypeOK, Born
  <2>4. \A x \in Slot : prog'[x] \in {"login", "sh"} => prog[x] \in {"login", "sh"}
    BY <1>2, <2>1 DEF SessionInv, TypeOK, Born
  <2>5. InitKnows'
    BY <2>3, <2>4, NoNewLeader DEF SessionInv
  <2> QED BY <2>2, <2>5 DEF SessionInv
<1> QED BY <1>1, <1>2

LEMMA InitStepKeeps ==
  ASSUME Sizes, SessionInv, InitStep
  PROVE  SessionInv'
<1> USE DEF SessionInv, InitKnows
<1>0. 1 \in Slot /\ NoPid \notin Slot
  BY SlotFacts
<1>1. ASSUME NEW c \in Free, InitFork, Born(c, 1, "login", 0),
             at' = [at EXCEPT ![1] = "wait", ![c] = "start"], console' = c
      PROVE  SessionInv'
  <2>1. c \in Slot \ {1} /\ Leaders = {}
    BY <1>1 DEF Free, InitFork, Runs
  <2>2. TypeOK'
    BY <1>0, <1>1, <2>1, SlotFacts DEF TypeOK, Born, InitFork
  <2>3. prog'[1] = "init" /\ at'[1] = "wait"
    BY <1>0, <1>1, <2>1 DEF TypeOK, Born
  <2>4. Leaders' \subseteq {console'}
    BY <1>1, <2>1 DEF TypeOK, Born, Leaders
  <2> QED BY <2>2, <2>3, <2>4
<1>2. CASE InitFork /\ Unborn /\ Goes(1, "wait") /\ console' = NoPid
  <2>1. Leaders = {} /\ Leaders' = Leaders
    BY <1>2 DEF InitFork, Runs, Unborn, Leaders
  <2> QED BY <1>0, <1>2, <2>1 DEF TypeOK, Unborn, Goes, InitFork
<1>3. CASE InitWait /\ Zombies(1) # {} /\ Reaps(1) /\ Goes(1, NextOf(Min(Zombies(1))))
  <2> DEFINE z == Min(Zombies(1))
  <2>1. z \in Slot \ {1} /\ prog[z] = "zombie"
    BY <1>0, <1>3, ReapedZombie
  <2>2. /\ prog' = [prog EXCEPT ![z] = "free"] /\ parent' = [parent EXCEPT ![z] = 1]
        /\ at' = [at EXCEPT ![1] = IF z = console THEN "fork" ELSE "wait"]
        /\ at[1] = "wait" /\ UNCHANGED <<sig, ignores, tty, pipes, console, typo>>
    BY <1>3 DEF Reaps, Goes, NextOf, InitWait, Runs
  <2> HIDE DEF z
  <2>3. TypeOK'
    BY <1>0, <2>1, <2>2 DEF TypeOK
  <2>4. Leaders' \subseteq Leaders /\ z \notin Leaders
    BY <2>1, <2>2 DEF TypeOK, Leaders
  <2>5. prog'[1] = "init" /\ at'[1] = IF z = console THEN "fork" ELSE "wait"
    BY <1>0, <2>1, <2>2 DEF TypeOK
  <2>6. Leaders \subseteq {console}
    BY <2>2
  <2> QED BY <2>2, <2>3, <2>4, <2>5, <2>6
<1>4. CASE InitWait /\ UNCHANGED <<prog, parent>> /\ Goes(1, NextOf(NoPid))
  <2>1. Leaders' = Leaders /\ Leaders \subseteq {console} /\ Leaders \subseteq Slot
    BY <1>4 DEF InitWait, Runs, Leaders
  <2>2. TypeOK'
    BY <1>0, <1>4 DEF TypeOK, Goes, NextOf, InitWait
  <2>3. at'[1] = IF NoPid = console THEN "fork" ELSE "wait"
    BY <1>0, <1>4 DEF TypeOK, Goes, NextOf
  <2> QED BY <1>0, <1>4, <2>1, <2>2, <2>3 DEF InitWait
<1> QED BY <1>1, <1>2, <1>3, <1>4 DEF InitStep, InitFork, InitWait

LEMMA SessionStep ==
  ASSUME Sizes, SessionInv, [Next]_vars
  PROVE  SessionInv'
<1>1. CASE UNCHANGED vars
  BY <1>1 DEF vars, SessionInv, TypeOK, InitKnows, Leaders
<1>2. CASE InitStep
  BY <1>2, InitStepKeeps
<1>3. CASE ControlC
  <2>1. TypeOK'
    BY <1>3 DEF SessionInv, TypeOK, ControlC
  <2>2. InitKnows'
    BY <1>3, NoNewLeader DEF SessionInv, ControlC
  <2> QED BY <2>1, <2>2 DEF SessionInv
<1>4. ASSUME NEW p \in Slot \ {1},
             \/ Calls(p) \/ Ignore(p) \/ Die(p) \/ ShellExit(p)
             \/ \E k \in 0..MaxPipes : ShellFork(p, k)
      PROVE  SessionInv'
  <2>1. CASE LoginTty(p) \/ ShellStart(p) \/ Exec(p) \/ Ignore(p)
    <3>0. /\ UNCHANGED <<prog, parent, pipes, console, typo>>
          /\ \/ UNCHANGED at
             \/ \E then \in {"ask", "prompt", "run"} : at' = [at EXCEPT ![p] = then]
          /\ UNCHANGED tty \/ tty' = [tty EXCEPT ![p] = TRUE]
          /\ UNCHANGED ignores \/ ignores' = [ignores EXCEPT ![p] = TRUE]
          /\ UNCHANGED sig \/ sig' = [sig EXCEPT ![p] = FALSE]
      BY <2>1 DEF LoginTty, ShellStart, Exec, Ignore, Goes
    <3>1. TypeOK'
      <4>1. at' \in [Slot -> {"fork", "wait", "start", "ask", "prompt", "run", "stray"}]
        BY <3>0 DEF SessionInv, TypeOK
      <4>2. tty' \in [Slot -> BOOLEAN]
        BY <3>0 DEF SessionInv, TypeOK
      <4>3. ignores' \in [Slot -> BOOLEAN]
        BY <3>0 DEF SessionInv, TypeOK
      <4>4. sig' \in [Slot -> BOOLEAN]
        BY <3>0 DEF SessionInv, TypeOK
      <4> QED BY <3>0, <4>1, <4>2, <4>3, <4>4 DEF SessionInv, TypeOK
    <3>2. at'[1] = at[1] /\ UNCHANGED <<prog, console>>
      BY <3>0, SlotFacts DEF SessionInv, TypeOK
    <3> QED BY <3>1, <3>2, NoNewLeader DEF SessionInv
  <2>2. CASE Login(p)
    <3>1. TypeOK'
      BY <2>2 DEF SessionInv, TypeOK, Login, Goes
    <3>2. prog'[1] = prog[1] /\ at'[1] = at[1] /\ UNCHANGED console
      BY <2>2, SlotFacts DEF SessionInv, TypeOK, Login, Goes
    <3>3. \A x \in Slot : prog'[x] \in {"login", "sh"} => prog[x] \in {"login", "sh"}
      BY <2>2 DEF SessionInv, TypeOK, Login, Runs
    <3> QED BY <3>1, <3>2, <3>3, NoNewLeader DEF SessionInv
  <2>3. CASE ShellWait(p)
    <3>1. \/ \E z \in Slot \ {1} : /\ prog' = [prog EXCEPT ![z] = "free"]
                                   /\ parent' = [parent EXCEPT ![z] = 1]
          \/ UNCHANGED <<prog, parent>>
      BY <2>3, ReapedZombie DEF ShellWait, Reaps
    <3>2. Goes(p, "prompt") /\ UNCHANGED <<sig, ignores, tty, pipes, console, typo>>
      BY <2>3 DEF ShellWait
    <3>3. TypeOK'
      BY <3>1, <3>2, SlotFacts DEF SessionInv, TypeOK, Goes
    <3>4. prog'[1] = prog[1] /\ at'[1] = at[1]
      BY <3>1, <3>2, SlotFacts DEF SessionInv, TypeOK, Goes
    <3>5. \A x \in Slot : prog'[x] \in {"login", "sh"} => prog[x] \in {"login", "sh"}
      BY <3>1 DEF SessionInv, TypeOK
    <3> QED BY <3>2, <3>3, <3>4, <3>5, NoNewLeader DEF SessionInv
  <2>4. CASE DoPipe(p)
    <3>1. pipes[p] - 1 \in 0..MaxPipes
      BY <2>4 DEF DoPipe, SessionInv, TypeOK, Sizes
    <3> QED BY <2>4, <3>1, CommandForks DEF DoPipe, SessionInv, TypeOK
  <2>5. CASE Mistyped(p)
    BY <2>5, SlotFacts, CommandForks DEF Mistyped
  <2>6. CASE CmdExit(p) \/ Die(p) \/ ShellExit(p)
    BY <2>6, ExitKeeps DEF CmdExit, Die, ShellExit
  <2>7. ASSUME NEW k \in 0..MaxPipes, ShellFork(p, k)
        PROVE  SessionInv'
    BY <2>7, CommandForks DEF ShellFork, SessionInv, TypeOK
  <2> QED BY <1>4, <2>1, <2>2, <2>3, <2>4, <2>5, <2>6, <2>7 DEF Calls
<1> QED BY <1>1, <1>2, <1>3, <1>4 DEF Next

LEMMA SessionStarts == ASSUME Sizes, Init PROVE SessionInv
<1>1. TypeOK
  BY SlotFacts DEF Init, TypeOK
<1>2. prog[1] = "init" /\ at[1] = "fork" /\ Leaders = {}
  BY SlotFacts DEF Init, Leaders
<1> QED BY <1>1, <1>2 DEF SessionInv, InitKnows

LEMMA SessionInvariant == ASSUME Sizes PROVE Spec => []SessionInv
<1>1. Init => SessionInv
  BY SessionStarts
<1>2. SessionInv /\ [Next]_vars => SessionInv'
  BY SessionStep
<1> QED BY <1>1, <1>2, PTL DEF Spec

(* There is never more than one login or shell on the console, whoever dies of a
   Control-C, exits or leaves orphans to init, however many slots there are: init
   forks a login only for the one whose pid it remembers (user/siinit.c). *)
THEOREM OneLogin == ASSUME Sizes PROVE Spec => []OneSession
<1>1. SessionInv => OneSession
  <2> SUFFICES ASSUME SessionInv PROVE Cardinality(Leaders) <= 1
    BY DEF OneSession
  <2>1. Leaders = {} \/ Leaders = {console}
    BY DEF SessionInv, InitKnows
  <2>2. Cardinality({}) = 0 /\ Cardinality({console}) = 1
    BY FS_EmptySet, FS_Singleton
  <2> QED BY <2>1, <2>2
<1> QED BY <1>1, SessionInvariant, PTL
-----------------------------------------------------------------------------
(* Messages: who is where *)

(* Who waits for the lock and who has it, with f for where the processes are. *)
Sending(f) == {u \in Mailer : f[u] = "sending"}
Inside(f) == {u \in Mailer : f[u] = "inside"}
Stages == {"free", "out", "sending", "inside", "receiving", "taking", "astray"}

LEMMA Finite ==
  ASSUME NEW f
  PROVE  /\ IsFiniteSet(Sending(f)) /\ Cardinality(Sending(f)) \in Nat
         /\ IsFiniteSet(Inside(f)) /\ Cardinality(Inside(f)) \in Nat
<1>1. IsFiniteSet(Sending(f)) /\ IsFiniteSet(Inside(f))
  BY MailSizes, FS_Subset DEF Sending, Inside
<1> QED BY <1>1, FS_CardinalityType

(* One process enters, queues, leaves or is let in. *)
LEMMA Enters ==
  ASSUME NEW f \in [Mailer -> Stages], NEW p \in Mailer, f[p] \notin {"sending", "inside"},
         NEW g, g = [f EXCEPT ![p] = "inside"]
  PROVE  /\ g \in [Mailer -> Stages] /\ Sending(g) = Sending(f)
         /\ Cardinality(Inside(g)) = Cardinality(Inside(f)) + 1
<1>1. Inside(g) = Inside(f) \cup {p} /\ p \notin Inside(f) /\ Sending(g) = Sending(f)
  BY DEF Inside, Sending
<1>2. Cardinality(Inside(g)) = Cardinality(Inside(f)) + 1
  BY <1>1, Finite, FS_AddElement
<1> QED BY <1>1, <1>2 DEF Stages

LEMMA QueuesUp ==
  ASSUME NEW f \in [Mailer -> Stages], NEW p \in Mailer, f[p] \notin {"sending", "inside"},
         NEW g, g = [f EXCEPT ![p] = "sending"]
  PROVE  /\ g \in [Mailer -> Stages] /\ Inside(g) = Inside(f)
         /\ Sending(g) = Sending(f) \cup {p} /\ p \notin Sending(f)
         /\ Cardinality(Sending(g)) = Cardinality(Sending(f)) + 1
<1>1. Sending(g) = Sending(f) \cup {p} /\ p \notin Sending(f) /\ Inside(g) = Inside(f)
  BY DEF Inside, Sending
<1>2. Cardinality(Sending(g)) = Cardinality(Sending(f)) + 1
  BY <1>1, Finite, FS_AddElement
<1> QED BY <1>1, <1>2 DEF Stages

LEMMA GoesOut ==
  ASSUME NEW f \in [Mailer -> Stages], NEW p \in Mailer, f[p] = "inside",
         NEW g, g = [f EXCEPT ![p] = "out"]
  PROVE  /\ g \in [Mailer -> Stages] /\ Sending(g) = Sending(f)
         /\ Cardinality(Inside(g)) = Cardinality(Inside(f)) - 1
<1>1. Inside(g) = Inside(f) \ {p} /\ p \in Inside(f) /\ Sending(g) = Sending(f)
  BY DEF Inside, Sending
<1>2. Cardinality(Inside(g)) = Cardinality(Inside(f)) - 1
  BY <1>1, Finite, FS_RemoveElement
<1> QED BY <1>1, <1>2 DEF Stages

LEMMA LetIn ==
  ASSUME NEW f \in [Mailer -> Stages], NEW p \in Mailer, f[p] = "sending",
         NEW g, g = [f EXCEPT ![p] = "inside"]
  PROVE  /\ g \in [Mailer -> Stages] /\ Sending(g) = Sending(f) \ {p}
         /\ Cardinality(Sending(g)) = Cardinality(Sending(f)) - 1
         /\ Cardinality(Inside(g)) = Cardinality(Inside(f)) + 1
<1>1. /\ Sending(g) = Sending(f) \ {p} /\ p \in Sending(f)
      /\ Inside(g) = Inside(f) \cup {p} /\ p \notin Inside(f)
  BY DEF Inside, Sending
<1>2. Cardinality(Sending(g)) = Cardinality(Sending(f)) - 1
  BY <1>1, Finite, FS_RemoveElement
<1>3. Cardinality(Inside(g)) = Cardinality(Inside(f)) + 1
  BY <1>1, Finite, FS_AddElement
<1> QED BY <1>1, <1>2, <1>3 DEF Stages

(* Messages' lists are those of the lemmas. *)
LEMMA SameLists ==
  /\ \A q : Mail!Range(q) = Range(q) /\ (Mail!NoDup(q) <=> NoDup(q))
  /\ \A q : Mail!First(q) = First(q) /\ Mail!Rest(q) = Rest(q)
  /\ \A q, p : Mail!Unlinked(q, p) = Unlinked(q, p)
BY DEF Mail!Range, Range, Mail!NoDup, NoDup, Mail!First, First, Mail!Rest, Rest,
       Mail!Unlinked, Unlinked, Mail!RemoveFirst, RemoveFirst, Mail!SelectInSeq,
       SelectInSeq, Mail!RemoveAt, RemoveAt, Mail!Min, Min

Lock == [value : Int, queue : Seq(Mailer)]

(* As long as the lock's queue is not empty as many are inside as have been killed. *)
LockCounts(f, lock, k) ==
  /\ lock.value + Cardinality(Sending(f)) + Cardinality(Inside(f)) = k
  /\ Cardinality(Sending(f)) = IF lock.value < 0 THEN - lock.value ELSE 0
LockQueues(f, lock) == Range(lock.queue) = Sending(f) /\ NoDup(lock.queue)
LockInv(f, lock, k) ==
  f \in [Mailer -> Stages] /\ lock \in Lock /\ LockCounts(f, lock, k) /\ LockQueues(f, lock)

MailInv ==
  /\ Mail!TypeOK
  /\ LockInv(where, mlock, kills)
  /\ \A p \in Mailer : message[p] = IF where[p] = "receiving" THEN - 1 ELSE 0

(* A process that has nothing to do with the lock, before or after. *)
LEMMA MovesBeside ==
  ASSUME NEW f, NEW lock, NEW k \in Nat, LockInv(f, lock, k), NEW p \in Mailer,
         NEW x \in Stages \ {"sending", "inside"}, f[p] \notin {"sending", "inside"}
  PROVE  LockInv([f EXCEPT ![p] = x], lock, k)
<1> DEFINE g == [f EXCEPT ![p] = x]
<1>1. g \in [Mailer -> Stages]
  BY DEF LockInv
<1>2. Sending(g) = Sending(f) /\ Inside(g) = Inside(f)
  BY DEF LockInv, Sending, Inside
<1> QED BY <1>1, <1>2 DEF LockInv, LockCounts, LockQueues

(* P() of a sender. *)
LEMMA SenderComes ==
  ASSUME NEW f, NEW lock, NEW k \in Nat, LockInv(f, lock, k), NEW p \in Mailer, f[p] = "out"
  PROVE  /\ lock.value > 0 =>
              LockInv([f EXCEPT ![p] = "inside"], [lock EXCEPT !.value = @ - 1], k)
         /\ ~ (lock.value > 0) =>
              LockInv([f EXCEPT ![p] = "sending"],
                      [value |-> lock.value - 1, queue |-> Append(lock.queue, p)], k)
<1> DEFINE v == lock.value
           g == [f EXCEPT ![p] = "inside"]
           h == [f EXCEPT ![p] = "sending"]
           lg == [lock EXCEPT !.value = @ - 1]
           lh == [value |-> v - 1, queue |-> Append(lock.queue, p)]
<1>1. f \in [Mailer -> Stages] /\ lock \in Lock /\ v \in Int /\ lock.queue \in Seq(Mailer)
  BY DEF LockInv, Lock
<1>2. ASSUME v > 0 PROVE LockInv(g, lg, k)
  <2>1. /\ g \in [Mailer -> Stages] /\ Sending(g) = Sending(f)
        /\ Cardinality(Inside(g)) = Cardinality(Inside(f)) + 1
    BY <1>1, Enters
  <2>2. lg \in Lock /\ lg.value = v - 1 /\ lg.queue = lock.queue
    BY <1>1 DEF Lock
  <2>3. LockCounts(g, lg, k)
    <3> HIDE DEF g, lg
    <3>1. LockCounts(f, lock, k)
      BY DEF LockInv
    <3> QED BY <1>1, <1>2, <2>1, <2>2, <3>1, Finite DEF LockCounts
  <2> QED BY <2>1, <2>2, <2>3 DEF LockInv, LockQueues
<1>3. ASSUME ~ (v > 0) PROVE LockInv(h, lh, k)
  <2>1. /\ h \in [Mailer -> Stages] /\ Inside(h) = Inside(f)
        /\ Sending(h) = Sending(f) \cup {p} /\ p \notin Sending(f)
        /\ Cardinality(Sending(h)) = Cardinality(Sending(f)) + 1
    BY <1>1, QueuesUp
  <2>2. lh \in Lock /\ lh.value = v - 1 /\ lh.queue = PutLast(lock.queue, p)
    BY <1>1, PutLastFacts DEF Lock, PutLast
  <2>3. LockCounts(h, lh, k)
    <3> HIDE DEF h, lh
    <3>1. LockCounts(f, lock, k)
      BY DEF LockInv
    <3> QED BY <1>1, <1>3, <2>1, <2>2, <3>1, Finite DEF LockCounts
  <2>4. p \notin Range(lock.queue) /\ NoDup(lock.queue) /\ Range(lock.queue) = Sending(f)
    BY <2>1 DEF LockInv, LockQueues
  <2>5. /\ Range(PutLast(lock.queue, p)) = Range(lock.queue) \cup {p}
        /\ NoDup(PutLast(lock.queue, p))
    BY <1>1, <2>4, PutLastFacts
  <2>6. LockQueues(h, lh)
    <3> HIDE DEF h, lh
    <3> QED BY <2>1, <2>2, <2>4, <2>5 DEF LockQueues
  <2> QED BY <2>1, <2>2, <2>3, <2>6 DEF LockInv
<1> QED BY <1>2, <1>3

(* V() of a sender that was inside: it lets the first of the queue in, if there is one. *)
LEMMA SenderGoes ==
  ASSUME NEW f, NEW lock, NEW k \in Nat, LockInv(f, lock, k), NEW p \in Mailer,
         f[p] = "inside"
  PROVE  /\ lock.value + 1 <= 0 =>
              LockInv([f EXCEPT ![p] = "out", ![First(lock.queue)] = "inside"],
                      [value |-> lock.value + 1, queue |-> Rest(lock.queue)], k)
         /\ ~ (lock.value + 1 <= 0) =>
              LockInv([f EXCEPT ![p] = "out"], [lock EXCEPT !.value = lock.value + 1], k)
<1> DEFINE v == lock.value
           g == [f EXCEPT ![p] = "out"]
           lg == [lock EXCEPT !.value = v + 1]
           w == First(lock.queue)
           h == [g EXCEPT ![w] = "inside"]
           lh == [value |-> v + 1, queue |-> Rest(lock.queue)]
<1>1. f \in [Mailer -> Stages] /\ lock \in Lock /\ v \in Int /\ lock.queue \in Seq(Mailer)
  BY DEF LockInv, Lock
<1>2. /\ g \in [Mailer -> Stages] /\ Sending(g) = Sending(f)
      /\ Cardinality(Inside(g)) = Cardinality(Inside(f)) - 1
  BY <1>1, GoesOut
<1>3. ASSUME ~ (v + 1 <= 0) PROVE LockInv(g, lg, k)
  <2>1. lg \in Lock /\ lg.value = v + 1 /\ lg.queue = lock.queue
    BY <1>1 DEF Lock
  <2>2. LockCounts(g, lg, k)
    <3> HIDE DEF g, lg
    <3>1. LockCounts(f, lock, k)
      BY DEF LockInv
    <3> QED BY <1>1, <1>2, <1>3, <2>1, <3>1, Finite DEF LockCounts
  <2> QED BY <1>2, <2>1, <2>2 DEF LockInv, LockQueues
<1>4. ASSUME v + 1 <= 0
      PROVE  LockInv([f EXCEPT ![p] = "out", ![w] = "inside"], lh, k)
  <2>1. Cardinality(Sending(f)) # 0
    BY <1>1, <1>4 DEF LockInv, LockCounts
  <2>2. Sending(f) # {}
    BY <2>1, FS_EmptySet
  <2>3. lock.queue # Nil
    BY <2>2, NilFacts DEF LockInv, LockQueues
  <2>4. /\ w \in Mailer /\ Rest(lock.queue) \in Seq(Mailer) /\ NoDup(Rest(lock.queue))
        /\ Sending(f) = {w} \cup Range(Rest(lock.queue))
        /\ w \notin Range(Rest(lock.queue))
    BY <1>1, <2>3, DequeueFacts DEF LockInv, LockQueues
  <2>5. w \in Sending(g)
    BY <1>2, <2>4
  <2>6. g[w] = "sending"
    BY <2>5 DEF Sending
  <2> HIDE DEF g, w
  <2>7. /\ h \in [Mailer -> Stages] /\ Sending(h) = Sending(g) \ {w}
        /\ Cardinality(Sending(h)) = Cardinality(Sending(g)) - 1
        /\ Cardinality(Inside(h)) = Cardinality(Inside(g)) + 1
    BY <1>2, <2>4, <2>6, LetIn
  <2>8. lh \in Lock /\ lh.value = v + 1 /\ lh.queue = Rest(lock.queue)
    BY <1>1, <2>4 DEF Lock
  <2>9. LockCounts(h, lh, k)
    <3> HIDE DEF h, lh
    <3>1. LockCounts(f, lock, k)
      BY DEF LockInv
    <3> QED BY <1>1, <1>2, <1>4, <2>7, <2>8, <3>1, Finite DEF LockCounts
  <2>10. LockQueues(h, lh)
    BY <1>2, <2>4, <2>7, <2>8 DEF LockQueues
  <2>11. h = [f EXCEPT ![p] = "out", ![w] = "inside"]
    BY DEF g
  <2> QED BY <2>7, <2>8, <2>9, <2>10, <2>11 DEF LockInv
<1> QED BY <1>3, <1>4

(* kkill() of a sender that waits. *)
LEMMA SenderKilled ==
  ASSUME NEW f, NEW lock, NEW k \in Nat, LockInv(f, lock, k), NEW p \in Mailer,
         f[p] = "sending"
  PROVE  LockInv([f EXCEPT ![p] = "inside"],
                 [value |-> lock.value + 1, queue |-> Unlinked(lock.queue, p)], k + 1)
<1> DEFINE v == lock.value
           g == [f EXCEPT ![p] = "inside"]
           lg == [value |-> v + 1, queue |-> Unlinked(lock.queue, p)]
<1>1. f \in [Mailer -> Stages] /\ lock \in Lock /\ v \in Int /\ lock.queue \in Seq(Mailer)
  BY DEF LockInv, Lock
<1>2. /\ g \in [Mailer -> Stages] /\ Sending(g) = Sending(f) \ {p}
      /\ Cardinality(Sending(g)) = Cardinality(Sending(f)) - 1
      /\ Cardinality(Inside(g)) = Cardinality(Inside(f)) + 1
  BY <1>1, LetIn
<1>3. lg \in Lock /\ lg.value = v + 1 /\ lg.queue = Unlinked(lock.queue, p)
  BY <1>1, UnlinkedFacts DEF Lock
<1>4. Cardinality(Sending(f)) # 0
  <2>1. p \in Sending(f)
    BY DEF Sending
  <2> QED BY <2>1, Finite, FS_EmptySet
<1>5. LockCounts(g, lg, k + 1)
  <2> HIDE DEF g, lg
  <2>1. LockCounts(f, lock, k)
    BY DEF LockInv
  <2> QED BY <1>1, <1>2, <1>3, <1>4, <2>1, Finite DEF LockCounts
<1>6. LockQueues(g, lg)
  BY <1>1, <1>2, <1>3, UnlinkedFacts DEF LockInv, LockQueues
<1> QED BY <1>2, <1>3, <1>5, <1>6 DEF LockInv

(* The first in the queue of a lock that somebody waits for. *)
LEMMA FirstSends ==
  ASSUME NEW f, NEW lock, NEW k \in Nat, LockInv(f, lock, k), lock.value < 0
  PROVE  f[First(lock.queue)] = "sending"
<1>1. lock.value \in Int /\ lock.queue \in Seq(Mailer)
  BY DEF LockInv, Lock
<1>2. Cardinality(Sending(f)) # 0
  BY <1>1 DEF LockInv, LockCounts
<1>3. lock.queue # Nil /\ Range(lock.queue) = Sending(f)
  BY <1>2, FS_EmptySet, NilFacts DEF LockInv, LockQueues
<1>4. Range(lock.queue) = {First(lock.queue)} \cup Range(Rest(lock.queue))
  BY <1>1, <1>3, DequeueFacts
<1>5. First(lock.queue) \in Sending(f)
  BY <1>3, <1>4
<1> QED BY <1>5 DEF Sending

(* What is left of a step when the lock's part is done. *)
LEMMA LockTyped ==
  ASSUME NEW f, NEW lock, NEW k, LockInv(f, lock, k)
  PROVE  f \in [Mailer -> Stages] /\ lock \in [value : Int, queue : Seq(Mailer)]
BY DEF LockInv, Lock

LEMMA MailStep ==
  ASSUME MailInv, [Mail!Next]_mail
  PROVE  MailInv'
<1> USE MailSizes
<1>0. /\ where \in [Mailer -> Stages] /\ dies \in [Mailer -> BOOLEAN]
      /\ message \in [Mailer -> Int] /\ mqueue \in [Mailer -> {"null", "word"}]
      /\ kills \in 0..MaxKills /\ kills \in Nat /\ LockInv(where, mlock, kills)
      /\ \A q \in Mailer : message[q] = IF where[q] = "receiving" THEN - 1 ELSE 0
  BY DEF MailInv, Mail!TypeOK, Stages
<1>1. SUFFICES /\ dies' \in [Mailer -> BOOLEAN]
               /\ message' \in [Mailer -> Int] /\ mqueue' \in [Mailer -> {"null", "word"}]
               /\ kills' \in 0..MaxKills /\ LockInv(where', mlock', kills')
               /\ \A q \in Mailer : message'[q] = IF where'[q] = "receiving" THEN - 1 ELSE 0
  BY LockTyped DEF MailInv, Mail!TypeOK, Stages
<1>2. CASE UNCHANGED mail
  BY <1>0, <1>2 DEF mail
<1>3. ASSUME NEW p \in Mailer,
             Mail!Born(p) \/ Mail!Dies(p) \/ Mail!Receive(p) \/ Mail!Take(p)
      PROVE  <1>1!1
  <2>1. PICK x \in {"free", "out", "receiving", "taking", "astray"} :
          where' = [where EXCEPT ![p] = x]
    BY <1>3 DEF Mail!Born, Mail!Dies, Mail!Receive, Mail!Take
  <2>2. where[p] \notin {"sending", "inside"} /\ UNCHANGED <<mlock, kills>>
    BY <1>3 DEF Mail!Born, Mail!Dies, Mail!Receive, Mail!Take
  <2>3. LockInv(where', mlock', kills')
    BY <1>0, <2>1, <2>2, MovesBeside DEF Stages
  <2>4. dies' \in [Mailer -> BOOLEAN] /\ mqueue' \in [Mailer -> {"null", "word"}]
    BY <1>0, <1>3 DEF Mail!Born, Mail!Dies, Mail!Receive, Mail!Take
  <2>5. /\ message' \in [Mailer -> Int]
        /\ \A q \in Mailer : message'[q] = IF where'[q] = "receiving" THEN - 1 ELSE 0
    <3>1. CASE Mail!Born(p)
      BY <1>0, <3>1 DEF Mail!Born
    <3>2. CASE Mail!Dies(p)
      BY <1>0, <3>2 DEF Mail!Dies
    <3>3. CASE Mail!Receive(p)
      BY <1>0, <3>3 DEF Mail!Receive
    <3>4. CASE Mail!Take(p)
      BY <1>0, <3>4 DEF Mail!Take
    <3> QED BY <1>3, <3>1, <3>2, <3>3, <3>4
  <2> QED BY <1>0, <2>2, <2>3, <2>4, <2>5
<1>4. ASSUME NEW p \in Mailer, Mail!Send(p)
      PROVE  <1>1!1
  <2>0. where[p] = "out" /\ kills' = kills
    BY <1>4 DEF Mail!Send
  <2>1. LockInv(where', mlock', kills')
    <3>1. CASE mlock.value > 0
      <4>1. LockInv([where EXCEPT ![p] = "inside"], [mlock EXCEPT !.value = @ - 1], kills)
        BY <1>0, <2>0, <3>1, SenderComes
      <4> QED BY <1>4, <2>0, <3>1, <4>1 DEF Mail!Send
    <3>2. CASE ~ (mlock.value > 0)
      <4>1. LockInv([where EXCEPT ![p] = "sending"],
                    [value |-> mlock.value - 1, queue |-> Append(mlock.queue, p)], kills)
        BY <1>0, <2>0, <3>2, SenderComes
      <4> QED BY <1>4, <2>0, <3>2, <4>1 DEF Mail!Send
    <3> QED BY <3>1, <3>2
  <2>2. UNCHANGED <<dies, message, mqueue, kills>>
    BY <1>4 DEF Mail!Send
  <2>3. \A q \in Mailer : where'[q] = "receiving" <=> where[q] = "receiving"
    BY <1>0, <1>4 DEF Mail!Send
  <2> QED BY <1>0, <2>1, <2>2, <2>3
<1>5. ASSUME NEW p \in Mailer, Mail!NoBuffer(p)
      PROVE  <1>1!1
  <2>1. where[p] = "inside" /\ UNCHANGED <<dies, message, mqueue, kills>>
    BY <1>5 DEF Mail!NoBuffer
  <2>2. CASE mlock.value + 1 <= 0
    <3>1. /\ where' = [where EXCEPT ![p] = "out", ![First(mlock.queue)] = "inside"]
          /\ mlock' = [value |-> mlock.value + 1, queue |-> Rest(mlock.queue)]
      BY <1>5, <2>2, SameLists DEF Mail!NoBuffer
    <3>2. LockInv(where', mlock', kills')
      BY <1>0, <2>1, <2>2, <3>1, SenderGoes
    <3>3. where[First(mlock.queue)] # "receiving"
      <4>1. mlock.value < 0
        BY <1>0, <2>2 DEF LockInv, Lock
      <4>2. where[First(mlock.queue)] = "sending"
        BY <1>0, <4>1, FirstSends
      <4> QED BY <4>2
    <3>4. \A q \in Mailer : where'[q] = "receiving" <=> where[q] = "receiving"
      BY <1>0, <2>1, <3>1, <3>3
    <3> QED BY <1>0, <2>1, <3>2, <3>4
  <2>3. CASE ~ (mlock.value + 1 <= 0)
    <3>1. /\ where' = [where EXCEPT ![p] = "out"]
          /\ mlock' = [mlock EXCEPT !.value = mlock.value + 1]
      BY <1>5, <2>3 DEF Mail!NoBuffer
    <3>2. LockInv(where', mlock', kills')
      BY <1>0, <2>1, <2>3, <3>1, SenderGoes
    <3>3. \A q \in Mailer : where'[q] = "receiving" <=> where[q] = "receiving"
      BY <1>0, <2>1, <3>1
    <3> QED BY <1>0, <2>1, <3>2, <3>3
  <2> QED BY <2>2, <2>3
<1>6. ASSUME NEW p \in Mailer, NEW deadly \in BOOLEAN, Mail!Kill(p, deadly)
      PROVE  <1>1!1
  <2>1. dies' \in [Mailer -> BOOLEAN] /\ UNCHANGED mqueue
    BY <1>0, <1>6 DEF Mail!Kill
  <2>2. CASE where[p] = "sending"
    <3>1. /\ kills < MaxKills /\ kills' = kills + 1
          /\ mlock' = [value |-> mlock.value + 1, queue |-> Unlinked(mlock.queue, p)]
          /\ where' = [where EXCEPT ![p] = "inside"] /\ UNCHANGED message
      BY <1>6, <2>2, SameLists DEF Mail!Kill, Mail!Unblocked
    <3>2. LockInv(where', mlock', kills')
      BY <1>0, <2>2, <3>1, SenderKilled
    <3>3. \A q \in Mailer : where'[q] = "receiving" <=> where[q] = "receiving"
      BY <1>0, <2>2, <3>1
    <3> QED BY <1>0, <2>1, <3>1, <3>2, <3>3
  <2>3. CASE where[p] = "receiving"
    <3>1. /\ message' = [message EXCEPT ![p] = @ + 1]
          /\ where' = [where EXCEPT ![p] = "taking"] /\ UNCHANGED <<mlock, kills>>
      BY <1>6, <2>3 DEF Mail!Kill
    <3>2. LockInv(where', mlock', kills')
      BY <1>0, <2>3, <3>1, MovesBeside DEF Stages
    <3>3. /\ message' \in [Mailer -> Int]
          /\ \A q \in Mailer : message'[q] = IF where'[q] = "receiving" THEN - 1 ELSE 0
      BY <1>0, <2>3, <3>1
    <3> QED BY <1>0, <2>1, <3>1, <3>2, <3>3
  <2>4. CASE where[p] # "sending" /\ where[p] # "receiving"
    <3>1. UNCHANGED <<where, mlock, message, kills>>
      BY <1>6, <2>4 DEF Mail!Kill
    <3> QED BY <1>0, <2>1, <3>1
  <2> QED BY <2>2, <2>3, <2>4
<1> QED BY <1>2, <1>3, <1>4, <1>5, <1>6 DEF Mail!Next

LEMMA MailStarts == ASSUME Mail!Init PROVE MailInv
<1>1. /\ where \in [Mailer -> Stages] /\ Sending(where) = {} /\ Inside(where) = {}
      /\ \A p \in Mailer : where[p] = "out" /\ message[p] = 0
  BY DEF Mail!Init, Stages, Sending, Inside
<1>2. /\ mlock.value = 0 /\ mlock.queue = Nil /\ mlock \in Lock
  BY NilFacts DEF Mail!Init, Nil, Lock
<1>3. LockCounts(where, mlock, 0)
  BY <1>1, <1>2, FS_EmptySet DEF LockCounts
<1>4. LockQueues(where, mlock)
  BY <1>1, <1>2, NilFacts DEF LockQueues
<1>5. kills = 0 /\ kills \in 0..MaxKills
  BY MailSizes DEF Mail!Init
<1>6. Mail!TypeOK
  BY <1>1, <1>2, <1>5 DEF Mail!Init, Mail!TypeOK, Stages, Lock
<1> QED BY <1>1, <1>2, <1>3, <1>4, <1>5, <1>6 DEF MailInv, LockInv

LEMMA MailCounted == ASSUME MailInv PROVE Mail!SendersCounted
<1>2. /\ mlock.value \in Int /\ kills \in Nat
      /\ mlock.value + Cardinality(Sending(where)) + Cardinality(Inside(where)) = kills
      /\ Cardinality(Sending(where)) = IF mlock.value < 0 THEN - mlock.value ELSE 0
      /\ Range(mlock.queue) = Sending(where) /\ NoDup(mlock.queue)
  BY MailSizes DEF MailInv, Mail!TypeOK, LockInv, Lock, LockCounts, LockQueues
<1>3. Cardinality(Inside(where)) <= kills
  BY <1>2, Finite
<1>4. mlock.value + Cardinality(Sending(where) \cup Inside(where)) = kills
  <2>1. Sending(where) \cap Inside(where) = {}
    BY DEF Sending, Inside
  <2>2. Cardinality(Sending(where) \cup Inside(where))
          = Cardinality(Sending(where)) + Cardinality(Inside(where)) - Cardinality({})
    BY <2>1, Finite, FS_Union
  <2> QED BY <1>2, <2>2, Finite, FS_EmptySet
<1>5. ASSUME kills > 0, Inside(where) = {} PROVE Sending(where) = {}
  <2>1. Cardinality(Inside(where)) = 0
    BY <1>5, FS_EmptySet
  <2>2. Cardinality(Sending(where)) = 0
    BY <1>2, <1>5, <2>1, Finite
  <2> QED BY <2>2, Finite, FS_EmptySet
<1>6. ASSUME NEW p \in Mailer
      PROVE  message[p] = - Cardinality({p} \cap {q \in Mailer : where[q] = "receiving"})
  <2>1. CASE where[p] = "receiving"
    <3>1. {p} \cap {q \in Mailer : where[q] = "receiving"} = {p}
      BY <2>1
    <3>2. Cardinality({p}) = 1 /\ message[p] = - 1
      BY <2>1, FS_Singleton DEF MailInv
    <3> QED BY <3>1, <3>2
  <2>2. CASE where[p] # "receiving"
    <3>1. {p} \cap {q \in Mailer : where[q] = "receiving"} = {}
      BY <2>2
    <3>2. Cardinality({}) = 0 /\ message[p] = 0
      BY <2>2, FS_EmptySet DEF MailInv
    <3> QED BY <3>1, <3>2
  <2> QED BY <2>1, <2>2
<1>7. Mail!Range(mlock.queue) = Sending(where) /\ Mail!NoDup(mlock.queue)
  BY <1>2, SameLists
<1>8. \A S : Mail!Cardinality(S) = Cardinality(S)
  BY DEF Mail!Cardinality, Cardinality
<1> QED BY <1>3, <1>4, <1>5, <1>6, <1>7, <1>8
        DEF Mail!SendersCounted, Mail!In, Sending, Inside

(* However many processes send, nobody is in get_mbuf() before a blocked sender has
   been killed, and then never more than there were kills; whoever blocks is in the
   lock's queue once, and nobody gets a message: mbuf_init() is never called (mes.c). *)
THEOREM SendersCount == Mail!Spec => []Mail!SendersCounted
<1>1. Mail!Init => MailInv
  BY MailStarts
<1>2. MailInv /\ [Mail!Next]_(Mail!vars) => MailInv'
  BY MailStep DEF Mail!vars, mail
<1>3. MailInv => Mail!SendersCounted
  BY MailCounted
<1> QED BY <1>1, <1>2, <1>3, PTL DEF Mail!Spec
-----------------------------------------------------------------------------
(* The images *)

Loading(p) == step[p] # "user"
Alone == ~crossed /\ ~overrun

(* While nobody crosses, the one that loads finds its own inode in buf1, its own
   indirect block in buf2, and in its image what it has loaded. *)
LoaderKnows ==
  Alone =>
    \A p \in Memory!Slot : Loading(p) =>
      /\ \A q \in Memory!Slot : Loading(q) => q = p
      /\ wanted[p] \in Program /\ buf1 = Place[wanted[p]][1]
      /\ step[p] = "direct" =>
           /\ done[p] <= Blocks[wanted[p]]
           /\ Blocks[wanted[p]] > Direct => buf2 = wanted[p]
           /\ \A i \in 1..done[p] : image[p][i] = <<wanted[p], i>>
NobodyLoads == \A p \in Memory!Slot : program[p] = None => ~Loading(p)
WholePrograms ==
  Alone => \A p \in Memory!Slot : program[p] # None /\ ~Loading(p) =>
             \A i \in 1..Blocks[program[p]] : image[p][i] = <<program[p], i>>
ImageInv == Memory!TypeOK /\ NobodyLoads /\ LoaderKnows /\ WholePrograms

LEMMA ImageTypes ==
  ASSUME ImageInv
  PROVE  /\ image \in [Memory!Slot -> [1..Room -> (Program \X (1..Room)) \cup {<<None, 0>>}]]
         /\ program \in [Memory!Slot -> Program \cup {None}]
         /\ wanted \in [Memory!Slot -> Program \cup {None}]
         /\ step \in [Memory!Slot -> {"user", "inode", "direct"}]
         /\ done \in [Memory!Slot -> 0..Room]
         /\ buf1 \in Nat /\ buf2 \in Program \cup {None}
         /\ crossed \in BOOLEAN /\ overrun \in BOOLEAN
BY DEF ImageInv, Memory!TypeOK, Memory!Places, Memory!Empty

LEMMA SizeFacts ==
  ASSUME NEW f \in Program \cup {None}
  PROVE  /\ Memory!Size(f) \in 0..Room
         /\ f \in Program => Memory!Size(f) = Blocks[f]
         /\ Memory!Min({Direct, Memory!Size(f)}) \in Nat
         /\ Memory!Min({Direct, Memory!Size(f)}) <= Memory!Size(f)
         /\ Memory!Min({Direct, Memory!Size(f)}) \in {Direct, Memory!Size(f)}
<1>1. Memory!Size(f) \in 0..Room /\ (f \in Program => Memory!Size(f) = Blocks[f])
  BY ImageSizes DEF Memory!Size
<1>2. {Direct, Memory!Size(f)} \subseteq Nat
  BY <1>1, ImageSizes
<1>3. Memory!Min({Direct, Memory!Size(f)}) = Min({Direct, Memory!Size(f)})
  BY DEF Memory!Min, Min
<1>4. /\ Min({Direct, Memory!Size(f)}) \in {Direct, Memory!Size(f)}
      /\ \A k \in {Direct, Memory!Size(f)} : Min({Direct, Memory!Size(f)}) <= k
  BY <1>2, MinOfNats
<1> QED BY <1>1, <1>2, <1>3, <1>4

LEMMA IpFacts ==
  ASSUME NEW p
  PROVE  /\ Memory!Ip(p) \in Program \cup {None}
         /\ wanted[p] \in Program /\ buf1 = Place[wanted[p]][1] => Memory!Ip(p) = wanted[p]
<1> DEFINE here == {f \in Program : Place[f] = <<buf1, Place[wanted[p]][2]>>}
<1>1. Memory!Ip(p) = IF here = {} THEN None ELSE CHOOSE f \in here : TRUE
  BY DEF Memory!Ip
<1>2. here # {} => (CHOOSE f \in here : TRUE) \in here
  OBVIOUS
<1>3. ASSUME wanted[p] \in Program, buf1 = Place[wanted[p]][1]
      PROVE  here = {wanted[p]}
  <2>1. Place[wanted[p]] \in Nat \X Nat
    BY <1>3, ImageSizes
  <2>2. Place[wanted[p]] = <<buf1, Place[wanted[p]][2]>>
    BY <1>3, <2>1
  <2>3. \A f \in Program : Place[f] = Place[wanted[p]] => f = wanted[p]
    BY <1>3, ImageSizes
  <2> QED BY <1>3, <2>2, <2>3
<1> HIDE DEF here
<1>4. here \subseteq Program
  BY DEF here
<1> QED BY <1>1, <1>2, <1>3, <1>4

(* A block that load() puts into the image. *)
LEMMA LoadsKeeps ==
  ASSUME ImageInv, NEW p \in Memory!Slot, step[p] = "direct",
         NEW f \in Program \cup {None}, done[p] < Memory!Size(f),
         Alone => f = wanted[p], Memory!Loads(p, f)
  PROVE  ImageInv'
<1>1. /\ image' = [image EXCEPT ![p][done[p] + 1] = <<f, done[p] + 1>>]
      /\ done' = [done EXCEPT ![p] = @ + 1]
      /\ UNCHANGED <<program, step, wanted, buf1, buf2, crossed, overrun>>
  BY DEF Memory!Loads, Memory!Region
<1>2. done[p] \in Nat /\ done[p] + 1 \in 1..Room /\ f \in Program /\ done[p] < Blocks[f]
  BY ImageTypes, SizeFacts, ImageSizes DEF Memory!Size
<1>3. done' \in [Memory!Slot -> 0..Room] /\ done'[p] = done[p] + 1
  BY <1>1, <1>2, ImageTypes
<1>4. image' \in [Memory!Slot -> [1..Room -> (Program \X (1..Room)) \cup {<<None, 0>>}]]
  <2>1. <<f, done[p] + 1>> \in (Program \X (1..Room)) \cup {<<None, 0>>}
    BY <1>2
  <2> QED BY <1>1, <1>2, <2>1, ImageTypes
<1>5. Memory!TypeOK'
  BY <1>1, <1>3, <1>4, ImageTypes DEF Memory!TypeOK, Memory!Places, Memory!Empty
<1>6. NobodyLoads'
  BY <1>1 DEF ImageInv, NobodyLoads, Loading
<1>7. LoaderKnows'
  <2> SUFFICES ASSUME Alone', NEW q \in Memory!Slot, Loading(q)'
               PROVE  /\ \A r \in Memory!Slot : Loading(r)' => r = q
                      /\ wanted'[q] \in Program /\ buf1' = Place[wanted'[q]][1]
                      /\ step'[q] = "direct" =>
                           /\ done'[q] <= Blocks[wanted'[q]]
                           /\ Blocks[wanted'[q]] > Direct => buf2' = wanted'[q]
                           /\ \A i \in 1..done'[q] : image'[q][i] = <<wanted'[q], i>>
    BY DEF LoaderKnows
  <2>1. Alone /\ Loading(p) /\ Loading(q) /\ f = wanted[p]
    BY <1>1 DEF Alone, Loading
  <2>2. q = p /\ \A r \in Memory!Slot : Loading(r) => r = p
    BY <2>1 DEF ImageInv, LoaderKnows
  <2>3. /\ wanted[p] \in Program /\ buf1 = Place[wanted[p]][1]
        /\ Blocks[wanted[p]] > Direct => buf2 = wanted[p]
        /\ \A i \in 1..done[p] : image[p][i] = <<wanted[p], i>>
    BY <2>1 DEF ImageInv, LoaderKnows
  <2>4. ASSUME NEW i \in 1..done'[p] PROVE image'[p][i] = <<wanted[p], i>>
    <3>1. CASE i = done[p] + 1
      BY <1>1, <1>2, <2>1, <3>1, ImageTypes
    <3>2. CASE i # done[p] + 1
      <4>1. i \in 1..done[p]
        BY <1>2, <1>3, <3>2
      <4>2. image'[p][i] = image[p][i]
        BY <1>1, <3>2, ImageTypes
      <4> QED BY <2>3, <4>1, <4>2
    <3> QED BY <3>1, <3>2
  <2>5. done'[p] <= Blocks[wanted[p]]
    BY <1>2, <1>3, <2>1, ImageSizes
  <2>6. \A r \in Memory!Slot : Loading(r)' => Loading(r)
    BY <1>1 DEF Loading
  <2> QED BY <1>1, <2>2, <2>3, <2>4, <2>5, <2>6
<1>8. WholePrograms'
  <2>1. \A q \in Memory!Slot : ~Loading(q)' => ~Loading(q) /\ image'[q] = image[q]
    BY <1>1, ImageTypes DEF Loading
  <2> QED BY <1>1, <2>1 DEF ImageInv, WholePrograms, Alone
<1> QED BY <1>5, <1>6, <1>7, <1>8 DEF ImageInv

LEMMA ForkKeeps ==
  ASSUME ImageInv, NEW p \in Memory!Slot, NEW c \in Memory!Slot, Memory!Fork(p, c)
  PROVE  ImageInv'
<1>1. /\ program[p] # None /\ ~Loading(p) /\ program[c] = None /\ ~Loading(c)
      /\ image' = [image EXCEPT ![c] = image[p]]
      /\ program' = [program EXCEPT ![c] = program[p]]
      /\ UNCHANGED <<step, wanted, done, buf1, buf2, crossed, overrun>>
  BY DEF Memory!Fork, Memory!Runs, Loading, ImageInv, NobodyLoads
<1>2. Memory!TypeOK'
  BY <1>1, ImageTypes DEF Memory!TypeOK, Memory!Places, Memory!Empty
<1>3. NobodyLoads'
  BY <1>1, ImageTypes DEF ImageInv, NobodyLoads, Loading
<1>4. \A q \in Memory!Slot : q # c => image'[q] = image[q] /\ program'[q] = program[q]
  BY <1>1, ImageTypes
<1>5. LoaderKnows'
  <2>1. \A q \in Memory!Slot : Loading(q)' => Loading(q) /\ q # c
    BY <1>1 DEF Loading
  <2> QED BY <1>1, <1>4, <2>1 DEF ImageInv, LoaderKnows, Alone, Loading
<1>6. WholePrograms'
  <2>1. image'[c] = image[p] /\ program'[c] = program[p]
    BY <1>1, ImageTypes
  <2> QED BY <1>1, <1>4, <2>1 DEF ImageInv, WholePrograms, Alone, Loading
<1> QED BY <1>2, <1>3, <1>5, <1>6 DEF ImageInv

LEMMA LeavesKeeps ==
  ASSUME ImageInv, NEW p \in Memory!Slot, Memory!Exit(p)
  PROVE  ImageInv'
<1>1. /\ ~Loading(p) /\ program' = [program EXCEPT ![p] = None]
      /\ UNCHANGED <<image, step, wanted, done, buf1, buf2, crossed, overrun>>
  BY DEF Memory!Exit, Memory!Runs, Loading
<1>2. Memory!TypeOK'
  BY <1>1, ImageTypes DEF Memory!TypeOK, Memory!Places, Memory!Empty
<1>3. NobodyLoads'
  BY <1>1, ImageTypes DEF ImageInv, NobodyLoads, Loading
<1>4. LoaderKnows'
  BY <1>1 DEF ImageInv, LoaderKnows, Alone, Loading
<1>5. WholePrograms'
  <2>1. \A q \in Memory!Slot : program'[q] # None => program'[q] = program[q]
    BY <1>1, ImageTypes
  <2> QED BY <1>1, <2>1 DEF ImageInv, WholePrograms, Alone, Loading
<1> QED BY <1>2, <1>3, <1>4, <1>5 DEF ImageInv

LEMMA ExecKeeps ==
  ASSUME ImageInv, NEW p \in Memory!Slot, NEW f \in Program, Memory!Exec(p, f)
  PROVE  ImageInv'
<1>1. /\ program[p] # None /\ wanted' = [wanted EXCEPT ![p] = f]
      /\ step' = [step EXCEPT ![p] = "inode"] /\ buf1' = Place[f][1] /\ buf2' = None
      /\ crossed' = (crossed \/ \E q \in Memory!Slot : Loading(q))
      /\ UNCHANGED <<image, program, done, overrun>>
  BY DEF Memory!Exec, Memory!Runs, Loading
<1>2. /\ step'[p] = "inode" /\ wanted'[p] = f
      /\ \A q \in Memory!Slot : q # p => step'[q] = step[q]
  BY <1>1, ImageTypes
<1>3. Memory!TypeOK'
  <2>1. Place[f][1] \in Nat
    BY ImageSizes
  <2> QED BY <1>1, <2>1, ImageTypes DEF Memory!TypeOK, Memory!Places, Memory!Empty
<1>4. NobodyLoads'
  BY <1>1, <1>2 DEF ImageInv, NobodyLoads, Loading
<1>5. LoaderKnows'
  <2>1. ASSUME Alone', NEW q \in Memory!Slot, Loading(q)' PROVE q = p
    <3>1. ~Loading(q)
      BY <1>1, <2>1 DEF Alone
    <3> QED BY <1>2, <2>1, <3>1 DEF Loading
  <2> QED BY <1>1, <1>2, <2>1 DEF LoaderKnows
<1>6. WholePrograms'
  <2>1. \A q \in Memory!Slot : ~Loading(q)' => ~Loading(q)
    BY <1>2 DEF Loading
  <2> QED BY <1>1, <2>1 DEF ImageInv, WholePrograms, Alone
<1> QED BY <1>3, <1>4, <1>5, <1>6 DEF ImageInv

LEMMA IndirectKeeps ==
  ASSUME ImageInv, NEW p \in Memory!Slot, Memory!ReadIndirect(p)
  PROVE  ImageInv'
<1> DEFINE f == Memory!Ip(p)
<1>1. /\ step[p] = "inode" /\ buf2' = IF Memory!Size(f) > Direct THEN f ELSE buf2
      /\ step' = [step EXCEPT ![p] = "direct"] /\ done' = [done EXCEPT ![p] = 0]
      /\ UNCHANGED <<image, program, wanted, buf1, crossed, overrun>>
  BY DEF Memory!ReadIndirect
<1>2. f \in Program \cup {None}
  BY IpFacts
<1>3. Memory!TypeOK'
  <2>1. 0 \in 0..Room
    BY ImageSizes
  <2> HIDE DEF f
  <2> QED BY <1>1, <1>2, <2>1, ImageTypes DEF Memory!TypeOK, Memory!Places, Memory!Empty
<1>4. \A q \in Memory!Slot : Loading(q)' <=> Loading(q)
  BY <1>1, ImageTypes DEF Loading
<1>5. NobodyLoads'
  BY <1>1, <1>4 DEF ImageInv, NobodyLoads
<1>6. LoaderKnows'
  <2> SUFFICES ASSUME Alone' PROVE LoaderKnows'
    BY DEF LoaderKnows
  <2>1. Alone /\ Loading(p)
    BY <1>1 DEF Alone, Loading
  <2>2. /\ wanted[p] \in Program /\ buf1 = Place[wanted[p]][1]
        /\ \A q \in Memory!Slot : Loading(q) => q = p
    BY <2>1 DEF ImageInv, LoaderKnows
  <2>3. f = wanted[p] /\ Memory!Size(f) = Blocks[wanted[p]]
    BY <2>2, IpFacts, SizeFacts
  <2>4. done'[p] = 0 /\ Blocks[wanted[p]] \in Nat
    BY <1>1, <2>2, ImageTypes, ImageSizes
  <2> HIDE DEF f
  <2>5. Blocks[wanted[p]] > Direct => buf2' = wanted[p]
    BY <1>1, <2>3
  <2> QED BY <1>1, <1>4, <2>2, <2>4, <2>5 DEF LoaderKnows
<1>7. WholePrograms'
  BY <1>1, <1>4 DEF ImageInv, WholePrograms, Alone
<1> QED BY <1>3, <1>5, <1>6, <1>7 DEF ImageInv

LEMMA LoadedKeeps ==
  ASSUME ImageInv, NEW p \in Memory!Slot, Memory!Loaded(p)
  PROVE  ImageInv'
<1> DEFINE f == Memory!Ip(p)
<1>1. /\ step[p] = "direct" /\ done[p] >= Memory!Min({Direct, Memory!Size(f)})
      /\ Memory!Size(f) > Direct => done[p] >= Memory!Size(buf2)
      /\ program' = [program EXCEPT ![p] = wanted[p]] /\ step' = [step EXCEPT ![p] = "user"]
      /\ \/ UNCHANGED <<image, overrun>>
         \/ /\ p < Image /\ image' = [image EXCEPT ![p + 1][1] = <<None, 0>>]
            /\ overrun' = TRUE
      /\ UNCHANGED <<wanted, done, buf1, buf2, crossed>>
  BY DEF Memory!Loaded, Memory!Empty
<1>2. \A q \in Memory!Slot : Loading(q)' <=> Loading(q) /\ q # p
  BY <1>1, ImageTypes DEF Loading
<1>3. Memory!TypeOK'
  <2>1. image' \in [Memory!Slot -> [1..Room -> (Program \X (1..Room)) \cup {<<None, 0>>}]]
    <3>1. CASE UNCHANGED image
      BY <3>1, ImageTypes
    <3>2. CASE image' = [image EXCEPT ![p + 1][1] = <<None, 0>>]
      BY <3>2, ImageTypes
    <3> QED BY <1>1, <3>1, <3>2
  <2>2. overrun' \in BOOLEAN
    BY <1>1, ImageTypes
  <2> HIDE DEF f
  <2> QED BY <1>1, <2>1, <2>2, ImageTypes DEF Memory!TypeOK, Memory!Places, Memory!Empty
<1>4. NobodyLoads'
  BY <1>1, <1>2, ImageTypes DEF ImageInv, NobodyLoads
<1>5. ASSUME Alone'
      PROVE  /\ Alone /\ image' = image /\ wanted[p] \in Program
             /\ \A q \in Memory!Slot : Loading(q) => q = p
             /\ \A i \in 1..Blocks[wanted[p]] : image[p][i] = <<wanted[p], i>>
  <2>1. Alone /\ image' = image /\ Loading(p)
    BY <1>1, <1>5 DEF Alone, Loading
  <2>2. /\ wanted[p] \in Program /\ buf1 = Place[wanted[p]][1]
        /\ \A q \in Memory!Slot : Loading(q) => q = p
        /\ done[p] <= Blocks[wanted[p]]
        /\ Blocks[wanted[p]] > Direct => buf2 = wanted[p]
        /\ \A i \in 1..done[p] : image[p][i] = <<wanted[p], i>>
    BY <1>1, <2>1 DEF ImageInv, LoaderKnows
  <2>3. f = wanted[p] /\ Memory!Size(f) = Blocks[wanted[p]]
    BY <2>2, IpFacts, SizeFacts
  <2>4. Memory!Min({Direct, Memory!Size(f)}) \in {Direct, Memory!Size(f)}
    BY <2>2, <2>3, SizeFacts
  <2>5. done[p] \in Nat /\ Blocks[wanted[p]] \in Nat /\ Direct \in Nat
    BY <2>2, ImageTypes, ImageSizes
  <2> HIDE DEF f
  <2>6. done[p] >= Blocks[wanted[p]]
    <3>1. CASE Blocks[wanted[p]] > Direct
      BY <1>1, <2>2, <2>3, <3>1
    <3>2. CASE ~ (Blocks[wanted[p]] > Direct)
      BY <1>1, <2>3, <2>4, <2>5, <3>2
    <3> QED BY <3>1, <3>2
  <2>7. done[p] = Blocks[wanted[p]]
    BY <2>2, <2>5, <2>6
  <2> QED BY <2>1, <2>2, <2>7
<1>6. LoaderKnows'
  <2>1. Alone' => \A q \in Memory!Slot : ~Loading(q)'
    BY <1>2, <1>5
  <2> QED BY <2>1 DEF LoaderKnows
<1>7. WholePrograms'
  <2>1. /\ program'[p] = wanted[p]
        /\ \A q \in Memory!Slot : q # p => program'[q] = program[q]
    BY <1>1, ImageTypes
  <2> QED BY <1>2, <1>5, <2>1 DEF ImageInv, WholePrograms
<1> QED BY <1>3, <1>4, <1>6, <1>7 DEF ImageInv

LEMMA ImageStep ==
  ASSUME ImageInv, [Memory!Next]_memory
  PROVE  ImageInv'
<1>1. CASE UNCHANGED memory
  BY <1>1 DEF memory, ImageInv, Memory!TypeOK, NobodyLoads, LoaderKnows, WholePrograms,
              Loading, Alone
<1>2. ASSUME NEW p \in Memory!Slot, Memory!LoadDirect(p) PROVE ImageInv'
  <2> DEFINE f == Memory!Ip(p)
  <2>1. /\ step[p] = "direct" /\ done[p] < Memory!Min({Direct, Memory!Size(f)})
        /\ Memory!Loads(p, f)
    BY <1>2 DEF Memory!LoadDirect
  <2>2. f \in Program \cup {None}
    BY IpFacts
  <2>3. done[p] < Memory!Size(f)
    BY <2>1, <2>2, SizeFacts, ImageTypes
  <2>4. Alone => f = wanted[p]
    BY <2>1, IpFacts DEF ImageInv, LoaderKnows, Loading
  <2> HIDE DEF f
  <2> QED BY <2>1, <2>2, <2>3, <2>4, LoadsKeeps
<1>3. ASSUME NEW p \in Memory!Slot, Memory!LoadIndirect(p) PROVE ImageInv'
  <2>1. /\ step[p] = "direct" /\ Memory!Size(Memory!Ip(p)) > Direct
        /\ done[p] < Memory!Size(buf2) /\ Memory!Loads(p, buf2)
    BY <1>3 DEF Memory!LoadIndirect
  <2>2. ASSUME Alone PROVE buf2 = wanted[p]
    <3>1. /\ wanted[p] \in Program /\ buf1 = Place[wanted[p]][1]
          /\ Blocks[wanted[p]] > Direct => buf2 = wanted[p]
      BY <2>1, <2>2 DEF ImageInv, LoaderKnows, Loading
    <3>2. Memory!Size(Memory!Ip(p)) = Blocks[wanted[p]]
      BY <3>1, IpFacts, SizeFacts
    <3> QED BY <2>1, <3>1, <3>2
  <2>3. buf2 \in Program \cup {None}
    BY ImageTypes
  <2> QED BY <2>1, <2>2, <2>3, LoadsKeeps
<1> QED BY <1>1, <1>2, <1>3, ForkKeeps, ExecKeeps, LeavesKeeps, IndirectKeeps, LoadedKeeps
        DEF Memory!Next

LEMMA ImageStarts == ASSUME Memory!Init PROVE ImageInv
<1>1. PICK f \in Program :
        /\ program = [p \in Memory!Slot |-> IF p = 1 THEN f ELSE None]
        /\ image = [p \in Memory!Slot |-> [i \in 1..Room |->
                      IF p = 1 /\ i <= Blocks[f] THEN <<f, i>> ELSE <<None, 0>>]]
  BY DEF Memory!Init, Memory!Places, Memory!Empty
<1>2. /\ step = [p \in Memory!Slot |-> "user"] /\ wanted = [p \in Memory!Slot |-> None]
      /\ done = [p \in Memory!Slot |-> 0] /\ buf1 = 0 /\ buf2 = None
      /\ crossed = FALSE /\ overrun = FALSE
  BY DEF Memory!Init
<1>3. Memory!TypeOK
  <2>1. 0 \in 0..Room
    BY ImageSizes
  <2> QED BY <1>1, <1>2, <2>1 DEF Memory!TypeOK, Memory!Places, Memory!Empty
<1>4. NobodyLoads /\ LoaderKnows
  BY <1>2 DEF NobodyLoads, LoaderKnows, Loading
<1>5. WholePrograms
  <2>1. Blocks[f] \in 0..Room /\ Room \in Nat /\ f # None
    BY ImageSizes
  <2> QED BY <1>1, <2>1 DEF WholePrograms
<1> QED BY <1>3, <1>4, <1>5 DEF ImageInv

(* As long as one process loads at a time and no command line is too long, every
   process runs the whole of the program that it asked exec() for, and none of another's,
   for any programs, however many of their blocks are direct (fork.c, exec.c, load.c). *)
THEOREM ProgramsWhole == MCSpec => []OwnProgram
<1>1. MCInit => ImageInv
  BY ImageStarts DEF MCInit
<1>2. ImageInv /\ [MCNext]_allVars => ImageInv'
  BY ImageStep DEF MCNext, SessionSteps, LayerSteps, allVars
<1>3. ImageInv => OwnProgram
  BY DEF ImageInv, WholePrograms, Alone, Loading, OwnProgram, Memory!OwnProgram, Memory!Runs
<1> QED BY <1>1, <1>2, <1>3, PTL DEF MCSpec
-----------------------------------------------------------------------------
(* The mutex: chains of threads *)

Pids == Threads!Proc
Links == [Pids -> Pids \cup {Null}]

(* From head along nxt are the threads of S in some order, each once; after the last one, z,
   comes PROC 0, or z again: enqueue() of the last one makes the chain end in itself. *)
Path(nxt, head, c, k) ==
  /\ \A i, j \in 1..k : c[i] = c[j] => i = j
  /\ k = 0 => head = 0
  /\ k > 0 => head = c[1] /\ nxt[c[k]] \in {0, c[k]}
  /\ \A i \in 1..(k - 1) : nxt[c[i]] = c[i + 1]
On(c, k) == {c[i] : i \in 1..k}
Chain(nxt, head, S, z) ==
  \E k \in Nat : \E c \in [1..k -> Thread] :
    Path(nxt, head, c, k) /\ S = On(c, k) /\ z = IF k = 0 THEN 0 ELSE c[k]

LEMMA ChainIs ==
  ASSUME NEW nxt, NEW head, NEW k \in Nat, NEW c \in [1..k -> Thread], Path(nxt, head, c, k)
  PROVE  Chain(nxt, head, On(c, k), IF k = 0 THEN 0 ELSE c[k])
BY DEF Chain

(* In a chain whoever is not the last is before another one. *)
LEMMA ChainFacts ==
  ASSUME NEW nxt, NEW head, NEW S, NEW z, Chain(nxt, head, S, z)
  PROVE  /\ S \subseteq Thread
         /\ S = {} => head = 0 /\ z = 0
         /\ S # {} => head \in S /\ z \in S /\ nxt[z] \in {0, z}
         /\ \A u \in S : u # z => nxt[u] \in S /\ nxt[u] # u
<1>1. PICK k \in Nat : \E c \in [1..k -> Thread] :
        Path(nxt, head, c, k) /\ S = On(c, k) /\ z = IF k = 0 THEN 0 ELSE c[k]
  BY DEF Chain
<1>2. PICK c \in [1..k -> Thread] :
        Path(nxt, head, c, k) /\ S = On(c, k) /\ z = IF k = 0 THEN 0 ELSE c[k]
  BY <1>1
<1>3. S \subseteq Thread
  BY <1>2 DEF On
<1>4. CASE k = 0
  <2>1. S = {}
    BY <1>2, <1>4 DEF On
  <2> QED BY <1>2, <1>4, <2>1 DEF Path
<1>5. CASE k # 0
  <2>1. k > 0 /\ 1 \in 1..k /\ k \in 1..k
    BY <1>5
  <2>2. head \in S /\ z \in S /\ nxt[z] \in {0, z}
    BY <1>2, <2>1 DEF Path, On
  <2>3. ASSUME NEW u \in S, u # z PROVE nxt[u] \in S /\ nxt[u] # u
    <3>1. PICK i \in 1..k : u = c[i]
      BY <1>2 DEF On
    <3>2. i # k
      BY <1>2, <2>1, <2>3, <3>1
    <3>3. i \in 1..(k - 1) /\ i + 1 \in 1..k /\ i + 1 # i
      BY <3>2
    <3>4. nxt[u] = c[i + 1]
      BY <1>2, <3>1, <3>3 DEF Path
    <3>5. c[i + 1] # c[i]
      BY <1>2, <3>3 DEF Path
    <3>6. c[i + 1] \in S
      BY <1>2, <3>3 DEF On
    <3> QED BY <3>1, <3>4, <3>5, <3>6
  <2> QED BY <1>3, <2>2, <2>3
<1> QED BY <1>4, <1>5

(* The first one is taken out: scheduler(). *)
LEMMA ChainPops ==
  ASSUME NEW nxt, NEW head, NEW S, NEW z, Chain(nxt, head, S, z), S # {}, nxt[head] # head
  PROVE  Chain(nxt, nxt[head], S \ {head}, IF head = z THEN 0 ELSE z)
<1>1. PICK k \in Nat : \E c \in [1..k -> Thread] :
        Path(nxt, head, c, k) /\ S = On(c, k) /\ z = IF k = 0 THEN 0 ELSE c[k]
  BY DEF Chain
<1>2. PICK c \in [1..k -> Thread] :
        Path(nxt, head, c, k) /\ S = On(c, k) /\ z = IF k = 0 THEN 0 ELSE c[k]
  BY <1>1
<1>3. k > 0 /\ 1 \in 1..k /\ k \in 1..k
  <2>1. k # 0
    BY <1>2 DEF On
  <2> QED BY <2>1
<1>4. head = c[1] /\ z = c[k] /\ nxt[z] \in {0, z}
  BY <1>2, <1>3 DEF Path
<1> DEFINE n == k - 1
           d == [i \in 1..n |-> c[i + 1]]
<1>5. n \in Nat /\ \A i \in 1..n : i + 1 \in 1..k /\ i + 1 # 1
  BY <1>3
<1>6. d \in [1..n -> Thread] /\ \A i \in 1..n : d[i] = c[i + 1]
  BY <1>5
<1>7. On(d, n) = S \ {head}
  <2>1. \A i \in 1..n : d[i] \in S /\ d[i] # head
    BY <1>2, <1>3, <1>4, <1>5, <1>6 DEF Path, On
  <2>2. ASSUME NEW u \in S, u # head PROVE u \in On(d, n)
    <3>1. PICK i \in 1..k : u = c[i]
      BY <1>2 DEF On
    <3>2. i # 1
      BY <1>4, <2>2, <3>1
    <3>3. i - 1 \in 1..n /\ (i - 1) + 1 = i
      BY <3>2
    <3>4. d[i - 1] = u
      BY <1>6, <3>1, <3>3
    <3> HIDE DEF d, n
    <3> QED BY <3>3, <3>4 DEF On
  <2> HIDE DEF d, n
  <2> QED BY <2>1, <2>2 DEF On
<1> HIDE DEF d
<1>8. \A i, j \in 1..n : d[i] = d[j] => i = j
  <2> SUFFICES ASSUME NEW i \in 1..n, NEW j \in 1..n, d[i] = d[j] PROVE i = j
    OBVIOUS
  <2>1. i + 1 = j + 1
    BY <1>2, <1>5, <1>6 DEF Path
  <2> QED BY <2>1
<1>9. \A i \in 1..(n - 1) : nxt[d[i]] = d[i + 1]
  <2> TAKE i \in 1..(n - 1)
  <2>1. i \in 1..n /\ i + 1 \in 1..n /\ i + 1 \in 1..(k - 1)
    BY <1>3
  <2>2. nxt[c[i + 1]] = c[(i + 1) + 1]
    BY <1>2, <2>1 DEF Path
  <2> QED BY <1>6, <2>1, <2>2
<1>10. CASE k = 1
  <2>1. n = 0 /\ head = z /\ nxt[head] = 0
    BY <1>4, <1>10
  <2>2. Path(nxt, nxt[head], d, n)
    BY <1>8, <1>9, <2>1 DEF Path
  <2>3. Chain(nxt, nxt[head], On(d, n), IF n = 0 THEN 0 ELSE d[n])
    BY <1>5, <1>6, <2>2, ChainIs
  <2> QED BY <1>7, <2>1, <2>3
<1>11. CASE k # 1
  <2>1. n > 0 /\ 1 \in 1..n /\ n \in 1..n /\ 1 \in 1..(k - 1) /\ n + 1 = k /\ 1 + 1 = 2 /\ n # 0
    BY <1>3, <1>11
  <2>2. nxt[head] = d[1]
    BY <1>2, <1>4, <1>6, <2>1 DEF Path
  <2>3. d[n] = z
    BY <1>4, <1>6, <2>1
  <2>4. head # z
    BY <1>2, <1>3, <1>4, <1>11 DEF Path
  <2>5. Path(nxt, nxt[head], d, n)
    BY <1>4, <1>8, <1>9, <2>1, <2>2, <2>3 DEF Path
  <2>6. Chain(nxt, nxt[head], On(d, n), IF n = 0 THEN 0 ELSE d[n])
    BY <1>5, <1>6, <2>5, ChainIs
  <2> QED BY <1>7, <2>1, <2>3, <2>4, <2>6
<1> QED BY <1>10, <1>11

(* The new links when r is put behind the last one. *)
Behind(nxt, S, z, r) ==
  IF S = {} THEN [nxt EXCEPT ![r] = 0] ELSE [nxt EXCEPT ![r] = 0, ![z] = r]

ThenBehind(nxt, m, S, z, r) ==
  /\ m \in Links /\ m[r] = 0
  /\ S # {} => m[z] = r
  /\ \A u \in Pids : u # r /\ (S = {} \/ u # z) => m[u] = nxt[u]

LEMMA BehindIs ==
  ASSUME NEW nxt \in Links, NEW S, S \subseteq Thread, NEW z \in Pids, NEW r \in Thread, z # r
  PROVE  ThenBehind(nxt, Behind(nxt, S, z, r), S, z, r)
BY DEF ThenBehind, Behind, Links, Pids, Threads!Proc

(* Somebody new comes to the end of a chain. *)
LEMMA ChainGrows ==
  ASSUME NEW nxt \in Links, NEW head, NEW S, NEW z, Chain(nxt, head, S, z),
         NEW r \in Thread, r \notin S, ThreadSizes
  PROVE  Chain(Behind(nxt, S, z, r), IF S = {} THEN r ELSE head, S \cup {r}, r)
<1>1. PICK k \in Nat : \E c \in [1..k -> Thread] :
        Path(nxt, head, c, k) /\ S = On(c, k) /\ z = IF k = 0 THEN 0 ELSE c[k]
  BY DEF Chain
<1>2. PICK c \in [1..k -> Thread] :
        Path(nxt, head, c, k) /\ S = On(c, k) /\ z = IF k = 0 THEN 0 ELSE c[k]
  BY <1>1
<1>z. z # r /\ z \in Pids /\ S \subseteq Thread
  <2>1. S = {} => z = 0
    BY ChainFacts
  <2>2. S # {} => z \in S
    BY ChainFacts
  <2>3. S \subseteq Thread
    BY ChainFacts
  <2> QED BY <2>1, <2>2, <2>3 DEF Pids, Threads!Proc
<1>b. ThenBehind(nxt, Behind(nxt, S, z, r), S, z, r)
  BY <1>z, BehindIs
<1> DEFINE n == k + 1
           d == [i \in 1..n |-> IF i = n THEN r ELSE c[i]]
           m == Behind(nxt, S, z, r)
           h == IF S = {} THEN r ELSE head
<1>3. n \in Nat /\ n > 0 /\ n # 0 /\ n \in 1..n /\ \A i \in 1..n : i # n => i \in 1..k
  OBVIOUS
<1>4. d \in [1..n -> Thread] /\ d[n] = r /\ \A i \in 1..k : i \in 1..n /\ i # n /\ d[i] = c[i]
  OBVIOUS
<1>5. \A i \in 1..k : c[i] \in S /\ c[i] # r
  BY <1>2 DEF On
<1>6. On(d, n) = S \cup {r}
  <2>1. \A i \in 1..n : d[i] \in S \cup {r}
    BY <1>3, <1>4, <1>5
  <2>2. \A u \in S : \E i \in 1..n : u = d[i]
    BY <1>2, <1>4 DEF On
  <2> HIDE DEF d, n
  <2> QED BY <1>3, <1>4, <2>1, <2>2 DEF On
<1>7. \A u \in S : u # z => m[u] = nxt[u]
  BY <1>b, <1>z DEF ThenBehind, Pids, Threads!Proc
<1>8. m[r] = 0 /\ (S # {} => m[z] = r)
  BY <1>b DEF ThenBehind
<1>9. \A i, j \in 1..n : d[i] = d[j] => i = j
  <2> SUFFICES ASSUME NEW i \in 1..n, NEW j \in 1..n, d[i] = d[j] PROVE i = j
    OBVIOUS
  <2> HIDE DEF d, n
  <2>1. CASE i = n \/ j = n
    BY <1>3, <1>4, <1>5, <2>1
  <2>2. CASE i # n /\ j # n
    <3>1. i \in 1..k /\ j \in 1..k
      BY <1>3, <2>2
    <3>2. c[i] = c[j]
      BY <1>4, <3>1
    <3> QED BY <1>2, <3>1, <3>2 DEF Path
  <2> QED BY <2>1, <2>2
<1>10. \A i \in 1..(n - 1) : m[d[i]] = d[i + 1]
  <2> TAKE i \in 1..(n - 1)
  <2>1. i \in 1..k /\ k # 0 /\ k \in 1..k
    OBVIOUS
  <2>2. z = c[k] /\ S # {}
    BY <1>2, <2>1 DEF On
  <2>3. CASE i = k
    <3>1. d[i] = z /\ d[i + 1] = r
      BY <1>4, <2>1, <2>2, <2>3
    <3> HIDE DEF d, m
    <3> QED BY <1>8, <2>2, <3>1
  <2>4. CASE i # k
    <3>1. i \in 1..(k - 1) /\ i + 1 \in 1..k
      BY <2>4
    <3>2. nxt[c[i]] = c[i + 1] /\ c[i] # c[k]
      BY <1>2, <2>1, <2>4, <3>1 DEF Path
    <3>3. m[c[i]] = nxt[c[i]]
      BY <1>5, <1>7, <2>1, <2>2, <3>2
    <3>4. d[i] = c[i] /\ d[i + 1] = c[i + 1]
      BY <1>4, <2>1, <3>1
    <3> HIDE DEF d, m
    <3> QED BY <3>2, <3>3, <3>4
  <2> QED BY <2>3, <2>4
<1>11. h = d[1]
  <2>1. CASE k = 0
    <3>1. S = {} /\ n = 1
      BY <1>2, <2>1 DEF On
    <3> QED BY <1>4, <3>1
  <2>2. CASE k # 0
    <3>1. k > 0 /\ 1 \in 1..k
      BY <2>2
    <3>2. S # {} /\ head = c[1]
      BY <1>2, <3>1 DEF On, Path
    <3> QED BY <1>4, <3>1, <3>2
  <2> QED BY <2>1, <2>2
<1> HIDE DEF d, m, h
<1>12. Path(m, h, d, n)
  BY <1>3, <1>4, <1>8, <1>9, <1>10, <1>11 DEF Path
<1> HIDE DEF n
<1>13. Chain(m, h, On(d, n), IF n = 0 THEN 0 ELSE d[n])
  BY <1>3, <1>4, <1>12, ChainIs
<1> QED BY <1>3, <1>4, <1>6, <1>13 DEF m, h

(* The last one comes again, and is then before itself. *)
LEMMA ChainCloses ==
  ASSUME NEW nxt \in Links, NEW head, NEW S, NEW z, Chain(nxt, head, S, z), S # {}
  PROVE  Chain([nxt EXCEPT ![z] = z], head, S, z)
<1>1. PICK k \in Nat : \E c \in [1..k -> Thread] :
        Path(nxt, head, c, k) /\ S = On(c, k) /\ z = IF k = 0 THEN 0 ELSE c[k]
  BY DEF Chain
<1>2. PICK c \in [1..k -> Thread] :
        Path(nxt, head, c, k) /\ S = On(c, k) /\ z = IF k = 0 THEN 0 ELSE c[k]
  BY <1>1
<1>3. k # 0 /\ k > 0 /\ k \in 1..k
  <2>1. k # 0
    BY <1>2 DEF On
  <2> QED BY <2>1
<1> DEFINE m == [nxt EXCEPT ![z] = z]
<1>4. z = c[k] /\ z \in Pids
  BY <1>2, <1>3 DEF Pids, Threads!Proc
<1>5. m[z] = z /\ \A u \in Pids : u # z => m[u] = nxt[u]
  BY <1>4 DEF Links
<1>6. \A i \in 1..(k - 1) : m[c[i]] = c[i + 1]
  <2> TAKE i \in 1..(k - 1)
  <2>1. i \in 1..k /\ i # k
    OBVIOUS
  <2>2. c[i] # z /\ nxt[c[i]] = c[i + 1] /\ c[i] \in Pids
    BY <1>2, <1>3, <1>4, <2>1 DEF Path, Pids, Threads!Proc
  <2> HIDE DEF m
  <2> QED BY <1>5, <2>2
<1> HIDE DEF m
<1>7. Path(m, head, c, k)
  BY <1>2, <1>3, <1>4, <1>5, <1>6 DEF Path
<1>8. Chain(m, head, On(c, k), IF k = 0 THEN 0 ELSE c[k])
  BY <1>7, ChainIs
<1> QED BY <1>2, <1>8 DEF m

(* Another one that is in the chain comes again: those behind him are out of it. *)
LEMMA ChainCut ==
  ASSUME NEW nxt \in Links, NEW head, NEW S, NEW z, Chain(nxt, head, S, z), NEW r \in S, r # z
  PROVE  \E T \in SUBSET (S \ {z}) : r \in T /\ Chain(Behind(nxt, S, z, r), head, T, r)
<1>1. PICK k \in Nat : \E c \in [1..k -> Thread] :
        Path(nxt, head, c, k) /\ S = On(c, k) /\ z = IF k = 0 THEN 0 ELSE c[k]
  BY DEF Chain
<1>2. PICK c \in [1..k -> Thread] :
        Path(nxt, head, c, k) /\ S = On(c, k) /\ z = IF k = 0 THEN 0 ELSE c[k]
  BY <1>1
<1>3. PICK n \in 1..k : r = c[n]
  BY <1>2 DEF On
<1>4. k # 0 /\ k \in 1..k /\ z = c[k] /\ z \in S /\ S \subseteq Thread
  BY <1>2, <1>3, ChainFacts
<1>5. /\ n # k /\ n \in Nat /\ n > 0 /\ n # 0 /\ n \in 1..n /\ 1 \in 1..n
      /\ \A i \in 1..n : i \in 1..k /\ i # k
  BY <1>3, <1>4
<1> DEFINE m == Behind(nxt, S, z, r)
           d == [i \in 1..n |-> c[i]]
<1>6. d \in [1..n -> Thread] /\ \A i \in 1..n : d[i] = c[i]
  BY <1>5
<1>7. m[r] = 0 /\ \A u \in S : u # r /\ u # z => m[u] = nxt[u]
  <2>1. ThenBehind(nxt, m, S, z, r)
    BY <1>4, BehindIs DEF Pids, Threads!Proc
  <2> QED BY <1>4, <2>1 DEF ThenBehind, Pids, Threads!Proc
<1> HIDE DEF m, d
<1>8. On(d, n) \subseteq S \ {z} /\ r \in On(d, n)
  <2>1. \A i \in 1..n : d[i] \in S /\ d[i] # z
    BY <1>2, <1>4, <1>5, <1>6 DEF Path, On
  <2> QED BY <1>3, <1>5, <1>6, <2>1 DEF On
<1>9. \A i, j \in 1..n : d[i] = d[j] => i = j
  BY <1>2, <1>5, <1>6 DEF Path
<1>10. \A i \in 1..(n - 1) : m[d[i]] = d[i + 1]
  <2> TAKE i \in 1..(n - 1)
  <2>1. i \in 1..n /\ i + 1 \in 1..n /\ i \in 1..(k - 1) /\ i # n /\ i \in 1..k /\ i # k
    BY <1>3, <1>5
  <2>2. c[i] \in S /\ c[i] # r /\ c[i] # z /\ nxt[c[i]] = c[i + 1]
    BY <1>2, <1>3, <1>4, <2>1 DEF Path, On
  <2> QED BY <1>6, <1>7, <2>1, <2>2
<1>11. head = d[1]
  <2>1. head = c[1]
    BY <1>2, <1>4 DEF Path
  <2> QED BY <1>5, <1>6, <2>1
<1>12. Path(m, head, d, n)
  BY <1>3, <1>5, <1>6, <1>7, <1>9, <1>10, <1>11 DEF Path
<1>13. Chain(m, head, On(d, n), IF n = 0 THEN 0 ELSE d[n])
  BY <1>5, <1>6, <1>12, ChainIs
<1>14. Chain(m, head, On(d, n), r)
  BY <1>3, <1>5, <1>6, <1>13
<1> QED BY <1>8, <1>14 DEF m

(* A walk along nxt stays in a set that each of its steps stays in. *)
Within(nxt, S, V) == \A q \in V : q \notin {Null} \cup S => nxt[q] \in V

LEMMA FollowStays ==
  ASSUME ThreadSizes, NEW nxt, NEW p, NEW S, NEW V, p \in V, Within(nxt, S, V)
  PROVE  Threads!Follow(nxt, p, S) \in V
<1> DEFINE n == Threads!Cardinality(Pids)
           step1 == [x \in (1..n) \X V |-> IF x[2] \in {Null} \cup S THEN x[2] ELSE nxt[x[2]]]
           Rule(f) == [i \in 0..n |-> IF i = 0 THEN p
                         ELSE IF f[i - 1] \in {Null} \cup S THEN f[i - 1] ELSE nxt[f[i - 1]]]
<1>1. n \in Nat
  <2>1. \A T : Threads!Cardinality(T) = Cardinality(T)
    BY DEF Threads!Cardinality, Cardinality
  <2>2. IsFiniteSet(Pids)
    BY FS_AddElement DEF ThreadSizes, Pids, Threads!Proc
  <2> QED BY <2>1, <2>2, FS_CardinalityType
<1> HIDE DEF n
<1>2. step1 \in [(1..n) \X V -> V]
  BY <1>1 DEF Within
<1>3. \A i \in 1..n, q \in V : step1[<<i, q>>] = IF q \in {Null} \cup S THEN q ELSE nxt[q]
  OBVIOUS
<1> HIDE DEF step1
<1>r. Recursion(n, V, p, step1)
  BY <1>1, <1>2 DEF Recursion
<1>4. PICK g \in [0..n -> V] : g[0] = p /\ \A i \in 1..n : g[i] = step1[<<i, g[i - 1]>>]
  BY <1>r, IntervalRecursion
<1>5. \A i \in 1..n : i - 1 \in 0..n /\ i \in 0..n /\ i # 0
  BY <1>1
<1>6. \A i \in 1..n : g[i] = IF g[i - 1] \in {Null} \cup S THEN g[i - 1] ELSE nxt[g[i - 1]]
  BY <1>3, <1>4, <1>5
<1>7. \A i \in 0..n : i # 0 => i \in 1..n
  BY <1>1
<1>8. g = Rule(g)
  BY <1>4, <1>6, <1>7
<1> DEFINE w == CHOOSE f : f = Rule(f)
<1>9. w = Rule(w)
  BY <1>8
<1>10. Threads!Follow(nxt, p, S) = w[n]
  BY DEF Threads!Follow, n, Pids
<1> HIDE DEF w
<1>11. 0 \in 0..n
  BY <1>1
<1>12. w[0] = p
  BY <1>9, <1>11
<1>13. \A i \in 1..n : w[i] = IF w[i - 1] \in {Null} \cup S THEN w[i - 1] ELSE nxt[w[i - 1]]
  BY <1>5, <1>9
<1> DEFINE D == {i \in 0..n : w[i] \in V}
<1>14. 0 \in D
  BY <1>11, <1>12
<1>15. \A i \in 0..(n - 1) : i \in D => i + 1 \in D
  <2> TAKE i \in 0..(n - 1)
  <2>1. i + 1 \in 1..n /\ i + 1 \in 0..n /\ (i + 1) - 1 = i
    BY <1>1
  <2>2. w[i + 1] = IF w[i] \in {Null} \cup S THEN w[i] ELSE nxt[w[i]]
    BY <1>13, <2>1
  <2> QED BY <2>1, <2>2 DEF Within
<1> HIDE DEF D
<1>16. \A i \in 0..n : i \in D
  BY <1>1, <1>14, <1>15, IntervalInduction
<1>17. n \in 0..n
  BY <1>1
<1>18. w[n] \in V
  BY <1>16, <1>17 DEF D
<1> QED BY <1>10, <1>18

(* The chains as enqueue() has them: a thread comes behind the last one, wherever else he
   is, but not in front of PROC 0's; a chain that ends in itself takes nobody. *)
LEMMA LookedFor ==
  ASSUME ThreadSizes, NEW nxt \in Links, nxt[0] \in {0, Null}, NEW head, NEW S, NEW z,
         Chain(nxt, head, S, z), S # {}, NEW p \in Pids,
         LET A == Threads!Before(nxt, p) IN Threads!Ends(nxt, head, A)
  PROVE  LET A == Threads!Before(nxt, p) IN
         /\ nxt[z] = 0 /\ (p # 0 => Threads!Follow(nxt, head, A) = z)
         /\ p = 0 => nxt[0] = Null /\ Threads!Follow(nxt, head, A) = 0
<1> DEFINE A == Threads!Before(nxt, p)
           q == Threads!Follow(nxt, head, A)
<1>1. /\ S \subseteq Thread /\ head \in S /\ z \in S /\ nxt[z] \in {0, z}
      /\ \A u \in S : u # z => nxt[u] \in S
  BY ChainFacts
<1>2. q \in A
  <2>1. head # Null
    BY <1>1 DEF ThreadSizes
  <2> QED BY <2>1 DEF Threads!Ends
<1>3. A = {u \in Pids : nxt[u] = Null \/ (p # 0 /\ nxt[u] = 0)}
  <2>1. \A u : (Threads!Pri(p) > Threads!Pri(u)) <=> (p # 0 /\ u = 0)
    BY DEF Threads!Pri
  <2> QED BY <2>1 DEF Threads!Before, Pids
<1> HIDE DEF A, q
<1>4. Null \notin Pids /\ 0 \notin Thread /\ 0 \in Pids /\ Thread \subseteq Pids
  BY DEF ThreadSizes, Pids, Threads!Proc
<1>5. CASE p # 0
  <2>1. \A u \in S : u \in A => u = z /\ nxt[z] = 0
    BY <1>1, <1>3, <1>4
  <2>2. CASE nxt[z] = z
    <3>1. Within(nxt, A, S)
      BY <1>1, <2>2 DEF Within
    <3>2. q \in S
      BY <1>1, <3>1, FollowStays DEF q
    <3> QED BY <1>1, <1>2, <1>4, <2>1, <2>2, <3>2
  <2>3. CASE nxt[z] = 0
    <3>1. z \in A
      BY <1>1, <1>3, <1>4, <1>5, <2>3
    <3>2. Within(nxt, A, S)
      BY <1>1, <3>1 DEF Within
    <3>3. q \in S
      BY <1>1, <3>2, FollowStays DEF q
    <3> QED BY <1>2, <1>5, <2>1, <2>3, <3>3 DEF q, A
  <2> QED BY <1>1, <2>2, <2>3
<1>6. CASE p = 0
  <2>1. \A u \in S : u \notin A
    <3>1. \A u \in S : nxt[u] \in Pids
      BY <1>1, <1>4
    <3> QED BY <1>3, <1>4, <1>6, <3>1
  <2>2. CASE nxt[z] = z
    <3>1. Within(nxt, A, S)
      BY <1>1, <2>2 DEF Within
    <3>2. q \in S
      BY <1>1, <3>1, FollowStays DEF q
    <3> QED BY <1>2, <2>1, <3>2
  <2>3. CASE nxt[z] = 0
    <3>1. 0 \notin A => nxt[0] = 0
      BY <1>3, <1>4
    <3>2. Within(nxt, A, S \cup {0})
      BY <1>1, <2>3, <3>1 DEF Within
    <3>3. q \in S \cup {0}
      BY <1>1, <3>2, FollowStays DEF q
    <3>4. q = 0
      BY <1>2, <2>1, <3>3
    <3>5. nxt[0] = Null
      BY <1>2, <1>3, <1>6, <3>4
    <3> QED BY <1>6, <2>3, <3>4, <3>5 DEF q, A
  <2> QED BY <1>1, <2>2, <2>3
<1> QED BY <1>5, <1>6

LEMMA ChainSame ==
  ASSUME NEW nxt, NEW head, NEW S, NEW z, Chain(nxt, head, S, z), NEW m, \A u \in S : m[u] = nxt[u]
  PROVE  Chain(m, head, S, z)
<1>1. PICK k \in Nat : \E c \in [1..k -> Thread] :
        Path(nxt, head, c, k) /\ S = On(c, k) /\ z = IF k = 0 THEN 0 ELSE c[k]
  BY DEF Chain
<1>2. PICK c \in [1..k -> Thread] :
        Path(nxt, head, c, k) /\ S = On(c, k) /\ z = IF k = 0 THEN 0 ELSE c[k]
  BY <1>1
<1>3. \A i \in 1..k : m[c[i]] = nxt[c[i]]
  BY <1>2 DEF On
<1>4. (k > 0 => k \in 1..k) /\ \A i \in 1..(k - 1) : i \in 1..k
  OBVIOUS
<1>5. Path(m, head, c, k)
  BY <1>2, <1>3, <1>4 DEF Path
<1> QED BY <1>2, <1>5, ChainIs

(* enqueue(&readyQueue, r) makes the links m and the head h out of nxt and head. *)
Queued(nxt, head, S, z, r, m, h) ==
  /\ m \in Links /\ m[0] = nxt[0] /\ \A u \in Thread \ {r, z} : m[u] = nxt[u]
  /\ S = {} => h = r /\ m[r] = 0 /\ Chain(m, h, {r}, r)
  /\ S # {} => h = head /\ nxt[z] = 0
  /\ S # {} /\ r \notin S => m[r] = 0 /\ Chain(m, h, S \cup {r}, r)
  /\ S # {} /\ r = z => m[z] = z /\ Chain(m, h, S, z)
  /\ r \in S /\ r # z => /\ m[r] = 0 /\ m[z] = r
                         /\ \E T \in SUBSET (S \ {z}) : r \in T /\ Chain(m, h, T, r)

LEMMA ThreadQueued ==
  ASSUME ThreadSizes, NEW nxt \in Links, nxt[0] \in {0, Null}, NEW head, NEW S, NEW z,
         Chain(nxt, head, S, z), NEW r \in Thread, NEW s, s = [next |-> nxt, head |-> head],
         Threads!CanEnqueue(s, r), NEW t, t = Threads!Enqueued(s, r)
  PROVE  Queued(nxt, head, S, z, r, t.next, t.head)
<1> DEFINE A == Threads!Before(nxt, r)
<1>1. /\ S \subseteq Thread /\ (S = {} => head = 0 /\ z = 0)
      /\ S # {} => head \in S /\ z \in S
  BY ChainFacts
<1>2. /\ Null \notin Pids /\ 0 \notin Thread /\ 0 \in Pids /\ Thread \subseteq Pids
      /\ Null # 0 /\ Null \notin Thread
  BY DEF ThreadSizes, Pids, Threads!Proc
<1>3. s.next = nxt /\ s.head = head
  OBVIOUS
<1>4. Threads!Pri(r) = 1 /\ Threads!Pri(0) = 0 /\ \A u \in Thread : Threads!Pri(u) = 1
  BY <1>2 DEF Threads!Pri
<1>5. CASE S = {}
  <2>1. head = 0 /\ z = 0 /\ r # z
    BY <1>1, <1>2, <1>5
  <2> DEFINE m == [nxt EXCEPT ![r] = 0]
  <2>2. t = [next |-> m, head |-> r]
    BY <1>3, <1>4, <2>1 DEF Threads!Enqueued
  <2>m. m = Behind(nxt, S, z, r)
    BY <1>5 DEF Behind
  <2> HIDE DEF m
  <2>3. t.next = Behind(nxt, S, z, r) /\ t.head = r
    BY <2>2, <2>m
  <2>4. ThenBehind(nxt, t.next, S, z, r)
    BY <1>1, <1>2, <2>1, <2>3, BehindIs
  <2>5. Chain(t.next, r, {r}, r)
    <3>1. Chain(Behind(nxt, S, z, r), IF S = {} THEN r ELSE head, S \cup {r}, r)
      BY <1>5, ChainGrows
    <3>2. S \cup {r} = {r}
      BY <1>5
    <3> QED BY <1>5, <2>3, <3>1, <3>2
  <2> QED BY <1>2, <1>5, <2>3, <2>4, <2>5 DEF ThenBehind, Queued
<1>6. CASE S # {}
  <2>1. head \in Thread /\ z \in Thread /\ head # Null /\ z \in S
    BY <1>1, <1>2, <1>6
  <2>2. Threads!Ends(nxt, head, A)
    BY <1>3, <1>4, <2>1 DEF Threads!CanEnqueue
  <2>3. nxt[z] = 0 /\ Threads!Follow(nxt, head, A) = z
    BY <1>2, <1>6, <2>2, LookedFor
  <2> DEFINE m == [nxt EXCEPT ![r] = nxt[z], ![z] = r]
  <2>4. t = [next |-> m, head |-> head]
    <3>1. ~ (s.head = Null \/ Threads!Pri(r) > Threads!Pri(s.head))
      BY <1>3, <1>4, <2>1
    <3>2. Threads!Follow(s.next, s.head, Threads!Before(s.next, r)) = z
      BY <1>3, <2>3
    <3> QED BY <1>3, <3>1, <3>2 DEF Threads!Enqueued
  <2>m. m = [nxt EXCEPT ![r] = 0, ![z] = r]
    BY <2>3
  <2> HIDE DEF m
  <2>5. t.next = [nxt EXCEPT ![r] = 0, ![z] = r] /\ t.head = head
    <3>1. t.next = m /\ t.head = head
      BY <2>4
    <3> QED BY <2>m, <3>1, Zenon
  <2> HIDE DEF A
  <2>6. CASE r = z
    <3> DEFINE g == [nxt EXCEPT ![z] = z]
    <3>1. t.next = g
      <4>1. [nxt EXCEPT ![r] = 0, ![z] = r] = g
        BY <2>1, <2>6, <1>2 DEF Links
      <4> QED BY <2>5, <4>1
    <3>g. /\ g \in Links /\ g[z] = z /\ g[0] = nxt[0]
          /\ \A u \in Thread \ {r, z} : g[u] = nxt[u]
      BY <1>2, <2>1 DEF Links
    <3>2. /\ t.next \in Links /\ t.next[z] = z /\ t.next[0] = nxt[0]
          /\ \A u \in Thread \ {r, z} : t.next[u] = nxt[u]
      BY <3>1, <3>g
    <3>3. Chain(t.next, head, S, z)
      <4>1. Chain(g, head, S, z)
        BY <1>6, ChainCloses
      <4> HIDE DEF g
      <4> QED BY <3>1, <4>1, Zenon
    <3>4. t.head = head
      BY <2>5
    <3>5. nxt[z] = 0
      BY <2>3
    <3>6. Chain(t.next, t.head, S, z)
      BY <3>3, <3>4, Zenon
    <3> QED BY <1>6, <2>1, <2>6, <3>2, <3>4, <3>5, <3>6 DEF Queued
  <2>7. CASE r # z
    <3>1. t.next = Behind(nxt, S, z, r)
      BY <1>6, <2>5 DEF Behind
    <3>2. ThenBehind(nxt, t.next, S, z, r)
      BY <1>1, <1>2, <2>1, <2>7, <3>1, BehindIs
    <3>3. r \notin S => Chain(t.next, head, S \cup {r}, r)
      BY <1>6, <3>1, ChainGrows
    <3>4. r \in S => \E T \in SUBSET (S \ {z}) : r \in T /\ Chain(t.next, head, T, r)
      BY <2>7, <3>1, ChainCut
    <3>5. /\ t.next \in Links /\ t.next[r] = 0 /\ t.next[z] = r /\ t.next[0] = nxt[0]
          /\ \A u \in Thread \ {r, z} : t.next[u] = nxt[u]
      BY <1>2, <1>6, <2>1, <3>2 DEF ThenBehind
    <3> QED BY <1>6, <2>3, <2>5, <2>7, <3>3, <3>4, <3>5 DEF Queued
  <2> QED BY <2>6, <2>7
<1> QED BY <1>5, <1>6

(* PROC 0, when it is woken: it comes behind itself. *)
LEMMA IdleQueued ==
  ASSUME ThreadSizes, NEW nxt \in Links, nxt[0] \in {0, Null}, NEW head, NEW S, NEW z,
         Chain(nxt, head, S, z), NEW s, s = [next |-> nxt, head |-> head],
         Threads!CanEnqueue(s, 0), NEW t, t = Threads!Enqueued(s, 0)
  PROVE  /\ t.next = [nxt EXCEPT ![0] = 0] /\ t.head = head /\ Chain(t.next, head, S, z)
         /\ S # {} => nxt[z] = 0
<1> DEFINE A == Threads!Before(nxt, 0)
<1>1. /\ S \subseteq Thread /\ (S = {} => head = 0 /\ z = 0)
      /\ S # {} => head \in S /\ z \in S
  BY ChainFacts
<1>2. /\ Null \notin Pids /\ 0 \notin Thread /\ 0 \in Pids /\ Thread \subseteq Pids
      /\ Null # 0 /\ Null \notin Thread
  BY DEF ThreadSizes, Pids, Threads!Proc
<1>3. s.next = nxt /\ s.head = head
  OBVIOUS
<1>4. Threads!Pri(0) = 0 /\ (\A u \in Thread : Threads!Pri(u) = 1) /\ head \in Thread \cup {0}
  BY <1>1, <1>2 DEF Threads!Pri
<1>5. head # Null /\ Threads!Pri(0) <= Threads!Pri(head) /\ ~ Threads!Pri(0) > Threads!Pri(head)
  <2>1. head = 0 \/ head \in Thread
    BY <1>4
  <2> QED BY <1>2, <1>4, <2>1
<1>6. Threads!Ends(nxt, head, A)
  BY <1>3, <1>5 DEF Threads!CanEnqueue
<1>7. Threads!Follow(nxt, head, A) = 0 /\ (S # {} => nxt[z] = 0)
  <2>1. CASE S # {}
    BY <1>2, <1>6, <2>1, LookedFor
  <2>2. CASE S = {}
    <3>1. head = 0
      BY <1>1, <2>2
    <3>2. 0 \notin A => nxt[0] = 0
      BY <1>2 DEF Threads!Before, Pids
    <3> HIDE DEF A
    <3>3. Within(nxt, A, {0})
      BY <3>2 DEF Within
    <3>4. Threads!Follow(nxt, head, A) \in {0}
      BY <3>1, <3>3, FollowStays
    <3> QED BY <2>2, <3>4
  <2> QED BY <2>1, <2>2
<1> DEFINE m == [nxt EXCEPT ![0] = nxt[0], ![0] = 0]
<1>8. t = [next |-> m, head |-> head]
  <2>1. ~ (s.head = Null \/ Threads!Pri(0) > Threads!Pri(s.head))
    BY <1>3, <1>5
  <2>2. Threads!Follow(s.next, s.head, Threads!Before(s.next, 0)) = 0
    BY <1>3, <1>7
  <2> QED BY <1>3, <2>1, <2>2 DEF Threads!Enqueued
<1>m. m = [nxt EXCEPT ![0] = 0]
  BY DEF Links
<1> HIDE DEF m
<1>9. t.next = [nxt EXCEPT ![0] = 0] /\ t.head = head
  <2>1. t.next = m /\ t.head = head
    BY <1>8
  <2> QED BY <1>m, <2>1, Zenon
<1>10. \A u \in S : t.next[u] = nxt[u]
  BY <1>1, <1>2, <1>9 DEF Links
<1>11. Chain(t.next, head, S, z)
  BY <1>10, ChainSame
<1> QED BY <1>7, <1>9, <1>11
-----------------------------------------------------------------------------
(* The mutex is held by one thread of those that run or wait for the processor. *)

Lives(u, R) == place[u] = "inside" \/ (place[u] = "locking" /\ (u = running \/ u \in R))
Nobody(R) == \A u \in Thread : ~ Lives(u, R)
Only(v, R) == \A u \in Thread : Lives(u, R) => u = v
Unheld == value > 0 \/ mstatus = 0
Closed(z) == z # 0 /\ next[z] = z

(* Who may go on holds the mutex alone, with the running thread in readyQueue or not.  The
   running one is still there when unlock() has woken himself, and is then the last. *)
HoldsAlone(R, z) ==
  /\ Unheld => Nobody(R)
  /\ owner # 0 => Only(owner, R)
  /\ owner = 0 => ~ Unheld
  /\ \E v \in Thread : Only(v, R)
Twice(R, z) ==
  /\ running \in R => running = z /\ (Unheld \/ (owner \in {running, 0} /\ Only(running, R)))
  /\ running \in R /\ place[running] = "locking" => Closed(z)
  /\ running \in R /\ ~ Closed(z) /\ ~ Unheld /\ value < 0 /\ owner = running
       => queue \in {readyQueue, 0, Null}
Held(R, z) ==
  /\ HoldsAlone(R, z) /\ Twice(R, z)
  /\ running \notin R => next[running] \in {readyQueue, 0, Null}
  /\ Closed(z) => Unheld \/ owner = running \/ (owner \in {z, 0} /\ Only(z, R))

Idle == running = 0 => readyQueue \in {0, Null} /\ (readyQueue = 0 => next[0] = 0)
OneInside == \E v \in Thread : \A u \in Thread : place[u] = "inside" => u = v
Ordered == running \in Thread => \E R, z : Chain(next, readyQueue, R, z) /\ Held(R, z)
MutexInv ==
  Threads!TypeOK /\ value <= 1 /\ next[0] \in {0, Null} /\ OneInside /\ Idle /\ Ordered

(* A new order of the running thread's is one of everybody's. *)
LEMMA OrderFound ==
  ASSUME ThreadSizes, Threads!TypeOK', (value <= 1)', (next[0] \in {0, Null})',
         running' \in Thread, NEW R, NEW z, Chain(next, readyQueue, R, z)', Held(R, z)'
  PROVE  MutexInv'
<1>1. OneInside'
  <2>1. PICK v \in Thread : Only(v, R)'
    BY DEF Held, HoldsAlone
  <2> QED BY <2>1 DEF OneInside, Only, Lives
<1>2. Idle'
  BY DEF Idle, ThreadSizes
<1>3. Ordered'
  BY DEF Ordered
<1> QED BY <1>1, <1>2, <1>3 DEF MutexInv

(* The steps that change no queue. *)
LEMMA QueueStays ==
  ASSUME ThreadSizes, MutexInv, NEW p \in Thread, running = p,
         \/ Threads!Locked(p)
         \/ /\ place[p] # "locking"
            /\ Threads!Creat(p) \/ Threads!Destroy(p) \/ Threads!Lock(p) \/ Threads!Unlock(p)
  PROVE  MutexInv'
<1>1. PICK R, z : Chain(next, readyQueue, R, z) /\ Held(R, z)
  BY DEF MutexInv, Ordered
<1>2. /\ next' = next /\ readyQueue' = readyQueue /\ running' = running
      /\ p \in Thread /\ p # 0 /\ p # Null /\ p \in Pids /\ Null # 0
  BY DEF Threads!Locked, Threads!Creat, Threads!Destroy, Threads!Lock, Threads!Unlock,
    ThreadSizes, Pids, Threads!Proc
<1>3. Chain(next, readyQueue, R, z)'
  <2>1. Chain(next', readyQueue', R, z)
    BY <1>1, <1>2
  <2> QED BY <2>1 DEF Chain, Path
<1>t. /\ Threads!TypeOK /\ value <= 1 /\ value \in Int /\ next[0] \in {0, Null}
      /\ place \in [Pids -> {"outside", "locking", "inside"}]
  BY DEF MutexInv, Threads!TypeOK, Pids
<1>4. Threads!TypeOK' /\ (value <= 1)' /\ (next[0] \in {0, Null})'
  <2>1. CASE Threads!Locked(p)
    BY <1>2, <1>t, <2>1 DEF Threads!Locked, Threads!TypeOK, Pids
  <2>2. CASE Threads!Creat(p)
    BY <1>2, <1>t, <2>2 DEF Threads!Creat, Threads!TypeOK, Pids
  <2>3. CASE Threads!Destroy(p)
    BY <1>2, <1>t, <2>3 DEF Threads!Destroy, Threads!TypeOK, Pids
  <2>4. CASE Threads!Lock(p)
    BY <1>2, <1>t, <2>4 DEF Threads!Lock, Threads!TypeOK, Pids
  <2>5. CASE Threads!Unlock(p)
    BY <1>2, <1>t, <2>5 DEF Threads!Unlock, Threads!TypeOK, Pids
  <2> QED BY <2>1, <2>2, <2>3, <2>4, <2>5
<1>5. Held(R, z)'
  <2>c. Closed(z)' <=> Closed(z)
    BY <1>2 DEF Closed
  <2>1. CASE Threads!Locked(p)
    <3>1. /\ place[p] = "locking" /\ owner' = p /\ place' = [place EXCEPT ![p] = "inside"]
          /\ mstatus' = mstatus /\ value' = value /\ queue' = queue
      BY <2>1 DEF Threads!Locked
    <3>2. place'[p] = "inside" /\ \A u \in Thread : u # p => place'[u] = place[u]
      BY <1>2, <1>t, <3>1 DEF Pids, Threads!Proc
    <3>3. Lives(p, R) /\ \A u \in Thread : Lives(u, R)' => Lives(u, R)
      BY <1>2, <3>1, <3>2 DEF Lives
    <3>4. Only(p, R)
      BY <1>1, <3>3 DEF Held, HoldsAlone, Only
    <3>5. Only(p, R)'
      BY <3>3, <3>4 DEF Only
    <3>6. ~ Unheld /\ ~ Unheld'
      BY <1>1, <3>1, <3>3 DEF Held, HoldsAlone, Unheld, Nobody
    <3>7. HoldsAlone(R, z)'
      BY <1>2, <3>1, <3>5, <3>6 DEF HoldsAlone
    <3>8. Twice(R, z)'
      BY <1>1, <1>2, <2>c, <3>1, <3>2, <3>5 DEF Held, Twice
    <3> QED BY <1>1, <1>2, <3>1, <3>7, <3>8 DEF Held
  <2>2. CASE place[p] # "locking" /\ (Threads!Creat(p) \/ Threads!Destroy(p) \/ Threads!Unlock(p))
    <3>1. Unheld' /\ owner' # 0 /\ \A u \in Thread : u # p => place'[u] = place[u]
      BY <1>2, <1>t, <2>2
         DEF Threads!Creat, Threads!Destroy, Threads!Unlock, Threads!IsOwner, Unheld, Pids,
             Threads!Proc
    <3>2. /\ ~ Lives(p, R)' /\ (\A u \in Thread : Lives(u, R)' => Lives(u, R))
          /\ place'[p] # "locking"
          /\ Nobody(R) \/ (Only(p, R) /\ place'[p] = "outside")
      <4>1. CASE Threads!Creat(p)
        <5>1. mstatus = 0 /\ place' = place
          BY <4>1 DEF Threads!Creat
        <5>2. Nobody(R)
          BY <1>1, <5>1 DEF Held, HoldsAlone, Unheld
        <5> QED BY <1>2, <2>2, <5>1, <5>2 DEF Nobody, Lives
      <4>2. CASE Threads!Destroy(p) \/ Threads!Unlock(p)
        <5>1. owner = p /\ place' = [place EXCEPT ![p] = "outside"]
          BY <4>2 DEF Threads!Destroy, Threads!Unlock, Threads!IsOwner
        <5>2. Only(p, R)
          BY <1>1, <1>2, <5>1 DEF Held, HoldsAlone
        <5>3. place'[p] = "outside" /\ \A u \in Thread : u # p => place'[u] = place[u]
          BY <1>2, <1>t, <5>1 DEF Pids, Threads!Proc
        <5> QED BY <1>2, <5>2, <5>3 DEF Lives
      <4> QED BY <2>2, <4>1, <4>2
    <3>3. Nobody(R)'
      BY <3>2 DEF Nobody, Only
    <3>4. HoldsAlone(R, z)'
      BY <1>2, <3>1, <3>3 DEF HoldsAlone, Nobody, Only
    <3>5. Twice(R, z)'
      BY <1>1, <1>2, <3>1, <3>2 DEF Held, Twice
    <3> QED BY <1>1, <1>2, <3>1, <3>4, <3>5 DEF Held
  <2>3. CASE Threads!Lock(p)
    <3>1. /\ value > 0 /\ value' = value - 1 /\ owner' = p
          /\ place' = [place EXCEPT ![p] = "inside"]
          /\ mstatus = 1 /\ mstatus' = mstatus /\ queue' = queue
      BY <2>3 DEF Threads!Lock
    <3>2. place'[p] = "inside" /\ \A u \in Thread : u # p => place'[u] = place[u]
      BY <1>2, <1>t, <3>1 DEF Pids, Threads!Proc
    <3>3. Nobody(R)
      BY <1>1, <3>1 DEF Held, HoldsAlone, Unheld
    <3>4. Only(p, R)'
      BY <1>2, <3>2, <3>3 DEF Nobody, Only, Lives
    <3>5. ~ Unheld' /\ ~ (value' < 0)
      BY <1>t, <3>1 DEF Unheld
    <3>6. HoldsAlone(R, z)'
      BY <1>2, <3>1, <3>4, <3>5 DEF HoldsAlone
    <3>7. Twice(R, z)'
      BY <1>1, <1>2, <3>1, <3>2, <3>4, <3>5 DEF Held, Twice
    <3> QED BY <1>1, <1>2, <3>1, <3>6, <3>7 DEF Held
  <2> QED BY <2>1, <2>2, <2>3 DEF Threads!Locked
<1> QED BY <1>2, <1>3, <1>4, <1>5, OrderFound

(* A slice ends.  The running thread comes behind the last one, and the first one runs. *)
LEMMA PreemptKeeps ==
  ASSUME ThreadSizes, MutexInv, running \in Thread, Threads!Preempt
  PROVE  MutexInv'
<1>p. PICK p \in Thread : p = running
  OBVIOUS
<1>h. PICK head : head = readyQueue
  OBVIOUS
<1>1. PICK R, z : Chain(next, head, R, z) /\ Held(R, z)
  BY <1>h DEF MutexInv, Ordered
<1>2. /\ R \subseteq Thread /\ (R = {} => head = 0 /\ z = 0)
      /\ R # {} => head \in R /\ z \in R
  BY <1>1, ChainFacts
<1>3. /\ Null \notin Pids /\ 0 \notin Thread /\ 0 \in Pids /\ Thread \subseteq Pids
      /\ Null # 0 /\ Null \notin Thread
  BY DEF ThreadSizes, Pids, Threads!Proc
<1>t. /\ Threads!TypeOK /\ value <= 1 /\ value \in Int /\ next[0] \in {0, Null}
      /\ next \in Links
  BY DEF MutexInv, Threads!TypeOK, Pids, Links
<1>4. PICK t : t = Threads!Enqueued(Threads!Ready, p)
  OBVIOUS
<1>5. /\ place[p] # "locking" /\ Threads!CanEnqueue(Threads!Ready, p)
      /\ running' = t.head /\ readyQueue' = t.next[t.head] /\ next' = t.next
      /\ status' = status /\ mstatus' = mstatus /\ owner' = owner /\ value' = value
      /\ queue' = queue /\ place' = place
  BY <1>4, <1>p DEF Threads!Preempt, Threads!Switch
<1>6. Queued(next, head, R, z, p, t.next, t.head)
  <2>1. PICK s : s = Threads!Ready
    OBVIOUS
  <2>2. s = [next |-> next, head |-> head]
    BY <1>h, <2>1 DEF Threads!Ready
  <2>3. Threads!CanEnqueue(s, p) /\ t = Threads!Enqueued(s, p)
    BY <1>4, <1>5, <2>1
  <2> QED BY <1>1, <1>t, <2>2, <2>3, ThreadQueued
<1>7. next' \in Links /\ next'[0] = next[0] /\ \A u \in Thread \ {p, z} : next'[u] = next[u]
  BY <1>5, <1>6 DEF Queued
<1>8. running' \in Thread
  BY <1>2, <1>5, <1>6 DEF Queued
<1>9. Threads!TypeOK' /\ (value <= 1)' /\ (next[0] \in {0, Null})'
  <2>1. readyQueue' \in Pids \cup {Null}
    BY <1>3, <1>5, <1>7, <1>8 DEF Links
  <2>2. UNCHANGED <<sem, pushed>>
    BY DEF Threads!Preempt
  <2> QED BY <1>3, <1>5, <1>7, <1>8, <1>t, <2>1, <2>2 DEF Threads!TypeOK, Links, Pids
<1>u. (Unheld' <=> Unheld) /\ owner' = owner /\ place' = place
  BY <1>5 DEF Unheld
<1>10. ASSUME NEW Q, NEW y, Chain(next, readyQueue, Q, y)',
              \A u \in Thread : Lives(u, Q)' => Lives(u, R),
              running' \notin Q, next'[running'] = readyQueue',
              Closed(y)' => Unheld \/ (owner \in {y, 0} /\ Only(y, R))
       PROVE  MutexInv'
  <2>1. HoldsAlone(Q, y)'
    BY <1>1, <1>u, <1>10 DEF Held, HoldsAlone, Nobody, Only
  <2>2. Twice(Q, y)'
    BY <1>10 DEF Twice
  <2>3. Held(Q, y)'
    BY <1>u, <1>10, <2>1, <2>2 DEF Held, Only
  <2> QED BY <1>8, <1>9, <1>10, <2>3, OrderFound
<1>11. CASE R = {}
  <2>1. next'[p] = 0 /\ running' = p /\ Chain(next', p, {p}, p)
    BY <1>5, <1>6, <1>11 DEF Queued
  <2>2. readyQueue' = 0
    BY <1>5, <2>1
  <2>3. Chain(next', next'[p], {p} \ {p}, IF p = p THEN 0 ELSE p)
    BY <1>3, <2>1, ChainPops
  <2>4. Chain(next', readyQueue', {}, 0)
    <3>1. {p} \ {p} = {} /\ (IF p = p THEN 0 ELSE p) = 0
      OBVIOUS
    <3> QED BY <2>1, <2>2, <2>3, <3>1
  <2>5. Chain(next, readyQueue, {}, 0)'
    BY <2>4 DEF Chain, Path
  <2>6. \A u \in Thread : Lives(u, {})' => Lives(u, R)
    BY <1>p, <1>u, <2>1 DEF Lives
  <2>7. ~ Closed(0)'
    BY DEF Closed
  <2> QED BY <1>10, <2>1, <2>2, <2>5, <2>6, <2>7
<1>12. CASE R # {} /\ p \notin R
  <2>1. next'[p] = 0 /\ running' = head /\ Chain(next', head, R \cup {p}, p) /\ head # p
    BY <1>2, <1>5, <1>6, <1>12 DEF Queued
  <2>2. next'[head] # head
    BY <1>2, <1>12, <2>1, ChainFacts
  <2>3. Chain(next', next'[head], (R \cup {p}) \ {head}, IF head = p THEN 0 ELSE p)
    BY <2>1, <2>2, ChainPops
  <2>4. readyQueue' = next'[head]
    BY <1>5, <2>1
  <2> DEFINE Q == (R \cup {p}) \ {head}
  <2>5. Chain(next', readyQueue', Q, p)
    BY <2>1, <2>3, <2>4
  <2>6. Chain(next, readyQueue, Q, p)'
    BY <2>5 DEF Chain, Path
  <2>7. \A u \in Thread : Lives(u, Q)' => Lives(u, R)
    BY <1>2, <1>12, <1>p, <1>u, <2>1 DEF Lives
  <2>8. ~ Closed(p)'
    BY <1>3, <2>1 DEF Closed
  <2> QED BY <1>10, <2>1, <2>4, <2>6, <2>7, <2>8
<1>13. CASE p \in R
  <2>1. p = z /\ (Unheld \/ (owner \in {z, 0} /\ Only(z, R)))
    BY <1>1, <1>13, <1>p DEF Held, Twice
  <2>2. next'[z] = z /\ running' = head /\ Chain(next', head, R, z) /\ z \in R /\ head \in R
    BY <1>2, <1>5, <1>6, <1>13, <2>1 DEF Queued
  <2>3. readyQueue' = next'[head]
    BY <1>5, <2>2
  <2>4. CASE head # z
    <3>1. next'[head] # head
      BY <2>2, <2>4, ChainFacts
    <3>2. Chain(next', next'[head], R \ {head}, IF head = z THEN 0 ELSE z)
      BY <2>2, <3>1, ChainPops
    <3>3. Chain(next', readyQueue', R \ {head}, z)
      BY <2>3, <2>4, <3>2
    <3>4. Chain(next, readyQueue, R \ {head}, z)'
      BY <3>3 DEF Chain, Path
    <3>5. \A u \in Thread : Lives(u, R \ {head})' => Lives(u, R)
      BY <1>u, <2>2 DEF Lives
    <3> QED BY <1>10, <2>1, <2>2, <2>3, <3>4, <3>5
  <2>5. CASE head = z
    <3>1. readyQueue' = z /\ running' = z
      BY <2>2, <2>3, <2>5
    <3>2. Chain(next, readyQueue, R, z)'
      <4>1. Chain(next', readyQueue', R, z)
        BY <2>2, <2>5, <3>1
      <4> QED BY <4>1 DEF Chain, Path
    <3>3. \A u \in Thread : Lives(u, R)' => Lives(u, R)
      BY <1>p, <1>u, <2>1, <3>1 DEF Lives
    <3>4. Closed(z)'
      BY <1>2, <1>3, <2>2 DEF Closed
    <3>5. HoldsAlone(R, z)'
      BY <1>1, <1>u, <3>3 DEF Held, HoldsAlone, Nobody, Only
    <3>6. Unheld' \/ (owner' \in {z, 0} /\ Only(z, R)')
      BY <1>u, <2>1, <3>3 DEF Only
    <3>7. Twice(R, z)'
      BY <3>1, <3>4, <3>6 DEF Twice
    <3>8. Held(R, z)'
      BY <2>2, <3>1, <3>5, <3>6, <3>7 DEF Held
    <3> QED BY <1>8, <1>9, <3>2, <3>8, OrderFound
  <2> QED BY <2>4, <2>5
<1> QED BY <1>11, <1>12, <1>13

(* A thread waits for the mutex.  Nobody's link changes, and the first one runs. *)
LEMMA BlockKeeps ==
  ASSUME ThreadSizes, MutexInv, NEW p \in Thread, running = p, Threads!LockBlock(p)
  PROVE  MutexInv'
<1>h. PICK head : head = readyQueue
  OBVIOUS
<1>1. PICK R, z : Chain(next, head, R, z) /\ Held(R, z)
  BY <1>h DEF MutexInv, Ordered
<1>2. /\ R \subseteq Thread /\ (R = {} => head = 0 /\ z = 0)
      /\ R # {} => head \in R /\ z \in R
      /\ \A u \in R : u # z => next[u] # u
  BY <1>1, ChainFacts
<1>3. /\ Null \notin Pids /\ 0 \notin Thread /\ 0 \in Pids /\ Thread \subseteq Pids
      /\ Null # 0 /\ Null \notin Thread /\ p # 0
  BY DEF ThreadSizes, Pids, Threads!Proc
<1>t. /\ Threads!TypeOK /\ value <= 1 /\ value \in Int /\ next[0] \in {0, Null}
      /\ next \in Links /\ place \in [Pids -> {"outside", "locking", "inside"}]
  BY DEF MutexInv, Threads!TypeOK, Pids, Links
<1>4. /\ place[p] = "outside" /\ mstatus = 1 /\ value <= 0 /\ owner # p /\ value' = value - 1
      /\ queue' = (IF queue = Null THEN p ELSE queue) /\ status' = [status EXCEPT ![p] = "BLOCK"]
      /\ place' = [place EXCEPT ![p] = "locking"] /\ mstatus' = mstatus /\ owner' = owner
      /\ Threads!Ends(next, queue, Threads!LastOf(next))
  BY DEF Threads!LockBlock
<1>5. Threads!Waiter(p) = next
  <2>1. CASE queue = Null
    BY <2>1 DEF Threads!Waiter
  <2>2. CASE queue # Null
    <3> DEFINE q == Threads!Follow(next, queue, Threads!LastOf(next))
    <3>1. q \in Pids /\ next[q] = Null
      BY <1>4, <2>2 DEF Threads!Ends, Threads!LastOf, Pids
    <3>2. Threads!Waiter(p) = [next EXCEPT ![q] = Null]
      BY <2>2 DEF Threads!Waiter
    <3> HIDE DEF q
    <3> QED BY <1>t, <3>1, <3>2 DEF Links
  <2> QED BY <2>1, <2>2
<1>6. head # Null /\ running' = head /\ readyQueue' = next[head] /\ next' = next
  <2>1. PICK s : s = [next |-> Threads!Waiter(p), head |-> readyQueue]
    OBVIOUS
  <2>2. s.next = next /\ s.head = head
    BY <1>5, <1>h, <2>1
  <2>3. s.head # Null /\ running' = s.head /\ readyQueue' = s.next[s.head] /\ next' = s.next
    BY <2>1 DEF Threads!LockBlock, Threads!Switch
  <2> QED BY <2>2, <2>3
<1>7. place'[p] = "locking" /\ \A u \in Thread : u # p => place'[u] = place[u]
  BY <1>3, <1>4, <1>t DEF Pids, Threads!Proc
<1>8. head \in Pids
  BY <1>2, <1>3
<1>9. Threads!TypeOK' /\ (value <= 1)' /\ (next[0] \in {0, Null})'
  <2>1. readyQueue' \in Pids \cup {Null}
    BY <1>6, <1>8, <1>t DEF Links
  <2>2. queue' \in Pids \cup {Null}
    BY <1>3, <1>4, <1>t DEF Threads!TypeOK, Pids
  <2>3. /\ status' \in [Pids -> {"READY", "BLOCK"}]
        /\ place' \in [Pids -> {"outside", "locking", "inside"}]
    BY <1>3, <1>4, <1>t DEF Threads!TypeOK, Pids
  <2>4. value' \in Int /\ value' <= 1
    BY <1>4, <1>t
  <2>5. UNCHANGED <<sem, pushed>>
    BY DEF Threads!LockBlock
  <2> QED BY <1>4, <1>6, <1>8, <1>t, <2>1, <2>2, <2>3, <2>4, <2>5 DEF Threads!TypeOK, Pids
<1>u. ~ Unheld /\ ~ Unheld'
  BY <1>4, <1>t DEF Unheld
<1>10. CASE R = {}
  <2>1. running' = 0 /\ readyQueue' = next[0]
    BY <1>2, <1>6, <1>10
  <2>2. Idle'
    BY <1>6, <1>t, <2>1 DEF Idle
  <2>3. OneInside'
    BY <1>7 DEF OneInside, MutexInv
  <2>4. Ordered'
    BY <1>3, <2>1 DEF Ordered
  <2> QED BY <1>9, <2>2, <2>3, <2>4 DEF MutexInv
<1>11. CASE R # {}
  <2>1. head \in R /\ z \in R /\ z # 0 /\ head \in Thread
    BY <1>2, <1>3, <1>11
  <2>2. ASSUME NEW Q, NEW y, Chain(next, readyQueue, Q, y)', Q \subseteq R, Q \cup {head} = R,
               y = z \/ ~ Closed(y)', head \in Q => head = z /\ y = z /\ Closed(z),
               next[head] = readyQueue'
        PROVE  MutexInv'
    <3>1. \A u \in Thread : Lives(u, Q)' => Lives(u, R) \/ (u = p /\ p \in R)
      BY <1>6, <1>7, <2>2 DEF Lives
    <3>2. CASE p \in R
      <4>1. owner = 0 /\ Only(p, R) /\ p = z
        BY <1>1, <1>4, <1>u, <3>2 DEF Held, Twice
      <4>2. Only(p, Q)'
        BY <3>1, <4>1 DEF Only
      <4>3. HoldsAlone(Q, y)'
        BY <1>4, <1>u, <4>1, <4>2 DEF HoldsAlone
      <4>4. owner' = 0 /\ Only(z, Q)'
        BY <1>4, <4>1, <4>2
      <4>5. Closed(z) <=> Closed(z)'
        BY <1>6 DEF Closed
      <4>6. Twice(Q, y)'
        BY <1>6, <2>2, <4>4, <4>5 DEF Twice
      <4>7. Held(Q, y)'
        BY <1>6, <2>2, <4>3, <4>4, <4>6 DEF Held
      <4> QED BY <1>6, <1>9, <2>1, <2>2, <4>7, OrderFound
    <3>3. CASE p \notin R
      <4>1. \A u \in Thread : Lives(u, Q)' => Lives(u, R)
        BY <3>1, <3>3
      <4>2. HoldsAlone(Q, y)'
        BY <1>1, <1>4, <1>u, <4>1 DEF Held, HoldsAlone, Only
      <4>5. Closed(z) <=> Closed(z)'
        BY <1>6 DEF Closed
      <4>3. Closed(z) => owner \in {z, 0} /\ Only(z, R)
        BY <1>1, <1>4, <1>u DEF Held
      <4>4. Closed(z) => owner' \in {z, 0} /\ Only(z, Q)'
        BY <1>4, <4>1, <4>3 DEF Only
      <4>6. Twice(Q, y)'
        BY <1>6, <2>2, <4>4, <4>5 DEF Twice
      <4>7. Held(Q, y)'
        BY <1>6, <2>2, <4>2, <4>4, <4>5, <4>6 DEF Held
      <4> QED BY <1>6, <1>9, <2>1, <2>2, <4>7, OrderFound
    <3> QED BY <3>2, <3>3
  <2>3. CASE next[head] = head
    <3>1. head = z /\ Closed(z)
      BY <1>2, <2>1, <2>3 DEF Closed
    <3>2. readyQueue' = head
      BY <1>6, <2>3
    <3>3. Chain(next, readyQueue, R, z)'
      <4>1. Chain(next', readyQueue', R, z)
        BY <1>1, <1>6, <3>2
      <4> QED BY <4>1 DEF Chain, Path
    <3> QED BY <2>1, <2>2, <2>3, <3>1, <3>2, <3>3
  <2>4. CASE next[head] # head
    <3> DEFINE y == IF head = z THEN 0 ELSE z
    <3>1. Chain(next, next[head], R \ {head}, y)
      BY <1>1, <1>11, <2>4, ChainPops
    <3>2. Chain(next, readyQueue, R \ {head}, y)'
      <4>1. Chain(next', readyQueue', R \ {head}, y)
        BY <1>6, <3>1
      <4> QED BY <4>1 DEF Chain, Path
    <3>3. y = z \/ ~ Closed(y)'
      BY DEF Closed
    <3> QED BY <1>6, <2>1, <2>2, <3>2, <3>3
  <2> QED BY <2>3, <2>4
<1> QED BY <1>10, <1>11

(* unlock() wakes the first one of the mutex's queue, and the mutex is his. *)
LEMMA WakeKeeps ==
  ASSUME ThreadSizes, MutexInv, NEW p \in Thread, running = p, Threads!UnlockWake(p)
  PROVE  MutexInv'
<1>h. PICK head : head = readyQueue
  OBVIOUS
<1>r. PICK r : r = queue
  OBVIOUS
<1>1. PICK R, z : Chain(next, head, R, z) /\ Held(R, z)
  BY <1>h DEF MutexInv, Ordered
<1>2. /\ R \subseteq Thread /\ (R = {} => head = 0 /\ z = 0)
      /\ R # {} => head \in R /\ z \in R
  BY <1>1, ChainFacts
<1>3. /\ Null \notin Pids /\ 0 \notin Thread /\ 0 \in Pids /\ Thread \subseteq Pids
      /\ Null # 0 /\ Null \notin Thread /\ p # 0
  BY DEF ThreadSizes, Pids, Threads!Proc
<1>t. /\ Threads!TypeOK /\ value <= 1 /\ value \in Int /\ next[0] \in {0, Null}
      /\ next \in Links /\ place \in [Pids -> {"outside", "locking", "inside"}]
  BY DEF MutexInv, Threads!TypeOK, Pids, Links
<1>4. PICK s : s = Threads!Ready
  OBVIOUS
<1>5. PICK t : t = Threads!Enqueued(s, r)
  OBVIOUS
<1>6. /\ mstatus = 1 /\ owner = p /\ value < 0 /\ queue # Null /\ value' = value + 1
      /\ place' = [place EXCEPT ![p] = "outside"] /\ queue' = next[r] /\ owner' = r
      /\ status' = [status EXCEPT ![queue] = "READY"] /\ Threads!CanEnqueue(s, r)
      /\ next' = t.next /\ readyQueue' = t.head /\ running' = running /\ mstatus' = mstatus
  BY <1>4, <1>5, <1>r DEF Threads!UnlockWake, Threads!IsOwner
<1>7. s = [next |-> next, head |-> head]
  BY <1>4, <1>h DEF Threads!Ready
<1>8. r \in Pids /\ (r = 0 \/ r \in Thread)
  BY <1>6, <1>r, <1>t DEF Threads!TypeOK, Pids, Threads!Proc
<1>9. place'[p] = "outside" /\ \A u \in Thread : u # p => place'[u] = place[u]
  BY <1>3, <1>6, <1>t DEF Pids, Threads!Proc
<1>u. ~ Unheld /\ ~ Unheld' /\ Only(p, R)
  <2>1. ~ Unheld /\ ~ Unheld'
    BY <1>6, <1>t DEF Unheld
  <2>2. Only(p, R)
    BY <1>1, <1>3, <1>6 DEF Held, HoldsAlone
  <2> QED BY <2>1, <2>2
(* It is enough that the new order is one in which the woken thread may go on alone. *)
<1>10. ASSUME next' \in Links, next'[0] \in {0, Null}, readyQueue' \in Pids,
              NEW Q, NEW y, Chain(next, readyQueue, Q, y)', Q \subseteq R \cup {r},
              p \in Q => /\ p = y /\ r \in {p, 0}
                         /\ r = p => Closed(y)' \/ queue' \in {readyQueue, 0, Null}',
              p \notin Q => next'[p] \in {readyQueue, 0, Null}',
              Closed(y)' => y = r
       PROVE  MutexInv'
  <2>1. Threads!TypeOK' /\ (value <= 1)' /\ (next[0] \in {0, Null})'
    <3>1. status' \in [Pids -> {"READY", "BLOCK"}]
      BY <1>3, <1>6, <1>t DEF Threads!TypeOK, Pids
    <3>2. place' \in [Pids -> {"outside", "locking", "inside"}]
      BY <1>3, <1>6, <1>t
    <3>3. value' \in Int /\ value' <= 1
      BY <1>6, <1>t
    <3>4. queue' \in Pids \cup {Null}
      BY <1>6, <1>8, <1>t DEF Links
    <3>5. UNCHANGED <<sem, pushed>>
      BY DEF Threads!UnlockWake
    <3> QED BY <1>3, <1>6, <1>8, <1>10, <1>t, <3>1, <3>2, <3>3, <3>4, <3>5
            DEF Threads!TypeOK, Pids, Links
  <2>2. Only(r, Q)'
    <3>1. \A u \in Thread : Lives(u, Q)' => u = r
      <4> SUFFICES ASSUME NEW u \in Thread, Lives(u, Q)' PROVE u = r
        OBVIOUS
      <4>1. u # p /\ place'[u] = place[u]
        BY <1>9 DEF Lives
      <4>2. CASE u = r
        BY <4>2
      <4>3. CASE u # r
        <5>1. Lives(u, R)
          BY <1>6, <1>10, <4>1, <4>3 DEF Lives
        <5> QED BY <1>u, <4>1, <5>1 DEF Only
      <4> QED BY <4>2, <4>3
    <3> QED BY <3>1 DEF Only
  <2>3. \E v \in Thread : Only(v, Q)'
    <3>1. CASE r \in Thread
      BY <2>2, <3>1
    <3>2. CASE r = 0
      BY <1>3, <2>2, <3>2 DEF Only
    <3> QED BY <1>8, <3>1, <3>2
  <2>4. HoldsAlone(Q, y)'
    BY <1>6, <1>u, <2>2, <2>3 DEF HoldsAlone
  <2>p. r = 0 => Only(p, Q)'
    BY <1>3, <2>2 DEF Only
  <2>5. Twice(Q, y)'
    BY <1>3, <1>6, <1>9, <1>10, <2>2, <2>p DEF Twice
  <2>6. Held(Q, y)'
    BY <1>6, <1>10, <2>2, <2>4, <2>5 DEF Held
  <2> QED BY <1>6, <1>10, <2>1, <2>6, OrderFound
<1>11. CASE r = 0
  <2>1. /\ t.next = [next EXCEPT ![0] = 0] /\ t.head = head /\ Chain(t.next, head, R, z)
        /\ R # {} => next[z] = 0
    BY <1>1, <1>5, <1>6, <1>7, <1>11, <1>t, IdleQueued
  <2>2. /\ next' \in Links /\ next'[0] = 0 /\ (\A u \in Thread : next'[u] = next[u])
        /\ readyQueue' = head
    BY <1>3, <1>6, <1>t, <2>1 DEF Links
  <2>3. Chain(next, readyQueue, R, z)'
    <3>1. Chain(next', readyQueue', R, z)
      BY <1>6, <2>1
    <3> QED BY <3>1 DEF Chain, Path
  <2>4. head \in Pids
    BY <1>2, <1>3
  <2>5. ~ Closed(z)'
    BY <1>2, <1>3, <2>1, <2>2 DEF Closed
  <2>6. p \in R => p = z
    BY <1>1, <1>6 DEF Held, Twice
  <2>7. p \notin R => next'[p] \in {readyQueue, 0, Null}'
    BY <1>1, <1>h, <2>2 DEF Held
  <2> QED BY <1>10, <1>11, <2>2, <2>3, <2>4, <2>5, <2>6, <2>7
<1>12. CASE r \in Thread
  <2>1. Queued(next, head, R, z, r, t.next, t.head)
    BY <1>1, <1>5, <1>6, <1>7, <1>12, <1>t, ThreadQueued
  <2>2. /\ next' \in Links /\ next'[0] = next[0] /\ next'[0] \in {0, Null}
        /\ \A u \in Thread \ {r, z} : next'[u] = next[u]
    BY <1>6, <1>t, <2>1 DEF Queued
  <2>3. p \notin R => next[p] \in {head, 0, Null}
    BY <1>1, <1>h, <1>6 DEF Held
  <2>4. p \in R => p = z /\ (Closed(z) \/ r \in {head, 0, Null})
    BY <1>1, <1>6, <1>h, <1>r, <1>u DEF Held, Twice
  <2>5. CASE R = {}
    <3>1. readyQueue' = r /\ next'[r] = 0 /\ Chain(next', readyQueue', {r}, r)
      BY <1>6, <2>1, <2>5 DEF Queued
    <3>2. Chain(next, readyQueue, {r}, r)'
      BY <3>1 DEF Chain, Path
    <3>3. next[p] \in {0, Null}
      BY <1>2, <2>3, <2>5
    <3>4. p # r => next'[p] = next[p]
      BY <1>2, <1>3, <2>2, <2>5
    <3>5. ~ Closed(r)'
      BY <1>3, <1>12, <3>1 DEF Closed
    <3> QED BY <1>6, <1>8, <1>10, <2>2, <3>1, <3>2, <3>3, <3>4, <3>5
  <2>6. CASE R # {} /\ r \notin R
    <3>1. /\ readyQueue' = head /\ next'[r] = 0 /\ Chain(next', readyQueue', R \cup {r}, r)
          /\ next[z] = 0
      BY <1>6, <2>1, <2>6 DEF Queued
    <3>2. Chain(next, readyQueue, R \cup {r}, r)'
      BY <3>1 DEF Chain, Path
    <3>3. p \notin R
      <4>1. ~ Closed(z)
        BY <3>1 DEF Closed
      <4>2. r \notin {head, 0, Null}
        BY <1>2, <1>3, <1>12, <2>6
      <4> QED BY <2>4, <4>1, <4>2
    <3>4. p # r => next'[p] = next[p]
      BY <1>2, <2>2, <2>6, <3>3
    <3>5. ~ Closed(r)'
      BY <1>3, <1>12, <3>1 DEF Closed
    <3>6. head \in Pids
      BY <1>2, <1>3
    <3> QED BY <1>6, <1>10, <2>2, <2>3, <3>1, <3>2, <3>3, <3>4, <3>5, <3>6
  <2>7. CASE R # {} /\ r = z
    <3>1. readyQueue' = head /\ next'[z] = z /\ Chain(next', readyQueue', R, z)
      BY <1>6, <2>1, <2>7 DEF Queued
    <3>2. Chain(next, readyQueue, R, z)'
      BY <3>1 DEF Chain, Path
    <3>3. p \notin R => next'[p] = next[p]
      BY <1>2, <2>2, <2>7
    <3>4. Closed(z)'
      BY <1>3, <1>12, <2>7, <3>1 DEF Closed
    <3>5. head \in Pids
      BY <1>2, <1>3
    <3> QED BY <1>10, <2>2, <2>3, <2>4, <2>7, <3>1, <3>2, <3>3, <3>4, <3>5
  <2>8. CASE r \in R /\ r # z
    <3>1. /\ readyQueue' = head /\ next'[r] = 0 /\ next'[z] = r /\ next[z] = 0
          /\ \E T \in SUBSET (R \ {z}) : r \in T /\ Chain(t.next, t.head, T, r)
      BY <1>6, <2>1, <2>8 DEF Queued
    <3>2. PICK T \in SUBSET (R \ {z}) : r \in T /\ Chain(t.next, t.head, T, r)
      BY <3>1
    <3>3. Chain(next, readyQueue, T, r)'
      <4>1. Chain(next', readyQueue', T, r)
        BY <1>6, <3>2
      <4> QED BY <4>1 DEF Chain, Path
    <3>4. p \notin T
      BY <2>4, <3>2
    <3>5. next'[p] \in {readyQueue, 0, Null}'
      <4>1. CASE p \in R
        <5>1. ~ Closed(z)
          BY <1>3, <2>8, <3>1 DEF Closed
        <5> QED BY <2>4, <3>1, <4>1, <5>1
      <4>2. CASE p \notin R
        BY <1>2, <2>2, <2>3, <2>8, <3>1, <4>2
      <4> QED BY <4>1, <4>2
    <3>6. ~ Closed(r)'
      BY <1>3, <1>12, <3>1 DEF Closed
    <3>7. head \in Pids
      BY <1>2, <1>3
    <3> QED BY <1>10, <2>2, <2>8, <3>1, <3>2, <3>3, <3>4, <3>5, <3>6, <3>7
  <2> QED BY <2>5, <2>6, <2>7, <2>8
<1> QED BY <1>8, <1>11, <1>12

(* Once the idle loop runs it finds nothing to switch to. *)
LEMMA IdleStays ==
  ASSUME ThreadSizes, MutexInv, running = 0
  PROVE  ~ Threads!Preempt
<1> SUFFICES ASSUME Threads!Preempt PROVE FALSE
  OBVIOUS
<1>1. readyQueue = 0 /\ next[0] = 0 /\ Null # 0
  BY DEF MutexInv, Idle, Threads!Preempt, ThreadSizes
<1> DEFINE A == Threads!Before(next, 0)
<1>2. PICK s : s = Threads!Ready
  OBVIOUS
<1>3. s.next = next /\ s.head = 0
  BY <1>1, <1>2 DEF Threads!Ready
<1>4. Threads!CanEnqueue(s, 0)
  BY <1>2 DEF Threads!Preempt
<1>5. Threads!Ends(next, 0, A)
  BY <1>1, <1>3, <1>4 DEF Threads!CanEnqueue, Threads!Pri
<1>6. 0 \notin A
  BY <1>1 DEF Threads!Before, Threads!Pri
<1> HIDE DEF A
<1>7. Within(next, A, {0})
  BY <1>1 DEF Within
<1>8. Threads!Follow(next, 0, A) \in {0}
  BY <1>7, FollowStays
<1> QED BY <1>1, <1>5, <1>6, <1>8 DEF Threads!Ends

(* What the invariant is about stays as it is. *)
LEMMA OrderStays ==
  ASSUME MutexInv, sem' \subseteq Thread, pushed' \in BOOLEAN,
         UNCHANGED <<next, readyQueue, running, status, mstatus, owner, value, queue, place>>
  PROVE  MutexInv'
<1>1. (Threads!TypeOK /\ value <= 1 /\ next[0] \in {0, Null})'
  BY DEF MutexInv, Threads!TypeOK
<1>2. OneInside' /\ Idle'
  BY DEF MutexInv, OneInside, Idle
<1>3. ASSUME (running \in Thread)' PROVE Ordered'
  <2>1. PICK R, z : Chain(next, readyQueue, R, z) /\ Held(R, z)
    BY <1>3 DEF MutexInv, Ordered
  <2>2. Chain(next', readyQueue', R, z)
    BY <2>1
  <2>3. Chain(next, readyQueue, R, z)'
    BY <2>2 DEF Chain, Path
  <2>4. Held(R, z)'
    BY <2>1 DEF Held, HoldsAlone, Twice, Nobody, Only, Lives, Unheld, Closed
  <2> QED BY <2>3, <2>4 DEF Ordered
<1> QED BY <1>1, <1>2, <1>3 DEF MutexInv, Ordered

LEMMA MutexStep ==
  ASSUME ThreadSizes, MutexInv, Threads!Next, ~pushed' PROVE MutexInv'
<1>1. running = 0 \/ running \in Thread
  BY DEF MutexInv, Threads!TypeOK, Threads!Proc
<1>2. CASE Threads!Preempt
  BY <1>1, <1>2, PreemptKeeps, IdleStays
<1>3. ASSUME NEW p \in Thread, running = p,
             \/ Threads!Locked(p)
             \/ /\ place[p] # "locking"
                /\ \/ Threads!Creat(p) \/ Threads!Destroy(p) \/ Threads!Lock(p)
                   \/ Threads!LockBlock(p) \/ Threads!Unlock(p) \/ Threads!UnlockWake(p)
      PROVE  MutexInv'
  <2>1. CASE Threads!LockBlock(p)
    BY <1>3, <2>1, BlockKeeps
  <2>2. CASE Threads!UnlockWake(p)
    BY <1>3, <2>2, WakeKeeps
  <2>3. CASE ~ Threads!LockBlock(p) /\ ~ Threads!UnlockWake(p)
    BY <1>3, <2>3, QueueStays
  <2> QED BY <2>1, <2>2, <2>3
<1>4. ASSUME NEW p \in Thread, Threads!Reads(p) PROVE MutexInv'
  <2>1. sem' \subseteq Thread /\ pushed' \in BOOLEAN
    BY <1>4 DEF Threads!Reads, MutexInv, Threads!TypeOK
  <2> QED BY <1>4, <2>1, OrderStays DEF Threads!Reads
<1>5. \A p \in Thread : ~ Threads!Kill(p)
  BY DEF Threads!Kill
<1> QED BY <1>2, <1>3, <1>4, <1>5 DEF Threads!Next

(* enqueue() leaves the links and the head what they are, whatever they were. *)
LEMMA EnqueueTyped ==
  ASSUME ThreadSizes, NEW s, s \in [next : Links, head : Pids \cup {Null}], NEW p \in Pids,
         Threads!CanEnqueue(s, p), NEW t, t = Threads!Enqueued(s, p)
  PROVE  t.next \in Links /\ t.head \in Pids \cup {Null}
<1>1. CASE s.head = Null \/ Threads!Pri(p) > Threads!Pri(s.head)
  <2>1. t = [next |-> [s.next EXCEPT ![p] = s.head], head |-> p]
    BY <1>1 DEF Threads!Enqueued
  <2> QED BY <2>1 DEF Links
<1>2. CASE ~ (s.head = Null \/ Threads!Pri(p) > Threads!Pri(s.head))
  <2>1. PICK q : q = Threads!Follow(s.next, s.head, Threads!Before(s.next, p))
    OBVIOUS
  <2>2. t = [next |-> [s.next EXCEPT ![p] = s.next[q], ![q] = p], head |-> s.head]
    BY <1>2, <2>1 DEF Threads!Enqueued
  <2>3. \A a, b : Threads!Pri(a) <= Threads!Pri(b) \/ Threads!Pri(a) > Threads!Pri(b)
    BY DEF Threads!Pri
  <2>4. q \in Pids
    <3>1. Threads!Ends(s.next, s.head, Threads!Before(s.next, p))
      BY <1>2, <2>3 DEF Threads!CanEnqueue
    <3> QED BY <1>2, <2>1, <3>1 DEF Threads!Ends, Threads!Before, Pids
  <2>5. [s.next EXCEPT ![p] = s.next[q], ![q] = p] \in Links
    BY <2>4 DEF Links
  <2> QED BY <2>2, <2>5
<1> QED BY <1>1, <1>2

LEMMA MutexTyped ==
  ASSUME ThreadSizes, Threads!TypeOK, Threads!Next PROVE Threads!TypeOK'
<1>1. /\ next \in Links /\ readyQueue \in Pids \cup {Null} /\ running \in Pids
      /\ queue \in Pids \cup {Null} /\ Thread \subseteq Pids
      /\ Threads!Ready \in [next : Links, head : Pids \cup {Null}]
  BY DEF Threads!TypeOK, Links, Pids, Threads!Proc, Threads!Ready
<1>2. ASSUME NEW s, s \in [next : Links, head : Pids \cup {Null}], Threads!Switch(s)
      PROVE  next' \in Links /\ running' \in Pids /\ readyQueue' \in Pids \cup {Null}
  BY <1>2 DEF Threads!Switch, Links
<1>3. CASE Threads!Preempt
  <2>1. PICK t : t = Threads!Enqueued(Threads!Ready, running)
    OBVIOUS
  <2>2. t.next \in Links /\ t.head \in Pids \cup {Null}
    BY <1>1, <1>3, <2>1, EnqueueTyped DEF Threads!Preempt
  <2>3. next' \in Links /\ running' \in Pids /\ readyQueue' \in Pids \cup {Null}
    <3>1. t.head # Null /\ running' = t.head /\ readyQueue' = t.next[t.head] /\ next' = t.next
      BY <1>3, <2>1 DEF Threads!Preempt, Threads!Switch
    <3> QED BY <2>2, <3>1 DEF Links
  <2> QED BY <1>3, <2>3 DEF Threads!Preempt, Threads!TypeOK, Links, Pids
<1>4. ASSUME NEW p \in Thread, Threads!Kill(p) PROVE Threads!TypeOK'
  <2>1. PICK t : t = Threads!Enqueued(Threads!Ready, p)
    OBVIOUS
  <2>2. next' = t.next /\ readyQueue' = t.head
    BY <1>4, <2>1 DEF Threads!Kill
  <2>3. next' \in Links /\ readyQueue' \in Pids \cup {Null}
    BY <1>1, <1>4, <2>1, <2>2, EnqueueTyped DEF Threads!Kill
  <2> QED BY <1>4, <2>3 DEF Threads!Kill, Threads!TypeOK, Links, Pids
<1>5. ASSUME NEW p \in Thread, Threads!UnlockWake(p) PROVE Threads!TypeOK'
  <2>1. PICK t : t = Threads!Enqueued(Threads!Ready, queue)
    OBVIOUS
  <2>2. next' = t.next /\ readyQueue' = t.head /\ queue \in Pids /\ queue' = next[queue]
    BY <1>1, <1>5, <2>1 DEF Threads!UnlockWake
  <2>3. next' \in Links /\ readyQueue' \in Pids \cup {Null} /\ queue' \in Pids \cup {Null}
    BY <1>1, <1>5, <2>1, <2>2, EnqueueTyped DEF Threads!UnlockWake, Links
  <2>4. value' \in Int /\ owner' \in Pids \cup {Null}
    BY <1>1, <1>5 DEF Threads!UnlockWake, Threads!TypeOK
  <2>5. /\ status' \in [Pids -> {"READY", "BLOCK"}]
        /\ place' \in [Pids -> {"outside", "locking", "inside"}]
    BY <1>1, <1>5, <2>2 DEF Threads!UnlockWake, Threads!TypeOK, Pids
  <2>6. UNCHANGED <<running, mstatus, sem, pushed>>
    BY <1>5 DEF Threads!UnlockWake
  <2> QED BY <2>3, <2>4, <2>5, <2>6 DEF Threads!TypeOK, Links, Pids
<1>6. ASSUME NEW p \in Thread, Threads!LockBlock(p) PROVE Threads!TypeOK'
  <2>1. Threads!Waiter(p) \in Links
    BY <1>1 DEF Threads!Waiter, Links
  <2>2. PICK s : s = [next |-> Threads!Waiter(p), head |-> readyQueue]
    OBVIOUS
  <2>3. next' \in Links /\ running' \in Pids /\ readyQueue' \in Pids \cup {Null}
    <3>1. s \in [next : Links, head : Pids \cup {Null}]
      BY <1>1, <2>1, <2>2
    <3>2. Threads!Switch(s)
      BY <1>6, <2>2 DEF Threads!LockBlock
    <3> QED BY <1>2, <3>1, <3>2
  <2>4. queue' \in Pids \cup {Null}
    BY <1>1, <1>6 DEF Threads!LockBlock
  <2>5. value' \in Int
    BY <1>6 DEF Threads!LockBlock, Threads!TypeOK
  <2>6. /\ status' \in [Pids -> {"READY", "BLOCK"}]
        /\ place' \in [Pids -> {"outside", "locking", "inside"}]
    BY <1>1, <1>6 DEF Threads!LockBlock, Threads!TypeOK, Pids
  <2>7. UNCHANGED <<mstatus, owner, sem, pushed>>
    BY <1>6 DEF Threads!LockBlock
  <2> QED BY <2>3, <2>4, <2>5, <2>6, <2>7 DEF Threads!TypeOK, Links, Pids
<1>7. ASSUME NEW p \in Thread,
             \/ Threads!Locked(p) \/ Threads!Reads(p) \/ Threads!Creat(p)
             \/ Threads!Destroy(p) \/ Threads!Lock(p) \/ Threads!Unlock(p)
      PROVE  Threads!TypeOK'
  <2> USE DEF Threads!TypeOK, Pids
  <2>1. CASE Threads!Locked(p)
    BY <1>1, <2>1 DEF Threads!Locked
  <2>2. CASE Threads!Reads(p)
    BY <1>1, <2>2 DEF Threads!Reads
  <2>3. CASE Threads!Creat(p)
    BY <1>1, <2>3 DEF Threads!Creat
  <2>4. CASE Threads!Destroy(p)
    BY <1>1, <2>4 DEF Threads!Destroy
  <2>5. CASE Threads!Lock(p)
    BY <1>1, <2>5 DEF Threads!Lock
  <2>6. CASE Threads!Unlock(p)
    BY <1>1, <2>6 DEF Threads!Unlock
  <2> QED BY <1>7, <2>1, <2>2, <2>3, <2>4, <2>5, <2>6
<1> QED BY <1>3, <1>4, <1>5, <1>6, <1>7 DEF Threads!Next

(* SetToSeq() has each thread at one place. *)
LEMMA ThreadSequence ==
  ASSUME ThreadSizes
  PROVE  \E n \in Nat : \E f \in [1..n -> Thread] :
           /\ n > 0 /\ Threads!SetToSeq(Thread) = f
           /\ \A i, j \in 1..n : f[i] = f[j] => i = j
           /\ \A u \in Thread : \E i \in 1..n : f[i] = u
<1> DEFINE n == Cardinality(Thread)
           f == Threads!SetToSeq(Thread)
<1>1. n \in Nat /\ ExistsBijection(1..n, Thread)
  BY FS_CardinalityType DEF ThreadSizes
<1>2. PICK b : b \in Bijection(1..n, Thread)
  BY <1>1 DEF ExistsBijection
<1>3. b \in [1..n -> Thread] /\ IsInjective(b)
  BY <1>2 DEF Bijection, Injection
<1>4. Threads!Cardinality(Thread) = n
  BY DEF Threads!Cardinality, Cardinality
<1>5. \A g : Threads!IsInjective(g) <=> IsInjective(g)
  BY DEF Threads!IsInjective, IsInjective
<1>6. f = CHOOSE g \in [1..n -> Thread] : Threads!IsInjective(g)
  BY <1>4, Zenon DEF Threads!SetToSeq
<1> HIDE DEF f, n
<1>7. f \in [1..n -> Thread] /\ IsInjective(f)
  <2>1. \E g \in [1..n -> Thread] : Threads!IsInjective(g)
    BY <1>3, <1>5
  <2>2. f \in [1..n -> Thread] /\ Threads!IsInjective(f)
    BY <1>6, <2>1, Zenon
  <2> QED BY <1>5, <2>2
<1>8. f \in Injection(1..n, Thread)
  BY <1>7 DEF Injection
<1>9. IsFiniteSet(1..n) /\ Cardinality(1..n) = n
  <2>1. 1 \in Int /\ n \in Int
    BY <1>1
  <2>2. IsFiniteSet(1..n) /\ Cardinality(1..n) = IF 1 > n THEN 0 ELSE n - 1 + 1
    BY <2>1, FS_Interval
  <2> QED BY <1>1, <2>2
<1>10. f \in Surjection(1..n, Thread)
  BY <1>8, <1>9, FS_Injection DEF ThreadSizes, n
<1>11. n # 0
  BY FS_EmptySet DEF ThreadSizes, n
<1>12. \A u \in Thread : \E i \in 1..n : f[i] = u
  BY <1>10 DEF Surjection
<1>13. \A i, j \in 1..n : f[i] = f[j] => i = j
  BY <1>7 DEF IsInjective
<1>14. n > 0
  BY <1>1, <1>11
<1> QED BY <1>1, <1>7, <1>12, <1>13, <1>14 DEF f

(* kthread() has made a chain of the threads behind the first one. *)
LEMMA MutexStarts == ASSUME ThreadSizes, Threads!Init PROVE MutexInv
<1>1. PICK n \in Nat : \E f \in [1..n -> Thread] :
        /\ n > 0 /\ Threads!SetToSeq(Thread) = f
        /\ \A i, j \in 1..n : f[i] = f[j] => i = j
        /\ \A u \in Thread : \E i \in 1..n : f[i] = u
  BY ThreadSequence
<1>2. PICK f \in [1..n -> Thread] :
        /\ n > 0 /\ Threads!SetToSeq(Thread) = f
        /\ \A i, j \in 1..n : f[i] = f[j] => i = j
        /\ \A u \in Thread : \E i \in 1..n : f[i] = u
  BY <1>1
<1>3. /\ Null \notin Pids /\ 0 \notin Thread /\ 0 \in Pids /\ Thread \subseteq Pids
      /\ Null # 0 /\ Null \notin Thread /\ Pids = Thread \cup {0}
  BY DEF ThreadSizes, Pids, Threads!Proc
<1>4. PICK order : order = f \o <<0>>
  OBVIOUS
<1>5. /\ order \in [1..(n + 1) -> Pids] /\ DOMAIN order = 1..(n + 1)
      /\ order[n + 1] = 0 /\ \A i \in 1..n : order[i] = f[i] /\ order[i] # 0
  <2>1. f \in Seq(Pids) /\ Len(f) = n /\ <<0>> \in Seq(Pids) /\ Len(<<0>>) = 1
    BY <1>3
  <2>2. order \in Seq(Pids) /\ Len(order) = n + 1
    BY <1>4, <2>1
  <2>3. order[n + 1] = 0 /\ \A i \in 1..n : order[i] = f[i]
    BY <1>4, <2>1
  <2>4. \A i \in 1..n : f[i] \in Thread
    OBVIOUS
  <2> QED BY <1>3, <2>2, <2>3, <2>4
<1>6. \A i, j \in 1..(n + 1) : order[i] = order[j] => i = j
  <2> SUFFICES ASSUME NEW i \in 1..(n + 1), NEW j \in 1..(n + 1), order[i] = order[j] PROVE i = j
    OBVIOUS
  <2>1. CASE i = n + 1 \/ j = n + 1
    BY <1>5, <2>1
  <2>2. CASE i # n + 1 /\ j # n + 1
    <3>1. i \in 1..n /\ j \in 1..n
      BY <2>2
    <3> QED BY <1>2, <1>5, <3>1
  <2> QED BY <2>1, <2>2
<1>7. /\ running = order[1] /\ readyQueue = order[2] /\ mstatus = 1 /\ owner = Null
      /\ next = [p \in Pids |-> IF p = 0 THEN Null
                   ELSE order[1 + CHOOSE i \in DOMAIN order : order[i] = p]]
      /\ status = [p \in Pids |-> "READY"] /\ place = [p \in Pids |-> "outside"]
      /\ value = 1 /\ queue = Null /\ sem = {} /\ pushed = FALSE
  BY <1>2, <1>4 DEF Threads!Init, Pids
<1>8. \A i \in 1..n : next[order[i]] = order[i + 1]
  <2> TAKE i \in 1..n
  <2>1. i \in 1..(n + 1) /\ order[i] \in Pids /\ order[i] # 0
    BY <1>5
  <2>2. (CHOOSE k \in DOMAIN order : order[k] = order[i]) = i
    <3>1. \E k \in DOMAIN order : order[k] = order[i]
      BY <1>5, <2>1
    <3>2. (CHOOSE k \in DOMAIN order : order[k] = order[i]) \in DOMAIN order
          /\ order[CHOOSE k \in DOMAIN order : order[k] = order[i]] = order[i]
      BY <3>1
    <3> QED BY <1>5, <1>6, <2>1, <3>2
  <2>3. next[order[i]] = order[1 + i]
    BY <1>7, <2>1, <2>2
  <2> QED BY <2>3
<1>9. next[0] = Null /\ next \in Links
  <2>1. next[0] = Null
    BY <1>3, <1>7
  <2>2. \A p \in Pids : next[p] \in Pids \cup {Null}
    <3> TAKE p \in Pids
    <3>1. CASE p = 0
      BY <2>1, <3>1
    <3>2. CASE p # 0
      <4>1. PICK i \in 1..n : f[i] = p
        BY <1>2, <1>3, <3>2
      <4>2. order[i] = p /\ i + 1 \in 1..(n + 1)
        BY <1>5, <4>1
      <4> QED BY <1>5, <1>8, <4>2
    <3> QED BY <3>1, <3>2
  <2> QED BY <1>7, <2>1, <2>2 DEF Links
<1>10. 1 \in 1..n /\ 1 \in 1..(n + 1) /\ 2 \in 1..(n + 1) /\ n + 1 \in 1..(n + 1)
  BY <1>2
<1>11. running \in Thread /\ running = f[1] /\ readyQueue \in Pids
  BY <1>2, <1>5, <1>7, <1>10
<1>12. Threads!TypeOK
  <2>1. sem \subseteq Thread /\ pushed \in BOOLEAN
    BY <1>7, Zenon
  <2>2. running \in Pids /\ mstatus \in 0..1 /\ value \in Int
    BY <1>3, <1>7, <1>11
  <2>3. status \in [Pids -> {"READY", "BLOCK"}]
    BY <1>7
  <2>4. place \in [Pids -> {"outside", "locking", "inside"}]
    BY <1>7
  <2> QED BY <1>7, <1>9, <1>11, <2>1, <2>2, <2>3, <2>4 DEF Threads!TypeOK, Pids, Links
<1> DEFINE k == n - 1
           c == [i \in 1..k |-> f[i + 1]]
<1>13. k \in Nat /\ \A i \in 1..k : i + 1 \in 1..n /\ i + 1 # 1
  BY <1>2
<1>14. c \in [1..k -> Thread] /\ \A i \in 1..k : c[i] = order[i + 1] /\ c[i] = f[i + 1]
  BY <1>5, <1>13
<1> HIDE DEF c
<1>15. Path(next, readyQueue, c, k)
  <2>1. \A i, j \in 1..k : c[i] = c[j] => i = j
    <3> SUFFICES ASSUME NEW i \in 1..k, NEW j \in 1..k, c[i] = c[j] PROVE i = j
      OBVIOUS
    <3>1. i + 1 = j + 1
      BY <1>2, <1>13, <1>14
    <3> QED BY <3>1
  <2>2. ASSUME k = 0 PROVE readyQueue = 0
    <3>1. n + 1 = 2
      BY <2>2
    <3> QED BY <1>5, <1>7, <3>1
  <2>3. ASSUME k > 0 PROVE readyQueue = c[1] /\ next[c[k]] \in {0, c[k]}
    <3>1. 1 \in 1..k /\ k \in 1..k /\ k + 1 = n /\ 1 + 1 = 2 /\ n \in 1..n
      BY <1>2, <2>3
    <3>2. c[1] = order[2] /\ c[k] = order[n]
      BY <1>14, <3>1
    <3>3. readyQueue = c[1]
      BY <1>7, <3>2
    <3>4. next[order[n]] = order[n + 1] /\ order[n + 1] = 0
      BY <1>5, <1>8, <3>1
    <3> QED BY <3>2, <3>3, <3>4
  <2>4. \A i \in 1..(k - 1) : next[c[i]] = c[i + 1]
    <3> TAKE i \in 1..(k - 1)
    <3>1. i \in 1..k /\ i + 1 \in 1..k /\ i + 1 \in 1..n
      BY <1>2
    <3>2. c[i] = order[i + 1] /\ c[i + 1] = order[(i + 1) + 1]
      BY <1>14, <3>1
    <3> QED BY <1>8, <3>1, <3>2
  <2> QED BY <2>1, <2>2, <2>3, <2>4 DEF Path
<1>16. PICK z : z = IF k = 0 THEN 0 ELSE c[k]
  OBVIOUS
<1>17. Chain(next, readyQueue, On(c, k), z)
  BY <1>13, <1>14, <1>15, <1>16, ChainIs
<1>18. running \notin On(c, k)
  <2>1. \A i \in 1..k : c[i] # running
    <3> TAKE i \in 1..k
    <3>1. i + 1 \in 1..n /\ i + 1 # 1 /\ c[i] = f[i + 1]
      BY <1>13, <1>14
    <3>2. f[i + 1] # f[1]
      BY <1>2, <1>10, <3>1
    <3> QED BY <1>11, <3>1, <3>2
  <2> HIDE DEF k
  <2> QED BY <2>1 DEF On
<1>19. next[running] = readyQueue
  <2>1. 1 + 1 = 2
    OBVIOUS
  <2> QED BY <1>7, <1>8, <1>10, <2>1
<1>20. Nobody(On(c, k)) /\ Unheld
  BY <1>3, <1>7 DEF Nobody, Lives, Unheld
<1>21. Held(On(c, k), z)
  BY <1>3, <1>7, <1>11, <1>18, <1>19, <1>20 DEF Held, HoldsAlone, Twice, Nobody, Only
<1>22. OneInside
  BY <1>3, <1>7, <1>11 DEF OneInside
<1>23. Idle /\ Ordered
  BY <1>3, <1>11, <1>17, <1>21 DEF Idle, Ordered
<1> QED BY <1>7, <1>9, <1>12, <1>22, <1>23 DEF MutexInv

(* Until kkill() has pushed a thread through mutex_lock(). *)
ThreadsInv == Threads!TypeOK /\ (~pushed => MutexInv)

LEMMA InvExcludes == ASSUME ThreadsInv PROVE Threads!CriticalAlone
<1> SUFFICES ASSUME MutexInv PROVE Threads!CriticalAlone
  BY DEF ThreadsInv, Threads!CriticalAlone
<1> DEFINE S == {p \in Thread : place[p] = "inside"}
<1>1. PICK v \in Thread : \A u \in Thread : place[u] = "inside" => u = v
  BY DEF MutexInv, OneInside
<1>2. S = {} \/ S = {v}
  BY <1>1
<1>3. Cardinality(S) <= 1
  BY <1>2, FS_EmptySet, FS_Singleton
<1>4. Threads!Cardinality(S) = Cardinality(S)
  BY DEF Threads!Cardinality, Cardinality
<1> QED BY <1>3, <1>4 DEF Threads!CriticalAlone

LEMMA MutexKept == ASSUME ThreadsInv, [MCNext]_allVars PROVE ThreadsInv'
<1>1. CASE Threads!Next
  <2>1. Threads!TypeOK'
    BY <1>1, ThreadSizes, MutexTyped DEF ThreadsInv
  <2>2. pushed => pushed'
    <3>1. pushed' = pushed \/ pushed'
      BY <1>1
      DEF Threads!Next, Threads!Preempt, Threads!Kill, Threads!Locked, Threads!Reads, Threads!Creat,
          Threads!Destroy, Threads!Lock, Threads!LockBlock, Threads!Unlock, Threads!UnlockWake
    <3> QED BY <3>1
  <2>3. ~pushed' => MutexInv'
    BY <1>1, <2>2, ThreadSizes, MutexStep DEF ThreadsInv
  <2> QED BY <2>1, <2>3 DEF ThreadsInv
<1>2. CASE UNCHANGED threads
  <2>1. UNCHANGED <<next, readyQueue, running, status, mstatus, owner, value, queue, place>>
    BY <1>2 DEF threads
  <2>2. sem' = sem /\ pushed' = pushed
    BY <1>2 DEF threads
  <2>3. sem' \subseteq Thread /\ pushed' \in BOOLEAN
    BY <2>2 DEF ThreadsInv, Threads!TypeOK
  <2>4. Threads!TypeOK'
    BY <2>1, <2>2 DEF ThreadsInv, Threads!TypeOK
  <2>5. ~pushed' => MutexInv'
    BY <2>1, <2>2, <2>3, OrderStays DEF ThreadsInv
  <2> QED BY <2>4, <2>5 DEF ThreadsInv
<1> QED BY <1>1, <1>2 DEF MCNext, SessionSteps, LayerSteps, allVars

(* No two of any number of threads are between mutex_lock() and mutex_unlock(), although
   mutex_lock() cuts the links of readyQueue and mutex_unlock() may wake a thread that is
   not blocked, until kkill() makes a thread ready whose P.sem is left over; and whoever sends is let in as SendersCount says (thread.c, mes.c). *)
THEOREM OneInMutex == MCSpec => []CriticalAlone
<1>1. MCInit => ThreadsInv /\ MailInv
  BY ThreadSizes, MutexStarts, MailStarts DEF MCInit, ThreadsInv, MutexInv
<1>2. ThreadsInv /\ MailInv /\ [MCNext]_allVars => (ThreadsInv /\ MailInv)'
  <2> SUFFICES ASSUME ThreadsInv, MailInv, [MCNext]_allVars PROVE (ThreadsInv /\ MailInv)'
    OBVIOUS
  <2>1. ThreadsInv'
    BY MutexKept
  <2>2. MailInv'
    BY MailStep DEF MCNext, SessionSteps, LayerSteps, allVars, mail
  <2> QED BY <2>1, <2>2
<1>3. ThreadsInv /\ MailInv => CriticalAlone
  BY InvExcludes, MailCounted DEF CriticalAlone
<1> QED BY <1>1, <1>2, <1>3, PTL DEF MCSpec
-----------------------------------------------------------------------------
(* The layer of system calls *)

(* The numbers of the library functions are those of f[], but for a few. *)
LEMMA NumbersFit ==
  /\ \A f \in Layer!Library \ Layer!Misnumbered : Layer!Called(Layer!Number[f]) = f
  /\ Layer!Called(Layer!Number["getpri"]) = "ksetpri"
  /\ Layer!Called(Layer!Number["chpri"]) = "getuid"
  /\ Layer!Called(Layer!Number["chname"]) = "kgetpri"
  /\ Layer!Called(Layer!Number["getcs"]) = "getPaddress"
  /\ Layer!Called(Layer!Number["fe"]) = Layer!Invalid
<1>1. \A f \in DOMAIN Layer!ProcessCalls : Layer!Number[f] = Layer!ProcessCalls[f]
  <2> TAKE f \in DOMAIN Layer!ProcessCalls
  <2>1. f \in Layer!Library
    BY DEF Layer!Library
  <2>2. f \notin DOMAIN Layer!FileCalls
    BY DEF Layer!ProcessCalls, Layer!FileCalls
  <2> QED BY <2>1, <2>2 DEF Layer!Number
<1>2. \A f \in DOMAIN Layer!FileCalls : f \notin DOMAIN Layer!ProcessCalls
  BY DEF Layer!ProcessCalls, Layer!FileCalls
<1>3. \A f \in DOMAIN Layer!OtherCalls :
        f \notin DOMAIN Layer!ProcessCalls /\ f \notin DOMAIN Layer!FileCalls
  BY DEF Layer!ProcessCalls, Layer!FileCalls, Layer!OtherCalls
<1>4. \A f \in DOMAIN Layer!FileCalls : Layer!Number[f] = Layer!FileCalls[f]
  BY <1>2 DEF Layer!Number, Layer!Library
<1>5. \A f \in DOMAIN Layer!OtherCalls : Layer!Number[f] = Layer!OtherCalls[f]
  BY <1>3 DEF Layer!Number, Layer!Library
<1>6. \A f \in DOMAIN Layer!FileCalls : Layer!Called(Layer!FileCalls[f]) = f
  BY DEF Layer!FileCalls, Layer!Called, Layer!Table
<1>7. \A f \in DOMAIN Layer!OtherCalls \ {"getcs"} : Layer!Called(Layer!OtherCalls[f]) = f
  BY DEF Layer!OtherCalls, Layer!Called, Layer!Table
<1>8. \A f \in DOMAIN Layer!ProcessCalls \ Layer!Misnumbered :
        Layer!Called(Layer!ProcessCalls[f]) = f
  BY DEF Layer!ProcessCalls, Layer!Called, Layer!Table, Layer!Misnumbered
<1>9. \A f \in Layer!Library \ Layer!Misnumbered : Layer!Called(Layer!Number[f]) = f
  BY <1>1, <1>4, <1>5, <1>6, <1>7, <1>8 DEF Layer!Library, Layer!Misnumbered
<1>10. /\ Layer!Called(Layer!Number["getpri"]) = "ksetpri"
       /\ Layer!Called(Layer!Number["chpri"]) = "getuid"
       /\ Layer!Called(Layer!Number["chname"]) = "kgetpri"
       /\ Layer!Called(Layer!Number["fe"]) = Layer!Invalid
  <2>1. {"getpri", "chpri", "chname", "fe"} \subseteq DOMAIN Layer!ProcessCalls
    BY DEF Layer!ProcessCalls
  <2> QED BY <1>1, <2>1 DEF Layer!ProcessCalls, Layer!Called, Layer!Table, Layer!Invalid
<1>11. Layer!Called(Layer!Number["getcs"]) = "getPaddress"
  <2>1. "getcs" \in DOMAIN Layer!OtherCalls
    BY DEF Layer!OtherCalls
  <2> QED BY <1>5, <2>1 DEF Layer!OtherCalls, Layer!Called, Layer!Table
<1> QED BY <1>9, <1>10, <1>11
Processes ==
  [pri : Value, uid : Value, tty : Value, pending : SUBSET Signals,
   catch : [Signals -> Layer!Actions]]
LayerInv == Layer!TypeOK /\ me \in Processes /\ (stage \in {"body", "asleep"} => call # Layer!NoCall)

LEMMA LayerStarts == ASSUME Layer!Init PROVE LayerInv
<1>1. me \in Processes
  BY LayerSizes DEF Layer!Init, Processes, Layer!Actions, Layer!Default
<1>2. sent \in 0..MaxSent /\ stack \in Seq({"stub", "catcher", "program"})
  BY LayerSizes DEF Layer!Init
<1> QED BY <1>1, <1>2 DEF Layer!Init, LayerInv, Layer!TypeOK, Layer!NoCall, Processes

(* What a function of the kernel makes of a process is a process. *)
LEMMA EffectTyped ==
  ASSUME NEW f \in Layer!Library, NEW x \in Layer!Argument(f), NEW s \in Processes
  PROVE  Layer!Effect(Layer!Called(Layer!Number[f]), x, s)[1] \in Processes
<1> DEFINE g == Layer!Called(Layer!Number[f])
<1>1. g = "ksetpri" => x \in Value
  <2>1. g = "ksetpri" => f = "getpri"
    <3>1. CASE f \in Layer!Library \ Layer!Misnumbered
      <4>1. "ksetpri" \notin Layer!Library
        BY DEF Layer!Library, Layer!ProcessCalls, Layer!FileCalls, Layer!OtherCalls
      <4> QED BY <3>1, <4>1, NumbersFit
    <3>2. CASE f \in Layer!Misnumbered
      BY <3>2, NumbersFit DEF Layer!Misnumbered, Layer!Invalid
    <3> QED BY <3>1, <3>2
  <2> QED BY <2>1, LayerSizes DEF Layer!Argument
<1>2. g = "chuid" \/ g = "settty" => x \in Value
  <2>1. g = "chuid" \/ g = "settty" => f = g
    BY NumbersFit DEF Layer!Misnumbered, Layer!Invalid
  <2> QED BY <2>1 DEF Layer!Argument
<1>3. g = "signal" => x \in Signals \X Layer!Actions
  <2>1. g = "signal" => f = g
    BY NumbersFit DEF Layer!Misnumbered, Layer!Invalid
  <2> QED BY <2>1 DEF Layer!Argument
<1> HIDE DEF g
<1>4. CASE g = "ksetpri"
  <2>1. Layer!Effect(g, x, s)[1] = [s EXCEPT !.pri = x]
    BY <1>4 DEF Layer!Effect, Layer!Invalid
  <2> QED BY <1>1, <1>4, <2>1 DEF Processes, g
<1>5. CASE g = "chuid"
  <2>1. Layer!Effect(g, x, s)[1] = [s EXCEPT !.uid = x]
    BY <1>5 DEF Layer!Effect, Layer!Invalid
  <2> QED BY <1>2, <1>5, <2>1 DEF Processes, g
<1>6. CASE g = "settty"
  <2>1. Layer!Effect(g, x, s)[1] = [s EXCEPT !.tty = x]
    BY <1>6 DEF Layer!Effect, Layer!Invalid
  <2> QED BY <1>2, <1>6, <2>1 DEF Processes, g
<1>7. CASE g = "signal"
  <2>1. Layer!Effect(g, x, s)[1] \in {s, [s EXCEPT !.catch[x[1]] = x[2]]}
    BY <1>7 DEF Layer!Effect, Layer!Invalid
  <2> QED BY <1>3, <1>7, <2>1 DEF Processes, g
<1>8. CASE g \notin {"ksetpri", "chuid", "settty", "signal"}
  <2>1. Layer!Effect(g, x, s)[1] = s
    BY <1>8 DEF Layer!Effect, Layer!Invalid
  <2> QED BY <2>1 DEF g
<1> QED BY <1>4, <1>5, <1>6, <1>7, <1>8

(* kpsig() takes a signal that is pending. *)
LEMMA SignalTaken ==
  ASSUME me \in Processes, me.pending # {}
  PROVE  Layer!Min(me.pending) \in Signals
<1>1. me.pending \subseteq Nat
  <2>1. me.pending \subseteq Signals
    BY DEF Processes
  <2>2. \A n \in Signals : n \in Nat
    <3>1. \A n \in 1..31 : n \in Nat
      OBVIOUS
    <3> QED BY <3>1, LayerSizes
  <2> QED BY <2>1, <2>2
<1>2. Layer!Min(me.pending) = Min(me.pending)
  BY DEF Layer!Min, Min
<1>3. Min(me.pending) \in me.pending
  BY <1>1, MinOfNats
<1> QED BY <1>2, <1>3 DEF Processes

LEMMA LayerStep == ASSUME LayerInv, [Layer!Next]_layer PROVE LayerInv'
<1> USE DEF LayerInv, Layer!TypeOK
<1> DEFINE Taken == me' \in Processes
           Frames == {"stub", "catcher", "program"}
<1>a. /\ me \in Processes /\ stack \in Seq(Frames) /\ sent \in 0..MaxSent
      /\ upc \in {"program", "catcher"} /\ kpc \in {"stub", "catcher"}
  OBVIOUS
<1>k. ASSUME me.pending # {}, NEW n, n = Layer!Min(me.pending),
             \/ me' = [me EXCEPT !.pending = @ \ {n}]
             \/ me' = [me EXCEPT !.pending = @ \ {n}, !.catch[n] = Layer!Default]
      PROVE  me' \in Processes
  <2>1. n \in Signals
    BY <1>k, SignalTaken
  <2> QED BY <1>k, <2>1 DEF Processes, Layer!Actions, Layer!Default
<1>1. CASE UNCHANGED layer
  BY <1>1 DEF layer
<1>2. ASSUME NEW f \in Layer!Library, NEW x \in Layer!Argument(f), Layer!Enter(f, x)
      PROVE  LayerInv'
  <2>1. /\ stage \in {"program", "catcher"} /\ call' = <<f, x>> /\ sent' = sent
        /\ call' # Layer!NoCall
    BY <1>2 DEF Layer!Enter, Layer!NoCall
  <2>2. /\ me' \in Processes /\ stage' \in {"body", "dead"}
        /\ upc' \in {"program", "catcher"} /\ kpc' \in {"stub", "catcher"}
        /\ stack' \in Seq(Frames)
    <3>1. CASE me.pending = {}
      BY <1>2, <2>1, <3>1 DEF Layer!Enter, Layer!Kpsig
    <3>2. CASE me.pending # {}
      <4>1. PICK n : n = Layer!Min(me.pending)
        OBVIOUS
      <4>2. me.catch[n] \in Layer!Actions
        BY <3>2, <4>1, SignalTaken DEF Processes
      <4>3. me' \in Processes
        BY <1>2, <1>k, <3>2, <4>1, <4>2 DEF Layer!Enter, Layer!Kpsig, Layer!Actions
      <4>4. <<"stub">> \o stack \in Seq(Frames)
        OBVIOUS
      <4> QED
        BY <1>2, <2>1, <3>2, <4>1, <4>2, <4>3, <4>4
        DEF Layer!Enter, Layer!Kpsig, Layer!Actions, Layer!Default, Layer!Ignore, Layer!Catcher
    <3> QED BY <3>1, <3>2
  <2> QED BY <2>1, <2>2 DEF Processes
<1>3. CASE Layer!Serve
  <2>1. /\ stage = "body" /\ call' = Layer!NoCall /\ upc' = upc /\ kpc' = kpc /\ stack' = stack
        /\ sent' = sent /\ me' = Layer!Effect(Layer!Called(Layer!Number[call[1]]), call[2], me)[1]
        /\ stage' \in {"dead", "return", "leave"}
    BY <1>3 DEF Layer!Serve
  <2>2. me' \in Processes
    BY <2>1, EffectTyped
  <2> QED BY <2>1, <2>2 DEF Processes
<1>4. CASE Layer!Leave \/ Layer!Return
  <2>1. /\ stage \in {"leave", "return"} /\ call' = call /\ sent' = sent
    BY <1>4 DEF Layer!Leave, Layer!Return
  <2>2. /\ me' \in Processes /\ stage' \in {"return", "catcher", "program", "dead"}
        /\ upc' \in {"program", "catcher"} /\ kpc' \in {"stub", "catcher"}
        /\ stack' \in Seq(Frames)
    <3>1. CASE me.pending = {}
      BY <1>4, <2>1, <3>1 DEF Layer!Leave, Layer!Return, Layer!Kpsig
    <3>2. CASE me.pending # {}
      <4>1. PICK n : n = Layer!Min(me.pending)
        OBVIOUS
      <4>2. me.catch[n] \in Layer!Actions
        BY <3>2, <4>1, SignalTaken DEF Processes
      <4>3. me' \in Processes
        BY <1>4, <1>k, <3>2, <4>1, <4>2 DEF Layer!Leave, Layer!Return, Layer!Kpsig, Layer!Actions
      <4>4. <<kpc>> \o stack \in Seq(Frames)
        OBVIOUS
      <4> QED
        BY <1>4, <2>1, <3>2, <4>1, <4>2, <4>3, <4>4
        DEF Layer!Leave, Layer!Return, Layer!Kpsig, Layer!CaughtInCall, Layer!Actions,
            Layer!Default, Layer!Ignore, Layer!Catcher
    <3> QED BY <3>1, <3>2
  <2> QED BY <2>1, <2>2 DEF Processes
<1>5. CASE Layer!CatcherReturns
  <2>1. /\ stage = "catcher" /\ upc' = upc /\ kpc' = kpc /\ call' = call /\ me' = me /\ sent' = sent
        /\ stage' = IF stack = <<>> \/ Head(stack) = "stub" THEN "astray" ELSE Head(stack)
        /\ stack' = IF stack = <<>> THEN stack ELSE Tail(stack)
    BY <1>5 DEF Layer!CatcherReturns
  <2>2. stack # <<>> => Head(stack) \in Frames /\ Tail(stack) \in Seq(Frames)
    OBVIOUS
  <2> QED BY <2>1, <2>2
<1>6. CASE Layer!Irq
  <2>1. /\ Layer!InUser \/ Layer!InCall
        /\ call' = call /\ sent' = sent
    BY <1>6 DEF Layer!Irq
  <2>2. /\ me' \in Processes /\ stage' \in {stage, "catcher", "astray", "dead"}
        /\ upc' \in {"program", "catcher"} /\ kpc' \in {"stub", "catcher"}
        /\ stack' \in Seq(Frames)
    <3>1. CASE me.pending = {}
      BY <1>6, <2>1, <3>1 DEF Layer!Irq, Layer!Kpsig
    <3>2. CASE me.pending # {}
      <4>1. PICK n : n = Layer!Min(me.pending)
        OBVIOUS
      <4>2. me.catch[n] \in Layer!Actions
        BY <3>2, <4>1, SignalTaken DEF Processes
      <4>3. me' \in Processes
        BY <1>6, <1>k, <3>2, <4>1, <4>2 DEF Layer!Irq, Layer!Kpsig, Layer!Actions
      <4>4. Layer!InUser /\ stage # "astray" => <<stage>> \o stack \in Seq(Frames)
        BY DEF Layer!InUser
      <4> QED BY <1>6, <2>1, <3>2, <4>1, <4>2, <4>3, <4>4 DEF Layer!Irq, Layer!Kpsig,
            Layer!Actions, Layer!Default, Layer!Ignore, Layer!Catcher
    <3> QED BY <3>1, <3>2
  <2> QED BY <2>1, <2>2 DEF Processes
<1>7. ASSUME NEW n \in Signals, Layer!Fault(n) \/ Layer!Kill(n) PROVE LayerInv'
  <2>1. /\ me' = [me EXCEPT !.pending = @ \cup {n}] /\ sent' \in 0..MaxSent
        /\ stage' = stage /\ upc' = upc /\ kpc' = kpc /\ stack' = stack /\ call' = call
    BY <1>7, LayerSizes DEF Layer!Fault, Layer!Kill
  <2>2. me' \in Processes
    BY <2>1 DEF Processes
  <2> QED BY <2>1, <2>2 DEF Processes
<1>8. CASE Layer!KernelFault
  BY <1>8 DEF Layer!KernelFault
<1>9. CASE Layer!Sleep \/ Layer!Wake
  <2>1. /\ stage \in {"body", "asleep"} /\ stage' \in {"body", "asleep"}
        /\ UNCHANGED <<upc, kpc, stack, call, ret, me, sent>>
    BY <1>9 DEF Layer!Sleep, Layer!Wake
  <2> QED BY <2>1
<1> QED BY <1>1, <1>2, <1>3, <1>4, <1>5, <1>6, <1>7, <1>8, <1>9 DEF Layer!Next, Layer!FaultSignals

LEMMA ServedAsNamed ==
  ASSUME LayerInv, [Layer!Next]_layer, stage = "body", stage' = "leave",
         call[1] \notin Layer!Misnumbered
  PROVE  <<me', ret'>> = Layer!Effect(call[1], call[2], me)
<1>1. Layer!Serve
  <2>1. \A f, x : ~ Layer!Enter(f, x)
    BY DEF Layer!Enter
  <2>2. /\ ~ Layer!Leave /\ ~ Layer!Return /\ ~ Layer!CatcherReturns /\ ~ Layer!KernelFault
        /\ ~ Layer!Sleep /\ ~ Layer!Wake
    BY DEF Layer!Leave, Layer!Return, Layer!CatcherReturns, Layer!KernelFault, Layer!Sleep,
      Layer!Wake
  <2>3. \A n : ~ Layer!Fault(n) /\ ~ Layer!Kill(n)
    BY DEF Layer!Fault, Layer!Kill
  <2>4. ~ Layer!Irq
    <3> SUFFICES ASSUME Layer!Irq PROVE FALSE
      OBVIOUS
    <3>1. stage' \in {"body", "astray", "dead", "catcher"}
      <4>1. CASE me.pending = {}
        BY <4>1 DEF Layer!Irq, Layer!Kpsig
      <4>2. CASE me.pending # {}
        <5>1. PICK n : n = Layer!Min(me.pending)
          OBVIOUS
        <5>2. me.catch[n] \in Layer!Actions
          BY <4>2, <5>1, SignalTaken DEF Processes, LayerInv
        <5> QED BY <4>2, <5>1, <5>2 DEF Layer!Irq, Layer!Kpsig, Layer!Actions, Layer!Default,
              Layer!Ignore, Layer!Catcher
      <4> QED BY <4>1, <4>2
    <3> QED BY <3>1
  <2>5. ~ UNCHANGED layer
    BY DEF layer
  <2> QED BY <2>1, <2>2, <2>3, <2>4, <2>5 DEF Layer!Next
<1>2. PICK f : f = call[1]
  OBVIOUS
<1>3. f \in Layer!Library \ Layer!Misnumbered
  BY <1>2 DEF LayerInv, Layer!TypeOK
<1>4. Layer!Called(Layer!Number[f]) = f
  BY <1>3, NumbersFit
<1>5. me' = Layer!Effect(f, call[2], me)[1] /\ ret' = Layer!Effect(f, call[2], me)[2]
  BY <1>1, <1>2, <1>4 DEF Layer!Serve
<1>6. PICK e : e = Layer!Effect(f, call[2], me)
  OBVIOUS
<1>7. e = <<e[1], e[2]>>
  BY <1>6 DEF Layer!Effect
<1> QED BY <1>2, <1>5, <1>6, <1>7
-----------------------------------------------------------------------------
(* The filters: what a filter has not read is the end of its input. *)

Unread(r, t) == \E k \in 0..Len(t) : r = SubSeq(t, k + 1, Len(t))
FilterInv ==
  /\ tool \in Tool /\ terminal \in BOOLEAN /\ text \in Text /\ since \in 0..Page
  /\ pc \in {"first", "reading", "key", "last", "done"} /\ Unread(rest, text)

LEMMA RestIs ==
  ASSUME NEW A, NEW t \in Seq(A), NEW k \in 0..Len(t), NEW r, r = SubSeq(t, k + 1, Len(t))
  PROVE  /\ r \in Seq(A) /\ Len(r) = Len(t) - k
         /\ \A i \in 1..(Len(t) - k) : r[i] = t[k + i]
<1>1. Len(t) \in Nat /\ k \in Nat /\ k <= Len(t)
  OBVIOUS
<1>2. Len(r) = Len(t) - k
  <2>1. CASE k + 1 <= Len(t)
    <3>1. Len(r) = Len(t) - (k + 1) + 1
      BY <1>1, <2>1
    <3> QED BY <1>1, <3>1
  <2>2. CASE k = Len(t)
    BY <1>1, <2>2
  <2> QED BY <1>1, <2>1, <2>2
<1>3. r \in Seq(A)
  OBVIOUS
<1>4. \A i \in 1..(Len(t) - k) : r[i] = t[k + i]
  <2> TAKE i \in 1..(Len(t) - k)
  <2>1. r[i] = t[(k + 1) + i - 1] /\ (k + 1) + i - 1 = k + i
    BY <1>1, <1>2
  <2> QED BY <2>1
<1> QED BY <1>2, <1>3, <1>4

LEMMA UnreadAfter ==
  ASSUME NEW r, NEW t \in Seq(STRING), Unread(r, t), NEW d
  PROVE  Unread(Filters!After(r, d), t)
<1>1. PICK k \in 0..Len(t) : r = SubSeq(t, k + 1, Len(t))
  BY DEF Unread
<1>2. /\ r \in Seq(STRING) /\ Len(r) = Len(t) - k
      /\ \A i \in 1..(Len(t) - k) : r[i] = t[k + i]
  BY <1>1, RestIs
<1>3. PICK ends : ends = Filters!Ends(r, d)
  OBVIOUS
<1>4. CASE ends = {}
  <2>1. Filters!After(r, d) = <<>>
    BY <1>3, <1>4 DEF Filters!After
  <2>2. Len(t) \in 0..Len(t) /\ SubSeq(t, Len(t) + 1, Len(t)) = <<>>
    OBVIOUS
  <2> QED BY <2>1, <2>2 DEF Unread
<1>5. CASE ends # {}
  <2>1. ends \subseteq Nat /\ ends \subseteq 1..Len(r)
    BY <1>2, <1>3 DEF Filters!Ends
  <2>2. PICK m : m = Min(ends)
    OBVIOUS
  <2>3. m \in 1..Len(r)
    BY <1>5, <2>1, <2>2, MinOfNats
  <2>4. Filters!After(r, d) = SubSeq(r, m + 1, Len(r))
    BY <1>3, <1>5, <2>2 DEF Filters!After, Filters!Min, Min
  <2>5. k + m \in 0..Len(t)
    BY <1>2, <2>3
  <2>6. PICK a, b : a = SubSeq(r, m + 1, Len(r)) /\ b = SubSeq(t, (k + m) + 1, Len(t))
    OBVIOUS
  <2>7. /\ a \in Seq(STRING) /\ Len(a) = Len(r) - m
        /\ \A i \in 1..(Len(r) - m) : a[i] = r[m + i]
    <3>1. m \in 0..Len(r)
      BY <2>3
    <3>2. r \in Seq(STRING) /\ a = SubSeq(r, m + 1, Len(r))
      BY <1>2, <2>6
    <3> HIDE DEF Unread
    <3> QED BY <3>1, <3>2, RestIs
  <2>8. /\ b \in Seq(STRING) /\ Len(b) = Len(t) - (k + m)
        /\ \A i \in 1..(Len(t) - (k + m)) : b[i] = t[(k + m) + i]
    BY <2>5, <2>6, RestIs
  <2>9. Len(a) = Len(b)
    BY <1>2, <2>3, <2>7, <2>8
  <2>10. \A i \in 1..Len(a) : a[i] = b[i]
    <3> TAKE i \in 1..Len(a)
    <3>1. i \in 1..(Len(r) - m) /\ i \in 1..(Len(t) - (k + m))
      BY <2>7, <2>8, <2>9
    <3>2. m + i \in 1..(Len(t) - k) /\ k + (m + i) = (k + m) + i
      BY <1>2, <2>3, <3>1
    <3> QED BY <1>2, <2>7, <2>8, <3>1, <3>2
  <2>11. a = b
    BY <2>7, <2>8, <2>9, <2>10
  <2> QED BY <2>4, <2>5, <2>6, <2>11 DEF Unread
<1> QED BY <1>4, <1>5

LEMMA UnreadIsSuffix ==
  ASSUME NEW r, NEW t \in Seq(STRING), Unread(r, t)
  PROVE  Filters!IsSuffix(r, t)
<1>1. PICK k \in 0..Len(t) : r = SubSeq(t, k + 1, Len(t))
  BY DEF Unread
<1>2. /\ r \in Seq(STRING) /\ Len(r) = Len(t) - k
      /\ \A i \in 1..(Len(t) - k) : r[i] = t[k + i]
  BY <1>1, RestIs
<1>3. PICK n \in Nat : n = Len(r)
  BY <1>2
<1>4. PICK l \in Nat : l = Len(t)
  OBVIOUS
<1>5. PICK a, b : a = Filters!Reverse(r) /\ b = Filters!Reverse(t)
  OBVIOUS
<1>6. /\ a \in Seq(STRING) /\ Len(a) = n /\ \A i \in 1..n : a[i] = r[(n - i) + 1]
  <2>1. a = [i \in 1..n |-> r[(n - i) + 1]]
    BY <1>3, <1>5 DEF Filters!Reverse
  <2>2. \A i \in 1..n : (n - i) + 1 \in 1..n
    OBVIOUS
  <2>3. \A i \in 1..n : r[(n - i) + 1] \in STRING
    BY <1>2, <1>3, <2>2
  <2> QED BY <2>1, <2>3
<1>7. /\ b \in Seq(STRING) /\ Len(b) = l /\ \A i \in 1..l : b[i] = t[(l - i) + 1]
  <2>1. b = [i \in 1..l |-> t[(l - i) + 1]]
    BY <1>4, <1>5 DEF Filters!Reverse
  <2>2. \A i \in 1..l : (l - i) + 1 \in 1..l
    OBVIOUS
  <2>3. \A i \in 1..l : t[(l - i) + 1] \in STRING
    BY <1>4, <2>2
  <2> QED BY <2>1, <2>3
<1>8. n = l - k /\ n <= l
  BY <1>2, <1>3, <1>4
<1>9. \A i \in 1..n : a[i] = b[i]
  <2> TAKE i \in 1..n
  <2>1. (n - i) + 1 \in 1..(Len(t) - k) /\ i \in 1..l /\ k + ((n - i) + 1) = (l - i) + 1
    BY <1>4, <1>8
  <2> QED BY <1>2, <1>6, <1>7, <2>1
<1>10. SubSeq(a, 1, n) = SubSeq(b, 1, n)
  <2>1. Len(SubSeq(a, 1, n)) = n /\ Len(SubSeq(b, 1, n)) = n
    BY <1>6, <1>7, <1>8
  <2>2. \A i \in 1..n : SubSeq(a, 1, n)[i] = a[i] /\ SubSeq(b, 1, n)[i] = b[i]
    BY <1>6, <1>7, <1>8
  <2>3. SubSeq(a, 1, n) \in Seq(STRING) /\ SubSeq(b, 1, n) \in Seq(STRING)
    BY <1>6, <1>7, <1>8
  <2> QED BY <1>9, <2>1, <2>2, <2>3
<1> QED BY <1>5, <1>6, <1>7, <1>8, <1>10 DEF Filters!IsSuffix, Filters!IsPrefix

LEMMA FilterStarts == ASSUME Filters!Init PROVE FilterInv
<1>1. text \in Text /\ rest = text /\ text \in Seq(STRING)
  BY FilterSizes DEF Filters!Init
<1>2. Unread(rest, text)
  <2>1. 0 \in 0..Len(text) /\ SubSeq(text, 0 + 1, Len(text)) = text
    BY <1>1
  <2> QED BY <1>1, <2>1 DEF Unread
<1>3. since \in 0..Page
  BY FilterSizes DEF Filters!Init
<1>4. tool \in Tool /\ terminal \in BOOLEAN
  BY DEF Filters!Init
<1>5. pc \in {"first", "reading"}
  BY DEF Filters!Init
<1> QED BY <1>1, <1>2, <1>3, <1>4, <1>5 DEF FilterInv

LEMMA FilterStep == ASSUME FilterInv, [Filters!Next]_filters PROVE FilterInv'
<1>t. text \in Seq(STRING) /\ Page \in Nat /\ Page >= 1
  BY FilterSizes DEF FilterInv
<1>1. CASE UNCHANGED filters
  BY <1>1 DEF filters, FilterInv
<1>2. CASE Filters!Filter
  <2>1. /\ tool' = tool /\ terminal' = terminal /\ text' = text /\ since' = since
        /\ pc' \in {pc, "done"}
        /\ rest' = rest \/ \E d : rest' = Filters!After(rest, d)
    BY <1>2 DEF Filters!Filter
  <2> QED BY <1>t, <2>1, UnreadAfter DEF FilterInv
<1>3. CASE Filters!Screen
  <2>1. /\ tool' = tool /\ terminal' = terminal /\ text' = text
        /\ \E d : rest' = Filters!After(rest, d)
        /\ pc' \in {pc, "key", "last", "done"}
        /\ since' = since \/ (since < Page /\ since' = since + 1)
    BY <1>3 DEF Filters!Screen
  <2>2. since' \in 0..Page
    BY <1>t, <2>1 DEF FilterInv
  <2> QED BY <1>t, <2>1, <2>2, UnreadAfter DEF FilterInv
<1>4. CASE Filters!KeyScreen \/ Filters!KeyOther
  BY <1>4, <1>t DEF Filters!KeyScreen, Filters!KeyOther, FilterInv
<1>5. CASE Filters!KeyLine
  <2>1. /\ tool' = tool /\ terminal' = terminal /\ text' = text
        /\ \E d : rest' = Filters!After(rest, d)
        /\ pc' \in {"key", "done"} /\ since' \in {since, 1}
    BY <1>5 DEF Filters!KeyLine
  <2>2. since' \in 0..Page
    BY <1>t, <2>1 DEF FilterInv
  <2> QED BY <1>t, <2>1, <2>2, UnreadAfter DEF FilterInv
<1> QED BY <1>1, <1>2, <1>3, <1>4, <1>5 DEF Filters!Next
-----------------------------------------------------------------------------
(* What the filters write, which depends on how far the input has been read.  Lines are told by
   the places where they end, and numbered by how many end before them. *)

NoLine(t, a, b) == \A j \in (a + 1)..b : t[j] # "nl"
LineStart(t, p) == p = 0 \/ t[p] = "nl"
RestFrom(r, t, k) == r = SubSeq(t, k + 1, Len(t))
LineIs(r, d, t, k, m) ==
  SubSeq(r, 1, Min({Len(r)} \cup Filters!Ends(r, d))) = SubSeq(t, k + 1, m)
UpTo(t, p) == {j \in Filters!LineEnds(t) : j <= p}

(* What a turn of a filter's loop finds, from place k of the text on: a line to place m, or
   none, and then m is the end of the text, or there is a Control-D in it. *)
LEMMA LineRead ==
  ASSUME NEW t \in Seq(STRING), NEW k \in 0..Len(t), NEW r, RestFrom(r, t, k), NEW d
  PROVE  /\ Filters!Found(r, d) =>
              \E m \in (k + 1)..Len(t) :
                /\ t[m] = "nl" /\ NoLine(t, k, m - 1) /\ RestFrom(Filters!After(r, d), t, m)
                /\ LineIs(r, d, t, k, m)
         /\ ~Filters!Found(r, d) =>
              \E m \in k..Len(t) :
                /\ m = Len(t) \/ (m > k /\ t[m] = "eot")
                /\ NoLine(t, k, m) /\ RestFrom(Filters!After(r, d), t, m)
<1>1. /\ r \in Seq(STRING) /\ Len(r) = Len(t) - k
      /\ \A i \in 1..(Len(t) - k) : r[i] = t[k + i]
  BY RestIs DEF RestFrom
<1>2. PICK l \in Nat : l = Len(t)
  OBVIOUS
<1>3. PICK ends : ends = Filters!Ends(r, d)
  OBVIOUS
<1>4. ends = {i \in 1..(l - k) : t[k + i] = "nl" \/ (d /\ t[k + i] = "eot")}
  BY <1>1, <1>2, <1>3 DEF Filters!Ends
<1>5. CASE ends = {}
  <2>1. ~Filters!Found(r, d)
    BY <1>3, <1>5 DEF Filters!Found
  <2>2. Filters!After(r, d) = <<>>
    BY <1>3, <1>5 DEF Filters!After
  <2>3. RestFrom(<<>>, t, Len(t))
    BY DEF RestFrom
  <2>4. NoLine(t, k, Len(t))
    <3> SUFFICES ASSUME NEW j \in (k + 1)..Len(t) PROVE t[j] # "nl"
      BY DEF NoLine
    <3>1. j - k \in 1..(l - k) /\ k + (j - k) = j
      BY <1>2
    <3> QED BY <1>4, <1>5, <3>1
  <2>5. Len(t) \in k..Len(t)
    OBVIOUS
  <2> QED BY <2>1, <2>2, <2>3, <2>4, <2>5
<1>6. CASE ends # {}
  <2>1. ends \subseteq Nat
    BY <1>4
  <2>2. PICK n : n = Min(ends)
    OBVIOUS
  <2>3. n \in ends /\ \A i \in ends : n <= i
    BY <1>6, <2>1, <2>2, MinOfNats
  <2>4. n \in 1..(l - k) /\ (t[k + n] = "nl" \/ t[k + n] = "eot")
    BY <1>4, <2>3
  <2>5. n = Filters!Min(ends)
    BY <2>2 DEF Filters!Min, Min
  <2>6. PICK m \in (k + 1)..l : m = k + n
    BY <1>2, <2>4
  <2>7. Filters!After(r, d) = SubSeq(r, n + 1, Len(r))
    BY <1>3, <1>6, <2>5 DEF Filters!After
  <2>8. RestFrom(SubSeq(r, n + 1, Len(r)), t, m)
    <3>1. PICK a, b : a = SubSeq(r, n + 1, Len(r)) /\ b = SubSeq(t, m + 1, Len(t))
      OBVIOUS
    <3>2. n \in 0..Len(r) /\ m \in 0..Len(t)
      BY <1>1, <1>2, <2>4
    <3>3. /\ a \in Seq(STRING) /\ Len(a) = Len(r) - n
          /\ \A i \in 1..(Len(r) - n) : a[i] = r[n + i]
      <4>1. r \in Seq(STRING)
        BY <1>1
      <4>2. a = SubSeq(r, n + 1, Len(r))
        BY <3>1
      <4> QED BY <3>2, <4>1, <4>2, RestIs
    <3>4. /\ b \in Seq(STRING) /\ Len(b) = Len(t) - m
          /\ \A i \in 1..(Len(t) - m) : b[i] = t[m + i]
      BY <3>1, <3>2, RestIs
    <3>5. Len(r) - n = Len(t) - m
      BY <1>1, <1>2, <2>4, <2>6
    <3>6. \A i \in 1..Len(a) : a[i] = b[i]
      <4> TAKE i \in 1..Len(a)
      <4>0. i \in 1..(Len(r) - n)
        BY <3>3
      <4>1. n + i \in 1..(Len(t) - k) /\ k + (n + i) = m + i
        BY <1>1, <1>2, <2>4, <2>6, <4>0
      <4> QED BY <1>1, <3>3, <3>4, <3>5, <4>0, <4>1
    <3>7. Len(a) = Len(b)
      BY <3>3, <3>4, <3>5
    <3>8. a = b
      BY <3>3, <3>4, <3>6, <3>7
    <3> QED BY <3>1, <3>8 DEF RestFrom
  <2>9. NoLine(t, k, m - 1)
    <3> SUFFICES ASSUME NEW j \in (k + 1)..(m - 1) PROVE t[j] # "nl"
      BY DEF NoLine
    <3>1. PICK i \in 1..(l - k) : i = j - k /\ k + i = j /\ i < n
      BY <1>2, <2>4, <2>6
    <3>2. i \notin ends
      BY <2>3, <2>4, <3>1
    <3> QED BY <1>4, <3>1, <3>2
  <2>10. r[n] = t[m]
    BY <1>1, <1>2, <2>4, <2>6
  <2>11. Filters!Found(r, d) <=> t[m] = "nl"
    BY <1>3, <1>6, <2>5, <2>10 DEF Filters!Found
  <2>12. CASE t[m] = "nl"
    <3>1. Min({Len(r)} \cup ends) = n
      <4>0. Len(r) \in Nat /\ n <= Len(r)
        BY <1>1, <1>2, <2>4
      <4>1. {Len(r)} \cup ends \subseteq Nat
        BY <2>1, <4>0
      <4>2. PICK u : u = Min({Len(r)} \cup ends)
        OBVIOUS
      <4>3. u \in {Len(r)} \cup ends /\ \A i \in {Len(r)} \cup ends : u <= i
        BY <4>1, <4>2, MinOfNats
      <4>4. u <= n /\ n <= u
        BY <2>3, <4>0, <4>3
      <4> QED BY <2>4, <4>0, <4>1, <4>2, <4>3, <4>4
    <3>2. SubSeq(r, 1, n) = SubSeq(t, k + 1, m)
      <4>1. PICK a, b : a = SubSeq(r, 1, n) /\ b = SubSeq(t, k + 1, m)
        OBVIOUS
      <4>2. a \in Seq(STRING) /\ Len(a) = n /\ \A i \in 1..n : a[i] = r[i]
        BY <1>1, <1>2, <2>4, <4>1
      <4>3. b \in Seq(STRING) /\ Len(b) = n /\ \A i \in 1..n : b[i] = t[k + i]
        BY <1>2, <2>4, <2>6, <4>1
      <4>4. \A i \in 1..n : a[i] = b[i]
        <5>1. \A i \in 1..n : i \in 1..(Len(t) - k)
          BY <1>2, <2>4
        <5> QED BY <1>1, <4>2, <4>3, <5>1
      <4>5. a = b
        BY <4>2, <4>3, <4>4
      <4> QED BY <4>1, <4>5
    <3>3. LineIs(r, d, t, k, m)
      BY <1>3, <3>1, <3>2 DEF LineIs
    <3> QED BY <1>2, <2>6, <2>7, <2>8, <2>9, <2>11, <2>12, <3>3
  <2>13. CASE t[m] # "nl"
    <3>1. t[m] = "eot"
      BY <2>4, <2>6, <2>13
    <3>2. NoLine(t, k, m)
      <4>1. \A j \in (k + 1)..m : j = m \/ j \in (k + 1)..(m - 1)
        BY <2>6
      <4> QED BY <2>9, <2>13, <4>1 DEF NoLine
    <3>3. m \in k..Len(t) /\ m > k
      BY <1>2, <2>6
    <3> QED BY <2>7, <2>8, <2>11, <2>13, <3>1, <3>2, <3>3
  <2> QED BY <2>12, <2>13
<1> QED BY <1>5, <1>6

(* The number of a line is the number of those up to it. *)
LEMMA Ordinals ==
  ASSUME NEW t \in Seq(STRING), NEW p \in 0..Len(t)
  PROVE  /\ IsFiniteSet(UpTo(t, p)) /\ Filters!Ordinal(t, p) = Cardinality(UpTo(t, p))
         /\ Filters!Ordinal(t, p) \in Nat
         /\ \A k \in UpTo(t, p) : Filters!Ordinal(t, k) \in 1..Filters!Ordinal(t, p)
<1>1. \A T : Filters!Cardinality(T) = Cardinality(T)
  BY DEF Filters!Cardinality, Cardinality
<1>2. \A k : Filters!Ordinal(t, k) = Cardinality(UpTo(t, k))
  BY <1>1 DEF Filters!Ordinal, UpTo
<1>3. \A k : UpTo(t, k) \subseteq 1..Len(t)
  BY DEF UpTo, Filters!LineEnds
<1>4. \A k : IsFiniteSet(UpTo(t, k)) /\ Cardinality(UpTo(t, k)) \in Nat
  <2>1. IsFiniteSet(1..Len(t))
    BY FS_Interval
  <2> QED BY <1>3, <2>1, FS_Subset, FS_CardinalityType
<1>5. ASSUME NEW k \in UpTo(t, p)
      PROVE  Cardinality(UpTo(t, k)) \in 1..Cardinality(UpTo(t, p))
  <2>1. k \in Nat /\ k <= p /\ k \in UpTo(t, k)
    BY <1>5 DEF UpTo, Filters!LineEnds
  <2>2. UpTo(t, k) \subseteq UpTo(t, p)
    BY <2>1 DEF UpTo, Filters!LineEnds
  <2>3. Cardinality(UpTo(t, k)) <= Cardinality(UpTo(t, p))
    BY <1>4, <2>2, FS_Subset
  <2>4. Cardinality(UpTo(t, k)) # 0
    BY <1>4, <2>1, FS_EmptySet
  <2> QED BY <1>4, <2>3, <2>4
<1> QED BY <1>2, <1>4, <1>5

(* The next line, which ends at m, has the next number. *)
LEMMA NextLine ==
  ASSUME NEW t \in Seq(STRING), NEW p \in 0..Len(t), NEW m \in (p + 1)..Len(t),
         t[m] = "nl", NoLine(t, p, m - 1)
  PROVE  /\ UpTo(t, m) = UpTo(t, p) \cup {m} /\ m \notin UpTo(t, p)
         /\ Filters!Ordinal(t, m) = Filters!Ordinal(t, p) + 1
         /\ LineStart(t, p) => Filters!LineTo(t, m) = SubSeq(t, p + 1, m)
<1>1. UpTo(t, m) = UpTo(t, p) \cup {m} /\ m \notin UpTo(t, p)
  <2>1. \A j \in 1..Len(t) : j <= m <=> j <= p \/ j = m \/ j \in (p + 1)..(m - 1)
    OBVIOUS
  <2>2. m \in Filters!LineEnds(t) /\ ~(m <= p) /\ m <= m
    BY DEF Filters!LineEnds
  <2>3. \A j \in Filters!LineEnds(t) : j \in 1..Len(t) /\ j \notin (p + 1)..(m - 1)
    BY DEF Filters!LineEnds, NoLine
  <2> QED BY <2>1, <2>2, <2>3 DEF UpTo
<1>2. Filters!Ordinal(t, m) = Filters!Ordinal(t, p) + 1
  <2>1. m \in 0..Len(t)
    OBVIOUS
  <2>2. Cardinality(UpTo(t, p) \cup {m}) = Cardinality(UpTo(t, p)) + 1
    BY <1>1, Ordinals, FS_AddElement
  <2> QED BY <1>1, <2>1, <2>2, Ordinals
<1>3. ASSUME LineStart(t, p) PROVE Filters!LineTo(t, m) = SubSeq(t, p + 1, m)
  <2>1. PICK S : S = {0} \cup {j \in Filters!LineEnds(t) : j < m}
    OBVIOUS
  <2>2. p \in S
    BY <1>3, <2>1 DEF LineStart, Filters!LineEnds
  <2>3. \A j \in S : j \in Nat /\ j <= p
    <3> SUFFICES ASSUME NEW j \in S PROVE j \in Nat /\ j <= p
      OBVIOUS
    <3>1. CASE j = 0
      BY <3>1
    <3>2. CASE j # 0
      <4>1. j \in 1..Len(t) /\ t[j] = "nl" /\ j < m
        BY <2>1, <3>2 DEF Filters!LineEnds
      <4>2. j \notin (p + 1)..(m - 1)
        BY <4>1 DEF NoLine
      <4> QED BY <4>1, <4>2
    <3> QED BY <3>1, <3>2
  <2>4. \A x \in S : (\A y \in S : x >= y) => x = p
    <3> SUFFICES ASSUME NEW x \in S, \A y \in S : x >= y PROVE x = p
      OBVIOUS
    <3>1. x \in Nat /\ x <= p /\ x >= p
      BY <2>2, <2>3
    <3> QED BY <3>1
  <2>5. \A y \in S : p >= y
    BY <2>3
  <2>6. Filters!Max(S) = p
    BY <2>2, <2>4, <2>5 DEF Filters!Max
  <2> QED BY <2>1, <2>6 DEF Filters!LineTo
<1> QED BY <1>1, <1>2, <1>3

(* What is left out at the end of a text changes nothing about the lines before. *)
LEMMA LinesOfPart ==
  ASSUME NEW t \in Seq(STRING), NEW n \in 0..Len(t),
         NEW s \in Seq(STRING), Len(s) = n, \A i \in 1..n : s[i] = t[i]
  PROVE  /\ Filters!LineEnds(s) = UpTo(t, n)
         /\ \A k \in UpTo(t, n) : /\ Filters!LineTo(s, k) = Filters!LineTo(t, k)
                                  /\ Filters!Ordinal(s, k) = Filters!Ordinal(t, k)
<1>1. s \in Seq(STRING) /\ Len(s) = n /\ \A i \in 1..n : s[i] = t[i]
  OBVIOUS
<1>2. Filters!LineEnds(s) = UpTo(t, n)
  BY <1>1 DEF UpTo, Filters!LineEnds
<1>3. ASSUME NEW k \in UpTo(t, n)
      PROVE  /\ Filters!LineTo(s, k) = Filters!LineTo(t, k)
             /\ Filters!Ordinal(s, k) = Filters!Ordinal(t, k)
  <2>1. k \in 1..n
    BY <1>3 DEF UpTo, Filters!LineEnds
  <2>2. /\ {j \in Filters!LineEnds(s) : j < k} = {j \in Filters!LineEnds(t) : j < k}
        /\ {j \in Filters!LineEnds(s) : j <= k} = {j \in Filters!LineEnds(t) : j <= k}
    BY <1>1, <2>1 DEF Filters!LineEnds
  <2>3. PICK S : S = {0} \cup {j \in Filters!LineEnds(t) : j < k}
    OBVIOUS
  <2>4. PICK a : a = Filters!Max(S)
    OBVIOUS
  <2>5. a \in 0..(k - 1)
    <3>1. S \subseteq 0..(k - 1) /\ S # {}
      BY <2>1, <2>3 DEF Filters!LineEnds
    <3>2. \E x \in S : \A y \in S : x >= y
      <4>1. PICK T : T = {k - x : x \in S}
        OBVIOUS
      <4>2. T \subseteq Nat /\ T # {}
        <5>1. \A x \in S : k - x \in Nat
          BY <2>1, <3>1
        <5> QED BY <3>1, <4>1, <5>1
      <4>3. PICK m \in T : \A y \in T : m <= y
        BY <4>2, MinOfNats
      <4>4. PICK x \in S : m = k - x
        BY <4>1
      <4>5. \A y \in S : k - x <= k - y
        BY <4>1, <4>3, <4>4
      <4>6. \A y \in S : x >= y
        BY <2>1, <3>1, <4>5
      <4> QED BY <4>6
    <3>3. Filters!Max(S) \in S
      BY <3>2 DEF Filters!Max
    <3> QED BY <2>4, <3>1, <3>3
  <2>6. SubSeq(s, a + 1, k) = SubSeq(t, a + 1, k)
    <3>1. PICK u, v : u = SubSeq(s, a + 1, k) /\ v = SubSeq(t, a + 1, k)
      OBVIOUS
    <3>2. u \in Seq(STRING) /\ Len(u) = k - a /\ \A i \in 1..(k - a) : u[i] = s[a + i]
      BY <1>1, <2>1, <2>5, <3>1
    <3>3. v \in Seq(STRING) /\ Len(v) = k - a /\ \A i \in 1..(k - a) : v[i] = t[a + i]
      BY <2>1, <2>5, <3>1
    <3>4. \A i \in 1..(k - a) : a + i \in 1..n
      BY <2>1, <2>5
    <3>5. \A i \in 1..Len(u) : u[i] = v[i]
      BY <1>1, <3>2, <3>3, <3>4
    <3>6. Len(u) = Len(v)
      BY <3>2, <3>3
    <3>7. u = v
      BY <3>2, <3>3, <3>5, <3>6
    <3> QED BY <3>1, <3>7
  <2> QED BY <2>2, <2>3, <2>4, <2>6 DEF Filters!LineTo, Filters!Ordinal
<1> QED BY <1>2, <1>3

(* How grep's search stands after i characters of a line: the last of them are the first of
   the pattern; what it has counted is in the line; and a line that begins with the
   pattern has kept it busy, or has been counted. *)
Has(line, k) == \A j \in 1..Len(Pattern) : line[k + j] = Pattern[j]
Contained(line) == \E k \in 0..(Len(line) - Len(Pattern)) : Has(line, k)
Searched(line, i, m) ==
  /\ m.count \in Nat /\ m.index \in 1..Len(Pattern) /\ m.index <= i + 1
  /\ \A j \in 1..(m.index - 1) : line[(i + 1 - m.index) + j] = Pattern[j]
  /\ m.count > 0 => Contained(line)
  /\ Len(Pattern) <= Len(line) /\ Has(line, 0) =>
       IF i < Len(Pattern) THEN m.index = i + 1 ELSE m.count > 0

LEMMA ScanSteps ==
  ASSUME NEW line \in Seq(STRING)
  PROVE  /\ Filters!Scan(line)[0] = [count |-> 0, index |-> 1]
         /\ \A i \in 1..Len(line) :
              Filters!Scan(line)[i] = Filters!Compared(Filters!Scan(line)[i - 1], line[i])
<1> DEFINE n == Len(line)
           V == [count : Nat, index : 1..Len(Pattern)]
           b == [count |-> 0, index |-> 1]
           step1 == [x \in (1..n) \X V |-> Filters!Compared(x[2], line[x[1]])]
           Rule(f) == [i \in 0..n |-> IF i = 0 THEN b ELSE Filters!Compared(f[i - 1], line[i])]
<1>0. Len(Pattern) \in Nat /\ Len(Pattern) >= 1
  BY FilterSizes
<1>1. n \in Nat
  OBVIOUS
<1>2. b \in V
  BY <1>0
<1>3. \A m \in V : \A c : Filters!Compared(m, c) \in V
  <2> SUFFICES ASSUME NEW m \in V, NEW c PROVE Filters!Compared(m, c) \in V
    OBVIOUS
  <2>1. m.count \in Nat /\ m.index \in 1..Len(Pattern) /\ m = [count |-> m.count, index |-> m.index]
    OBVIOUS
  <2>2. CASE c # Pattern[m.index]
    BY <1>0, <2>1, <2>2 DEF Filters!Compared
  <2>3. CASE c = Pattern[m.index] /\ m.index = Len(Pattern)
    BY <1>0, <2>1, <2>3 DEF Filters!Compared
  <2>4. CASE c = Pattern[m.index] /\ m.index # Len(Pattern)
    BY <1>0, <2>1, <2>4 DEF Filters!Compared
  <2> QED BY <2>2, <2>3, <2>4
<1> HIDE DEF V, b, n
<1>4. step1 \in [(1..n) \X V -> V]
  <2>1. \A x \in (1..n) \X V : x[2] \in V
    OBVIOUS
  <2> QED BY <1>3, <2>1
<1>5. \A i \in 1..n, v \in V : step1[<<i, v>>] = Filters!Compared(v, line[i])
  OBVIOUS
<1> HIDE DEF step1
<1>r. Recursion(n, V, b, step1)
  BY <1>1, <1>2, <1>4 DEF Recursion
<1>6. PICK g \in [0..n -> V] : g[0] = b /\ \A i \in 1..n : g[i] = step1[<<i, g[i - 1]>>]
  BY <1>r, IntervalRecursion
<1>7. \A i \in 1..n : i - 1 \in 0..n /\ i \in 0..n /\ i # 0
  BY <1>1
<1>8. \A i \in 1..n : g[i] = Filters!Compared(g[i - 1], line[i])
  BY <1>5, <1>6, <1>7
<1>9. \A i \in 0..n : i # 0 => i \in 1..n
  BY <1>1
<1>10. g = Rule(g)
  BY <1>6, <1>8, <1>9
<1>11. Filters!Scan(line) = CHOOSE f : f = Rule(f)
  BY DEF Filters!Scan, n, b
<1>12. PICK f : f = Filters!Scan(line) /\ f = Rule(f)
  BY <1>10, <1>11
<1>13. f[0] = b
  <2>1. 0 \in 0..n
    BY <1>1
  <2> QED BY <1>12, <2>1
<1>14. ASSUME NEW i \in 1..n PROVE f[i] = Filters!Compared(f[i - 1], line[i])
  <2>1. i \in 0..n /\ i # 0
    BY <1>7
  <2>2. f[i] = Rule(f)[i]
    BY <1>12
  <2>3. Rule(f)[i] = Filters!Compared(f[i - 1], line[i])
    BY <2>1
  <2> QED BY <2>2, <2>3
<1> QED BY <1>12, <1>13, <1>14 DEF n, b

LEMMA SearchGoesOn ==
  ASSUME NEW line \in Seq(STRING), NEW i \in 0..(Len(line) - 1), NEW m, Searched(line, i, m)
  PROVE  Searched(line, i + 1, Filters!Compared(m, line[i + 1]))
<1>0. /\ Len(Pattern) \in Nat /\ Len(Pattern) >= 1
      /\ Len(line) \in Nat /\ i \in Nat /\ i + 1 <= Len(line)
  BY FilterSizes
<1>1. PICK u : u = Filters!Compared(m, line[i + 1])
  OBVIOUS
<1>2. /\ m.count \in Nat /\ m.index \in 1..Len(Pattern) /\ m.index <= i + 1
      /\ \A j \in 1..(m.index - 1) : line[(i + 1 - m.index) + j] = Pattern[j]
      /\ m.count > 0 => Contained(line)
  BY DEF Searched
<1>3. Len(Pattern) <= Len(line) /\ Has(line, 0) =>
        IF i < Len(Pattern) THEN m.index = i + 1 ELSE m.count > 0
  BY DEF Searched
<1>4. CASE line[i + 1] # Pattern[m.index]
  <2>1. u.count = m.count /\ u.index = 1
    BY <1>1, <1>2, <1>4 DEF Filters!Compared
  <2>2. ~(i < Len(Pattern) /\ Has(line, 0) /\ m.index = i + 1)
    BY <1>0, <1>4 DEF Has
  <2> QED BY <1>0, <1>1, <1>2, <1>3, <2>1, <2>2 DEF Searched
<1>5. CASE line[i + 1] = Pattern[m.index] /\ m.index = Len(Pattern)
  <2>1. u.count = m.count + 1 /\ u.index = 1
    BY <1>1, <1>2, <1>5 DEF Filters!Compared
  <2>2. Contained(line)
    <3>0. Len(Pattern) <= i + 1
      BY <1>2, <1>5
    <3>1. PICK k \in 0..(Len(line) - Len(Pattern)) : k = i + 1 - m.index
      <4>1. i + 1 - Len(Pattern) \in 0..(Len(line) - Len(Pattern))
        BY <1>0, <3>0
      <4> QED BY <1>5, <4>1
    <3>2. \A j \in 1..Len(Pattern) : line[k + j] = Pattern[j]
      <4> TAKE j \in 1..Len(Pattern)
      <4>1. CASE j = Len(Pattern)
        <5>1. k + j = i + 1 /\ j = m.index
          BY <1>0, <1>2, <1>5, <3>1, <4>1
        <5> QED BY <1>5, <5>1
      <4>2. CASE j # Len(Pattern)
        <5>1. j \in 1..(m.index - 1) /\ k + j = (i + 1 - m.index) + j
          BY <1>0, <1>5, <3>1, <4>2
        <5> QED BY <1>2, <5>1
      <4> QED BY <4>1, <4>2
    <3> QED BY <3>2 DEF Contained, Has
  <2>3. \A j \in 1..(u.index - 1) : line[(i + 2 - u.index) + j] = Pattern[j]
    BY <2>1
  <2>4. u.count \in Nat /\ u.count > 0 /\ u.index \in 1..Len(Pattern) /\ u.index <= i + 2
    BY <1>0, <1>2, <2>1
  <2>5. i + 1 < Len(Pattern) => ~(Len(Pattern) <= Len(line) /\ Has(line, 0))
    BY <1>0, <1>2, <1>3, <1>5
  <2> QED BY <1>0, <1>1, <2>1, <2>2, <2>4, <2>5 DEF Searched
<1>6. CASE line[i + 1] = Pattern[m.index] /\ m.index # Len(Pattern)
  <2>1. u.count = m.count /\ u.index = m.index + 1
    BY <1>1, <1>2, <1>6 DEF Filters!Compared
  <2>2. ASSUME NEW j \in 1..(u.index - 1) PROVE line[((i + 1) + 1 - u.index) + j] = Pattern[j]
    <3>1. ((i + 1) + 1 - u.index) + j = (i + 1 - m.index) + j
      BY <1>0, <1>2, <2>1
    <3>2. CASE j = m.index
      <4>1. (i + 1 - m.index) + j = i + 1
        BY <1>0, <1>2, <3>2
      <4> QED BY <1>6, <3>1, <3>2, <4>1
    <3>3. CASE j # m.index
      <4>1. j \in 1..(m.index - 1)
        BY <1>2, <2>1, <3>3
      <4> QED BY <1>2, <3>1, <4>1
    <3> QED BY <3>2, <3>3
  <2>3. u.count \in Nat /\ u.index \in 1..Len(Pattern) /\ u.index <= (i + 1) + 1
    BY <1>0, <1>2, <1>6, <2>1
  <2>4. Len(Pattern) <= Len(line) /\ Has(line, 0) =>
          IF i + 1 < Len(Pattern) THEN u.index = (i + 1) + 1 ELSE u.count > 0
    BY <1>0, <1>2, <1>3, <1>6, <2>1
  <2> QED BY <1>1, <1>2, <2>1, <2>2, <2>3, <2>4 DEF Searched
<1> QED BY <1>4, <1>5, <1>6

(* grep counts nothing that is not there, and does not overlook the pattern where the line
   begins with it. *)
LEMMA MatchesFound ==
  ASSUME NEW line \in Seq(STRING)
  PROVE  /\ Filters!Matches(line) \in Nat
         /\ Filters!Matches(line) > 0 => Filters!HasPattern(line)
         /\ Filters!IsPrefix(Pattern, line) => Filters!Matches(line) > 0
<1>0. Pattern \in Seq(STRING) /\ Len(Pattern) \in Nat /\ Len(Pattern) >= 1 /\ Len(line) \in Nat
  BY FilterSizes
<1>1. PICK f : f = Filters!Scan(line)
  OBVIOUS
<1>2. PICK S : S = {i \in 0..Len(line) : Searched(line, i, f[i])}
  OBVIOUS
<1>3. 0 \in S
  <2>1. f[0].count = 0 /\ f[0].index = 1
    BY <1>1, ScanSteps
  <2> QED BY <1>0, <1>2, <2>1 DEF Searched
<1>4. ASSUME NEW i \in 0..(Len(line) - 1), i \in S PROVE i + 1 \in S
  <2>1. i + 1 \in 1..Len(line) /\ (i + 1) - 1 = i
    BY <1>0
  <2>2. f[i + 1] = Filters!Compared(f[i], line[i + 1])
    BY <1>1, <2>1, ScanSteps
  <2>3. Searched(line, i + 1, f[i + 1])
    BY <1>2, <1>4, <2>2, SearchGoesOn
  <2> QED BY <1>2, <2>1, <2>3
<1>5. Len(line) \in S
  <2>1. \A i \in 0..Len(line) : i \in S
    BY <1>0, <1>3, <1>4, IntervalInduction
  <2> QED BY <1>0, <2>1
<1>6. PICK m : m = f[Len(line)] /\ Filters!Matches(line) = m.count
  BY <1>1 DEF Filters!Matches
<1>7. Searched(line, Len(line), m)
  BY <1>2, <1>5, <1>6
<1>8. ASSUME m.count > 0 PROVE Filters!HasPattern(line)
  <2>1. PICK k \in 0..(Len(line) - Len(Pattern)) : Has(line, k)
    BY <1>7, <1>8 DEF Searched, Contained
  <2>2. k + 1 \in 1..Len(line)
    BY <1>0
  <2>3. PICK s : s = SubSeq(line, k + 1, Len(line))
    OBVIOUS
  <2>4. /\ s \in Seq(STRING) /\ Len(s) = Len(line) - k
        /\ \A j \in 1..(Len(line) - k) : s[j] = line[k + j]
    BY <2>2, <2>3, RestIs
  <2>5. \A j \in 1..Len(Pattern) : s[j] = Pattern[j]
    BY <1>0, <2>1, <2>4 DEF Has
  <2>6. Len(Pattern) <= Len(s)
    BY <1>0, <2>4
  <2>7. SubSeq(Pattern, 1, Len(Pattern)) = SubSeq(s, 1, Len(Pattern))
    <3>1. PICK a, b : a = SubSeq(Pattern, 1, Len(Pattern)) /\ b = SubSeq(s, 1, Len(Pattern))
      OBVIOUS
    <3>2. a \in Seq(STRING) /\ Len(a) = Len(Pattern) /\ \A j \in 1..Len(Pattern) : a[j] = Pattern[j]
      BY <1>0, <3>1
    <3>3. b \in Seq(STRING) /\ Len(b) = Len(Pattern) /\ \A j \in 1..Len(Pattern) : b[j] = s[j]
      BY <1>0, <2>4, <2>6, <3>1
    <3>4. Len(a) = Len(b) /\ \A j \in 1..Len(a) : a[j] = b[j]
      BY <2>5, <3>2, <3>3
    <3>5. a = b
      BY <3>2, <3>3, <3>4
    <3> QED BY <3>1, <3>5
  <2>8. Filters!IsPrefix(Pattern, s)
    BY <2>6, <2>7 DEF Filters!IsPrefix
  <2> QED BY <2>2, <2>3, <2>8 DEF Filters!HasPattern
<1>9. ASSUME Filters!IsPrefix(Pattern, line) PROVE m.count > 0
  <2>1. /\ Len(Pattern) <= Len(line)
        /\ SubSeq(Pattern, 1, Len(Pattern)) = SubSeq(line, 1, Len(Pattern))
    BY <1>9 DEF Filters!IsPrefix
  <2>2. \A j \in 1..Len(Pattern) : SubSeq(Pattern, 1, Len(Pattern))[j] = Pattern[j]
                                   /\ SubSeq(line, 1, Len(Pattern))[j] = line[j]
    BY <1>0, <2>1
  <2>3. Has(line, 0)
    <3>1. \A j \in 1..Len(Pattern) : 0 + j = j
      OBVIOUS
    <3> QED BY <2>1, <2>2, <3>1 DEF Has
  <2> QED BY <1>0, <1>7, <2>1, <2>3 DEF Searched
<1> QED BY <1>6, <1>7, <1>8, <1>9 DEF Searched

(* The letters of what is written: l2u's capitals too. *)
Letter == STRING \cup {"A", "B"}
LEMMA Letters == ASSUME NEW s \in Seq(STRING) PROVE s \in Seq(Letter)
<1>1. \A i \in 1..Len(s) : s[i] \in Letter
  BY DEF Letter
<1>2. s = [i \in 1..Len(s) |-> s[i]]
  OBVIOUS
<1> QED BY <1>1, <1>2

(* What has been written, o, when the text t has been read up to place p: the lines up to
   there; those with the pattern; all but one line for each full screen, and not that many of
   the screen in hand. *)
CopiedTo(o, kind, t, p) ==
  /\ LineStart(t, p) /\ o \in Seq(Seq(Letter)) /\ Len(o) = Filters!Ordinal(t, p)
  /\ \A k \in UpTo(t, p) : o[Filters!Ordinal(t, k)] =
       IF kind = "l2u" THEN Filters!Convert(Filters!LineTo(t, k)) ELSE Filters!LineTo(t, k)
GreppedTo(o, t, p) ==
  /\ LineStart(t, p) /\ o \in Seq(Seq(STRING))
  /\ \A i \in 1..Len(o) : o[i] # <<>> =>
       Filters!HasPattern(o[i]) /\ \E k \in UpTo(t, p) : o[i] = Filters!LineTo(t, k)
  /\ \A k \in UpTo(t, p) : Filters!IsPrefix(Pattern, Filters!LineTo(t, k)) =>
       \E i \in 1..Len(o) : o[i] = Filters!LineTo(t, k)
PagedTo(o, shown, t, p) ==
  /\ o \in Seq(Seq(STRING))
  /\ \E lost \in Nat : Filters!Ordinal(t, p) = Len(o) + lost /\ lost * Page + shown <= Len(o)

(* The lines up to p are those of what may be taken for the whole input. *)
EndsAt(t, p) ==
  \E n \in 0..Len(t) : (n = Len(t) \/ t[n + 1] = "eot") /\ UpTo(t, n) = UpTo(t, p)

OnScreen(place1, shown) == IF place1 \in {"first", "reading"} THEN shown ELSE 0
WorkTo(p) ==
  /\ RestFrom(rest, text, p)
  /\ tool # "more" => pc \in {"reading", "done"}
  /\ tool \in {"cat", "cp", "l2u"} => CopiedTo(out, tool, text, p)
  /\ tool = "grep" => GreppedTo(out, text, p)
  /\ tool = "more" => PagedTo(out, OnScreen(pc, since), text, p)
  /\ pc \in {"last", "done"} => EndsAt(text, p)
WorkInv == ~terminal => \E p \in 0..Len(text) : WorkTo(p)

LEMMA LastWritten ==
  ASSUME NEW A, NEW o \in Seq(A), NEW x \in A
  PROVE  /\ o \o <<x>> \in Seq(A) /\ Len(o \o <<x>>) = Len(o) + 1
         /\ (o \o <<x>>)[Len(o) + 1] = x /\ \A i \in 1..Len(o) : (o \o <<x>>)[i] = o[i]
         /\ Append(o, x) = o \o <<x>>
OBVIOUS

LEMMA Joined ==
  ASSUME NEW A, NEW o \in Seq(A), NEW g \in Seq(A)
  PROVE  /\ o \o g \in Seq(A) /\ Len(o \o g) = Len(o) + Len(g)
         /\ \A i \in 1..Len(o) : (o \o g)[i] = o[i]
         /\ \A i \in 1..Len(g) : (o \o g)[Len(o) + i] = g[i]
OBVIOUS

LEMMA Capitals == ASSUME NEW line \in Seq(STRING) PROVE Filters!Convert(line) \in Seq(Letter)
<1>1. ASSUME NEW i \in 1..Len(line) PROVE Filters!Upper(line[i]) \in Letter
  <2>1. PICK c \in STRING : c = line[i]
    <3>1. line[i] \in STRING
      BY ElementOfSeq
    <3> QED BY <3>1
  <2>2. Filters!Upper(c) \in {c, "A", "B"}
    BY DEF Filters!Upper
  <2> QED BY <2>1, <2>2 DEF Letter
<1>2. Filters!Convert(line) = [i \in 1..Len(line) |-> Filters!Upper(line[i])]
  BY DEF Filters!Convert
<1> QED BY <1>1, <1>2

LEMMA CopiesOn ==
  ASSUME NEW t \in Seq(STRING), NEW p \in 0..Len(t), NEW m \in (p + 1)..Len(t),
         t[m] = "nl", NoLine(t, p, m - 1), NEW kind, NEW o, CopiedTo(o, kind, t, p), NEW x,
         x = IF kind = "l2u" THEN Filters!Convert(SubSeq(t, p + 1, m)) ELSE SubSeq(t, p + 1, m)
  PROVE  CopiedTo(o \o <<x>>, kind, t, m)
<1>1. PICK line : line = SubSeq(t, p + 1, m)
  OBVIOUS
<1>2. line \in Seq(STRING)
  BY <1>1
<1>3. Filters!Convert(line) \in Seq(Letter)
  BY <1>2, Capitals
<1>4. x \in Seq(Letter)
  BY <1>1, <1>2, <1>3, Letters
<1>5. /\ o \in Seq(Seq(Letter)) /\ Len(o) = Filters!Ordinal(t, p) /\ LineStart(t, p)
      /\ \A k \in UpTo(t, p) : o[Filters!Ordinal(t, k)] =
           IF kind = "l2u" THEN Filters!Convert(Filters!LineTo(t, k)) ELSE Filters!LineTo(t, k)
  BY DEF CopiedTo
<1>6. /\ UpTo(t, m) = UpTo(t, p) \cup {m}
      /\ Filters!Ordinal(t, m) = Filters!Ordinal(t, p) + 1 /\ Filters!LineTo(t, m) = line
  BY <1>1, <1>5, NextLine
<1>7. \A k \in UpTo(t, p) : Filters!Ordinal(t, k) \in 1..Len(o)
  BY <1>5, Ordinals
<1>8. PICK q : q = o \o <<x>>
  OBVIOUS
<1>9. /\ q \in Seq(Seq(Letter)) /\ Len(q) = Len(o) + 1
      /\ q[Len(o) + 1] = x /\ \A i \in 1..Len(o) : q[i] = o[i]
  <2>1. o \in Seq(Seq(Letter))
    BY <1>5
  <2>2. x \in Seq(Letter)
    BY <1>4
  <2> QED BY <1>8, <2>1, <2>2, LastWritten
<1>10. LineStart(t, m) /\ Len(q) = Filters!Ordinal(t, m)
  BY <1>5, <1>6, <1>9 DEF LineStart
<1>11. ASSUME NEW k \in UpTo(t, m)
       PROVE  q[Filters!Ordinal(t, k)] =
                IF kind = "l2u" THEN Filters!Convert(Filters!LineTo(t, k)) ELSE Filters!LineTo(t, k)
  <2>1. CASE k = m
    BY <1>1, <1>5, <1>6, <1>9, <2>1
  <2>2. CASE k # m
    <3>1. k \in UpTo(t, p)
      BY <1>6, <2>2
    <3> QED BY <1>5, <1>7, <1>9, <3>1
  <2> QED BY <2>1, <2>2
<1> QED BY <1>8, <1>9, <1>10, <1>11 DEF CopiedTo

LEMMA GrepsOn ==
  ASSUME NEW t \in Seq(STRING), NEW p \in 0..Len(t), NEW m \in (p + 1)..Len(t),
         t[m] = "nl", NoLine(t, p, m - 1), NEW o, GreppedTo(o, t, p)
  PROVE  GreppedTo(o \o Filters!Grep(SubSeq(t, p + 1, m)), t, m)
<1>1. PICK line : line = SubSeq(t, p + 1, m)
  OBVIOUS
<1>2. line \in Seq(STRING)
  BY <1>1
<1>3. PICK n \in Nat : n = Filters!Matches(line)
  BY <1>2, MatchesFound
<1>4. PICK g : g = Filters!Grep(line)
  OBVIOUS
<1>5. /\ g \in Seq(Seq(STRING)) /\ Len(g) = n + 1
      /\ \A i \in 1..n : g[i] = line
      /\ g[n + 1] = <<>>
  <2>1. PICK r : r = [i \in 1..n |-> line]
    OBVIOUS
  <2>2. r \in Seq(Seq(STRING)) /\ Len(r) = n /\ \A i \in 1..n : r[i] = line
    BY <1>2, <2>1
  <2>3. g = r \o << <<>> >>
    BY <1>3, <1>4, <2>1 DEF Filters!Grep
  <2>4. <<>> \in Seq(STRING)
    OBVIOUS
  <2>5. r \in Seq(Seq(STRING))
    BY <2>2
  <2>6. g \in Seq(Seq(STRING)) /\ Len(g) = Len(r) + 1 /\ g[Len(r) + 1] = <<>>
        /\ \A i \in 1..Len(r) : g[i] = r[i]
    BY <2>3, <2>4, <2>5, LastWritten
  <2> QED BY <2>2, <2>6
<1>6. /\ LineStart(t, p) /\ o \in Seq(Seq(STRING))
      /\ \A i \in 1..Len(o) : o[i] # <<>> =>
           Filters!HasPattern(o[i]) /\ \E k \in UpTo(t, p) : o[i] = Filters!LineTo(t, k)
      /\ \A k \in UpTo(t, p) : Filters!IsPrefix(Pattern, Filters!LineTo(t, k)) =>
           \E i \in 1..Len(o) : o[i] = Filters!LineTo(t, k)
  BY DEF GreppedTo
<1>7. UpTo(t, m) = UpTo(t, p) \cup {m} /\ Filters!LineTo(t, m) = line /\ LineStart(t, m)
  BY <1>1, <1>6, NextLine DEF LineStart
<1>8. PICK l \in Nat : l = Len(o)
  BY <1>6
<1>9. PICK q : q = o \o g
  OBVIOUS
<1>10. /\ q \in Seq(Seq(STRING)) /\ Len(q) = l + (n + 1)
       /\ \A i \in 1..l : q[i] = o[i]
       /\ \A i \in 1..(n + 1) : q[l + i] = g[i]
  <2>1. o \in Seq(Seq(STRING)) /\ g \in Seq(Seq(STRING))
    BY <1>5, <1>6
  <2>2. /\ q \in Seq(Seq(STRING)) /\ Len(q) = Len(o) + Len(g)
        /\ \A i \in 1..Len(o) : q[i] = o[i]
        /\ \A i \in 1..Len(g) : q[Len(o) + i] = g[i]
    BY <1>9, <2>1, Joined
  <2> QED BY <1>5, <1>8, <2>2
<1>11. \A i \in 1..Len(q) : i \in 1..l \/ i = l + (n + 1) \/ \E j \in 1..n : i = l + j
  <2> TAKE i \in 1..Len(q)
  <2>1. CASE i <= l
    BY <1>8, <1>10, <2>1
  <2>2. CASE i > l
    <3>1. i - l \in 1..(n + 1) /\ i = l + (i - l)
      BY <1>8, <1>10, <2>2
    <3>2. i - l = n + 1 \/ i - l \in 1..n
      BY <3>1
    <3> QED BY <3>1, <3>2
  <2> QED BY <1>10, <2>1, <2>2
<1>12. ASSUME NEW i \in 1..Len(q), q[i] # <<>>
       PROVE  Filters!HasPattern(q[i]) /\ \E k \in UpTo(t, m) : q[i] = Filters!LineTo(t, k)
  <2>1. CASE i \in 1..l
    BY <1>6, <1>7, <1>8, <1>10, <1>12, <2>1
  <2>2. CASE i = l + (n + 1)
    <3>1. n + 1 \in 1..(n + 1)
      OBVIOUS
    <3> QED BY <1>5, <1>10, <1>12, <2>2, <3>1
  <2>3. ASSUME NEW j \in 1..n, i = l + j
        PROVE  Filters!HasPattern(q[i]) /\ \E k \in UpTo(t, m) : q[i] = Filters!LineTo(t, k)
    <3>1. j \in 1..(n + 1) /\ n > 0
      OBVIOUS
    <3>2. q[i] = line
      BY <1>5, <1>10, <2>3, <3>1
    <3>3. Filters!HasPattern(line)
      BY <1>2, <1>3, <3>1, MatchesFound
    <3> QED BY <1>7, <3>2, <3>3
  <2> QED BY <1>11, <2>1, <2>2, <2>3
<1>13. ASSUME NEW k \in UpTo(t, m), Filters!IsPrefix(Pattern, Filters!LineTo(t, k))
       PROVE  \E i \in 1..Len(q) : q[i] = Filters!LineTo(t, k)
  <2>1. CASE k = m
    <3>1. n > 0
      BY <1>2, <1>3, <1>7, <1>13, <2>1, MatchesFound
    <3>2. 1 \in 1..n /\ 1 \in 1..(n + 1) /\ l + 1 \in 1..Len(q)
      BY <1>10, <3>1
    <3>3. q[l + 1] = line
      BY <1>5, <1>10, <3>2
    <3> QED BY <1>7, <2>1, <3>2, <3>3
  <2>2. CASE k # m
    <3>1. PICK i \in 1..l : o[i] = Filters!LineTo(t, k)
      BY <1>6, <1>7, <1>8, <1>13, <2>2
    <3>2. i \in 1..Len(q)
      BY <1>10
    <3> QED BY <1>10, <3>1, <3>2
  <2> QED BY <2>1, <2>2
<1>14. GreppedTo(q, t, m)
  BY <1>7, <1>10, <1>12, <1>13 DEF GreppedTo
<1> QED BY <1>1, <1>4, <1>9, <1>14

(* more goes on: with a line that is shown, one that is lost, or no line. *)
LEMMA PagesOn ==
  ASSUME NEW t \in Seq(STRING), NEW p \in 0..Len(t), NEW m \in (p + 1)..Len(t),
         t[m] = "nl", NoLine(t, p, m - 1), NEW o, NEW shown \in Nat, PagedTo(o, shown, t, p)
  PROVE  /\ \A x \in Seq(STRING) : PagedTo(Append(o, x), shown + 1, t, m)
         /\ shown = Page => PagedTo(o, 0, t, m)
<1>0. Page \in Nat
  BY FilterSizes
<1>1. PICK lost \in Nat :
        Filters!Ordinal(t, p) = Len(o) + lost /\ lost * Page + shown <= Len(o)
  BY DEF PagedTo
<1>2. o \in Seq(Seq(STRING)) /\ Len(o) \in Nat
  BY DEF PagedTo
<1>3. Filters!Ordinal(t, m) = Filters!Ordinal(t, p) + 1
  BY NextLine
<1>4. PICK a \in Nat : a = lost * Page
  BY <1>0
<1>5. ASSUME NEW x \in Seq(STRING) PROVE PagedTo(Append(o, x), shown + 1, t, m)
  <2>1. Append(o, x) \in Seq(Seq(STRING)) /\ Len(Append(o, x)) = Len(o) + 1
    BY <1>2, LastWritten
  <2>2. Filters!Ordinal(t, m) = Len(Append(o, x)) + lost
    BY <1>1, <1>2, <1>3, <2>1
  <2>3. a + (shown + 1) <= Len(Append(o, x))
    BY <1>1, <1>2, <1>4, <2>1
  <2> QED BY <1>4, <2>1, <2>2, <2>3 DEF PagedTo
<1>6. ASSUME shown = Page PROVE PagedTo(o, 0, t, m)
  <2>1. Filters!Ordinal(t, m) = Len(o) + (lost + 1)
    BY <1>1, <1>2, <1>3
  <2>2. (lost + 1) * Page = a + Page
    BY <1>0, <1>4
  <2>3. (lost + 1) * Page + 0 <= Len(o)
    BY <1>0, <1>1, <1>2, <1>4, <1>6, <2>2
  <2>4. lost + 1 \in Nat
    OBVIOUS
  <2> QED BY <1>2, <2>1, <2>3, <2>4 DEF PagedTo
<1> QED BY <1>5, <1>6

LEMMA PagesLess ==
  ASSUME NEW t, NEW p, NEW q, UpTo(t, p) = UpTo(t, q),
         NEW o, NEW shown \in Nat, NEW less \in 0..shown, PagedTo(o, shown, t, p)
  PROVE  PagedTo(o, less, t, q)
<1>0. Page \in Nat
  BY FilterSizes
<1>1. PICK lost \in Nat :
        Filters!Ordinal(t, p) = Len(o) + lost /\ lost * Page + shown <= Len(o)
  BY DEF PagedTo
<1>2. o \in Seq(Seq(STRING)) /\ Len(o) \in Nat
  BY DEF PagedTo
<1>3. Filters!Ordinal(t, q) = Filters!Ordinal(t, p)
  BY DEF Filters!Ordinal, UpTo
<1>4. PICK a \in Nat : a = lost * Page
  BY <1>0
<1>5. a + less <= Len(o)
  BY <1>1, <1>2, <1>4
<1> QED BY <1>1, <1>2, <1>3, <1>4, <1>5 DEF PagedTo

(* Without a line to its place m, a text has no more lines up to there. *)
LEMMA NoneLeft ==
  ASSUME NEW t \in Seq(STRING), NEW p \in 0..Len(t), NEW m \in p..Len(t), NoLine(t, p, m)
  PROVE  /\ UpTo(t, m) = UpTo(t, p)
         /\ (m = Len(t) \/ (m > p /\ t[m] = "eot")) => EndsAt(t, p) /\ EndsAt(t, m)
<1>1. ASSUME NEW n \in p..m PROVE UpTo(t, n) = UpTo(t, p)
  <2>1. \A j \in 1..Len(t) : j <= n <=> j <= p \/ j \in (p + 1)..n
    OBVIOUS
  <2>2. \A j \in Filters!LineEnds(t) : j \in 1..Len(t) /\ j \notin (p + 1)..n
    BY DEF Filters!LineEnds, NoLine
  <2> QED BY <2>1, <2>2 DEF UpTo
<1>2. UpTo(t, m) = UpTo(t, p)
  BY <1>1
<1>3. CASE m = Len(t)
  BY <1>2, <1>3 DEF EndsAt
<1>4. CASE m > p /\ t[m] = "eot"
  <2>1. m - 1 \in p..m /\ m - 1 \in 0..Len(t) /\ (m - 1) + 1 = m
    BY <1>4
  <2> QED BY <1>1, <1>2, <1>4, <2>1 DEF EndsAt
<1> QED BY <1>2, <1>3, <1>4

LEMMA WorkStarts == ASSUME Filters!Init PROVE WorkInv
<1>1. text \in Text /\ rest = text /\ text \in Seq(STRING) /\ out = <<>> /\ since = 0
  BY FilterSizes DEF Filters!Init
<1>2. RestFrom(rest, text, 0) /\ 0 \in 0..Len(text)
  <2>1. SubSeq(text, 0 + 1, Len(text)) = text
    BY <1>1
  <2> QED BY <1>1, <2>1 DEF RestFrom
<1>3. UpTo(text, 0) = {}
  BY DEF UpTo, Filters!LineEnds
<1>4. Filters!Ordinal(text, 0) = 0
  BY <1>1, <1>2, <1>3, Ordinals, FS_EmptySet
<1>5. out \in Seq(Seq(STRING)) /\ out \in Seq(Seq(Letter)) /\ Len(out) = 0
  BY <1>1
<1>6. CopiedTo(out, tool, text, 0)
  BY <1>3, <1>4, <1>5 DEF CopiedTo, LineStart
<1>7. GreppedTo(out, text, 0)
  BY <1>3, <1>5 DEF GreppedTo, LineStart
<1>8. PagedTo(out, 0, text, 0)
  <2>1. 0 * Page + 0 <= Len(out) /\ 0 = Len(out) + 0
    BY <1>5, FilterSizes
  <2> QED BY <1>4, <1>5, <2>1 DEF PagedTo
<1>9. OnScreen(pc, since) = 0
  BY <1>1 DEF OnScreen
<1>10. /\ tool # "more" => pc \in {"reading", "done"}
       /\ pc \notin {"last", "done"}
  BY DEF Filters!Init
<1> QED BY <1>2, <1>6, <1>7, <1>8, <1>9, <1>10 DEF WorkInv, WorkTo

LEMMA WorkStep == ASSUME FilterInv, WorkInv, [Filters!Next]_filters PROVE WorkInv'
<1>1. CASE UNCHANGED filters
  <2>1. \A p : WorkTo(p) => WorkTo(p)'
    BY <1>1 DEF filters, WorkTo
  <2>2. text' = text /\ terminal' = terminal
    BY <1>1 DEF filters
  <2> QED BY <2>1, <2>2 DEF WorkInv
<1>2. CASE Filters!Next
  <2>1. terminal' = terminal /\ text' = text /\ tool' = tool
    BY <1>2 DEF Filters!Next, Filters!Filter, Filters!Screen, Filters!KeyScreen, Filters!KeyLine,
                Filters!KeyOther
  <2> SUFFICES ASSUME ~terminal PROVE \E p \in 0..Len(text) : WorkTo(p)'
    BY <2>1 DEF WorkInv
  <2>2. PICK p \in 0..Len(text) : WorkTo(p)
    BY DEF WorkInv
  <2>3. text \in Seq(STRING) /\ Page \in Nat /\ Page >= 1 /\ since \in 0..Page
    BY FilterSizes DEF FilterInv
  <2>4. RestFrom(rest, text, p)
    BY <2>2 DEF WorkTo
  <2>5. Filters!Zeroed = BOOLEAN
    BY DEF Filters!Zeroed
  <2>6. ASSUME NEW d \in BOOLEAN, Filters!Found(rest, d), rest' = Filters!After(rest, d)
        PROVE  \E m \in (p + 1)..Len(text) :
                 /\ text[m] = "nl" /\ NoLine(text, p, m - 1) /\ RestFrom(rest', text', m)
                 /\ Filters!Line(d) = SubSeq(text, p + 1, m)
                 /\ SubSeq(text, p + 1, m) \in Seq(STRING)
    <3>1. PICK m \in (p + 1)..Len(text) :
            /\ text[m] = "nl" /\ NoLine(text, p, m - 1)
            /\ RestFrom(Filters!After(rest, d), text, m) /\ LineIs(rest, d, text, p, m)
      <4>1. text \in Seq(STRING)
        BY <2>3
      <4> QED BY <2>4, <2>6, <4>1, LineRead
    <3>2. Filters!Line(d) = SubSeq(text, p + 1, m)
      <4>1. \A S : Filters!Min(S) = Min(S)
        BY DEF Filters!Min, Min
      <4> QED BY <3>1, <4>1 DEF Filters!Line, Filters!Taken, LineIs
    <3>3. SubSeq(text, p + 1, m) \in Seq(STRING)
      BY <2>3
    <3> QED BY <2>1, <2>6, <3>1, <3>2, <3>3
  <2>7. ASSUME NEW d \in BOOLEAN, ~Filters!Found(rest, d)
        PROVE  /\ EndsAt(text, p)
               /\ rest' = Filters!After(rest, d) =>
                    \E m \in p..Len(text) : /\ RestFrom(rest', text', m) /\ EndsAt(text, m)
                                            /\ UpTo(text, m) = UpTo(text, p)
    <3>1. PICK m \in p..Len(text) :
            /\ m = Len(text) \/ (m > p /\ text[m] = "eot")
            /\ NoLine(text, p, m) /\ RestFrom(Filters!After(rest, d), text, m)
      BY <2>3, <2>4, <2>7, LineRead
    <3>2. EndsAt(text, p) /\ EndsAt(text, m) /\ UpTo(text, m) = UpTo(text, p)
      BY <2>3, <3>1, NoneLeft
    <3> QED BY <2>1, <3>1, <3>2
  <2>8. CASE Filters!Filter
    <3>1. tool # "more" /\ pc = "reading"
      BY <2>8 DEF Filters!Filter
    <3>2. PICK d \in BOOLEAN :
            \/ /\ Filters!Found(rest, d) /\ rest' = Filters!After(rest, d)
               /\ out' = out \o Filters!Written(Filters!Line(d)) /\ pc' = pc
            \/ ~Filters!Found(rest, d) /\ pc' = "done" /\ rest' = rest /\ out' = out
      BY <2>5, <2>8 DEF Filters!Filter
    <3>3. CASE Filters!Found(rest, d) /\ rest' = Filters!After(rest, d)
      <4>1. out' = out \o Filters!Written(Filters!Line(d)) /\ pc' = pc
        BY <3>2, <3>3
      <4>2. PICK m \in (p + 1)..Len(text) :
              /\ text[m] = "nl" /\ NoLine(text, p, m - 1) /\ RestFrom(rest', text', m)
              /\ Filters!Line(d) = SubSeq(text, p + 1, m)
        BY <2>6, <3>3
      <4>3. tool \in {"cat", "cp", "l2u"} => CopiedTo(out', tool, text, m)
        <5> SUFFICES ASSUME tool \in {"cat", "cp", "l2u"} PROVE CopiedTo(out', tool, text, m)
          OBVIOUS
        <5>1. CopiedTo(out, tool, text, p)
          BY <2>2 DEF WorkTo
        <5>2. PICK x : x = IF tool = "l2u" THEN Filters!Convert(SubSeq(text, p + 1, m))
                           ELSE SubSeq(text, p + 1, m)
          OBVIOUS
        <5>3. Filters!Written(Filters!Line(d)) = <<x>>
          BY <4>2, <5>2 DEF Filters!Written
        <5>4. CopiedTo(out \o <<x>>, tool, text, m)
          BY <2>3, <4>2, <5>1, <5>2, CopiesOn
        <5> QED BY <4>1, <5>3, <5>4
      <4>4. tool = "grep" => GreppedTo(out', text, m)
        <5> SUFFICES ASSUME tool = "grep" PROVE GreppedTo(out', text, m)
          OBVIOUS
        <5>1. GreppedTo(out, text, p)
          BY <2>2 DEF WorkTo
        <5>2. Filters!Written(Filters!Line(d)) = Filters!Grep(SubSeq(text, p + 1, m))
          BY <4>2 DEF Filters!Written
        <5> QED BY <2>3, <4>1, <4>2, <5>1, <5>2, GrepsOn
      <4>5. m \in 0..Len(text)
        OBVIOUS
      <4> QED BY <2>1, <3>1, <4>1, <4>2, <4>3, <4>4, <4>5 DEF WorkTo
    <3>4. CASE ~Filters!Found(rest, d)
      <4>1. pc' = "done" /\ rest' = rest /\ out' = out
        BY <3>2, <3>4
      <4>2. EndsAt(text, p)
        BY <2>7, <3>4
      <4> QED BY <2>1, <2>2, <3>1, <4>1, <4>2 DEF WorkTo
    <3> QED BY <3>2, <3>3, <3>4
  <2>9. CASE Filters!Screen
    <3>1. tool = "more" /\ pc \in {"first", "reading"}
      BY <2>9 DEF Filters!Screen
    <3>2. PICK d \in BOOLEAN :
            /\ rest' = Filters!After(rest, d)
            /\ \/ /\ since < Page /\ Filters!Found(rest, d)
                  /\ out' = Append(out, Filters!Line(d)) /\ since' = since + 1 /\ pc' = pc
               \/ /\ since < Page /\ ~Filters!Found(rest, d)
                  /\ pc' \in {"last", "done"} /\ out' = out
               \/ since = Page /\ pc' = "key" /\ out' = out
      BY <2>5, <2>9 DEF Filters!Screen
    <3>3. PagedTo(out, since, text, p)
      BY <2>2, <3>1 DEF WorkTo, OnScreen
    <3>4. CASE Filters!Found(rest, d)
      <4>1. PICK m \in (p + 1)..Len(text) :
              /\ text[m] = "nl" /\ NoLine(text, p, m - 1) /\ RestFrom(rest', text', m)
              /\ Filters!Line(d) = SubSeq(text, p + 1, m) /\ SubSeq(text, p + 1, m) \in Seq(STRING)
        BY <2>6, <3>2, <3>4
      <4>2. m \in 0..Len(text) /\ since \in Nat
        BY <2>3
      <4>3. CASE since < Page
        <5>1. out' = Append(out, Filters!Line(d)) /\ since' = since + 1 /\ pc' = pc
          BY <2>3, <3>2, <3>4, <4>3
        <5>2. PagedTo(out', since', text, m)
          BY <2>3, <3>3, <4>1, <4>2, <5>1, PagesOn
        <5> QED BY <2>1, <3>1, <4>1, <4>2, <5>1, <5>2 DEF WorkTo, OnScreen
      <4>4. CASE ~(since < Page)
        <5>1. out' = out /\ pc' = "key" /\ since = Page
          BY <2>3, <3>2, <3>4, <4>4
        <5>2. PagedTo(out, 0, text, m)
          BY <2>3, <3>3, <4>1, <4>2, <5>1, PagesOn
        <5> QED BY <2>1, <3>1, <4>1, <4>2, <5>1, <5>2 DEF WorkTo, OnScreen
      <4> QED BY <4>3, <4>4
    <3>5. CASE ~Filters!Found(rest, d)
      <4>1. out' = out /\ pc' \in {"key", "last", "done"}
        BY <3>2, <3>5
      <4>2. PICK m \in p..Len(text) : /\ RestFrom(rest', text', m) /\ EndsAt(text, m)
                                      /\ UpTo(text, m) = UpTo(text, p)
        BY <2>7, <3>2, <3>5
      <4>3. PagedTo(out, 0, text, m)
        <5>1. since \in Nat /\ 0 \in 0..since
          BY <2>3
        <5> QED BY <3>3, <4>2, <5>1, PagesLess
      <4>4. m \in 0..Len(text)
        OBVIOUS
      <4> QED BY <2>1, <3>1, <4>1, <4>2, <4>3, <4>4 DEF WorkTo, OnScreen
    <3> QED BY <3>4, <3>5
  <2>10. CASE Filters!KeyScreen
    <3>1. pc \in {"key", "last"} /\ pc' = "reading" /\ since' = 0 /\ rest' = rest /\ out' = out
      BY <2>10 DEF Filters!KeyScreen
    <3> QED BY <2>1, <2>2, <3>1 DEF WorkTo, OnScreen
  <2>11. CASE Filters!KeyOther
    <3>1. pc = "last" /\ pc' = "done" /\ rest' = rest /\ out' = out
      BY <2>11 DEF Filters!KeyOther
    <3> QED BY <2>1, <2>2, <3>1 DEF WorkTo, OnScreen
  <2>12. CASE Filters!KeyLine
    <3>1. pc \in {"key", "last"}
      BY <2>12 DEF Filters!KeyLine
    <3>2. PICK d \in BOOLEAN :
            /\ rest' = Filters!After(rest, d)
            /\ IF Filters!Found(rest, d)
               THEN out' = Append(out, Filters!Line(d)) /\ since' = 1 /\ pc' = "key"
               ELSE pc' = "done" /\ out' = out
      BY <2>5, <2>12 DEF Filters!KeyLine
    <3>3. tool = "more" /\ PagedTo(out, 0, text, p)
      BY <2>2, <3>1 DEF WorkTo, OnScreen
    <3>4. CASE Filters!Found(rest, d)
      <4>1. PICK m \in (p + 1)..Len(text) :
              /\ text[m] = "nl" /\ NoLine(text, p, m - 1) /\ RestFrom(rest', text', m)
              /\ Filters!Line(d) = SubSeq(text, p + 1, m) /\ SubSeq(text, p + 1, m) \in Seq(STRING)
        BY <2>6, <3>2, <3>4
      <4>2. out' = Append(out, Filters!Line(d)) /\ pc' = "key"
        BY <3>2, <3>4
      <4>3. PagedTo(out', 0 + 1, text, m)
        BY <2>3, <3>3, <4>1, <4>2, PagesOn
      <4>4. PagedTo(out', 0, text, m)
        <5>1. 1 \in Nat /\ 0 \in 0..1 /\ 0 + 1 = 1
          OBVIOUS
        <5> QED BY <4>3, <5>1, PagesLess
      <4>5. m \in 0..Len(text)
        OBVIOUS
      <4> QED BY <2>1, <3>3, <4>1, <4>2, <4>4, <4>5 DEF WorkTo, OnScreen
    <3>5. CASE ~Filters!Found(rest, d)
      <4>1. out' = out /\ pc' = "done"
        BY <3>2, <3>5
      <4>2. PICK m \in p..Len(text) : /\ RestFrom(rest', text', m) /\ EndsAt(text, m)
                                      /\ UpTo(text, m) = UpTo(text, p)
        BY <2>7, <3>2, <3>5
      <4>3. PagedTo(out, 0, text, m)
        <5>1. 0 \in Nat /\ 0 \in 0..0
          OBVIOUS
        <5> QED BY <3>3, <4>2, <5>1, PagesLess
      <4>4. m \in 0..Len(text)
        OBVIOUS
      <4> QED BY <2>1, <3>3, <4>1, <4>2, <4>3, <4>4 DEF WorkTo, OnScreen
    <3> QED BY <3>4, <3>5
  <2> QED BY <1>2, <2>8, <2>9, <2>10, <2>11, <2>12 DEF Filters!Next
<1> QED BY <1>1, <1>2

(* What is written is what the property asks for. *)
LEMMA WorkDone == ASSUME FilterInv, WorkInv PROVE Filtered
<1> SUFFICES ASSUME pc = "done", ~terminal PROVE \E s \in Filters!Inputs : Filters!FilteredAs(s)
  BY DEF Filtered, Filters!Filtered
<1>1. PICK p \in 0..Len(text) : WorkTo(p)
  BY DEF WorkInv
<1>2. text \in Seq(STRING) /\ Page \in Nat /\ Page >= 1
  BY FilterSizes DEF FilterInv
<1>3. PICK n \in 0..Len(text) :
        (n = Len(text) \/ text[n + 1] = "eot") /\ UpTo(text, n) = UpTo(text, p)
  BY <1>1 DEF WorkTo, EndsAt
<1>4. PICK s : s = SubSeq(text, 1, n)
  OBVIOUS
<1>5. s \in Filters!Inputs
  <2>1. CASE n = Len(text)
    <3>1. SubSeq(text, 1, Len(text)) = text
      BY <1>2
    <3> QED BY <1>4, <2>1, <3>1 DEF Filters!Inputs
  <2>2. CASE n # Len(text)
    <3>1. PICK k \in 1..Len(text) : k = n + 1
      BY <1>2, <2>2
    <3>2. text[k] = "eot" /\ k - 1 = n
      BY <1>3, <2>2, <3>1
    <3> QED BY <1>4, <3>2 DEF Filters!Inputs
  <2> QED BY <2>1, <2>2
<1>6. /\ Filters!LineEnds(s) = UpTo(text, p)
      /\ \A k \in UpTo(text, p) : /\ Filters!LineTo(s, k) = Filters!LineTo(text, k)
                                  /\ Filters!Ordinal(s, k) = Filters!Ordinal(text, k)
  <2>1. text \in Seq(STRING)
    BY <1>2
  <2>2. /\ Filters!LineEnds(s) = UpTo(text, n)
        /\ \A k \in UpTo(text, n) : /\ Filters!LineTo(s, k) = Filters!LineTo(text, k)
                                    /\ Filters!Ordinal(s, k) = Filters!Ordinal(text, k)
    <3>1. s \in Seq(STRING) /\ Len(s) = n /\ \A i \in 1..n : s[i] = text[i]
      BY <1>4, <2>1
    <3> QED BY <1>4, <2>1, <3>1, LinesOfPart
  <2> QED BY <1>3, <2>2
<1>7. \A T : Filters!Cardinality(T) = Cardinality(T)
  BY DEF Filters!Cardinality, Cardinality
<1>8. Filters!Cardinality(Filters!LineEnds(s)) = Filters!Ordinal(text, p)
  BY <1>2, <1>6, <1>7, Ordinals
<1>9. ASSUME tool \in {"cat", "cp", "l2u"}
      PROVE  /\ Len(out) = Filters!Cardinality(Filters!LineEnds(s))
             /\ \A k \in Filters!LineEnds(s) : out[Filters!Ordinal(s, k)] =
                  IF tool = "l2u" THEN Filters!Convert(Filters!LineTo(s, k))
                  ELSE Filters!LineTo(s, k)
  <2>1. CopiedTo(out, tool, text, p)
    BY <1>1, <1>9 DEF WorkTo
  <2> QED BY <1>6, <1>8, <2>1 DEF CopiedTo
<1>10. ASSUME tool = "grep", NEW lines, lines = {Filters!LineTo(s, k) : k \in Filters!LineEnds(s)}
       PROVE  /\ \A i \in DOMAIN out : out[i] # <<>> =>
                   out[i] \in lines /\ Filters!HasPattern(out[i])
              /\ \A line \in lines : Filters!IsPrefix(Pattern, line) => line \in Filters!Range(out)
  <2>1. GreppedTo(out, text, p)
    BY <1>1, <1>10 DEF WorkTo
  <2>2. DOMAIN out = 1..Len(out)
    BY <2>1 DEF GreppedTo
  <2>3. lines = {Filters!LineTo(text, k) : k \in UpTo(text, p)}
    BY <1>6, <1>10
  <2>4. ASSUME NEW i \in DOMAIN out, out[i] # <<>>
        PROVE  out[i] \in lines /\ Filters!HasPattern(out[i])
    BY <2>1, <2>2, <2>3, <2>4 DEF GreppedTo
  <2>5. ASSUME NEW line \in lines, Filters!IsPrefix(Pattern, line)
        PROVE  line \in Filters!Range(out)
    <3>1. PICK i \in 1..Len(out) : out[i] = line
      BY <2>1, <2>3, <2>5 DEF GreppedTo
    <3> QED BY <2>2, <3>1 DEF Filters!Range
  <2> QED BY <2>4, <2>5
<1>11. ASSUME tool = "more"
       PROVE  Filters!Cardinality(Filters!LineEnds(s)) - Len(out) <= Len(out) \div Page
  <2>1. PagedTo(out, 0, text, p)
    BY <1>1, <1>11 DEF WorkTo, OnScreen
  <2>2. PICK lost \in Nat :
          Filters!Ordinal(text, p) = Len(out) + lost /\ lost * Page + 0 <= Len(out)
    BY <2>1 DEF PagedTo
  <2>3. PICK w \in Nat : w = Len(out)
    BY <2>1 DEF PagedTo
  <2>4. lost <= w \div Page
    <3>1. PICK q \in Nat : q = w \div Page /\ w < (q + 1) * Page
      BY <1>2
    <3>2. lost * Page < (q + 1) * Page
      BY <1>2, <2>2, <2>3, <3>1
    <3>3. lost < q + 1
      BY <1>2, <3>2
    <3> QED BY <3>1, <3>3
  <2> QED BY <1>8, <2>2, <2>3, <2>4
<1>12. Filters!FilteredAs(s)
  BY <1>9, <1>10, <1>11 DEF Filters!FilteredAs
<1> QED BY <1>5, <1>12

-----------------------------------------------------------------------------
(* All of them *)

(* Every variable of every part holds a value of its type, for any number of threads,
   slots, senders, images and signals, any texts and any programs. *)
THEOREM ServicesTypes == ASSUME Sizes PROVE MCSpec => []ServicesTyped
<1> DEFINE Inv == ThreadsInv /\ SessionInv /\ FilterInv /\ ImageInv /\ LayerInv /\ MailInv
<1>1. MCInit => Inv
  BY ThreadSizes, MutexStarts, SessionStarts, FilterStarts, ImageStarts, LayerStarts, MailStarts
     DEF MCInit, ThreadsInv, MutexInv
<1>2. Inv /\ [MCNext]_allVars => Inv'
  <2> SUFFICES ASSUME Inv, [MCNext]_allVars PROVE Inv'
    OBVIOUS
  <2>1. /\ [Next]_vars /\ [Filters!Next]_filters /\ [Layer!Next]_layer
        /\ Memory!Next \/ UNCHANGED memory
        /\ Mail!Next \/ UNCHANGED mail
    BY DEF MCNext, SessionSteps, LayerSteps, allVars
  <2>2. ThreadsInv'
    BY MutexKept
  <2>3. SessionInv'
    BY <2>1, SessionStep
  <2>4. FilterInv'
    BY <2>1, FilterStep
  <2>5. ImageInv'
    BY <2>1, ImageStep
  <2>6. LayerInv'
    BY <2>1, LayerStep
  <2>7. MailInv'
    BY <2>1, MailStep
  <2> QED BY <2>2, <2>3, <2>4, <2>5, <2>6, <2>7
<1>3. Inv => ServicesTyped
  <2> SUFFICES ASSUME Inv PROVE ServicesTyped
    OBVIOUS
  <2>1. text \in Seq(STRING) /\ Unread(rest, text)
    BY FilterSizes DEF FilterInv
  <2>2. Filters!TypeOK
    BY <2>1, UnreadIsSuffix DEF FilterInv, Filters!TypeOK
  <2> QED BY <2>2 DEF ThreadsInv, SessionInv, ImageInv, LayerInv, MailInv, ServicesTyped
<1> QED BY <1>1, <1>2, <1>3, PTL DEF MCSpec

(* cat, cp, l2u and grep write what they should of each complete line of their input, and more
   loses no more than a line for each full screen, whatever the input, the pattern and the
   size of the screen (sicat.c, sil2u.c, sigrep.c, simore.c, ucode.c). *)
THEOREM FiltersWork == MCSpec => []Filtered
<1>1. MCInit => FilterInv /\ WorkInv
  BY FilterStarts, WorkStarts DEF MCInit
<1>2. FilterInv /\ WorkInv /\ [MCNext]_allVars => FilterInv' /\ WorkInv'
  <2>1. [MCNext]_allVars => [Filters!Next]_filters
    BY DEF MCNext, SessionSteps, LayerSteps, allVars
  <2> QED BY <2>1, FilterStep, WorkStep
<1>3. FilterInv /\ WorkInv => Filtered
  BY WorkDone
<1> QED BY <1>1, <1>2, <1>3, PTL DEF MCSpec

(* A library function does to its process, and returns, what the kernel's function of
   its name does, but for the five whose numbers are others' (ucode.c, svc.c). *)
THEOREM CallsAsNamed == MCSpec => EffectAsNamed
<1>1. MCInit => LayerInv
  BY LayerStarts DEF MCInit
<1>2. LayerInv /\ [MCNext]_allVars => LayerInv' /\ [Layer!Next]_layer
  BY LayerStep DEF MCNext, SessionSteps, LayerSteps, allVars
<1>3. LayerInv /\ [MCNext]_allVars =>
        [stage = "body" /\ stage' = "leave" /\ call[1] \notin Layer!Misnumbered =>
           <<me', ret'>> = Layer!Effect(call[1], call[2], me)]_(Layer!vars)
  BY <1>2, ServedAsNamed DEF Layer!vars
<1> QED BY <1>1, <1>2, <1>3, PTL DEF MCSpec, EffectAsNamed, Layer!EffectAsNamed
=============================================================================
