----------------------------- MODULE MCServices -----------------------------
(***************************************************************************)
(* What the kernel and its first programs do for the others, on small      *)
(* instances: mutexes, messages, the session, the filters, the loading     *)
(* of programs, and the layer of system calls and signals.  They share no  *)
(* state; which says whose behaviour it is, the others rest.               *)
(***************************************************************************)
EXTENDS Session

CONSTANTS
  root, guest, secret, None, Null, Other,
  Thread,                         \* the threads, who share a mutex
  Tool, Text, Pattern, Page,      \* the filters, their inputs, as in Tools
  Signals, Value,                 \* as in Calls
  MaxSent, MaxDepth,              \* bounds: signals of others, catchers in catchers
  Mailer, MaxKills,               \* who sends and receives; a bound on kills
  Image, Program,                 \* the images, 1..Image; the files in /bin, their
  Blocks, Place, Direct, Room     \* blocks, places on the disk; places of an image

\* What the theorems presume: there are threads, none of which is PROC 0; a screen has
\* a line; a new process has the first values; a program fits into an image, and no two
\* files have their inodes at one place.
ASSUME ThreadSizes ==
  /\ IsFiniteSet(Thread) /\ Thread # {}
  /\ 0 \notin Thread /\ Null \notin Thread /\ Null # 0
ASSUME FilterSizes ==
  /\ Page \in Nat \ {0} /\ Text \subseteq Seq(STRING)
  /\ Pattern \in Seq(STRING) /\ Pattern # <<>>
ASSUME LayerSizes == Signals \subseteq 1..31 /\ {0, 1} \subseteq Value /\ MaxSent \in Nat
ASSUME MailSizes == IsFiniteSet(Mailer) /\ MaxKills \in Nat
ASSUME ImageSizes ==
  /\ Image \in Nat \ {0} /\ Direct \in Nat /\ Room \in Nat /\ None \notin Program
  /\ Blocks \in [Program -> 0..Room] /\ Place \in [Program -> Nat \X Nat]
  /\ \A f, g \in Program : Place[f] = Place[g] => f = g

VARIABLES
  which,
  next, readyQueue, running, status, mstatus, owner, value, queue, place, sem, pushed,
  tool, terminal, text, rest, out, since, pc,
  image, program, step, wanted, done, buf1, buf2, crossed, overrun,
  stage, upc, kpc, stack, call, ret, me, sent,
  where, dies, mlock, message, mqueue, kills

\* Threads and one mutex.
Threads == INSTANCE Mutex WITH User <- Thread, at <- place

\* Processes that send and receive.
Mail == INSTANCE Messages WITH User <- Mailer, at <- where

\* The last line of /etc/passwd is not ended.
Lines ==
  <<[user |-> root, password |-> secret, newline |-> TRUE],
    [user |-> guest, password |-> secret, newline |-> FALSE]>>
Answers == {<<root, secret>>, <<guest, secret>>}

\* Texts of up to five letters and newlines, or of up to three with what a terminal
\* or l2u takes specially.
Texts ==
  UNION {[1..n -> {"a", "b", "nl"}] : n \in 0..5}
    \cup UNION {[1..n -> {"a", "z", "bs", "eot", "nl"}] : n \in 0..3}
AThenB == <<"a", "b">>
Filters == INSTANCE Tools

\* Two programs, the second of which has an indirect block.
Memory == INSTANCE Images WITH N <- Image, D <- Direct, text <- program, at <- step
OneAndTwo == [a |-> 1, b |-> 2]
Apart == [a |-> <<1, 1>>, b |-> <<2, 1>>]

\* One process and the layer of system calls.
Layer == INSTANCE Calls WITH at <- stage

threads == <<next, readyQueue, running, status, mstatus, owner, value, queue, place, sem, pushed>>
filters == <<tool, terminal, text, rest, out, since, pc>>
memory == <<image, program, step, wanted, done, buf1, buf2, crossed, overrun>>
layer == <<stage, upc, kpc, stack, call, ret, me, sent>>
mail == <<where, dies, mlock, message, mqueue, kills>>
allVars == <<which, threads, vars, filters, memory, layer, mail>>

MCInit ==
  /\ which \in {"threads", "session", "filters", "memory", "layer", "mail"}
  /\ Init /\ Threads!Init /\ Filters!Init /\ Memory!Init /\ Layer!Init /\ Mail!Init
  /\ which # "filters" => tool = "cat" /\ ~terminal /\ text = <<>>
  /\ which # "memory" => program[1] = CHOOSE f \in Program : TRUE

SessionSteps(A) ==
  which = "session" /\ A /\ UNCHANGED <<which, threads, filters, memory, layer, mail>>
LayerSteps(A) ==
  which = "layer" /\ A /\ UNCHANGED <<which, threads, vars, filters, memory, mail>>

MCNext ==
  \/ which = "threads" /\ Threads!Next /\ UNCHANGED <<which, vars, filters, memory, layer, mail>>
  \/ SessionSteps(Next)
  \/ which = "filters" /\ Filters!Next /\ UNCHANGED <<which, threads, vars, memory, layer, mail>>
  \/ which = "memory" /\ Memory!Next /\ UNCHANGED <<which, threads, vars, filters, layer, mail>>
  \/ LayerSteps(Layer!Next)
  \/ which = "mail" /\ Mail!Next /\ UNCHANGED <<which, threads, vars, filters, memory, layer>>

\* With the fairness of Session's and of Calls' FairSpec.
MCSpec ==
  /\ MCInit /\ [][MCNext]_allVars
  /\ WF_allVars(SessionSteps(InitStep))
  /\ \A p \in Slot \ {1} :
       /\ WF_allVars(SessionSteps(Ignore(p) \/ Die(p)))
       /\ SF_allVars(SessionSteps(Calls(p)))
  /\ WF_allVars(LayerSteps(Layer!Irq))
  /\ WF_allVars(LayerSteps(Layer!Serve \/ Layer!Leave \/ Layer!Return))
-----------------------------------------------------------------------------
\* Every variable holds a value of its type, as the part's module says.
ServicesTyped ==
  /\ which = "threads" => Threads!TypeOK
  /\ which = "session" => TypeOK
  /\ which = "filters" => Filters!TypeOK
  /\ which = "memory" => Memory!TypeOK
  /\ which = "layer" => Layer!TypeOK
  /\ which = "mail" => Mail!TypeOK

\* No two threads are between mutex_lock() and mutex_unlock(), unless kkill() has
\* made one of them ready in mutex_lock(), and in get_mbuf()
\* no more senders than kills have let in.
CriticalAlone == Threads!CriticalAlone /\ Mail!SendersCounted

\* Whoever is blocked in mutex_lock() is in the mutex's queue.
WaitersQueued == Threads!WaitersQueued

\* There is a login again after the shell's end, and the prompt after a command,
\* unless one was mistyped.
SessionGoesOn == which = "session" => SessionReturns

\* The filters write what they should of their input's complete lines.
Filtered == Filters!Filtered

\* A process runs the whole program that it has asked for, if one loads at a time.
OwnProgram == Memory!OwnProgram

\* A library function does what the kernel's function of its name does.
EffectAsNamed == Layer!EffectAsNamed

\* Signal 9 ends a process that does not sleep.
NineKills == which = "layer" => Layer!NineKills
=============================================================================
