------------------------------ MODULE Session ------------------------------
(***************************************************************************)
(* The console's session: init and its loop over wait() (siinit.c), login  *)
(* (si_login.c), the shell's loop (si_sh.c) and the commands it starts, as *)
(* they follow each other in the process table, with Control-C for all who *)
(* have /dev/tty0 as their tty.                                            *)
(***************************************************************************)
EXTENDS Integers, FiniteSets, SequencesExt

CONSTANTS
  N,            \* process slots, at least two: 1 is init
  Passwd,       \* the lines of /etc/passwd: user, password, ended by a newline or not
  Typed,        \* the names and passwords that may be typed at the login prompt
  MaxPipes      \* bound on the commands of a pipeline, less one

Slot == 1..N
NoPid == -1

VARIABLES
  prog,         \* slot -> the program in it, "free" or "zombie"
  at,           \* slot -> where the program is
  parent,       \* slot -> its parent's slot
  sig,          \* slot -> SIGINT is pending
  ignores,      \* slot -> SIGINT is ignored
  tty,          \* slot -> PROC.res.tty is /dev/tty0
  pipes,        \* slot -> the pipes left in its command line
  console,      \* init's variable
  typo          \* history: a command that does not exist was typed

vars == <<prog, at, parent, sig, ignores, tty, pipes, console, typo>>

Init ==
  /\ prog = [p \in Slot |-> IF p = 1 THEN "init" ELSE "free"]
  /\ at = [p \in Slot |-> "fork"]
  /\ parent = [p \in Slot |-> 1] /\ pipes = [p \in Slot |-> 0]
  /\ sig = [p \in Slot |-> FALSE]
  /\ ignores = [p \in Slot |-> FALSE]
  /\ tty = [p \in Slot |-> FALSE]
  /\ console = 0 /\ typo = FALSE
-----------------------------------------------------------------------------
Free == {p \in Slot : prog[p] = "free"}
Children(p) == {c \in Slot \ {1} : prog[c] # "free" /\ parent[c] = p}
Zombies(p) == {c \in Children(p) : prog[c] = "zombie"}

\* Whoever has a signal that it does not ignore makes no further call.
Runs(p, what, stage) == prog[p] = what /\ at[p] = stage /\ ~sig[p]

\* fork(): the child c has no signals and no handlers, and its parent's tty.
Born(c, p, what, left) ==
  /\ prog' = [prog EXCEPT ![c] = what]
  /\ parent' = [parent EXCEPT ![c] = p]
  /\ sig' = [sig EXCEPT ![c] = FALSE]
  /\ ignores' = [ignores EXCEPT ![c] = FALSE]
  /\ tty' = [tty EXCEPT ![c] = tty[p]]
  /\ pipes' = [pipes EXCEPT ![c] = left]

Goes(p, stage) == at' = [at EXCEPT ![p] = stage]

\* fork() without a free slot.
Unborn == UNCHANGED <<prog, parent, sig, ignores, tty, pipes>>

\* kexit(): the children are init's, and what is left is a ZOMBIE.  The rest of
\* the slot is not looked at before the next fork() sets it.
Exits(p) ==
  /\ prog' = [prog EXCEPT ![p] = "zombie"] /\ Goes(p, "fork")
  /\ parent' = [c \in Slot |-> IF c \in Children(p) THEN 1 ELSE parent[c]]
  /\ sig' = [sig EXCEPT ![p] = FALSE]
  /\ ignores' = [ignores EXCEPT ![p] = FALSE]
  /\ tty' = [tty EXCEPT ![p] = FALSE]
  /\ pipes' = [pipes EXCEPT ![p] = 0]
  /\ UNCHANGED <<console, typo>>

\* kwait() by p frees the first ZOMBIE child.
Reaps(p) ==
  /\ prog' = [prog EXCEPT ![Min(Zombies(p))] = "free"]
  /\ parent' = [parent EXCEPT ![Min(Zombies(p))] = 1]
-----------------------------------------------------------------------------
(* init *)

InitFork ==
  /\ Runs(1, "init", "fork")
  /\ \/ \E c \in Free :
          /\ Born(c, 1, "login", 0)
          /\ at' = [at EXCEPT ![1] = "wait", ![c] = "start"]
          /\ console' = c
     \/ /\ Free = {} /\ Unborn /\ Goes(1, "wait") /\ console' = NoPid
  /\ UNCHANGED typo

\* What init does next when wait() returns pid.  (Mutants: it forks a login
\* for whoever has died, or for nobody.)
AlwaysFork(pid) == "fork"
NeverFork(pid) == "wait"
NextOf(pid) == IF pid = console THEN "fork" ELSE "wait"

\* parent()
InitWait ==
  /\ Runs(1, "init", "wait")
  /\ \/ Zombies(1) # {} /\ Reaps(1) /\ Goes(1, NextOf(Min(Zombies(1))))
     \/ Children(1) = {} /\ Goes(1, NextOf(NoPid)) /\ UNCHANGED <<prog, parent>>
  /\ UNCHANGED <<sig, ignores, tty, pipes, console, typo>>
-----------------------------------------------------------------------------
(* login *)

\* It opens the tty and makes it its own.
LoginTty(p) ==
  /\ Runs(p, "login", "start")
  /\ tty' = [tty EXCEPT ![p] = TRUE]
  /\ Goes(p, "ask")
  /\ UNCHANGED <<prog, parent, sig, ignores, pipes, console, typo>>

\* The users of which login knows: its count goes up with the newline.
Known == {<<l.user, l.password>> : l \in {l \in Range(Passwd) : l.newline}}

\* A name and a password that match are followed by exec(), the others by the
\* same question.
Login(p) ==
  /\ Runs(p, "login", "ask")
  /\ \E t \in Typed :
       /\ t \in Known
       /\ prog' = [prog EXCEPT ![p] = "sh"] /\ Goes(p, "start")
  /\ UNCHANGED <<parent, sig, ignores, tty, pipes, console, typo>>
-----------------------------------------------------------------------------
(* The shell *)

\* signal(SIGINT, IGNORE)
ShellStart(p) ==
  /\ Runs(p, "sh", "start")
  /\ ignores' = [ignores EXCEPT ![p] = TRUE]
  /\ Goes(p, "prompt")
  /\ UNCHANGED <<prog, parent, sig, tty, pipes, console, typo>>

ShellExit(p) == Runs(p, "sh", "prompt") /\ Exits(p)

\* A command line with k pipes.
ShellFork(p, k) ==
  /\ Runs(p, "sh", "prompt")
  /\ \/ \E c \in Free :
          /\ Born(c, p, "cmd", k) /\ at' = [at EXCEPT ![p] = "wait", ![c] = "start"]
     \/ Free = {} /\ Unborn /\ Goes(p, "wait")
  /\ UNCHANGED <<console, typo>>

\* wait(&status), once.
ShellWait(p) ==
  /\ Runs(p, "sh", "wait")
  /\ \/ Zombies(p) # {} /\ Reaps(p)
     \/ Children(p) = {} /\ UNCHANGED <<prog, parent>>
  /\ Goes(p, "prompt")
  /\ UNCHANGED <<sig, ignores, tty, pipes, console, typo>>
-----------------------------------------------------------------------------
(* The child: do_pipe() and local_exec() *)

Exec(p) ==
  /\ Runs(p, "cmd", "start") /\ pipes[p] = 0
  /\ Goes(p, "run")
  /\ UNCHANGED <<prog, parent, sig, ignores, tty, pipes, console, typo>>

\* The last command of the line here, the rest of the line in a child.  A fork()
\* that fails is taken for the parent's.
DoPipe(p) ==
  /\ Runs(p, "cmd", "start") /\ pipes[p] > 0
  /\ \/ \E c \in Free :
          /\ Born(c, p, "cmd", pipes[p] - 1)
          /\ at' = [at EXCEPT ![p] = "run", ![c] = "start"]
     \/ Free = {} /\ Unborn /\ Goes(p, "run")
  /\ UNCHANGED <<console, typo>>

\* exec() fails and returns to do_pipe(), which goes on as if there had been a
\* pipe: it forks a child for the empty command, and returns to the shell's loop.
\* The empty command does not exist either.
Mistyped(p) ==
  /\ Runs(p, "cmd", "start") /\ pipes[p] = 0
  /\ \/ \E c \in Free :
          /\ Born(c, p, "cmd", 0)
          /\ at' = [at EXCEPT ![p] = "stray", ![c] = "start"]
     \/ Free = {} /\ Unborn /\ Goes(p, "stray")
  /\ typo' = TRUE /\ UNCHANGED console

CmdExit(p) == Runs(p, "cmd", "run") /\ Exits(p)
-----------------------------------------------------------------------------
(* Signals *)

\* The keyboard's handler, on Control-C.
ControlC ==
  /\ sig' = [p \in Slot |-> sig[p] \/ tty[p]]
  /\ sig' # sig
  /\ UNCHANGED <<prog, at, parent, ignores, tty, pipes, console, typo>>

\* kpsig()
Ignore(p) ==
  /\ sig[p] /\ ignores[p]
  /\ sig' = [sig EXCEPT ![p] = FALSE]
  /\ UNCHANGED <<prog, at, parent, ignores, tty, pipes, console, typo>>
Die(p) ==
  /\ sig[p] /\ ~ignores[p]
  /\ Exits(p)
-----------------------------------------------------------------------------
Calls(p) ==
  \/ LoginTty(p) \/ Login(p) \/ ShellStart(p) \/ ShellWait(p)
  \/ Exec(p) \/ DoPipe(p) \/ Mistyped(p) \/ CmdExit(p)
InitStep == InitFork \/ InitWait
Next ==
  \/ InitStep \/ ControlC
  \/ \E p \in Slot \ {1} :
       Calls(p) \/ Ignore(p) \/ Die(p) \/ ShellExit(p) \/ \E k \in 0..MaxPipes : ShellFork(p, k)
Spec == Init /\ [][Next]_vars

\* Everybody gets the CPU, and gets on between one Control-C that it ignores
\* and the next; commands end; someone logs in.  Nobody has to type a command.
Fairness ==
  /\ WF_vars(InitStep)
  /\ \A p \in Slot \ {1} : WF_vars(Ignore(p) \/ Die(p)) /\ SF_vars(Calls(p))
FairSpec == Spec /\ Fairness
-----------------------------------------------------------------------------
\* Every variable holds a value of its type.
TypeOK ==
  /\ prog \in [Slot -> {"free", "zombie", "init", "login", "sh", "cmd"}]
  /\ at \in [Slot -> {"fork", "wait", "start", "ask", "prompt", "run", "stray"}]
  /\ parent \in [Slot -> Slot] /\ pipes \in [Slot -> 0..MaxPipes]
  /\ sig \in [Slot -> BOOLEAN] /\ ignores \in [Slot -> BOOLEAN] /\ tty \in [Slot -> BOOLEAN]
  /\ console \in Slot \cup {0, NoPid} /\ typo \in BOOLEAN

Leaders == {p \in Slot : prog[p] \in {"login", "sh"}}

\* There is never more than one login or shell on the console: init starts the
\* next login when the one that it knows of has died, and not when somebody
\* else's orphan has.
OneSession == Cardinality(Leaders) <= 1

\* After the shell's end and after every Control-C there is a login again, and a
\* shell that waits for its command comes back with its prompt, unless a command
\* was mistyped: the processes that it leaves behind may fill the table.
Waiting == {p \in Slot : prog[p] = "sh" /\ at[p] = "wait"}
SessionReturns ==
  /\ Leaders = {} ~> Leaders # {} \/ typo
  /\ Waiting # {} ~> Waiting = {} \/ typo
=============================================================================
