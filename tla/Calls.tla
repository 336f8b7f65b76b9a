------------------------------- MODULE Calls --------------------------------
(***************************************************************************)
(* One process and the system-call layer: the library functions of         *)
(* ucode.c, each a number in a swi; svc_entry, svc_handler with the table  *)
(* f[], and goUmode; kpsig(), which takes one pending signal on the way    *)
(* through svc_handler and goUmode and after every interrupt; the abort    *)
(* handlers of except.c, which turn a fault into a signal.                 *)
(*                                                                         *)
(* Of what the calls do, only what they do to the process itself is here;  *)
(* a call of another subsystem changes nothing, may sleep, and returns     *)
(* Other.                                                                  *)
(***************************************************************************)
EXTENDS Integers, FiniteSetsExt, Sequences

CONSTANTS
  Signals,      \* the signal numbers in use, a subset of 1..31
  Value,        \* priorities, uids and terminals
  MaxSent,      \* bound: signals that others send
  MaxDepth,     \* bound: catchers within catchers, before the next fault
  Other         \* what a call of another subsystem returns

\* What sig[n] of the PRES says; an address stands for every catcher.
Default == 0
Ignore == 1
Catcher == 2
Actions == {Default, Ignore, Catcher}
Pid == 3
PPid == 2

VARIABLES
  at,           \* what it executes: program, catcher, body (a call in its
                \* function), leave and return (after it), astray, dead, panic; or
                \* it is asleep in the function
  upc,          \* where goUmode will return to
  kpc,          \* the return address that svc_entry saved
  stack,        \* where the catchers that have begun will return to
  call,         \* <<library function, argument>> in progress
  ret,          \* the value in the saved r0
  me,           \* its PROC: priority, uid, tty, catchers and pending signals
  sent

vars == <<at, upc, kpc, stack, call, ret, me, sent>>
-----------------------------------------------------------------------------
\* The number that each library function puts in r0.
ProcessCalls ==
  [fe |-> 68, getpid |-> 0, getppid |-> 1, chname |-> 2, getpri |-> 3, chpri |-> 4,
   getuid |-> 4, chuid |-> 5, tswitch |-> 6, fork |-> 10, exec |-> 11, wait |-> 12,
   vfork |-> 13, thread |-> 14, mutex_creat |-> 15, mutex_lock |-> 16,
   mutex_unlock |-> 17, mutex_destroy |-> 18]
FileCalls ==
  [mkdir |-> 20, rmdir |-> 21, creat |-> 22, link |-> 23, unlink |-> 24,
   symlink |-> 25, readlink |-> 26, chdir |-> 27, getcwd |-> 28, stat |-> 29,
   fstat |-> 30, open |-> 31, close |-> 32, lseek |-> 33, read |-> 34, write |-> 35,
   pipe |-> 36, chmod |-> 37, chown |-> 38, touch |-> 39]
OtherCalls ==
  [settty |-> 40, gettty |-> 41, dup |-> 42, dup2 |-> 43, mount |-> 45,
   umount |-> 46, getSector |-> 47, do_cmd |-> 48, kill |-> 50, signal |-> 51,
   pause |-> 52, itimer |-> 53, send |-> 54, recv |-> 55, tjoin |-> 56, texit |-> 57,
   sync |-> 60, ups |-> 61, thinit |-> 62, sbrk |-> 63, page_out |-> 64,
   getphypage |-> 65, pagetable |-> 66, getcs |-> 67, exit |-> 9]
Library == DOMAIN ProcessCalls \cup DOMAIN FileCalls \cup DOMAIN OtherCalls
Number ==
  [f \in Library |-> CASE f \in DOMAIN ProcessCalls -> ProcessCalls[f]
                       [] f \in DOMAIN FileCalls -> FileCalls[f]
                       [] OTHER -> OtherCalls[f]]

\* f[], each function by the name it has in the library, if it has one.
Table ==
  <<"getpid", "getppid", "kgetpri", "ksetpri", "getuid",
    "chuid", "tswitch", "nocall", "nocall", "exit",
    "fork", "exec", "wait", "vfork", "thread",
    "mutex_creat", "mutex_lock", "mutex_unlock", "mutex_destroy", "nocall",
    "mkdir", "rmdir", "creat", "link", "unlink",
    "symlink", "readlink", "chdir", "getcwd", "stat",
    "fstat", "open", "close", "lseek", "read",
    "write", "pipe", "chmod", "chown", "touch",
    "settty", "gettty", "dup", "dup2", "ps",
    "mount", "umount", "getSector", "do_cmd", "nocall",
    "kill", "signal", "pause", "itimer", "send",
    "recv", "tjoin", "texit", "hits", "color",
    "sync", "ups", "thinit", "sbrk", "page_out",
    "getphypage", "pagetable", "getPaddress">>
Invalid == "invalid"
\* The function that number n calls.  (Mutant: the table begins with 1.)
CountedFromOne(n) == IF n > 67 \/ n = 0 THEN Invalid ELSE Table[n]
Called(n) == IF n > 67 THEN Invalid ELSE Table[n + 1]

\* The library functions whose numbers are of other functions: getpri() calls
\* ksetpri(0), chpri() getuid(), chname() getpri(), getcs() kgetPaddress(), and
\* fe()'s number is not in the table.
Misnumbered == {"getpri", "chpri", "chname", "getcs", "fe"}

\* ksignal().  (Mutant: signal 9 too.)
EverySignal(n) == TRUE
Catchable(n) == n # 9

\* The functions that only look at the process, or set what it is.
OwnCalls ==
  {"getpid", "getppid", "kgetpri", "getuid", "gettty", "ksetpri", "chuid", "settty", "signal"}

\* The process s after function f with argument x, and what f returns.
Effect(f, x, s) ==
  CASE f = Invalid            -> <<s, -1>>
    [] f = "getpid"           -> <<s, Pid>>
    [] f = "getppid"          -> <<s, PPid>>
    [] f = "kgetpri"          -> <<s, s.pri>>
    [] f = "getuid"           -> <<s, s.uid>>
    [] f = "gettty"           -> <<s, s.tty>>
    [] f = "ksetpri"          -> <<[s EXCEPT !.pri = x], 0>>
    [] f = "chuid"            -> <<[s EXCEPT !.uid = x], 0>>
    [] f = "settty"           -> <<[s EXCEPT !.tty = x], Other>>
    [] f = "signal"           -> IF Catchable(x[1])
                                 THEN <<[s EXCEPT !.catch[x[1]] = x[2]], s.catch[x[1]]>>
                                 ELSE <<s, -1>>
    [] OTHER                  -> <<s, Other>>
Argument(f) ==
  CASE f \in {"chuid", "settty", "chpri"} -> Value
    [] f = "signal" -> Signals \X Actions
    [] OTHER -> {0}
-----------------------------------------------------------------------------
NoCall == <<>>
Init ==
  /\ at = "program" /\ upc = "program" /\ kpc = "stub" /\ stack = <<>>
  /\ call = NoCall /\ ret = 0 /\ sent = 0
  /\ me = [pri |-> 1, uid |-> 1, tty |-> 1, pending |-> {},
           catch |-> [n \in Signals |-> Default]]

\* kpsig(): the lowest pending signal is taken off, and its catcher too; Caught
\* is done if it had one, Onwards if the process lives.
Kpsig(Caught, Onwards) ==
  IF me.pending = {} THEN Onwards /\ UNCHANGED <<me, stack>>
  ELSE LET n == Min(me.pending)
       IN  CASE me.catch[n] = Ignore ->
                  /\ me' = [me EXCEPT !.pending = @ \ {n}]
                  /\ Onwards /\ UNCHANGED stack
             [] me.catch[n] = Default ->
                  /\ me' = [me EXCEPT !.pending = @ \ {n}] /\ at' = "dead"
                  /\ UNCHANGED <<upc, kpc, stack>>
             [] me.catch[n] = Catcher ->
                  /\ me' = [me EXCEPT !.pending = @ \ {n}, !.catch[n] = Default]
                  /\ Caught

InUser == at \in {"program", "catcher", "astray"}
InCall == at \in {"body", "leave", "return"}

\* A library function: svc_entry, and svc_handler up to the table.
Enter(f, x) ==
  /\ at \in {"program", "catcher"}
  /\ call' = <<f, x>> /\ ret' = Number[f]
  /\ Kpsig(at' = "body" /\ kpc' = "catcher" /\ upc' = "catcher"
             /\ stack' = <<"stub">> \o stack,
           at' = "body" /\ kpc' = "stub" /\ upc' = at)
  /\ UNCHANGED sent

\* The call itself.
Serve ==
  /\ at = "body"
  /\ LET f == Called(Number[call[1]])  done == Effect(f, call[2], me)
     IN  /\ me' = done[1] /\ ret' = done[2]
         /\ at' = CASE f = "exit" -> "dead" [] f = Invalid -> "return" [] OTHER -> "leave"
  /\ call' = NoCall
  /\ UNCHANGED <<upc, kpc, stack, sent>>

\* kpsig() in SVC mode: the catcher will run instead of what follows the swi, and
\* return to where the call would have.
CaughtInCall ==
  /\ upc' = "catcher" /\ kpc' = "catcher" /\ stack' = <<kpc>> \o stack

\* A function of another subsystem waits, in ksleep(), P() or mutex_lock().  What it
\* waits for may come; so may kkill()'s wakeup, after which most functions look
\* whether they can go on, and read_pipe() and write_pipe() sleep again, without a
\* look at the signal; and nothing may come at all.
Sleep ==
  /\ at = "body" /\ Called(Number[call[1]]) \notin OwnCalls \cup {"exit", Invalid}
  /\ at' = "asleep"
  /\ UNCHANGED <<upc, kpc, stack, call, ret, me, sent>>
Wake ==
  /\ at = "asleep" /\ at' = "body"
  /\ UNCHANGED <<upc, kpc, stack, call, ret, me, sent>>

\* The end of svc_handler(), whose value becomes the saved r0.
Leave ==
  /\ at = "leave"
  /\ Kpsig(CaughtInCall /\ at' = "return",
           at' = "return" /\ UNCHANGED <<upc, kpc>>)
  /\ UNCHANGED <<call, ret, sent>>

\* goUmode.
Return ==
  /\ at = "return"
  /\ Kpsig(CaughtInCall /\ at' = "catcher",
           at' = upc /\ UNCHANGED <<upc, kpc>>)
  /\ ret' = 0 /\ UNCHANGED <<call, sent>>

\* The catcher returns to the link register that it found.  The stub's mov pc, lr
\* goes there again, or to what the catcher called last, and never to the program.
CatcherReturns ==
  /\ at = "catcher"
  /\ at' = IF stack = <<>> \/ Head(stack) = "stub" THEN "astray" ELSE Head(stack)
  /\ stack' = IF stack = <<>> THEN stack ELSE Tail(stack)
  /\ UNCHANGED <<upc, kpc, call, ret, me, sent>>

\* The timer, or another interrupt, while it has the CPU: kpsig() in IRQ mode, which
\* is for the running process; a sleeper's signals wait.  What was interrupted is
\* where the catcher returns to; in a system call the catcher runs in SVC mode.
Irq ==
  /\ InUser \/ InCall
  /\ Kpsig(/\ at' = IF InUser /\ at # "astray" THEN "catcher" ELSE "astray"
           /\ stack' = IF InUser /\ at # "astray" THEN <<at>> \o stack ELSE stack
           /\ UNCHANGED <<upc, kpc>>,
           UNCHANGED <<at, upc, kpc>>)
  /\ UNCHANGED <<call, ret, sent>>

\* A prefetch abort, an undefined instruction; a data abort.
FaultSignals == {4, 11} \cap Signals
\* An abort: signal n in user mode, and on it goes; for ever in the kernel.
Fault(n) ==
  /\ InUser /\ Len(stack) < MaxDepth
  /\ me' = [me EXCEPT !.pending = @ \cup {n}]
  /\ UNCHANGED <<at, upc, kpc, stack, call, ret, sent>>
KernelFault ==
  /\ InCall
  /\ at' = "panic"
  /\ UNCHANGED <<upc, kpc, stack, call, ret, me, sent>>

\* kkill() by another process, or by a handler.
Kill(n) ==
  /\ at # "dead" /\ at # "panic" /\ sent < MaxSent
  /\ me' = [me EXCEPT !.pending = @ \cup {n}] /\ sent' = sent + 1
  /\ UNCHANGED <<at, upc, kpc, stack, call, ret>>

Next ==
  \/ \E f \in Library : \E x \in Argument(f) : Enter(f, x)
  \/ Serve \/ Sleep \/ Wake \/ Leave \/ Return \/ CatcherReturns \/ Irq
  \/ \E n \in FaultSignals : Fault(n)
  \/ KernelFault
  \/ \E n \in Signals : Kill(n)
Spec == Init /\ [][Next]_vars

\* A process that is not asleep gets the CPU, on which the timer interrupts it, and
\* a call goes on.  That a sleeper is woken is not assumed.
FairSpec == Spec /\ WF_vars(Irq) /\ WF_vars(Serve \/ Leave \/ Return)
-----------------------------------------------------------------------------
\* Every variable holds a value of its type.
TypeOK ==
  /\ at \in {"program", "catcher", "body", "asleep", "leave", "return", "astray", "dead",
            "panic"}
  /\ upc \in {"program", "catcher"} /\ kpc \in {"stub", "catcher"}
  /\ stack \in Seq({"stub", "catcher", "program"})
  /\ call # NoCall => call[1] \in Library /\ call[2] \in Argument(call[1])
  /\ me.pri \in Value /\ me.uid \in Value /\ me.tty \in Value
  /\ me.pending \subseteq Signals
  /\ me.catch \in [Signals -> Actions]
  /\ sent \in 0..MaxSent

\* A library function does to its process, and returns, what the kernel function
\* of its name does, but for the misnumbered ones.
EffectAsNamed ==
  [][at = "body" /\ at' = "leave" /\ call[1] \notin Misnumbered =>
       <<me', ret'>> = Effect(call[1], call[2], me)]_vars

\* Signal 9 ends the process unless it falls asleep in a call: one that is woken, and
\* does not sleep again, dies; so does a catcher, one that is astray, and one whose
\* faults repeat.  But the kernel may panic, and a process that ignores the signal of
\* its own faults may live on: kpsig() takes one signal at a time, the lowest, and a
\* fault that repeats is always before it.
NineKills ==
  9 \in me.pending ~>
    \/ at \in {"dead", "panic", "asleep"}
    \/ \E n \in FaultSignals : n < 9 /\ me.catch[n] = Ignore
=============================================================================
