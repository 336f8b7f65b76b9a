------------------------------ MODULE ShellPipe ------------------------------
(***************************************************************************)
(* A pipeline "c1 | c2 | ... | cn" as the shell runs it: do_pipe() of      *)
(* user/si_sh.c on top of the kernel's pipes.  The process that do_pipe()  *)
(* starts in makes a pipe and forks; it becomes the last command, its      *)
(* child goes on with the commands before it.  The commands themselves are *)
(* external: the first writes Text, the others copy stdin to stdout until  *)
(* end of file, and the last may stop reading at any time.                 *)
(***************************************************************************)
EXTENDS Pipe

CONSTANTS
  Stages,       \* the commands in the line
  Text          \* what the first command writes

ASSUME ShellAssumption ==
  /\ Stages \in Nat \ {0}
  /\ Text \in Seq(Byte) /\ Text # <<>> /\ Len(Text) <= MaxBytes
  /\ {0, 1} \subseteq StdFds

VARIABLES
  stage,        \* the last command in the part of the line a process has left
  step,         \* where it is in do_pipe()
  pd,           \* its array lpd, which is also the pd of the next do_pipe()
  copied,       \* the bytes its command read and has yet to write
  out,          \* what the last command printed
  quitEarly     \* whether the last command may exit before the end of its input

shellVars == <<stage, step, pd, copied, out, quitEarly>>
svars == <<vars, shellVars>>

SInit ==
  /\ Init
  /\ stage = [p \in Proc |-> IF pc[p] = "user" THEN Stages ELSE 0]
  /\ step = [p \in Proc |-> IF pc[p] = "user" THEN "split" ELSE "none"]
  /\ pd = [p \in Proc |-> <<0, 0>>]
  /\ copied = [p \in Proc |-> <<>>]
  /\ out = <<>>
  /\ quitEarly \in BOOLEAN

Goes(p, from, to) == step[p] = from /\ step' = [step EXCEPT ![p] = to]

\* do_pipe() with a pd: the child closes the read end and takes the write end
\* as its stdout.
CloseRead(p) ==
  /\ Goes(p, "writer", "stdout")
  /\ Close(p, pd[p][1])
  /\ UNCHANGED <<stage, pd, copied, out>>
TakeStdout(p) ==
  /\ Goes(p, "stdout", "split")
  /\ Dup2(p, pd[p][2], 1)
  /\ UNCHANGED <<stage, pd, copied, out>>

\* No '|' left: local_exec().
LastOne(p) ==
  /\ stage[p] = 1
  /\ Goes(p, "split", "run")
  /\ copied' = [copied EXCEPT ![p] = Text]
  /\ UNCHANGED <<vars, stage, pd, out>>

\* pipe(lpd)
MakeLpd(p) ==
  /\ stage[p] > 1
  /\ Goes(p, "split", "fork")
  /\ MakePipe(p)
  /\ pd' = [pd EXCEPT ![p] = <<Min(FreeFds(p)), Min(FreeFds(p) \ {Min(FreeFds(p))})>>]
  /\ UNCHANGED <<stage, copied, out>>

\* fork(): the parent is the last command, the child has the ones before it.
ForkReader(p) ==
  \E c \in Proc :
    /\ step[p] = "fork"
    /\ step[c] = "none"
    /\ Fork(p, c)
    /\ step' = [step EXCEPT ![p] = "reader", ![c] = "writer"]
    /\ stage' = [stage EXCEPT ![c] = stage[p] - 1]
    /\ pd' = [pd EXCEPT ![c] = pd[p]]
    /\ UNCHANGED <<copied, out>>

\* The parent closes the write end and takes the read end as its stdin.
CloseWrite(p) == Close(p, pd[p][2])
DropWrite(p) ==
  /\ Goes(p, "reader", "stdin")
  /\ CloseWrite(p)
  /\ UNCHANGED <<stage, pd, copied, out>>
TakeStdin(p) ==
  /\ Goes(p, "stdin", "run")
  /\ Dup2(p, pd[p][1], 0)
  /\ UNCHANGED <<stage, pd, copied, out>>
-----------------------------------------------------------------------------
(* The commands *)

IsFirst(p) == stage[p] = 1
IsLast(p) == stage[p] = Stages

\* A command with something in hand prints it or writes it to stdout.
ShowOut(p) ==
  /\ Goes(p, "run", IF IsFirst(p) THEN "quit" ELSE "run")
  /\ IsLast(p) /\ copied[p] # <<>> /\ At(p, "user")
  /\ out' = out \o copied[p]
  /\ copied' = [copied EXCEPT ![p] = <<>>]
  /\ UNCHANGED <<vars, stage, pd>>
PutOut(p) ==
  /\ Goes(p, "run", IF IsFirst(p) THEN "quit" ELSE "run")
  /\ ~ IsLast(p) /\ copied[p] # <<>>
  /\ Write(p, 1, copied[p])
  /\ copied' = [copied EXCEPT ![p] = <<>>]
  /\ UNCHANGED <<stage, pd, out>>

\* With nothing in hand it reads, and looks at what it got.
GetIn(p) ==
  /\ Goes(p, "run", "got")
  /\ ~ IsFirst(p) /\ copied[p] = <<>>
  /\ \E n \in 1..MaxBytes : Read(p, 0, n)
  /\ UNCHANGED <<stage, pd, copied, out>>
Look(p) ==
  /\ Goes(p, "got", IF ubuf[p] = <<>> THEN "quit" ELSE "run")
  /\ At(p, "user")
  /\ copied' = [copied EXCEPT ![p] = ubuf[p]]
  /\ ubuf' = [ubuf EXCEPT ![p] = <<>>]
  /\ UNCHANGED <<fd, oftVars, endVars, ringVars, pc, event, cur, want, todo>>
  /\ UNCHANGED <<stage, pd, out>>

Quit(p) ==
  /\ \/ Goes(p, "quit", "gone")
     \/ quitEarly /\ IsLast(p) /\ ~ IsFirst(p) /\ Goes(p, "run", "gone")
  /\ Exit(p)
  /\ UNCHANGED <<stage, pd, copied, out>>

Kernel(p) == Loop(p) /\ UNCHANGED <<stage, step, pd, copied, out>>

ShellStep(p) ==
  \/ CloseRead(p) \/ TakeStdout(p) \/ LastOne(p) \/ MakeLpd(p) \/ ForkReader(p)
  \/ DropWrite(p) \/ TakeStdin(p)
CommandStep(p) == ShowOut(p) \/ PutOut(p) \/ GetIn(p) \/ Look(p) \/ Quit(p)

Step(p) == (ShellStep(p) \/ CommandStep(p) \/ Kernel(p)) /\ UNCHANGED quitEarly
SNext == \E p \in Proc : Step(p)

\* Every process of the pipeline is given the CPU again and again.
SSpec == SInit /\ [][SNext]_svars
           /\ \A p \in Proc : WF_svars(Step(p))
-----------------------------------------------------------------------------
Gone == \A p \in Proc : pc[p] = "none"

\* What is printed is always the beginning of what was written, although each
\* byte crosses one pipe per "|" and every writer and reader comes and goes.
OutInOrder == \E n \in 0..Len(Text) : out = SubSeq(Text, 1, n)

\* When the pipeline is over nothing of it is left in the kernel: no pipe is
\* busy and no open file table entry is referenced, whatever dup2 miscounted.
NothingLeft ==
  Gone => (\A q \in Pipes : ~busy[q]) /\ (\A o \in Ofts : refCount[o] = 0)

\* Every pipeline comes to its end: nobody sleeps for ever on a pipe.
PipelineEnds == <>[]Gone

\* And when the last command reads to the end, all of Text has been printed.
AllArrives == ~ quitEarly => <>(out = Text)
=============================================================================
