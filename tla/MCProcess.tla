----------------------------- MODULE MCProcess -----------------------------
(* Small instances of Process. *)
EXTENDS Process

AllCalls == Calls
InitLoop == {"fork", "wait"}
\* What matters to round robin and to orphans.
ForkAndSwitch == {"fork", "switch"}
\* The kernel points at which a signal may hit without harm.
SafePoints == {"wait", "exit", "gone"}
\* Those of them that come before kexit() has set the ZOMBIE status.
LivePoints == {"wait", "exit"}
ForkPoint == {"fork"}
OnePriority == {1}
TwoPriorities == {1, 200}
=============================================================================
