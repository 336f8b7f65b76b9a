---------------------------- MODULE MCShellPipe ----------------------------
(* A pipeline of three commands. *)
EXTENDS ShellPipe

ShellCalls == {"pipe", "close", "dup2", "fork", "exit", "read", "write"}
Terminal == {0, 1}
ThreeBytes == <<"x", "y", "z">>
=============================================================================
