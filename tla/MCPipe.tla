------------------------------ MODULE MCPipe ------------------------------
(* Small instances of Pipe. *)
EXTENDS Pipe

ProcSymmetry == Permutations(Proc)
NoDups == {"pipe", "close", "fork", "exit", "read", "write"}
CountingCalls == {"pipe", "close", "dup", "fork", "exit", "read", "write"}
ShellCalls == {"pipe", "close", "dup2", "fork", "exit", "read"}
=============================================================================
