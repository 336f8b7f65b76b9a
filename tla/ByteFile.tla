------------------------------ MODULE ByteFile ------------------------------
(***************************************************************************)
(* What open(), read(), write() and lseek() promise of a file: it is a     *)
(* sequence of bytes, and a descriptor is a place in it.                   *)
(***************************************************************************)
EXTENDS Integers, Sequences

CONSTANTS
  Fd,           \* the descriptors
  Input         \* what programs write: sequences of bytes

VARIABLES
  bytes,        \* the file's bytes
  fd,           \* descriptor -> mode and offset
  got           \* what the last read() returned

vars == <<bytes, fd, got>>

Modes == {"closed", "read", "write"}

Init ==
  /\ bytes = <<>> /\ got = <<>>
  /\ fd = [f \in Fd |-> [mode |-> "closed", off |-> 0]]

\* s written at offset o, which is within the file or at its end.
Overwritten(o, s) ==
  [i \in 1..(IF o + Len(s) > Len(bytes) THEN o + Len(s) ELSE Len(bytes)) |->
     IF i > o /\ i <= o + Len(s) THEN s[i - o] ELSE bytes[i]]

\* Opened for reading, or for writing with the file emptied or kept.
Open(f) ==
  /\ fd[f].mode = "closed"
  /\ \/ /\ fd' = [fd EXCEPT ![f] = [mode |-> "read", off |-> 0]]
        /\ UNCHANGED bytes
     \/ /\ bytes' \in {<<>>, bytes}
        /\ \E o \in {0, Len(bytes')} : fd' = [fd EXCEPT ![f] = [mode |-> "write", off |-> o]]
  /\ UNCHANGED got

Close(f) ==
  /\ fd[f].mode # "closed"
  /\ fd' = [fd EXCEPT ![f] = [mode |-> "closed", off |-> 0]]
  /\ UNCHANGED <<bytes, got>>

\* A full disk lets a part of the bytes in.
Write(f, s) ==
  /\ fd[f].mode = "write"
  /\ \E k \in 0..Len(s) :
       /\ bytes' = Overwritten(fd[f].off, SubSeq(s, 1, k))
       /\ fd' = [fd EXCEPT ![f].off = @ + k]
  /\ UNCHANGED got

Read(f) ==
  /\ fd[f].mode = "read"
  /\ \E k \in 0..(Len(bytes) - fd[f].off) :
       /\ got' = SubSeq(bytes, fd[f].off + 1, fd[f].off + k)
       /\ fd' = [fd EXCEPT ![f].off = @ + k]
  /\ UNCHANGED bytes

Lseek(f) ==
  /\ fd[f].mode # "closed"
  /\ \E o \in 0..Len(bytes) : fd' = [fd EXCEPT ![f].off = o]
  /\ UNCHANGED <<bytes, got>>

Next == \E f \in Fd :
  Open(f) \/ Close(f) \/ Read(f) \/ Lseek(f) \/ (\E s \in Input : Write(f, s))

Spec == Init /\ [][Next]_vars
=============================================================================
