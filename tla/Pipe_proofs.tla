---------------------------- MODULE Pipe_proofs ----------------------------
(***************************************************************************)
(* Theorems about Pipe for any finite set of processes and any sizes of    *)
(* the tables: the counts of a pipe's ends, its sleepers, and that it is a *)
(* FIFO channel; and what is left of pipes once every process is gone.     *)
(* Then theorems about ShellPipe, for any number of commands and any text: *)
(* what a pipeline leaves behind, and that what it prints is the beginning *)
(* of what its first command wrote.                                        *)
(***************************************************************************)
EXTENDS ShellPipe, ListFacts, FiniteSetTheorems

(* A descriptor of some process; those that point into S under f, and how many;
   those of p. *)
Handle == Proc \X Fds
Pointing(f, S) == {x \in Handle : f[x[1]][x[2]] \in S}
Count(f, S) == Cardinality(Pointing(f, S))
Own(f, p, S) == {i \in Fds : f[p][i] \in S}
FdTables == [Proc -> [Fds -> Ofts \cup {None, File}]]

(* The open file table entries that are the given end of pipe q. *)
EndOfts(q, end) == {o \in Ofts : mode[o] = end /\ pipePtr[o] = q}
-----------------------------------------------------------------------------
LEMMA HandlesFinite == IsFiniteSet(Handle) /\ IsFiniteSet(Fds)
<1>1. IsFiniteSet(Fds)
  BY PipeAssumption, FS_Interval DEF Fds
<1>2. IsFiniteSet(Proc)
  BY PipeAssumption
<1> QED BY <1>1, <1>2, FS_Product DEF Handle

LEMMA CountType ==
  ASSUME NEW f, NEW S
  PROVE  /\ IsFiniteSet(Pointing(f, S)) /\ Count(f, S) \in Nat
         /\ Count(f, S) = 0 <=> Pointing(f, S) = {}
<1>1. Pointing(f, S) \in SUBSET Handle
  BY DEF Pointing
<1>2. IsFiniteSet(Pointing(f, S))
  BY <1>1, HandlesFinite, FS_Subset
<1> QED BY <1>2, FS_CardinalityType, FS_EmptySet DEF Count

(* One descriptor is set to v. *)
SetTo(f, p, i, v) == [f EXCEPT ![p][i] = v]

LEMMA SetCount ==
  ASSUME NEW f \in FdTables, NEW p \in Proc, NEW i \in Fds,
         NEW v \in Ofts \cup {None, File}, NEW S
  PROVE  /\ SetTo(f, p, i, v) \in FdTables
         /\ Count(SetTo(f, p, i, v), S)
              = Count(f, S) - (IF f[p][i] \in S THEN 1 ELSE 0) + (IF v \in S THEN 1 ELSE 0)
<1> DEFINE g == SetTo(f, p, i, v)
           x == <<p, i>>
           rest == Pointing(f, S) \ {x}
<1>1. /\ g \in FdTables
      /\ \A y \in Handle : g[y[1]][y[2]] = IF y = x THEN v ELSE f[y[1]][y[2]]
  BY DEF FdTables, Handle, SetTo
<1>2. x \in Handle /\ f[x[1]][x[2]] = f[p][i]
  BY DEF Handle
<1> HIDE DEF g, x
<1>3. Pointing(g, S) = IF v \in S THEN rest \cup {x} ELSE rest
  BY <1>1, <1>2 DEF Pointing
<1>4. x \in Pointing(f, S) <=> f[p][i] \in S
  BY <1>2 DEF Pointing
<1>5. /\ IsFiniteSet(rest)
      /\ Cardinality(rest) = Count(f, S) - (IF f[p][i] \in S THEN 1 ELSE 0)
  <2>1. IsFiniteSet(Pointing(f, S))
    BY CountType
  <2>2. IsFiniteSet(rest) /\ Cardinality(rest) = IF x \in Pointing(f, S)
                                                 THEN Cardinality(Pointing(f, S)) - 1
                                                 ELSE Cardinality(Pointing(f, S))
    BY <2>1, FS_RemoveElement
  <2>3. Cardinality(Pointing(f, S)) \in Nat
    BY <2>1, FS_CardinalityType
  <2> QED BY <1>4, <2>2, <2>3 DEF Count
<1>6. Cardinality(rest \cup {x}) = Cardinality(rest) + 1
  BY <1>5, FS_AddElement
<1>7. Cardinality(rest) \in Nat /\ Count(f, S) \in Nat
  BY <1>5, CountType, FS_CardinalityType
<1> HIDE DEF rest
<1>8. Count(g, S) = IF v \in S THEN Cardinality(rest) + 1 ELSE Cardinality(rest)
  BY <1>3, <1>6 DEF Count
<1> QED BY <1>1, <1>5, <1>7, <1>8 DEF g

(* A process without descriptors in S gets those of p. *)
LEMMA CountCopy ==
  ASSUME NEW f \in FdTables, NEW p \in Proc, NEW c \in Proc, NEW S,
         \A i \in Fds : f[c][i] \notin S
  PROVE  LET g == [f EXCEPT ![c] = f[p]]
         IN  /\ g \in FdTables
             /\ Count(g, S) = Count(f, S) + Cardinality(Own(f, p, S))
             /\ Pointing(g, S) = {} <=> Pointing(f, S) = {}
<1> DEFINE g == [f EXCEPT ![c] = f[p]]
           mine == Own(f, p, S)
           copies == {<<c, i>> : i \in mine}
<1>1. g \in FdTables /\ \A y \in Handle : g[y[1]][y[2]] = IF y[1] = c THEN f[p][y[2]] ELSE f[y[1]][y[2]]
  BY DEF FdTables, Handle
<1>2. Pointing(g, S) = Pointing(f, S) \cup copies
  BY <1>1 DEF Pointing, Handle, Own
<1>3. Pointing(f, S) \cap copies = {}
  BY DEF Pointing, Handle
<1>4. IsFiniteSet(mine)
  BY HandlesFinite, FS_Subset DEF Own
<1>5. [i \in mine |-> <<c, i>>] \in Bijection(mine, copies)
  <2>1. [i \in mine |-> <<c, i>>] \in [mine -> copies]
    OBVIOUS
  <2>2. \A t \in copies : \E i \in mine : [j \in mine |-> <<c, j>>][i] = t
    OBVIOUS
  <2>3. \A i, j \in mine : [k \in mine |-> <<c, k>>][i] = [k \in mine |-> <<c, k>>][j] => i = j
    OBVIOUS
  <2> QED BY <2>1, <2>2, <2>3 DEF Bijection, Injection, Surjection, IsInjective
<1>6. IsFiniteSet(copies) /\ Cardinality(copies) = Cardinality(mine)
  BY <1>4, <1>5, FS_Bijection DEF ExistsBijection
<1>7. Pointing(f, S) = {} => mine = {}
  <2>1. \A i \in mine : <<p, i>> \in Pointing(f, S)
    BY DEF Pointing, Handle, Own
  <2> QED BY <2>1
<1> HIDE DEF copies, mine, g
<1>8. Count(g, S) = Count(f, S) + Cardinality(copies) - Cardinality({})
  BY <1>2, <1>3, <1>6, CountType, FS_Union DEF Count
<1>9. Count(f, S) \in Nat /\ Cardinality(mine) \in Nat /\ Cardinality({}) = 0
  BY <1>4, CountType, FS_CardinalityType, FS_EmptySet
<1>10. copies = {} <=> mine = {}
  BY DEF copies
<1>11. Count(g, S) = Count(f, S) + Cardinality(mine)
  BY <1>6, <1>8, <1>9
<1>12. Pointing(g, S) = {} <=> Pointing(f, S) = {}
  BY <1>2, <1>7, <1>10
<1> QED BY <1>1, <1>11, <1>12 DEF g, mine
-----------------------------------------------------------------------------
(* The parts of the inductive invariant. *)

(* The types that matter here: what bytes are in a pipe does not. *)
PipeType ==
  /\ fd \in FdTables
  /\ mode \in [Ofts -> {"file", "READ_PIPE", "WRITE_PIPE"}]
  /\ refCount \in [Ofts -> Nat]
  /\ pipePtr \in [Ofts -> Pipes \cup {None}]
  /\ busy \in [Pipes -> BOOLEAN]
  /\ nreader \in [Pipes -> Int] /\ nwriter \in [Pipes -> Int]
  /\ data \in [Pipes -> Nat] /\ room \in [Pipes -> Nat]
  /\ pc \in [Proc -> Points]
  /\ event \in [Proc -> Events \cup {None}]
  /\ cur \in [Proc -> Nat] /\ want \in [Proc -> Nat]
  /\ todo \in [Proc -> Seq(Byte)]

(* An open file table entry in use is an end of a pipe, and no two are the same
   end of the same pipe. *)
EntriesInv ==
  /\ \A o \in Ofts : refCount[o] > 0 =>
       mode[o] \in {"READ_PIPE", "WRITE_PIPE"} /\ pipePtr[o] \in Pipes
  /\ \A o1, o2 \in Ofts :
       /\ refCount[o1] > 0 /\ refCount[o2] > 0
       /\ mode[o1] = mode[o2] /\ pipePtr[o1] = pipePtr[o2]
       => o1 = o2

(* A process in read or write, asleep or not, holds that end, and who sleeps is in
   one of them; a process that is not there has no descriptors. *)
InEnd(p, call, end) ==
  pc[p] = call =>
    /\ cur[p] \in Fds /\ fd[p][cur[p]] \in Ofts
    /\ mode[fd[p][cur[p]]] = end
SleepsIn(p, what, call) ==
  \A q \in Pipes : event[p] = <<what, q>> =>
    pc[p] = call /\ pipePtr[fd[p][cur[p]]] = q
UseOf(p) ==
  /\ InEnd(p, "read", "READ_PIPE") /\ InEnd(p, "write", "WRITE_PIPE")
  /\ SleepsIn(p, "data", "read") /\ SleepsIn(p, "room", "write")
  /\ pc[p] = "none" => \A i \in Fds : fd[p][i] = None
UseInv == \A p \in Proc : UseOf(p)

(* The counts, as CountsExact has them. *)
Readers(q) == Count(fd, EndOfts(q, "READ_PIPE"))
Writers(q) == Count(fd, EndOfts(q, "WRITE_PIPE"))
CountsInv ==
  /\ \A o \in Ofts : refCount[o] = Count(fd, {o})
  /\ \A q \in Pipes :
       /\ busy[q] => nreader[q] = Readers(q) /\ nwriter[q] = Writers(q)
       /\ busy[q] <=> Readers(q) > 0 \/ Writers(q) > 0

PipeInv == PipeType /\ EntriesInv /\ UseInv /\ CountsInv
-----------------------------------------------------------------------------
LEMMA ConstantFacts ==
  /\ None \notin Ofts /\ File \notin Ofts /\ None \notin Events /\ None # File
  /\ Fds \subseteq Nat /\ Ofts \subseteq Nat /\ Pipes \subseteq Nat
  /\ {"none", "user", "read", "write", "exit"} \subseteq Points
  /\ PSIZE \in Nat /\ MaxBytes \in Nat
  /\ \A q \in Pipes : <<"data", q>> \in Events /\ <<"room", q>> \in Events
BY PipeAssumption DEF Fds, Ofts, Pipes, Points, Events

LEMMA MessageFacts == Messages \subseteq Seq(Byte)
<1> SUFFICES ASSUME NEW n \in 1..MaxBytes, NEW s \in [1..n -> Byte]
             PROVE  s \in Seq(Byte)
  BY DEF Messages
<1> QED BY ConstantFacts

(* An entry that a descriptor points to is in use, and as often as descriptors do. *)
LEMMA InUse ==
  ASSUME PipeInv, NEW r \in Ofts, NEW x \in Handle, fd[x[1]][x[2]] = r
  PROVE  refCount[r] > 0 /\ refCount[r] = Count(fd, {r})
<1>1. x \in Pointing(fd, {r})
  BY DEF Pointing
<1>2. refCount[r] = Count(fd, {r})
  BY DEF PipeInv, CountsInv
<1>3. Count(fd, {r}) \in Nat /\ Count(fd, {r}) # 0
  BY <1>1, CountType
<1> QED BY <1>2, <1>3

(* A descriptor that is an end of a pipe: its entry is the only such end. *)
LEMMA Pointed ==
  ASSUME PipeInv, NEW p \in Proc, NEW i \in Fds, fd[p][i] \in Ofts
  PROVE  LET o == fd[p][i]
             q == pipePtr[o]
         IN  /\ refCount[o] > 0 /\ mode[o] \in {"READ_PIPE", "WRITE_PIPE"}
             /\ q \in Pipes /\ o \in EndOfts(q, mode[o])
             /\ Count(fd, EndOfts(q, mode[o])) = refCount[o]
             /\ busy[q]
<1> DEFINE o == fd[p][i]
           q == pipePtr[o]
<1>0. <<p, i>> \in Handle /\ fd[<<p, i>>[1]][<<p, i>>[2]] = o
  BY DEF Handle
<1> HIDE DEF o
<1>1. o = fd[p][i] /\ o \in Ofts
  BY DEF o
<1>2. refCount[o] > 0 /\ refCount[o] = Count(fd, {o})
  BY <1>0, <1>1, InUse
<1>3. mode[o] \in {"READ_PIPE", "WRITE_PIPE"} /\ q \in Pipes
  BY <1>1, <1>2 DEF PipeInv, EntriesInv
<1>4. o \in EndOfts(q, mode[o])
  BY <1>1 DEF EndOfts
<1>5. \A x \in Handle : fd[x[1]][x[2]] \in EndOfts(q, mode[o]) => fd[x[1]][x[2]] = o
  <2> SUFFICES ASSUME NEW x \in Handle, NEW r, r = fd[x[1]][x[2]], r \in EndOfts(q, mode[o])
               PROVE  r = o
    OBVIOUS
  <2>1. r \in Ofts /\ mode[r] = mode[o] /\ pipePtr[r] = q
    BY DEF EndOfts
  <2>2. refCount[r] > 0
    BY <2>1, InUse
  <2> QED BY <1>1, <1>2, <2>1, <2>2 DEF PipeInv, EntriesInv
<1>6. Pointing(fd, EndOfts(q, mode[o])) = Pointing(fd, {o})
  BY <1>4, <1>5 DEF Pointing
<1>7. Count(fd, EndOfts(q, mode[o])) = refCount[o]
  BY <1>2, <1>6 DEF Count
<1>8. busy[q]
  BY <1>2, <1>3, <1>7 DEF PipeInv, CountsInv, Readers, Writers
<1> QED BY <1>1, <1>2, <1>3, <1>4, <1>7, <1>8 DEF o

LEMMA ReaderWriterTypes ==
  ASSUME NEW q PROVE Readers(q) \in Nat /\ Writers(q) \in Nat
BY CountType DEF Readers, Writers

(* The two smallest members of a set. *)
LEMMA TwoSmallest ==
  ASSUME NEW S, S \subseteq Nat, Cardinality(S) >= 2
  PROVE  /\ Min(S) \in S /\ Min(S \ {Min(S)}) \in S
         /\ Min(S \ {Min(S)}) # Min(S)
<1>1. S # {}
  BY FS_EmptySet
<1>2. Min(S) \in S
  BY <1>1, MinOfNats
<1>3. S \ {Min(S)} # {}
  <2>1. ASSUME S = {Min(S)} PROVE FALSE
    <3>1. Cardinality({Min(S)}) = 1
      BY FS_Singleton
    <3> QED BY <2>1, <3>1
  <2> QED BY <1>2, <2>1
<1>4. S \ {Min(S)} \subseteq Nat
  OBVIOUS
<1>5. Min(S \ {Min(S)}) \in S \ {Min(S)}
  BY <1>3, <1>4, MinOfNats
<1> QED BY <1>2, <1>5

(* What a new pipe is made of: all of it unused. *)
MadeOf(p, q, o1, o2, i1, i2) ==
  /\ ~ busy[q]
  /\ o1 # o2 /\ refCount[o1] = 0 /\ refCount[o2] = 0
  /\ i1 # i2 /\ fd[p][i1] = None /\ fd[p][i2] = None
  /\ busy' = [busy EXCEPT ![q] = TRUE]
  /\ nreader' = [nreader EXCEPT ![q] = 1]
  /\ nwriter' = [nwriter EXCEPT ![q] = 1]
  /\ head' = [head EXCEPT ![q] = 0]
  /\ tail' = [tail EXCEPT ![q] = 0]
  /\ data' = [data EXCEPT ![q] = 0]
  /\ room' = [room EXCEPT ![q] = PSIZE]
  /\ mode' = [mode EXCEPT ![o1] = "READ_PIPE", ![o2] = "WRITE_PIPE"]
  /\ refCount' = [refCount EXCEPT ![o1] = 1, ![o2] = 1]
  /\ pipePtr' = [pipePtr EXCEPT ![o1] = q, ![o2] = q]
  /\ fd' = [fd EXCEPT ![p][i1] = o1, ![p][i2] = o2]

LeastOf(p, q, i1, i2) ==
  /\ \A x \in Pipes : ~ busy[x] => q <= x
  /\ i1 = Min(FreeFds(p)) /\ i2 = Min(FreeFds(p) \ {Min(FreeFds(p))})

LEMMA LeastPipe ==
  ASSUME NEW p \in Proc, MakePipe(p)
  PROVE  \E q \in Pipes, o1, o2 \in Ofts, i1, i2 \in Fds :
           MadeOf(p, q, o1, o2, i1, i2) /\ LeastOf(p, q, i1, i2)
<1> DEFINE idle == {x \in Pipes : ~busy[x]}
           unused == {x \in Ofts : refCount[x] = 0}
           free == FreeFds(p)
           q == Min(idle)
           o1 == Min(unused)
           o2 == Min(unused \ {o1})
           i1 == Min(free)
           i2 == Min(free \ {i1})
<1>1. idle # {} /\ Cardinality(unused) >= 2 /\ Cardinality(free) >= 2
  BY DEF MakePipe
<1>2. /\ idle \subseteq Nat /\ unused \subseteq Nat /\ free \subseteq Nat
      /\ idle \subseteq Pipes /\ unused \subseteq Ofts /\ free \subseteq Fds
      /\ \A x \in idle : ~ busy[x]
      /\ \A x \in unused : refCount[x] = 0
      /\ \A x \in free : fd[p][x] = None
  BY ConstantFacts DEF FreeFds
<1>3. /\ busy' = [busy EXCEPT ![q] = TRUE]
      /\ nreader' = [nreader EXCEPT ![q] = 1]
      /\ nwriter' = [nwriter EXCEPT ![q] = 1]
      /\ head' = [head EXCEPT ![q] = 0]
      /\ tail' = [tail EXCEPT ![q] = 0]
      /\ data' = [data EXCEPT ![q] = 0]
      /\ room' = [room EXCEPT ![q] = PSIZE]
      /\ mode' = [mode EXCEPT ![o1] = "READ_PIPE", ![o2] = "WRITE_PIPE"]
      /\ refCount' = [refCount EXCEPT ![o1] = 1, ![o2] = 1]
      /\ pipePtr' = [pipePtr EXCEPT ![o1] = q, ![o2] = q]
      /\ fd' = [fd EXCEPT ![p][i1] = o1, ![p][i2] = o2]
  BY DEF MakePipe
<1>a. \A x \in Pipes : ~ busy[x] => x \in idle
  OBVIOUS
<1>b. i1 = Min(FreeFds(p)) /\ i2 = Min(FreeFds(p) \ {Min(FreeFds(p))})
  OBVIOUS
<1> HIDE DEF idle, unused, free
<1>4. q \in idle /\ \A x \in idle : q <= x
  BY <1>1, <1>2, MinOfNats
<1>5. ASSUME NEW S, S \subseteq Nat, Cardinality(S) >= 2
      PROVE  /\ Min(S) \in S /\ Min(S \ {Min(S)}) \in S
             /\ Min(S \ {Min(S)}) # Min(S)
  BY <1>5, TwoSmallest
<1>6. o1 \in unused /\ o2 \in unused /\ o1 # o2
  BY <1>1, <1>2, <1>5
<1>7. i1 \in free /\ i2 \in free /\ i1 # i2
  BY <1>1, <1>2, <1>5
<1> HIDE DEF q, o1, o2, i1, i2
<1>8. q \in Pipes /\ o1 \in Ofts /\ o2 \in Ofts /\ i1 \in Fds /\ i2 \in Fds
  BY <1>2, <1>4, <1>6, <1>7
<1>9. MadeOf(p, q, o1, o2, i1, i2)
  BY <1>2, <1>3, <1>4, <1>6, <1>7 DEF MadeOf
<1>10. LeastOf(p, q, i1, i2)
  BY <1>a, <1>b, <1>4 DEF LeastOf
<1> QED BY <1>8, <1>9, <1>10

LEMMA NewPipe ==
  ASSUME NEW p \in Proc, MakePipe(p)
  PROVE  \E q \in Pipes, o1, o2 \in Ofts, i1, i2 \in Fds : MadeOf(p, q, o1, o2, i1, i2)
<1>1. PICK q \in Pipes, o1 \in Ofts, o2 \in Ofts, i1 \in Fds, i2 \in Fds :
        MadeOf(p, q, o1, o2, i1, i2) /\ LeastOf(p, q, i1, i2)
  BY LeastPipe
<1> QED BY <1>1
-----------------------------------------------------------------------------
(* The parts of PipeInv hold after every step. *)

(* Whoever is in read or write has that end of a pipe in use. *)
LEMMA EndHeld ==
  ASSUME PipeInv, NEW p \in Proc, pc[p] \in {"read", "write"}
  PROVE  LET q == pipePtr[fd[p][cur[p]]]
         IN  /\ q \in Pipes /\ busy[q]
             /\ pc[p] = "read" => nreader[q] = Readers(q) /\ nreader[q] > 0
             /\ pc[p] = "write" => nwriter[q] = Writers(q) /\ nwriter[q] > 0
<1> DEFINE o == fd[p][cur[p]]
           q == pipePtr[o]
<1>1. cur[p] \in Fds /\ o \in Ofts /\ mode[o] = IF pc[p] = "read" THEN "READ_PIPE" ELSE "WRITE_PIPE"
  BY DEF PipeInv, UseInv, UseOf, InEnd
<1>2. /\ refCount[o] > 0 /\ q \in Pipes /\ busy[q]
      /\ Count(fd, EndOfts(q, mode[o])) = refCount[o]
  BY <1>1, Pointed
<1>3. nreader[q] = Readers(q) /\ nwriter[q] = Writers(q)
  BY <1>2 DEF PipeInv, CountsInv
<1> QED BY <1>1, <1>2, <1>3 DEF Readers, Writers

LEMMA MinOfTwo ==
  ASSUME NEW m \in Nat, NEW n \in Nat
  PROVE  /\ Min({m, n}) \in {m, n}
         /\ Min({m, n}) \in Nat /\ Min({m, n}) <= m /\ Min({m, n}) <= n
<1>1. {m, n} \subseteq Nat /\ {m, n} # {}
  OBVIOUS
<1>2. Min({m, n}) \in {m, n} /\ \A k \in {m, n} : Min({m, n}) <= k
  BY <1>1, MinOfNats
<1> QED BY <1>2

LEMMA CloseTypes ==
  ASSUME PipeInv, NEW p \in Proc, NEW i \in Fds, CloseAny(p, i, None),
         UNCHANGED <<mode, pipePtr, ringVars, pc, callVars>>
  PROVE  PipeType'
<1> USE DEF PipeType
<1>1. PipeType
  BY DEF PipeInv
<1>2. UNCHANGED <<mode, pipePtr, data, room, pc, cur, want, todo>>
  BY DEF ringVars, callVars
<1>3. fd' \in FdTables
  <2>1. fd' = [fd EXCEPT ![p][i] = None]
    BY DEF CloseAny, ClosePipe
  <2> QED BY <1>1, <2>1 DEF FdTables
<1>4. refCount' \in [Ofts -> Nat]
  <2>1. CASE fd[p][i] \in Ofts
    <3>1. refCount[fd[p][i]] > 0
      BY <2>1, Pointed
    <3>2. refCount' = [r \in Ofts |-> refCount[r] - (IF r = fd[p][i] THEN 1 ELSE 0)
                                                  + (IF r = None THEN 1 ELSE 0)]
      BY <2>1 DEF CloseAny, ClosePipe
    <3>3. None \notin Ofts
      BY ConstantFacts
    <3>4. refCount \in [Ofts -> Nat]
      BY <1>1
    <3>5. \A r \in Ofts : refCount'[r] = IF r = fd[p][i] THEN refCount[r] - 1 ELSE refCount[r]
      BY <3>2, <3>3, <3>4
    <3>6. \A r \in Ofts : refCount'[r] \in Nat
      BY <3>1, <3>4, <3>5
    <3>7. refCount' = [r \in Ofts |-> refCount'[r]]
      BY <3>2
    <3> QED BY <3>6, <3>7
  <2>2. CASE fd[p][i] \notin Ofts
    <3>1. refCount' = [r \in Ofts |-> refCount[r] + (IF r = None THEN 1 ELSE 0)]
      BY <2>2 DEF CloseAny
    <3> QED BY <1>1, <3>1, ConstantFacts
  <2> QED BY <2>1, <2>2
<1>5. nreader' \in [Pipes -> Int] /\ nwriter' \in [Pipes -> Int] /\ busy' \in [Pipes -> BOOLEAN]
  <2>1. CASE fd[p][i] \in Ofts
    <3>1. pipePtr[fd[p][i]] \in Pipes
      BY <2>1, Pointed
    <3>2. ClosePipe(p, i, None)
      BY <2>1 DEF CloseAny
    <3> DEFINE q == pipePtr[fd[p][i]]
    <3>a. nreader \in [Pipes -> Int] /\ nwriter \in [Pipes -> Int]
      BY <1>1
    <3>b. nreader' \in {[nreader EXCEPT ![q] = @ - 1], nreader}
      BY <3>2 DEF ClosePipe, DownOne
    <3>c. nwriter' \in {[nwriter EXCEPT ![q] = @ - 1], nwriter}
      BY <3>2 DEF ClosePipe, DownOne
    <3> HIDE DEF q
    <3>3. nreader' \in [Pipes -> Int]
      BY <3>a, <3>b
    <3>4. nwriter' \in [Pipes -> Int]
      BY <3>a, <3>c
    <3>5. busy' \in [Pipes -> BOOLEAN]
      BY <1>1, <3>1, <3>2 DEF ClosePipe
    <3> QED BY <3>3, <3>4, <3>5
  <2>2. CASE fd[p][i] \notin Ofts
    BY <1>1, <2>2 DEF CloseAny, endVars
  <2> QED BY <2>1, <2>2
<1>6. event' \in [Proc -> Events \cup {None}]
  BY <1>1 DEF CloseAny, ClosePipe, WakeOther, Wakeup
<1> QED BY <1>1, <1>2, <1>3, <1>4, <1>5, <1>6

(* How the loops of read_pipe() and write_pipe() change the counts of the ring. *)
LEMMA LoopTypes ==
  ASSUME PipeInv, NEW p \in Proc, ReadLoop(p) \/ WriteLoop(p)
  PROVE  PipeType'
<1> USE DEF PipeType, oftVars, endVars
<1>0. PipeType
  BY DEF PipeInv
<1>1. CASE ReadLoop(p)
  <2> DEFINE q == pipePtr[fd[p][cur[p]]]
             k == Min({data[q], want[p]})
  <2>1. q \in Pipes
    BY <1>1, EndHeld, Zenon DEF ReadLoop, At
  <2>2. k \in Nat /\ k <= data[q]
    BY <1>0, <2>1, MinOfTwo, Zenon
  <2> HIDE DEF q, k
  <2>3. UNCHANGED <<fd, mode, refCount, pipePtr, busy, nreader, nwriter, todo>>
    BY <1>1, Zenon DEF ReadLoop
  <2>4. \/ /\ data' = [data EXCEPT ![q] = @ - k]
           /\ room' = [room EXCEPT ![q] = @ + k]
        \/ UNCHANGED <<data, room>>
    BY <1>1, Zenon DEF ReadLoop, q, k
  <2>5. data' \in [Pipes -> Nat] /\ room' \in [Pipes -> Nat]
    <3>1. /\ data \in [Pipes -> Nat] /\ room \in [Pipes -> Nat]
          /\ data[q] \in Nat /\ room[q] \in Nat
      BY <1>0, <2>1
    <3>2. data[q] - k \in Nat /\ room[q] + k \in Nat
      BY <2>2, <3>1
    <3> QED BY <2>1, <2>4, <3>1, <3>2
  <2>6. /\ pc' \in [Proc -> Points]
        /\ cur' \in [Proc -> Nat] /\ want' \in [Proc -> Nat]
    <3>1. \/ UNCHANGED <<pc, cur, want>>
          \/ pc' = [pc EXCEPT ![p] = "exit"] /\ UNCHANGED <<cur, want>>
          \/ Returns(p)
      BY <1>1, Zenon DEF ReadLoop
    <3>2. /\ pc \in [Proc -> Points]
          /\ cur \in [Proc -> Nat] /\ want \in [Proc -> Nat]
      BY <1>0
    <3> QED BY <3>1, <3>2, ConstantFacts DEF Returns
  <2>7. event' \in [Proc -> Events \cup {None}]
    BY <1>0, <1>1, <2>1, ConstantFacts, Zenon DEF ReadLoop, Wakeup, WakeupAndSleep, q
  <2> QED BY <1>0, <2>3, <2>5, <2>6, <2>7
<1>2. CASE WriteLoop(p)
  <2> DEFINE q == pipePtr[fd[p][cur[p]]]
             k == Min({room[q], Len(todo[p])})
  <2>1. q \in Pipes
    BY <1>2, EndHeld, Zenon DEF WriteLoop, At
  <2>2. k \in Nat /\ k <= room[q] /\ k <= Len(todo[p])
    <3>1. room[q] \in Nat /\ Len(todo[p]) \in Nat
      BY <1>0, <2>1
    <3> QED BY <3>1, MinOfTwo, Zenon
  <2> HIDE DEF q, k
  <2>3. UNCHANGED <<fd, mode, refCount, pipePtr, busy, nreader, nwriter>>
    BY <1>2, Zenon DEF WriteLoop
  <2>4. \/ /\ data' = [data EXCEPT ![q] = @ + k]
           /\ room' = [room EXCEPT ![q] = @ - k]
           /\ todo' = [todo EXCEPT ![p] = SubSeq(@, k + 1, Len(@))]
        \/ UNCHANGED <<data, room, todo>>
    BY <1>2, Zenon DEF WriteLoop, q, k
  <2>5. data' \in [Pipes -> Nat] /\ room' \in [Pipes -> Nat]
    <3>1. /\ data \in [Pipes -> Nat] /\ room \in [Pipes -> Nat]
          /\ data[q] \in Nat /\ room[q] \in Nat
      BY <1>0, <2>1
    <3>2. data[q] + k \in Nat /\ room[q] - k \in Nat
      BY <2>2, <3>1
    <3> QED BY <2>1, <2>4, <3>1, <3>2, Zenon
  <2>6. /\ pc' \in [Proc -> Points]
        /\ cur' \in [Proc -> Nat] /\ want' \in [Proc -> Nat]
    <3>1. \/ UNCHANGED <<pc, cur, want>>
          \/ pc' = [pc EXCEPT ![p] = "exit"] /\ UNCHANGED <<cur, want>>
          \/ Returns(p)
      BY <1>2, Zenon DEF WriteLoop
    <3>2. /\ pc \in [Proc -> Points]
          /\ cur \in [Proc -> Nat] /\ want \in [Proc -> Nat]
      BY <1>0
    <3> QED BY <3>1, <3>2, ConstantFacts DEF Returns
  <2>7. event' \in [Proc -> Events \cup {None}]
    <3>1. event' = event \/ Wakeup(<<"data", q>>) \/ WakeupAndSleep(p, <<"data", q>>, <<"room", q>>)
      BY <1>2, Zenon DEF WriteLoop, q
    <3>2. event \in [Proc -> Events \cup {None}] /\ <<"room", q>> \in Events
      BY <1>0, <2>1, ConstantFacts
    <3> QED BY <3>1, <3>2 DEF Wakeup, WakeupAndSleep
  <2>8. todo' \in [Proc -> Seq(Byte)]
    <3>1. SubSeq(todo[p], k + 1, Len(todo[p])) \in Seq(Byte)
      <4>1. todo[p] \in Seq(Byte)
        BY <1>0
      <4>2. \A j \in (k + 1) .. Len(todo[p]) : todo[p][j] \in Byte
        BY <4>1, <2>2
      <4>3. k + 1 \in Int /\ Len(todo[p]) \in Int
        BY <4>1, <2>2
      <4> QED BY <4>2, <4>3, SubSeqProperties
    <3> QED BY <1>0, <2>4, <3>1
  <2> QED BY <1>0, <2>3, <2>5, <2>6, <2>7, <2>8
<1> QED BY <1>1, <1>2

LEMMA TypeStep ==
  ASSUME PipeInv, [Next]_vars PROVE PipeType'
<1> USE DEF PipeType
<1>0. PipeType
  BY DEF PipeInv
<1>1. CASE UNCHANGED vars
  BY <1>0, <1>1 DEF vars, oftVars, endVars, ringVars, callVars
<1> SUFFICES ASSUME NEW p \in Proc, Call(p) \/ Loop(p) \/ Kill(p)
             PROVE  PipeType'
  BY <1>1 DEF Next
<1> USE DEF ringVars, callVars, oftVars, endVars
<1>2. CASE MakePipe(p)
  <2>1. PICK q \in Pipes, o1 \in Ofts, o2 \in Ofts, i1 \in Fds, i2 \in Fds :
              MadeOf(p, q, o1, o2, i1, i2)
    BY <1>0, <1>2, NewPipe
  <2>2. UNCHANGED <<pc, event, cur, want, todo>>
    BY <1>2 DEF MakePipe
  <2>3. fd' \in FdTables
    BY <1>0, <2>1 DEF FdTables, MadeOf
  <2>4. refCount' \in [Ofts -> Nat] /\ pipePtr' \in [Ofts -> Pipes \cup {None}]
    BY <1>0, <2>1 DEF MadeOf
  <2>5. mode' \in [Ofts -> {"file", "READ_PIPE", "WRITE_PIPE"}]
    BY <1>0, <2>1 DEF MadeOf
  <2>6. nreader' \in [Pipes -> Int] /\ nwriter' \in [Pipes -> Int]
    BY <1>0, <2>1, ConstantFacts DEF MadeOf
  <2>7. busy' \in [Pipes -> BOOLEAN]
    BY <1>0, <2>1, ConstantFacts DEF MadeOf
  <2>8. data' \in [Pipes -> Nat] /\ room' \in [Pipes -> Nat]
    BY <1>0, <2>1, ConstantFacts DEF MadeOf
  <2> QED BY <1>0, <2>2, <2>3, <2>4, <2>5, <2>6, <2>7, <2>8
<1>3. CASE Exit(p)
  BY <1>0, <1>3, ConstantFacts DEF Exit
<1>4. ASSUME NEW i \in Fds, Close(p, i) PROVE PipeType'
  BY <1>4, CloseTypes DEF Close
<1>5. ASSUME NEW i \in Fds, Dup(p, i) PROVE PipeType'
  <2>1. FreeFds(p) # {} /\ FreeFds(p) \subseteq Fds /\ FreeFds(p) \subseteq Nat
    BY <1>5, ConstantFacts DEF Dup, FreeFds
  <2>2. Min(FreeFds(p)) \in Fds
    BY <2>1, MinOfNats
  <2>3. fd[p][i] \in Ofts /\ pipePtr[fd[p][i]] \in Pipes
    BY <1>5, Pointed DEF Dup
  <2>4. fd' \in FdTables
    BY <1>0, <1>5, <2>2, <2>3 DEF Dup, FdTables
  <2>5. refCount' \in [Ofts -> Nat]
    BY <1>0, <1>5, <2>3 DEF Dup
  <2>6. nreader' \in [Pipes -> Int]
    BY <1>0, <1>5, <2>3 DEF Dup
  <2>7. nwriter' \in [Pipes -> Int]
    BY <1>0, <1>5, <2>3 DEF Dup
  <2> QED BY <1>0, <1>5, <2>4, <2>5, <2>6, <2>7 DEF Dup
<1>6. ASSUME NEW c \in Proc, Fork(p, c) PROVE PipeType'
  <2>1. \A o \in Ofts : Refs(p, o) \in Nat
    BY HandlesFinite, FS_Subset, FS_CardinalityType DEF Refs
  <2>2. \A q \in Pipes : /\ Cardinality(Ends(p, q, "READ_PIPE")) \in Nat
                         /\ Cardinality(Ends(p, q, "WRITE_PIPE")) \in Nat
    BY HandlesFinite, FS_Subset, FS_CardinalityType DEF Ends
  <2>3. refCount' \in [Ofts -> Nat]
    BY <1>0, <1>6, <2>1 DEF Fork
  <2>4. nreader' \in [Pipes -> Int] /\ nwriter' \in [Pipes -> Int]
    <3>1. nreader \in [Pipes -> Int] /\ nwriter \in [Pipes -> Int]
      BY <1>0
    <3>2. /\ nreader' = [q \in Pipes |-> nreader[q] + Cardinality(Ends(p, q, "READ_PIPE"))]
          /\ nwriter' = [q \in Pipes |-> nwriter[q] + Cardinality(Ends(p, q, "WRITE_PIPE"))]
      BY <1>6 DEF Fork, CountEach
    <3> QED BY <2>2, <3>1, <3>2
  <2>5. fd' \in FdTables
    BY <1>0, <1>6 DEF Fork, FdTables
  <2>6. pc' \in [Proc -> Points]
    BY <1>0, <1>6, ConstantFacts DEF Fork
  <2> QED BY <1>0, <1>6, <2>3, <2>4, <2>5, <2>6 DEF Fork
<1>7. ASSUME NEW i \in Fds, NEW n \in 1..MaxBytes, Read(p, i, n) PROVE PipeType'
  <2>1. n \in Nat /\ i \in Nat
    BY ConstantFacts
  <2> QED BY <1>0, <1>7, <2>1, ConstantFacts DEF Read
<1>8. ASSUME NEW i \in Fds, NEW s \in Messages, Write(p, i, s) PROVE PipeType'
  <2>1. s \in Seq(Byte) /\ i \in Nat
    BY ConstantFacts, MessageFacts
  <2> QED BY <1>0, <1>8, <2>1, ConstantFacts DEF Write
<1>9. CASE ReadLoop(p) \/ WriteLoop(p)
  BY <1>9, LoopTypes
<1>11. CASE ExitClose(p)
  <2> DEFINE open == {i \in Fds : fd[p][i] # None}
  <2>1. open # {} /\ open \subseteq Nat /\ open \subseteq Fds
    BY <1>11, ConstantFacts DEF ExitClose
  <2>2. Min(open) \in Fds
    BY <2>1, MinOfNats
  <2> QED BY <1>11, <2>2, CloseTypes DEF ExitClose
<1>12. CASE ExitDone(p)
  BY <1>0, <1>12, ConstantFacts DEF ExitDone
<1>13. CASE Kill(p)
  BY <1>0, <1>13 DEF Kill, Wakeup
<1> QED BY <1>2, <1>3, <1>4, <1>5, <1>6, <1>7, <1>8, <1>9, <1>11, <1>12, <1>13 DEF Call, Loop

LEMMA EntriesKept ==
  ASSUME EntriesInv, UNCHANGED <<mode, pipePtr>>,
         \A o \in Ofts : refCount'[o] > 0 => refCount[o] > 0
  PROVE  EntriesInv'
BY DEF EntriesInv

LEMMA CountsFrame ==
  ASSUME PipeInv, UNCHANGED <<fd, oftVars, endVars>>
  PROVE  EntriesInv' /\ CountsInv'
<1>1. UNCHANGED <<fd, mode, refCount, pipePtr, busy, nreader, nwriter>>
  BY DEF oftVars, endVars
<1>2. \A S : Count(fd, S)' = Count(fd, S')
  BY <1>1 DEF Count, Pointing
<1>3. \A q : Readers(q)' = Readers(q) /\ Writers(q)' = Writers(q)
  BY <1>1 DEF Readers, Writers, Count, Pointing, EndOfts
<1>4. \A o : Count(fd, {o})' = Count(fd, {o})
  BY <1>1
<1> QED BY <1>1, <1>3, <1>4 DEF PipeInv, EntriesInv, CountsInv

LEMMA CloseCounts ==
  ASSUME PipeInv, NEW p \in Proc, NEW i \in Fds, CloseAny(p, i, None),
         UNCHANGED <<mode, pipePtr>>
  PROVE  EntriesInv' /\ CountsInv'
<1>a. PICK o : o = fd[p][i]
  OBVIOUS
<1>b. PICK q : q = pipePtr[o]
  OBVIOUS
<1> DEFINE reader == mode[o] = "READ_PIPE"
           last == refCount[o] = 1
<1>0. PipeType /\ EntriesInv /\ CountsInv
  BY DEF PipeInv
<1>1. \A S : S \subseteq Ofts =>
        Count(fd', S) = Count(fd, S) - (IF o \in S THEN 1 ELSE 0)
  <2>1. fd' = SetTo(fd, p, i, None)
    BY DEF CloseAny, ClosePipe, SetTo
  <2> TAKE S
  <2> HAVE S \subseteq Ofts
  <2>2. None \notin S /\ fd \in FdTables
    BY <1>0, ConstantFacts DEF PipeType
  <2>3. Count(SetTo(fd, p, i, None), S)
          = Count(fd, S) - (IF fd[p][i] \in S THEN 1 ELSE 0)
                         + (IF None \in S THEN 1 ELSE 0)
    BY <2>2, SetCount
  <2>4. Count(fd, S) \in Nat
    BY CountType
  <2> QED BY <1>a, <2>1, <2>2, <2>3, <2>4
<1>2. \A r \in Ofts : Count(fd', {r}) = Count(fd, {r}) - (IF r = o THEN 1 ELSE 0)
  <2> TAKE r \in Ofts
  <2>1. {r} \subseteq Ofts /\ (o \in {r} <=> r = o)
    OBVIOUS
  <2> QED BY <1>1, <2>1
<1>3. \A x, end : EndOfts(x, end) \subseteq Ofts /\ EndOfts(x, end)' = EndOfts(x, end)
  BY DEF EndOfts
<1>4. \A x : /\ Readers(x)' = Readers(x) - (IF o \in EndOfts(x, "READ_PIPE") THEN 1 ELSE 0)
             /\ Writers(x)' = Writers(x) - (IF o \in EndOfts(x, "WRITE_PIPE") THEN 1 ELSE 0)
  <2> QED BY <1>1, <1>3 DEF Readers, Writers
<1>5. \A x : Readers(x) \in Nat /\ Writers(x) \in Nat
  BY ReaderWriterTypes
<1>6. CASE o \notin Ofts
  <2>1. UNCHANGED <<busy, nreader, nwriter>>
    BY <1>a, <1>6 DEF CloseAny, endVars
  <2>2. \A r \in Ofts : refCount'[r] = refCount[r]
    <3>1. refCount' = [r \in Ofts |-> refCount[r] + (IF r = None THEN 1 ELSE 0)]
      BY <1>a, <1>6 DEF CloseAny
    <3>2. refCount \in [Ofts -> Nat]
      BY <1>0 DEF PipeType
    <3> QED BY <3>1, <3>2, ConstantFacts
  <2>3. \A r \in Ofts : Count(fd', {r}) = Count(fd, {r})
    <3> TAKE r \in Ofts
    <3>1. Count(fd, {r}) \in Nat /\ r # o
      BY <1>6, CountType
    <3> QED BY <1>2, <3>1
  <2>4. \A x : Readers(x)' = Readers(x) /\ Writers(x)' = Writers(x)
    <3>1. \A x : o \notin EndOfts(x, "READ_PIPE") /\ o \notin EndOfts(x, "WRITE_PIPE")
      BY <1>3, <1>6
    <3> QED BY <1>4, <1>5, <3>1
  <2>5. EntriesInv'
    BY <1>0, <2>2, EntriesKept
  <2>6. CountsInv'
    BY <1>0, <2>1, <2>2, <2>3, <2>4 DEF CountsInv
  <2> QED BY <2>5, <2>6
<1>7. CASE o \in Ofts
  <2>1. /\ refCount[o] > 0 /\ mode[o] \in {"READ_PIPE", "WRITE_PIPE"}
        /\ q \in Pipes /\ Count(fd, EndOfts(q, mode[o])) = refCount[o] /\ busy[q]
    BY <1>a, <1>b, <1>7, Pointed
  <2>2. ClosePipe(p, i, None)
    BY <1>a, <1>7 DEF CloseAny
  <2>3. \A r \in Ofts : refCount'[r] = refCount[r] - (IF r = o THEN 1 ELSE 0)
    <3>1. refCount' = [r \in Ofts |-> refCount[r] - (IF r = o THEN 1 ELSE 0)
                                                  + (IF r = None THEN 1 ELSE 0)]
      BY <1>a, <2>2 DEF ClosePipe
    <3>2. \A r \in Ofts : refCount[r] \in Nat /\ r # None
      BY <1>0, ConstantFacts DEF PipeType
    <3> QED BY <3>1, <3>2
  <2>4. /\ nreader' = IF reader THEN [nreader EXCEPT ![q] = @ - 1] ELSE nreader
        /\ nwriter' = IF reader THEN nwriter ELSE [nwriter EXCEPT ![q] = @ - 1]
        /\ \/ /\ last /\ (IF reader THEN nwriter[q] ELSE nreader[q]) <= 0
              /\ busy' = [busy EXCEPT ![q] = FALSE]
           \/ /\ ~ (last /\ (IF reader THEN nwriter[q] ELSE nreader[q]) <= 0)
              /\ UNCHANGED busy
    BY <1>a, <1>b, <2>2 DEF ClosePipe, DownOne
  <2>5. \A x : /\ o \in EndOfts(x, "READ_PIPE") <=> reader /\ x = q
               /\ o \in EndOfts(x, "WRITE_PIPE") <=> ~ reader /\ x = q
    BY <1>b, <1>7, <2>1 DEF EndOfts
  <2>6. IF reader THEN Readers(q) = refCount[o] ELSE Writers(q) = refCount[o]
    BY <2>1 DEF Readers, Writers
  <2>7. /\ nreader[q] = Readers(q) /\ nwriter[q] = Writers(q)
        /\ \A x \in Pipes :
             /\ busy[x] => nreader[x] = Readers(x) /\ nwriter[x] = Writers(x)
             /\ busy[x] <=> Readers(x) > 0 \/ Writers(x) > 0
        /\ \A r \in Ofts : refCount[r] = Count(fd, {r}) /\ refCount[r] \in Nat
    BY <1>0, <2>1 DEF CountsInv, PipeType
  <2>8. nreader \in [Pipes -> Int] /\ nwriter \in [Pipes -> Int] /\ busy \in [Pipes -> BOOLEAN]
    BY <1>0 DEF PipeType
  <2>9. \A r \in Ofts : refCount'[r] = Count(fd', {r})
    <3> TAKE r \in Ofts
    <3>1. Count(fd, {r}) \in Nat
      BY CountType
    <3> QED BY <1>2, <2>3, <2>7, <3>1
  <2> HIDE DEF reader, last
  <2>10. \A x : /\ Readers(x)' = Readers(x) - (IF reader /\ x = q THEN 1 ELSE 0)
                /\ Writers(x)' = Writers(x) - (IF ~ reader /\ x = q THEN 1 ELSE 0)
    BY <1>4, <2>5
  <2>11. EntriesInv'
    <3>1. ASSUME NEW r \in Ofts PROVE refCount'[r] > 0 => refCount[r] > 0
      <4>1. refCount[r] \in Nat
        BY <2>7
      <4>2. refCount'[r] = refCount[r] - (IF r = o THEN 1 ELSE 0)
        BY <2>3
      <4> QED BY <4>1, <4>2
    <3> QED BY <1>0, <3>1, EntriesKept
  <2>12. ASSUME NEW x \in Pipes, x # q
         PROVE  /\ busy'[x] => nreader'[x] = Readers(x)' /\ nwriter'[x] = Writers(x)'
                /\ busy'[x] <=> Readers(x)' > 0 \/ Writers(x)' > 0
    <3>1. Readers(x)' = Readers(x) /\ Writers(x)' = Writers(x)
      BY <1>5, <2>10, <2>12
    <3>2. busy'[x] = busy[x] /\ nreader'[x] = nreader[x] /\ nwriter'[x] = nwriter[x]
      BY <2>4, <2>8, <2>12
    <3> QED BY <2>7, <3>1, <3>2
  <2>13. /\ busy'[q] => nreader'[q] = Readers(q)' /\ nwriter'[q] = Writers(q)'
         /\ busy'[q] <=> Readers(q)' > 0 \/ Writers(q)' > 0
    <3>1. nreader'[q] = Readers(q)' /\ nwriter'[q] = Writers(q)'
      BY <1>5, <2>1, <2>4, <2>7, <2>8, <2>10
    <3>2. busy'[q] <=> ~ (last /\ (IF reader THEN Writers(q) ELSE Readers(q)) <= 0)
      BY <2>1, <2>4, <2>7, <2>8
    <3>3. refCount[o] \in Nat /\ refCount[o] > 0 /\ (last <=> refCount[o] = 1)
      BY <1>7, <2>1, <2>7 DEF last
    <3> QED BY <1>5, <2>6, <2>10, <3>1, <3>2, <3>3
  <2>14. CountsInv'
    <3>1. \A x \in Pipes :
            /\ busy'[x] => nreader'[x] = Readers(x)' /\ nwriter'[x] = Writers(x)'
            /\ busy'[x] <=> Readers(x)' > 0 \/ Writers(x)' > 0
      BY <2>12, <2>13
    <3> QED BY <2>9, <3>1 DEF CountsInv
  <2> QED BY <2>11, <2>14
<1> QED BY <1>6, <1>7

LEMMA DupCounts ==
  ASSUME PipeInv, NEW p \in Proc, NEW i \in Fds, Dup(p, i)
  PROVE  EntriesInv' /\ CountsInv'
<1>a. PICK o : o = fd[p][i]
  OBVIOUS
<1>b. PICK q : q = pipePtr[o]
  OBVIOUS
<1>0. PipeType /\ EntriesInv /\ CountsInv
  BY DEF PipeInv
<1>1. o \in Ofts
  BY <1>a DEF Dup
<1>2. /\ refCount[o] > 0 /\ mode[o] \in {"READ_PIPE", "WRITE_PIPE"}
      /\ q \in Pipes /\ busy[q]
  BY <1>a, <1>b, <1>1, Pointed
<1>3. PICK k \in Fds : fd[p][k] = None /\ fd' = [fd EXCEPT ![p][k] = o]
  <2>1. FreeFds(p) # {} /\ FreeFds(p) \subseteq Nat
        /\ \A k \in FreeFds(p) : k \in Fds /\ fd[p][k] = None
    BY ConstantFacts DEF Dup, FreeFds
  <2>2. Min(FreeFds(p)) \in FreeFds(p)
    BY <2>1, MinOfNats
  <2>3. fd' = [fd EXCEPT ![p][Min(FreeFds(p))] = o]
    BY <1>a DEF Dup
  <2> QED BY <2>1, <2>2, <2>3
<1>4. UNCHANGED <<mode, pipePtr, busy>>
  BY DEF Dup
<1>5. \A S : S \subseteq Ofts => Count(fd', S) = Count(fd, S) + (IF o \in S THEN 1 ELSE 0)
  <2> TAKE S
  <2> HAVE S \subseteq Ofts
  <2>1. fd \in FdTables /\ None \notin S
    BY <1>0, ConstantFacts DEF PipeType
  <2>2. Count(SetTo(fd, p, k, o), S)
          = Count(fd, S) - (IF fd[p][k] \in S THEN 1 ELSE 0) + (IF o \in S THEN 1 ELSE 0)
    BY <1>1, <2>1, SetCount
  <2>3. Count(fd, S) \in Nat
    BY CountType
  <2> QED BY <1>3, <2>1, <2>2, <2>3 DEF SetTo
<1>6. \A r \in Ofts : refCount'[r] = Count(fd', {r}) /\ (refCount'[r] > 0 => refCount[r] > 0)
  <2> TAKE r \in Ofts
  <2>1. refCount[r] \in Nat /\ refCount[r] = Count(fd, {r}) /\ refCount \in [Ofts -> Nat]
    BY <1>0 DEF CountsInv, PipeType
  <2>2. refCount' = [refCount EXCEPT ![o] = @ + 1]
    BY <1>a DEF Dup
  <2>3. refCount'[r] = refCount[r] + (IF o = r THEN 1 ELSE 0)
    BY <2>1, <2>2
  <2>4. {r} \subseteq Ofts /\ (o \in {r} <=> o = r)
    OBVIOUS
  <2>5. Count(fd', {r}) = Count(fd, {r}) + (IF o = r THEN 1 ELSE 0)
    BY <1>5, <2>4
  <2> QED BY <1>2, <2>1, <2>3, <2>5
<1>7. EntriesInv'
  BY <1>0, <1>4, <1>6, EntriesKept
<1>8. \A x, end : EndOfts(x, end) \subseteq Ofts /\ EndOfts(x, end)' = EndOfts(x, end)
  BY <1>4 DEF EndOfts
<1>9. \A x : /\ Readers(x)' = Readers(x) + (IF o \in EndOfts(x, "READ_PIPE") THEN 1 ELSE 0)
             /\ Writers(x)' = Writers(x) + (IF o \in EndOfts(x, "WRITE_PIPE") THEN 1 ELSE 0)
  BY <1>5, <1>8 DEF Readers, Writers
<1>10. \A x : /\ o \in EndOfts(x, "READ_PIPE") <=> mode[o] = "READ_PIPE" /\ x = q
              /\ o \in EndOfts(x, "WRITE_PIPE") <=> mode[o] = "WRITE_PIPE" /\ x = q
  BY <1>b, <1>1 DEF EndOfts
<1>11. /\ nreader' = [nreader EXCEPT ![q] = @ + (IF mode[o] = "READ_PIPE" THEN 1 ELSE 0)]
       /\ nwriter' = [nwriter EXCEPT ![q] = @ + (IF mode[o] = "WRITE_PIPE" THEN 1 ELSE 0)]
  BY <1>a, <1>b DEF Dup
<1>12. \A x \in Pipes :
         /\ busy'[x] => nreader'[x] = Readers(x)' /\ nwriter'[x] = Writers(x)'
         /\ busy'[x] <=> Readers(x)' > 0 \/ Writers(x)' > 0
  <2> TAKE x \in Pipes
  <2>1. /\ busy[x] => nreader[x] = Readers(x) /\ nwriter[x] = Writers(x)
        /\ busy[x] <=> Readers(x) > 0 \/ Writers(x) > 0
        /\ nreader \in [Pipes -> Int] /\ nwriter \in [Pipes -> Int]
    BY <1>0 DEF CountsInv, PipeType
  <2>2. Readers(x) \in Nat /\ Writers(x) \in Nat
    BY ReaderWriterTypes
  <2>3. CASE x = q
    <3>1. /\ nreader'[x] = nreader[x] + (IF mode[o] = "READ_PIPE" THEN 1 ELSE 0)
          /\ nwriter'[x] = nwriter[x] + (IF mode[o] = "WRITE_PIPE" THEN 1 ELSE 0)
      BY <1>11, <2>1, <2>3
    <3>2. /\ Readers(x)' = Readers(x) + (IF mode[o] = "READ_PIPE" THEN 1 ELSE 0)
          /\ Writers(x)' = Writers(x) + (IF mode[o] = "WRITE_PIPE" THEN 1 ELSE 0)
      BY <1>9, <1>10, <2>3
    <3> QED BY <1>2, <1>4, <2>1, <2>2, <2>3, <3>1, <3>2
  <2>4. CASE x # q
    <3>1. nreader'[x] = nreader[x] /\ nwriter'[x] = nwriter[x]
      BY <1>11, <2>1, <2>4
    <3>2. Readers(x)' = Readers(x) /\ Writers(x)' = Writers(x)
      BY <1>9, <1>10, <2>2, <2>4
    <3> QED BY <1>4, <2>1, <3>1, <3>2
  <2> QED BY <2>3, <2>4
<1> QED BY <1>6, <1>7, <1>12 DEF CountsInv

LEMMA ForkCounts ==
  ASSUME PipeInv, NEW p \in Proc, NEW c \in Proc, Fork(p, c)
  PROVE  EntriesInv' /\ CountsInv'
<1>0. PipeType /\ EntriesInv /\ CountsInv /\ UseInv
  BY DEF PipeInv
<1>1. UNCHANGED <<mode, pipePtr, busy>> /\ fd' = [fd EXCEPT ![c] = fd[p]]
  BY DEF Fork
<1>2. \A S : S \subseteq Ofts =>
        /\ Count(fd', S) = Count(fd, S) + Cardinality(Own(fd, p, S))
        /\ Pointing(fd', S) = {} <=> Pointing(fd, S) = {}
  <2> TAKE S
  <2> HAVE S \subseteq Ofts
  <2>1. fd \in FdTables
    BY <1>0 DEF PipeType
  <2>2. \A i \in Fds : fd[c][i] \notin S
    BY <1>0, ConstantFacts DEF UseInv, UseOf, Fork
  <2>3. /\ Count([fd EXCEPT ![c] = fd[p]], S)
             = Count(fd, S) + Cardinality(Own(fd, p, S))
        /\ Pointing([fd EXCEPT ![c] = fd[p]], S) = {} <=> Pointing(fd, S) = {}
    BY <2>1, <2>2, CountCopy
  <2> QED BY <1>1, <2>3
<1>3. \A S : S \subseteq Ofts => (Count(fd', S) > 0 <=> Count(fd, S) > 0)
  <2> TAKE S
  <2> HAVE S \subseteq Ofts
  <2>1. /\ Count(fd', S) \in Nat /\ (Count(fd', S) = 0 <=> Pointing(fd', S) = {})
        /\ Count(fd, S) \in Nat /\ (Count(fd, S) = 0 <=> Pointing(fd, S) = {})
    BY CountType
  <2>2. Pointing(fd', S) = {} <=> Pointing(fd, S) = {}
    BY <1>2
  <2>3. Count(fd', S) = 0 <=> Count(fd, S) = 0
    BY <2>1, <2>2
  <2> QED BY <2>1, <2>3
<1>4. \A r \in Ofts : refCount'[r] = Count(fd', {r}) /\ (refCount'[r] > 0 => refCount[r] > 0)
  <2> TAKE r \in Ofts
  <2>1. refCount[r] = Count(fd, {r})
    BY <1>0 DEF CountsInv
  <2>2. refCount'[r] = refCount[r] + Refs(p, r)
    BY DEF Fork
  <2>3. {r} \subseteq Ofts /\ Own(fd, p, {r}) = {i \in Fds : fd[p][i] = r}
    BY DEF Own
  <2>4. refCount'[r] = Count(fd', {r})
    BY <1>2, <2>1, <2>2, <2>3 DEF Refs
  <2>5. Count(fd', {r}) > 0 <=> Count(fd, {r}) > 0
    BY <1>3, <2>3
  <2> QED BY <2>1, <2>4, <2>5
<1>5. EntriesInv'
  BY <1>0, <1>1, <1>4, EntriesKept
<1>6. \A x, end : /\ EndOfts(x, end) \subseteq Ofts /\ EndOfts(x, end)' = EndOfts(x, end)
                  /\ Own(fd, p, EndOfts(x, end)) = Ends(p, x, end)
  BY <1>1 DEF Own, EndOfts, Ends
<1>7. \A x : /\ Readers(x)' = Readers(x) + Cardinality(Ends(p, x, "READ_PIPE"))
             /\ Writers(x)' = Writers(x) + Cardinality(Ends(p, x, "WRITE_PIPE"))
             /\ Readers(x)' > 0 <=> Readers(x) > 0
             /\ Writers(x)' > 0 <=> Writers(x) > 0
  <2> TAKE x
  <2>1. /\ Count(fd', EndOfts(x, "READ_PIPE")) = Readers(x)'
        /\ Count(fd', EndOfts(x, "WRITE_PIPE")) = Writers(x)'
    BY <1>6 DEF Readers, Writers
  <2> QED BY <1>2, <1>3, <1>6, <2>1 DEF Readers, Writers
<1>8. \A x \in Pipes :
         /\ busy'[x] => nreader'[x] = Readers(x)' /\ nwriter'[x] = Writers(x)'
         /\ busy'[x] <=> Readers(x)' > 0 \/ Writers(x)' > 0
  <2> TAKE x \in Pipes
  <2>1. /\ nreader'[x] = nreader[x] + Cardinality(Ends(p, x, "READ_PIPE"))
        /\ nwriter'[x] = nwriter[x] + Cardinality(Ends(p, x, "WRITE_PIPE"))
    BY DEF Fork, CountEach
  <2>2. /\ busy[x] => nreader[x] = Readers(x) /\ nwriter[x] = Writers(x)
        /\ busy[x] <=> Readers(x) > 0 \/ Writers(x) > 0
    BY <1>0 DEF CountsInv
  <2> QED BY <1>1, <1>7, <2>1, <2>2
<1> QED BY <1>4, <1>5, <1>8 DEF CountsInv

(* Nobody points to an entry that is not in use, or to an end of a free pipe. *)
LEMMA Unused ==
  ASSUME PipeInv, NEW x \in Handle
  PROVE  /\ \A o \in Ofts : refCount[o] = 0 => fd[x[1]][x[2]] # o
         /\ \A q \in Pipes, end \in {"READ_PIPE", "WRITE_PIPE"} :
              ~ busy[q] => fd[x[1]][x[2]] \notin EndOfts(q, end)
<1>1. ASSUME NEW o \in Ofts, fd[x[1]][x[2]] = o PROVE ~ (refCount[o] = 0)
  <2>1. refCount[o] > 0
    BY <1>1, InUse
  <2> QED BY <2>1
<1>2. ASSUME NEW q \in Pipes, NEW end \in {"READ_PIPE", "WRITE_PIPE"}, ~ busy[q]
      PROVE  fd[x[1]][x[2]] \notin EndOfts(q, end)
  <2>1. ~ (Count(fd, EndOfts(q, end)) > 0)
    BY <1>2 DEF PipeInv, CountsInv, Readers, Writers
  <2>2. Pointing(fd, EndOfts(q, end)) = {}
    <3>1. /\ Count(fd, EndOfts(q, end)) \in Nat
          /\ Count(fd, EndOfts(q, end)) = 0 <=> Pointing(fd, EndOfts(q, end)) = {}
      BY CountType
    <3> QED BY <2>1, <3>1
  <2> QED BY <2>2 DEF Pointing
<1> QED BY <1>1, <1>2

(* A new pipe's two entries are counted once each. *)
LEMMA MadeCount ==
  ASSUME fd \in FdTables, NEW p \in Proc, NEW q \in Pipes, NEW o1 \in Ofts, NEW o2 \in Ofts,
         NEW i1 \in Fds, NEW i2 \in Fds, MadeOf(p, q, o1, o2, i1, i2)
  PROVE  \A S : S \subseteq Ofts =>
           Count(fd', S) = Count(fd, S) + (IF o1 \in S THEN 1 ELSE 0)
                                        + (IF o2 \in S THEN 1 ELSE 0)
<1> TAKE S
<1> HAVE S \subseteq Ofts
<1> DEFINE f == SetTo(fd, p, i1, o1)
<1>1. None \notin S /\ i1 # i2 /\ fd[p][i1] = None /\ fd[p][i2] = None
  BY ConstantFacts DEF MadeOf
<1>2. /\ f \in FdTables
      /\ Count(f, S) = Count(fd, S) - (IF fd[p][i1] \in S THEN 1 ELSE 0)
                                    + (IF o1 \in S THEN 1 ELSE 0)
  BY SetCount
<1>3. f[p][i2] = None
  BY <1>1 DEF FdTables, SetTo
<1>4. fd' = SetTo(f, p, i2, o2)
  BY DEF MadeOf, SetTo
<1> HIDE DEF f
<1>5. Count(SetTo(f, p, i2, o2), S)
        = Count(f, S) - (IF f[p][i2] \in S THEN 1 ELSE 0) + (IF o2 \in S THEN 1 ELSE 0)
  BY <1>2, SetCount
<1>6. Count(fd, S) \in Nat /\ Count(f, S) \in Nat
  BY CountType
<1>7. Count(f, S) = Count(fd, S) + (IF o1 \in S THEN 1 ELSE 0)
  BY <1>1, <1>2, <1>6
<1>8. Count(fd', S) = Count(f, S) + (IF o2 \in S THEN 1 ELSE 0)
  BY <1>1, <1>3, <1>4, <1>5, <1>6
<1> QED BY <1>7, <1>8

LEMMA MakeCounts ==
  ASSUME PipeInv, NEW p \in Proc, MakePipe(p)
  PROVE  EntriesInv' /\ CountsInv'
<1>0. PipeType /\ EntriesInv /\ CountsInv
  BY DEF PipeInv
<1>1. PICK q \in Pipes, o1 \in Ofts, o2 \in Ofts, i1 \in Fds, i2 \in Fds :
        MadeOf(p, q, o1, o2, i1, i2)
  BY <1>0, NewPipe
<1>2. /\ ~ busy[q] /\ o1 # o2 /\ refCount[o1] = 0 /\ refCount[o2] = 0
      /\ i1 # i2 /\ fd[p][i1] = None /\ fd[p][i2] = None
  BY <1>1 DEF MadeOf
<1>3. /\ fd \in FdTables /\ refCount \in [Ofts -> Nat]
      /\ mode \in [Ofts -> {"file", "READ_PIPE", "WRITE_PIPE"}]
      /\ pipePtr \in [Ofts -> Pipes \cup {None}]
      /\ nreader \in [Pipes -> Int] /\ nwriter \in [Pipes -> Int]
      /\ busy \in [Pipes -> BOOLEAN]
  BY <1>0 DEF PipeType
<1>4. \A S : S \subseteq Ofts =>
        Count(fd', S) = Count(fd, S) + (IF o1 \in S THEN 1 ELSE 0) + (IF o2 \in S THEN 1 ELSE 0)
  BY <1>1, <1>3, MadeCount
<1>5. \A r \in Ofts : refCount'[r] = Count(fd', {r})
  <2> TAKE r \in Ofts
  <2>1. refCount[r] = Count(fd, {r}) /\ refCount[r] \in Nat
    BY <1>0, <1>3 DEF CountsInv
  <2>2. refCount'[r] = IF r = o1 \/ r = o2 THEN 1 ELSE refCount[r]
    BY <1>1, <1>3 DEF MadeOf
  <2>3. {r} \subseteq Ofts /\ (o1 \in {r} <=> r = o1) /\ (o2 \in {r} <=> r = o2)
    OBVIOUS
  <2>4. Count(fd', {r}) = Count(fd, {r}) + (IF r = o1 THEN 1 ELSE 0) + (IF r = o2 THEN 1 ELSE 0)
    BY <1>4, <2>3
  <2> QED BY <1>2, <2>1, <2>2, <2>4
<1>6. /\ mode' \in [Ofts -> {"file", "READ_PIPE", "WRITE_PIPE"}]
      /\ mode'[o1] = "READ_PIPE" /\ mode'[o2] = "WRITE_PIPE"
      /\ \A r \in Ofts \ {o1, o2} : mode'[r] = mode[r]
  BY <1>1, <1>2, <1>3 DEF MadeOf
<1>7. /\ pipePtr'[o1] = q /\ pipePtr'[o2] = q
      /\ \A r \in Ofts \ {o1, o2} : pipePtr'[r] = pipePtr[r]
  BY <1>1, <1>2, <1>3 DEF MadeOf
<1>8. /\ refCount'[o1] = 1 /\ refCount'[o2] = 1
      /\ \A r \in Ofts \ {o1, o2} : refCount'[r] = refCount[r]
  BY <1>1, <1>2, <1>3 DEF MadeOf
<1>9. ASSUME NEW r \in Ofts \ {o1, o2}, refCount[r] > 0 PROVE pipePtr[r] # q
  <2>1. mode[r] \in {"READ_PIPE", "WRITE_PIPE"} /\ pipePtr[r] \in Pipes
    BY <1>0, <1>9 DEF EntriesInv
  <2>2. Count(fd, {r}) \in Nat /\ Count(fd, {r}) # 0
    BY <1>0, <1>9, CountType DEF CountsInv
  <2>3. PICK x \in Handle : fd[x[1]][x[2]] = r
    BY <2>2, CountType DEF Pointing
  <2> QED BY <1>2, <2>1, <2>3, Unused DEF EndOfts
<1>10. EntriesInv'
  <2>1. \A o \in Ofts : refCount'[o] > 0 =>
          mode'[o] \in {"READ_PIPE", "WRITE_PIPE"} /\ pipePtr'[o] \in Pipes
    BY <1>0, <1>6, <1>7, <1>8 DEF EntriesInv
  <2>2. ASSUME NEW r1 \in Ofts, NEW r2 \in Ofts, refCount'[r1] > 0, refCount'[r2] > 0,
               mode'[r1] = mode'[r2], pipePtr'[r1] = pipePtr'[r2]
        PROVE  r1 = r2
    <3>1. CASE r1 \in {o1, o2} /\ r2 \in {o1, o2}
      BY <2>2, <3>1, <1>6
    <3>2. CASE r1 \notin {o1, o2} /\ r2 \notin {o1, o2}
      BY <1>0, <2>2, <3>2, <1>6, <1>7, <1>8 DEF EntriesInv
    <3>3. CASE r1 \in {o1, o2} /\ r2 \notin {o1, o2}
      BY <2>2, <3>3, <1>7, <1>8, <1>9
    <3>4. CASE r1 \notin {o1, o2} /\ r2 \in {o1, o2}
      BY <2>2, <3>4, <1>7, <1>8, <1>9
    <3> QED BY <3>1, <3>2, <3>3, <3>4
  <2> QED BY <2>1, <2>2 DEF EntriesInv
<1>11. ASSUME NEW x \in Pipes, NEW end \in {"READ_PIPE", "WRITE_PIPE"}
       PROVE  /\ Count(fd', EndOfts(x, end)') = Count(fd, EndOfts(x, end)) + (IF x = q THEN 1 ELSE 0)
              /\ x = q => Count(fd, EndOfts(x, end)) = 0
  <2> DEFINE S == EndOfts(x, end)'
             T == EndOfts(x, end)
  <2>1. /\ S \subseteq Ofts
        /\ o1 \in S <=> x = q /\ end = "READ_PIPE"
        /\ o2 \in S <=> x = q /\ end = "WRITE_PIPE"
        /\ \A r \in Ofts \ {o1, o2} : r \in S <=> r \in T
    BY <1>6, <1>7 DEF EndOfts
  <2>2. T \subseteq Ofts
    BY DEF EndOfts
  <2>3. \A y \in Handle : fd[y[1]][y[2]] # o1 /\ fd[y[1]][y[2]] # o2
    BY <1>2, Unused
  <2> HIDE DEF S, T
  <2>4. Pointing(fd, S) = Pointing(fd, T)
    BY <2>1, <2>2, <2>3 DEF Pointing
  <2>5. Count(fd, S) = Count(fd, T) /\ Count(fd, T) \in Nat
    BY <2>4, CountType DEF Count
  <2>6. Count(fd', S) = Count(fd, S) + (IF o1 \in S THEN 1 ELSE 0) + (IF o2 \in S THEN 1 ELSE 0)
    BY <1>4, <2>1
  <2>7. Count(fd', S) = Count(fd, T) + (IF x = q THEN 1 ELSE 0)
    BY <2>1, <2>5, <2>6
  <2>8. x = q => Count(fd, T) = 0
    <3>1. ASSUME x = q PROVE Pointing(fd, T) = {}
      BY <1>2, <3>1, Unused DEF T, Pointing
    <3> QED BY <3>1, CountType
  <2> QED BY <2>7, <2>8 DEF S, T
<1>12. \A x \in Pipes :
         /\ Readers(x)' = Readers(x) + (IF x = q THEN 1 ELSE 0)
         /\ Writers(x)' = Writers(x) + (IF x = q THEN 1 ELSE 0)
         /\ x = q => Readers(x) = 0 /\ Writers(x) = 0
         /\ Readers(x) \in Nat /\ Writers(x) \in Nat
  <2> TAKE x \in Pipes
  <2>1. Readers(x) \in Nat /\ Writers(x) \in Nat
    BY ReaderWriterTypes
  <2> QED BY <1>11, <2>1 DEF Readers, Writers
<1>13. \A x \in Pipes :
         /\ busy'[x] => nreader'[x] = Readers(x)' /\ nwriter'[x] = Writers(x)'
         /\ busy'[x] <=> Readers(x)' > 0 \/ Writers(x)' > 0
  <2> TAKE x \in Pipes
  <2>1. CASE x = q
    <3>1. busy'[x] = TRUE /\ nreader'[x] = 1 /\ nwriter'[x] = 1
      BY <1>1, <1>3, <2>1 DEF MadeOf
    <3>2. Readers(x)' = 1 /\ Writers(x)' = 1
      BY <1>12, <2>1
    <3> QED BY <3>1, <3>2
  <2>2. CASE x # q
    <3>1. busy'[x] = busy[x] /\ nreader'[x] = nreader[x] /\ nwriter'[x] = nwriter[x]
      BY <1>1, <1>3, <2>2 DEF MadeOf
    <3>2. Readers(x)' = Readers(x) /\ Writers(x)' = Writers(x)
      BY <1>12, <2>2
    <3>3. /\ busy[x] => nreader[x] = Readers(x) /\ nwriter[x] = Writers(x)
          /\ busy[x] <=> Readers(x) > 0 \/ Writers(x) > 0
      BY <1>0 DEF CountsInv
    <3> QED BY <3>1, <3>2, <3>3
  <2> QED BY <2>1, <2>2
<1> QED BY <1>5, <1>10, <1>13 DEF CountsInv

LEMMA UseKept ==
  ASSUME UseInv, NEW r \in Proc,
         fd'[r] = fd[r], cur'[r] = cur[r], pc'[r] = pc[r], event'[r] \in {event[r], None},
         LET o == fd[r][cur[r]]
         IN  pc[r] \in {"read", "write"} => mode'[o] = mode[o] /\ pipePtr'[o] = pipePtr[o]
  PROVE  UseOf(r)'
<1> USE DEF UseOf
<1>1. UseOf(r)
  BY DEF UseInv
<1>2. InEnd(r, "read", "READ_PIPE")' /\ InEnd(r, "write", "WRITE_PIPE")'
  BY <1>1 DEF InEnd
<1>3. \A q \in Pipes : None # <<"data", q>> /\ None # <<"room", q>>
  BY ConstantFacts
<1>4. SleepsIn(r, "data", "read")' /\ SleepsIn(r, "room", "write")'
  BY <1>1, <1>3 DEF SleepsIn
<1>5. pc'[r] = "none" => \A i \in Fds : fd'[r][i] = None
  BY <1>1
<1> QED BY <1>2, <1>4, <1>5

LEMMA UseIdle ==
  ASSUME NEW r \in Proc, event'[r] = None,
         \/ pc'[r] \in {"user", "exit"}
         \/ pc'[r] = "none" /\ \A i \in Fds : fd'[r][i] = None
  PROVE  UseOf(r)'
<1>1. \A q \in Pipes : None # <<"data", q>> /\ None # <<"room", q>>
  BY ConstantFacts
<1> QED BY <1>1 DEF UseOf, InEnd, SleepsIn

(* What CloseAny leaves to others. *)
LEMMA CloseUse ==
  ASSUME PipeInv, NEW p \in Proc, NEW i \in Fds, CloseAny(p, i, None),
         UNCHANGED <<mode, pipePtr, pc, cur>>, pc[p] \in {"user", "exit"}, event[p] = None
  PROVE  UseInv'
<1>1. \A r \in Proc : event'[r] \in {event[r], None}
  BY DEF PipeInv, PipeType, CloseAny, ClosePipe, WakeOther, Wakeup
<1>2. fd' = [fd EXCEPT ![p][i] = None]
  BY DEF CloseAny, ClosePipe
<1>3. ASSUME NEW r \in Proc PROVE UseOf(r)'
  <2>1. CASE r = p
    <3>1. event'[r] = None /\ pc'[r] \in {"user", "exit"}
      BY <1>1, <2>1
    <3> QED BY <3>1, UseIdle
  <2>2. CASE r # p
    <3>1. fd'[r] = fd[r]
      BY <1>2, <2>2 DEF PipeInv, PipeType, FdTables
    <3> QED BY <1>1, <3>1, UseKept DEF PipeInv
  <2> QED BY <2>1, <2>2
<1> QED BY <1>3 DEF UseInv

LEMMA LoopUse ==
  ASSUME PipeInv, NEW p \in Proc, ReadLoop(p) \/ WriteLoop(p)
  PROVE  UseInv'
<1>a. PICK q : q = pipePtr[fd[p][cur[p]]]
  OBVIOUS
<1>0. /\ UseInv /\ fd \in FdTables /\ pc \in [Proc -> Points]
      /\ event \in [Proc -> Events \cup {None}] /\ cur \in [Proc -> Nat]
  BY DEF PipeInv, PipeType
<1>1. /\ UNCHANGED <<fd, mode, pipePtr>> /\ event[p] = None
      /\ (pc[p] = "read" /\ ReadLoop(p)) \/ (pc[p] = "write" /\ WriteLoop(p))
  BY Zenon DEF ReadLoop, WriteLoop, At, oftVars
<1>2. \/ /\ pc' = [pc EXCEPT ![p] = "user"] /\ cur' = [cur EXCEPT ![p] = 0]
         /\ \E e \in Events : UNCHANGED event \/ Wakeup(e)
      \/ /\ pc' = [pc EXCEPT ![p] = "exit"] /\ UNCHANGED <<cur, event>>
      \/ /\ UNCHANGED <<pc, cur>>
         /\ \/ pc[p] = "read" /\ WakeupAndSleep(p, <<"room", q>>, <<"data", q>>)
            \/ pc[p] = "write" /\ WakeupAndSleep(p, <<"data", q>>, <<"room", q>>)
  <2>1. q \in Pipes
    BY <1>a, <1>1, EndHeld
  <2>2. <<"room", q>> \in Events /\ <<"data", q>> \in Events
    BY <2>1, ConstantFacts
  <2>3. CASE ReadLoop(p)
    BY <1>a, <1>1, <2>2, <2>3, Zenon DEF ReadLoop, Returns, At
  <2>4. CASE WriteLoop(p)
    BY <1>a, <1>1, <2>2, <2>4, Zenon DEF WriteLoop, Returns, At
  <2> QED BY <2>3, <2>4
<1>3. ASSUME NEW r \in Proc, r # p PROVE UseOf(r)'
  <2>1. pc'[r] = pc[r] /\ cur'[r] = cur[r] /\ event'[r] \in {event[r], None}
    BY <1>0, <1>2, <1>3 DEF Wakeup, WakeupAndSleep
  <2> QED BY <1>0, <1>1, <2>1, UseKept
<1>4. UseOf(p)'
  <2>1. CASE pc'[p] \in {"user", "exit"} /\ event'[p] = None
    BY <2>1, UseIdle
  <2>2. CASE /\ UNCHANGED <<pc, cur>>
             /\ \/ pc[p] = "read" /\ event'[p] = <<"data", q>>
                \/ pc[p] = "write" /\ event'[p] = <<"room", q>>
    <3>1. UseOf(p)
      BY <1>0 DEF UseInv
    <3>2. InEnd(p, "read", "READ_PIPE")' /\ InEnd(p, "write", "WRITE_PIPE")'
      BY <1>1, <2>2, <3>1 DEF UseOf, InEnd
    <3>3. pipePtr'[fd'[p][cur'[p]]] = q
      BY <1>a, <1>1, <2>2
    <3>4. SleepsIn(p, "data", "read")' /\ SleepsIn(p, "room", "write")'
      BY <2>2, <3>3 DEF SleepsIn
    <3>5. pc'[p] # "none"
      BY <2>2
    <3> QED BY <3>2, <3>4, <3>5 DEF UseOf
  <2>3. \/ pc'[p] \in {"user", "exit"} /\ event'[p] = None
        \/ /\ UNCHANGED <<pc, cur>>
           /\ \/ pc[p] = "read" /\ event'[p] = <<"data", q>>
              \/ pc[p] = "write" /\ event'[p] = <<"room", q>>
    BY <1>0, <1>1, <1>2 DEF Wakeup, WakeupAndSleep
  <2> QED BY <2>1, <2>2, <2>3
<1> QED BY <1>3, <1>4 DEF UseInv

LEMMA UseStep ==
  ASSUME PipeInv, [Next]_vars PROVE UseInv'
<1>0. PipeType /\ UseInv
  BY DEF PipeInv
<1> USE DEF oftVars, endVars, ringVars, callVars
<1>1. CASE UNCHANGED vars
  BY <1>0, <1>1, UseKept DEF vars, UseInv
<1> SUFFICES ASSUME NEW p \in Proc, Call(p) \/ Loop(p) \/ Kill(p)
             PROVE  UseInv'
  BY <1>1 DEF Next
<1>t. /\ fd \in FdTables /\ pc \in [Proc -> Points] /\ event \in [Proc -> Events \cup {None}]
      /\ cur \in [Proc -> Nat]
  BY <1>0 DEF PipeType
<1>2. CASE MakePipe(p)
  <2>1. PICK q \in Pipes, o1 \in Ofts, o2 \in Ofts, i1 \in Fds, i2 \in Fds :
              MadeOf(p, q, o1, o2, i1, i2)
    BY <1>0, <1>2, NewPipe
  <2>2. UNCHANGED <<pc, event, cur>> /\ pc[p] = "user" /\ event[p] = None
    BY <1>2 DEF MakePipe, Calling, At
  <2>3. ASSUME NEW r \in Proc, r # p PROVE UseOf(r)'
    <3>1. fd'[r] = fd[r]
      BY <1>t, <2>1, <2>3 DEF MadeOf, FdTables
    <3>2. ASSUME pc[r] \in {"read", "write"}
          PROVE  LET o == fd[r][cur[r]]
                 IN  mode'[o] = mode[o] /\ pipePtr'[o] = pipePtr[o]
      <4> DEFINE o == fd[r][cur[r]]
      <4>1. cur[r] \in Fds /\ o \in Ofts
        BY <1>0, <3>2 DEF UseInv, UseOf, InEnd
      <4>2. refCount[o] > 0
        BY <4>1, Pointed
      <4>3. o # o1 /\ o # o2
        BY <2>1, <4>2 DEF MadeOf
      <4> HIDE DEF o
      <4>4. mode'[o] = mode[o] /\ pipePtr'[o] = pipePtr[o]
        BY <1>0, <2>1, <4>1, <4>3 DEF MadeOf, PipeType
      <4> QED BY <4>4 DEF o
    <3> QED BY <1>0, <2>2, <3>1, <3>2, UseKept
  <2>4. UseOf(p)'
    BY <2>2, UseIdle
  <2> QED BY <2>3, <2>4 DEF UseInv
<1>3. CASE Exit(p)
  <2>1. UseOf(p)'
    <3>1. event'[p] = None /\ pc'[p] = "exit"
      BY <1>t, <1>3 DEF Exit, Calling, At
    <3> QED BY <3>1, UseIdle
  <2>2. ASSUME NEW r \in Proc, r # p PROVE UseOf(r)'
    <3>1. pc'[r] = pc[r] /\ UNCHANGED <<fd, cur, event, mode, pipePtr>>
      BY <1>t, <1>3, <2>2 DEF Exit
    <3> QED BY <1>0, <3>1, UseKept
  <2> QED BY <2>1, <2>2 DEF UseInv
<1>4. ASSUME NEW i \in Fds, Close(p, i) PROVE UseInv'
  BY <1>4, CloseUse DEF Close, Calling, At
<1>5. ASSUME NEW i \in Fds, Dup(p, i) PROVE UseInv'
  <2>1. UseOf(p)'
    <3>1. event'[p] = None /\ pc'[p] = "user"
      BY <1>5 DEF Dup, Calling, At
    <3> QED BY <3>1, UseIdle
  <2>2. ASSUME NEW r \in Proc, r # p PROVE UseOf(r)'
    <3>1. fd'[r] = fd[r] /\ UNCHANGED <<pc, cur, event, mode, pipePtr>>
      BY <1>t, <1>5, <2>2 DEF Dup, FdTables
    <3> QED BY <1>0, <3>1, UseKept
  <2> QED BY <2>1, <2>2 DEF UseInv
<1>6. ASSUME NEW c \in Proc, Fork(p, c) PROVE UseInv'
  <2>1. /\ pc[c] = "none" /\ pc[p] = "user" /\ UNCHANGED <<cur, event, mode, pipePtr>>
        /\ fd' = [fd EXCEPT ![c] = fd[p]] /\ pc' = [pc EXCEPT ![c] = "user"]
    BY <1>6 DEF Fork, Calling, At
  <2>2. UseOf(c)'
    <3>1. event'[c] = None
      <4>1. \A q \in Pipes : event[c] # <<"data", q>> /\ event[c] # <<"room", q>>
        BY <1>0, <2>1 DEF UseInv, UseOf, SleepsIn
      <4>2. event[c] \notin Events
        BY <4>1 DEF Events
      <4> QED BY <1>t, <2>1, <4>2
    <3>2. pc'[c] = "user"
      BY <1>t, <2>1
    <3> QED BY <3>1, <3>2, UseIdle
  <2>3. ASSUME NEW r \in Proc, r # c PROVE UseOf(r)'
    <3>1. fd'[r] = fd[r] /\ pc'[r] = pc[r]
      BY <1>t, <2>1, <2>3 DEF FdTables
    <3> QED BY <1>0, <2>1, <3>1, UseKept
  <2> QED BY <2>2, <2>3 DEF UseInv
<1>7. ASSUME NEW i \in Fds, \/ \E n \in 1..MaxBytes : Read(p, i, n)
                            \/ \E s \in Messages : Write(p, i, s)
      PROVE UseInv'
  <2>1. /\ fd[p][i] \in Ofts /\ event[p] = None /\ UNCHANGED <<fd, event, mode, pipePtr>>
        /\ cur' = [cur EXCEPT ![p] = i]
        /\ \/ mode[fd[p][i]] = "READ_PIPE" /\ pc' = [pc EXCEPT ![p] = "read"]
           \/ mode[fd[p][i]] = "WRITE_PIPE" /\ pc' = [pc EXCEPT ![p] = "write"]
    BY <1>7 DEF Read, Write, Calling, At
  <2>2. UseOf(p)'
    <3>1. cur'[p] = i /\ event'[p] = None
          /\ \/ mode[fd[p][i]] = "READ_PIPE" /\ pc'[p] = "read"
             \/ mode[fd[p][i]] = "WRITE_PIPE" /\ pc'[p] = "write"
      BY <1>t, <2>1
    <3>2. \A q \in Pipes : None # <<"data", q>> /\ None # <<"room", q>>
      BY ConstantFacts
    <3> QED BY <2>1, <3>1, <3>2 DEF UseOf, InEnd, SleepsIn
  <2>3. ASSUME NEW r \in Proc, r # p PROVE UseOf(r)'
    <3>1. cur'[r] = cur[r] /\ pc'[r] = pc[r]
      BY <1>t, <2>1, <2>3
    <3> QED BY <1>0, <2>1, <3>1, UseKept
  <2> QED BY <2>2, <2>3 DEF UseInv
<1>8. CASE ReadLoop(p) \/ WriteLoop(p)
  BY <1>8, LoopUse
<1>9. CASE ExitClose(p)
  <2> DEFINE open == {i \in Fds : fd[p][i] # None}
  <2>1. open # {} /\ open \subseteq Nat /\ open \subseteq Fds
    BY <1>9, ConstantFacts DEF ExitClose
  <2>2. Min(open) \in Fds
    BY <2>1, MinOfNats
  <2> QED BY <1>9, <2>2, CloseUse DEF ExitClose, At
<1>10. CASE ExitDone(p)
  <2>1. UseOf(p)'
    <3>1. event'[p] = None /\ pc'[p] = "none" /\ \A i \in Fds : fd'[p][i] = None
      BY <1>t, <1>10 DEF ExitDone, At
    <3> QED BY <3>1, UseIdle
  <2>2. ASSUME NEW r \in Proc, r # p PROVE UseOf(r)'
    <3>1. pc'[r] = pc[r] /\ cur'[r] = cur[r] /\ UNCHANGED <<fd, event, mode, pipePtr>>
      BY <1>t, <1>10, <2>2 DEF ExitDone
    <3> QED BY <1>0, <3>1, UseKept
  <2> QED BY <2>1, <2>2 DEF UseInv
<1>11. CASE Kill(p)
  <2>1. ASSUME NEW r \in Proc PROVE UseOf(r)'
    <3>1. event'[r] \in {event[r], None} /\ UNCHANGED <<fd, pc, cur, mode, pipePtr>>
      BY <1>11 DEF Kill, Wakeup
    <3> QED BY <1>0, <3>1, UseKept
  <2> QED BY <2>1 DEF UseInv
<1> QED BY <1>2, <1>3, <1>4, <1>5, <1>6, <1>7, <1>8, <1>9, <1>10, <1>11 DEF Call, Loop
-----------------------------------------------------------------------------
(* PipeInv is inductive. *)

LEMMA InitInv == Init => PipeInv
<1> SUFFICES ASSUME Init PROVE PipeInv
  OBVIOUS
<1> USE DEF Init
<1>1. PICK p \in Proc :
        /\ pc = [r \in Proc |-> IF r = p THEN "user" ELSE "none"]
        /\ fd = [r \in Proc |-> [i \in Fds |-> IF r = p /\ i \in StdFds THEN File ELSE None]]
  OBVIOUS
<1>2. /\ fd \in FdTables
      /\ \A x \in Handle : fd[x[1]][x[2]] \in {File, None}
  BY <1>1 DEF FdTables, Handle
<1>3. \A S : S \subseteq Ofts => Count(fd, S) = 0
  <2> TAKE S
  <2> HAVE S \subseteq Ofts
  <2>1. Pointing(fd, S) = {}
    BY <1>2, ConstantFacts DEF Pointing
  <2> QED BY <2>1, CountType
<1>4. PipeType
  BY <1>1, <1>2, ConstantFacts DEF PipeType
<1>5. EntriesInv
  BY DEF EntriesInv
<1>6. UseInv
  <2> SUFFICES ASSUME NEW r \in Proc PROVE UseOf(r)
    BY DEF UseInv
  <2>1. pc[r] \in {"user", "none"} /\ event[r] = None
        /\ (pc[r] = "none" => \A i \in Fds : fd[r][i] = None)
    BY <1>1
  <2>2. \A q \in Pipes : None # <<"data", q>> /\ None # <<"room", q>>
    BY ConstantFacts
  <2> QED BY <2>1, <2>2 DEF UseOf, InEnd, SleepsIn
<1>7. CountsInv
  <2>1. \A o \in Ofts : refCount[o] = Count(fd, {o})
    <3> TAKE o \in Ofts
    <3>1. {o} \subseteq Ofts
      OBVIOUS
    <3> QED BY <1>3, <3>1
  <2>2. \A q \in Pipes : Readers(q) = 0 /\ Writers(q) = 0
    BY <1>3 DEF Readers, Writers, EndOfts
  <2>3. \A q \in Pipes : busy[q] = FALSE
    OBVIOUS
  <2> HIDE DEF Init
  <2>4. \A q \in Pipes : ~ busy[q] /\ ~ (Readers(q) > 0) /\ ~ (Writers(q) > 0)
    BY <2>2, <2>3
  <2> QED BY <2>1, <2>4 DEF CountsInv
<1> QED BY <1>4, <1>5, <1>6, <1>7 DEF PipeInv

LEMMA CountsStep ==
  ASSUME PipeInv, [Next]_vars PROVE EntriesInv' /\ CountsInv'
<1> USE DEF oftVars, endVars, ringVars, callVars
<1>1. CASE UNCHANGED vars
  BY <1>1, CountsFrame DEF vars
<1> SUFFICES ASSUME NEW p \in Proc, Call(p) \/ Loop(p) \/ Kill(p)
             PROVE  EntriesInv' /\ CountsInv'
  BY <1>1 DEF Next
<1>2. CASE MakePipe(p)
  BY <1>2, MakeCounts
<1>3. ASSUME NEW i \in Fds, Close(p, i) PROVE EntriesInv' /\ CountsInv'
  BY <1>3, CloseCounts DEF Close
<1>4. ASSUME NEW i \in Fds, Dup(p, i) PROVE EntriesInv' /\ CountsInv'
  BY <1>4, DupCounts
<1>5. ASSUME NEW c \in Proc, Fork(p, c) PROVE EntriesInv' /\ CountsInv'
  BY <1>5, ForkCounts
<1>6. CASE ExitClose(p)
  <2> DEFINE open == {i \in Fds : fd[p][i] # None}
  <2>1. open # {} /\ open \subseteq Nat /\ open \subseteq Fds
    BY <1>6, ConstantFacts DEF ExitClose
  <2>2. Min(open) \in Fds
    BY <2>1, MinOfNats
  <2> QED BY <1>6, <2>2, CloseCounts DEF ExitClose
<1>7. CASE \/ Exit(p) \/ ExitDone(p) \/ Kill(p) \/ ReadLoop(p) \/ WriteLoop(p)
           \/ \E i \in Fds, n \in 1..MaxBytes : Read(p, i, n)
           \/ \E i \in Fds, s \in Messages : Write(p, i, s)
  <2>1. UNCHANGED <<fd, oftVars, endVars>>
    BY <1>7, Zenon DEF Exit, ExitDone, Kill, ReadLoop, WriteLoop, Read, Write
  <2> QED BY <2>1, CountsFrame
<1> QED BY <1>2, <1>3, <1>4, <1>5, <1>6, <1>7 DEF Call, Loop

THEOREM PipeInvariant == Spec => []PipeInv
<1>1. PipeInv /\ [Next]_vars => PipeInv'
  BY TypeStep, CountsStep, UseStep DEF PipeInv
<1> QED BY InitInv, <1>1, PTL DEF Spec

(* Every open file table entry's refCount, and nreader and nwriter of every pipe in
   use, are the numbers of descriptors that lead there, after any series of pipe,
   fork, dup, close and exit: close_pipe() frees a pipe with its last end and no
   sooner (kernel/pipe.c:197-237). *)
THEOREM EndsCounted == Spec => []CountsExact
<1>1. PipeInv => CountsExact
  <2> SUFFICES ASSUME PipeInv PROVE CountsExact
    OBVIOUS
  <2>1. \A o : {x \in Proc \X Fds : fd[x[1]][x[2]] = o} = Pointing(fd, {o})
    BY DEF Pointing, Handle
  <2>2. RefsExact
    BY <2>1 DEF RefsExact, PipeInv, CountsInv, Count
  <2>3. ASSUME NEW q \in Pipes, NEW end \in {"READ_PIPE", "WRITE_PIPE"}
        PROVE  AllEnds(q, end) = Pointing(fd, EndOfts(q, end))
    BY DEF AllEnds, Ends, Pointing, EndOfts, Handle
  <2>4. \A q \in Pipes : /\ Readers(q) = Cardinality(AllEnds(q, "READ_PIPE"))
                         /\ Writers(q) = Cardinality(AllEnds(q, "WRITE_PIPE"))
                         /\ Readers(q) > 0 <=> AllEnds(q, "READ_PIPE") # {}
                         /\ Writers(q) > 0 <=> AllEnds(q, "WRITE_PIPE") # {}
    <3> TAKE q \in Pipes
    <3>1. /\ AllEnds(q, "READ_PIPE") = Pointing(fd, EndOfts(q, "READ_PIPE"))
          /\ AllEnds(q, "WRITE_PIPE") = Pointing(fd, EndOfts(q, "WRITE_PIPE"))
      BY <2>3
    <3>2. /\ Readers(q) \in Nat /\ (Readers(q) = 0 <=> AllEnds(q, "READ_PIPE") = {})
          /\ Writers(q) \in Nat /\ (Writers(q) = 0 <=> AllEnds(q, "WRITE_PIPE") = {})
      BY <3>1, CountType DEF Readers, Writers
    <3>3. /\ Readers(q) = Cardinality(AllEnds(q, "READ_PIPE"))
          /\ Writers(q) = Cardinality(AllEnds(q, "WRITE_PIPE"))
      BY <3>1 DEF Readers, Writers, Count
    <3> QED BY <3>2, <3>3
  <2> QED BY <2>2, <2>4 DEF CountsExact, PipeInv, CountsInv
<1> QED BY <1>1, PipeInvariant, PTL
-----------------------------------------------------------------------------
(* Sleepers. *)
Sound(r, q) ==
  /\ event[r] = <<"data", q>> => data[q] = 0 /\ nwriter[q] > 0
  /\ event[r] = <<"room", q>> => room[q] = 0 /\ nreader[q] > 0

(* Who sleeps on a pipe has one of its ends. *)
LEMMA SleeperHolds ==
  ASSUME PipeInv, NEW r \in Proc, NEW q \in Pipes
  PROVE  /\ event[r] = <<"data", q>> => busy[q] /\ nreader[q] > 0
         /\ event[r] = <<"room", q>> => busy[q] /\ nwriter[q] > 0
<1>1. ASSUME event[r] = <<"data", q>> PROVE busy[q] /\ nreader[q] > 0
  <2>1. pc[r] = "read" /\ pipePtr[fd[r][cur[r]]] = q
    BY <1>1 DEF PipeInv, UseInv, UseOf, SleepsIn
  <2> QED BY <2>1, EndHeld
<1>2. ASSUME event[r] = <<"room", q>> PROVE busy[q] /\ nwriter[q] > 0
  <2>1. pc[r] = "write" /\ pipePtr[fd[r][cur[r]]] = q
    BY <1>2 DEF PipeInv, UseInv, UseOf, SleepsIn
  <2> QED BY <2>1, EndHeld
<1> QED BY <1>1, <1>2

LEMMA SleeperKept ==
  ASSUME NEW r \in Proc, NEW q \in Pipes, Sound(r, q),
         event'[r] = <<"data", q>> =>
           event[r] = <<"data", q>> /\ data'[q] = data[q] /\ nwriter'[q] = nwriter[q],
         event'[r] = <<"room", q>> =>
           event[r] = <<"room", q>> /\ room'[q] = room[q] /\ nreader'[q] = nreader[q]
  PROVE  Sound(r, q)'
BY DEF Sound

LEMMA CloseWakes ==
  ASSUME PipeInv, NoMissedWakeup, NEW p \in Proc, NEW i \in Fds, CloseAny(p, i, None),
         UNCHANGED ringVars
  PROVE  NoMissedWakeup'
<1>1. UNCHANGED <<data, room>>
  BY DEF ringVars
<1> SUFFICES ASSUME NEW r \in Proc, NEW x \in Pipes PROVE Sound(r, x)'
  BY DEF NoMissedWakeup, Sound
<1>2. Sound(r, x)
  BY DEF NoMissedWakeup, Sound
<1>0. /\ event \in [Proc -> Events \cup {None}]
      /\ nreader \in [Pipes -> Int] /\ nwriter \in [Pipes -> Int]
  BY DEF PipeInv, PipeType
<1>3. CASE fd[p][i] \notin Ofts
  <2>1. UNCHANGED <<event, nreader, nwriter>>
    BY <1>3 DEF CloseAny, endVars
  <2> QED BY <1>1, <1>2, <2>1, SleeperKept
<1>4. CASE fd[p][i] \in Ofts
  <2>a. PICK q : q = pipePtr[fd[p][i]]
    OBVIOUS
  <2> DEFINE reader == mode[fd[p][i]] = "READ_PIPE"
  <2>1. q \in Pipes
    BY <1>4, <2>a, Pointed
  <2>2. ClosePipe(p, i, None)
    BY <1>4 DEF CloseAny
  <2>3. /\ nreader' = IF reader THEN [nreader EXCEPT ![q] = @ - 1] ELSE nreader
        /\ nwriter' = IF reader THEN nwriter ELSE [nwriter EXCEPT ![q] = @ - 1]
        /\ \/ /\ (IF reader THEN nwriter[q] ELSE nreader[q]) <= 0
              /\ UNCHANGED event
           \/ Wakeup(IF reader THEN <<"room", q>> ELSE <<"data", q>>)
    BY <2>a, <2>2 DEF ClosePipe, DownOne, WakeOther
  <2> HIDE DEF reader
  <2>4. None # <<"data", x>> /\ None # <<"room", x>>
    BY ConstantFacts
  <2>5. event'[r] \in {event[r], None}
    BY <2>3 DEF Wakeup
  <2>6. x # q => nreader'[x] = nreader[x] /\ nwriter'[x] = nwriter[x]
    BY <1>0, <2>3
  <2>7. CASE reader
    <3>1. nwriter'[x] = nwriter[x]
      BY <2>3, <2>7
    <3>2. ~ (x = q /\ event'[r] = <<"room", x>>)
      <4> SUFFICES ASSUME x = q, event'[r] = <<"room", q>> PROVE FALSE
        OBVIOUS
      <4>1. event[r] = <<"room", q>>
        BY <2>4, <2>5
      <4>2. nwriter[q] > 0 /\ nwriter[q] \in Int
        BY <1>0, <2>1, <4>1, SleeperHolds
      <4>3. Wakeup(<<"room", q>>)
        BY <2>3, <2>7, <4>2
      <4> QED BY <2>4, <4>1, <4>3 DEF Wakeup
    <3> QED BY <1>1, <1>2, <2>4, <2>5, <2>6, <3>1, <3>2, SleeperKept
  <2>8. CASE ~ reader
    <3>1. nreader'[x] = nreader[x]
      BY <2>3, <2>8
    <3>2. ~ (x = q /\ event'[r] = <<"data", x>>)
      <4> SUFFICES ASSUME x = q, event'[r] = <<"data", q>> PROVE FALSE
        OBVIOUS
      <4>1. event[r] = <<"data", q>>
        BY <2>4, <2>5
      <4>2. nreader[q] > 0 /\ nreader[q] \in Int
        BY <1>0, <2>1, <4>1, SleeperHolds
      <4>3. Wakeup(<<"data", q>>)
        BY <2>3, <2>8, <4>2
      <4> QED BY <2>4, <4>1, <4>3 DEF Wakeup
    <3> QED BY <1>1, <1>2, <2>4, <2>5, <2>6, <3>1, <3>2, SleeperKept
  <2> QED BY <2>7, <2>8
<1> QED BY <1>3, <1>4

LEMMA ReadWakes ==
  ASSUME PipeInv, NoMissedWakeup, NEW p \in Proc, ReadLoop(p)
  PROVE  NoMissedWakeup'
<1>a. PICK q : q = pipePtr[fd[p][cur[p]]]
  OBVIOUS
<1>1. q \in Pipes
  BY <1>a, EndHeld, Zenon DEF ReadLoop, At
<1>0. data \in [Pipes -> Nat] /\ room \in [Pipes -> Nat]
  BY DEF PipeInv, PipeType
<1>2. UNCHANGED <<nreader, nwriter>>
  BY Zenon DEF ReadLoop, endVars
<1>3. \/ /\ data[q] > 0 /\ Wakeup(<<"room", q>>)
         /\ \E k : data' = [data EXCEPT ![q] = @ - k] /\ room' = [room EXCEPT ![q] = @ + k]
      \/ /\ data[q] = 0 /\ nwriter[q] > 0 /\ UNCHANGED <<data, room>>
         /\ WakeupAndSleep(p, <<"room", q>>, <<"data", q>>)
      \/ UNCHANGED <<data, room, event>>
  BY <1>a, Zenon DEF ReadLoop
<1> SUFFICES ASSUME NEW r \in Proc, NEW x \in Pipes PROVE Sound(r, x)'
  BY DEF NoMissedWakeup, Sound
<1>4. Sound(r, x)
  BY DEF NoMissedWakeup, Sound
<1>5. None # <<"data", x>> /\ None # <<"room", x>>
  BY ConstantFacts
<1>6. CASE data[q] > 0 /\ Wakeup(<<"room", q>>)
           /\ \E k : data' = [data EXCEPT ![q] = @ - k] /\ room' = [room EXCEPT ![q] = @ + k]
  <2>1. event'[r] = (IF event[r] = <<"room", q>> THEN None ELSE event[r])
    BY <1>6 DEF Wakeup
  <2>2. x # q => data'[x] = data[x] /\ room'[x] = room[x]
    BY <1>0, <1>6
  <2>3. ~ (x = q /\ event'[r] = <<"room", x>>)
    BY <1>5, <2>1
  <2>4. ~ (x = q /\ event[r] = <<"data", x>>)
    BY <1>4, <1>6 DEF Sound
  <2> QED BY <1>2, <1>4, <1>5, <2>1, <2>2, <2>3, <2>4, SleeperKept
<1>7. CASE data[q] = 0 /\ nwriter[q] > 0 /\ UNCHANGED <<data, room>>
           /\ WakeupAndSleep(p, <<"room", q>>, <<"data", q>>)
  <2>1. event'[r] = IF r = p THEN <<"data", q>>
                    ELSE IF event[r] = <<"room", q>> THEN None ELSE event[r]
    BY <1>7 DEF WakeupAndSleep
  <2> QED BY <1>2, <1>4, <1>5, <1>7, <2>1 DEF Sound
<1>8. CASE UNCHANGED <<data, room, event>>
  BY <1>2, <1>4, <1>8, SleeperKept
<1> QED BY <1>3, <1>6, <1>7, <1>8

LEMMA WriteWakes ==
  ASSUME PipeInv, NoMissedWakeup, NEW p \in Proc, WriteLoop(p)
  PROVE  NoMissedWakeup'
<1>a. PICK q : q = pipePtr[fd[p][cur[p]]]
  OBVIOUS
<1>b. PICK k : k = Min({room[q], Len(todo[p])})
  OBVIOUS
<1>1. q \in Pipes
  BY <1>a, EndHeld, Zenon DEF WriteLoop, At
<1>0. data \in [Pipes -> Nat] /\ room \in [Pipes -> Nat] /\ Len(todo[p]) \in Nat
  BY DEF PipeInv, PipeType
<1>c. k \in Nat /\ k \in {room[q], Len(todo[p])} /\ k <= room[q]
  BY <1>b, <1>0, <1>1, MinOfTwo
<1>2. UNCHANGED <<nreader, nwriter>>
  BY Zenon DEF WriteLoop, endVars
<1>3. \/ /\ nreader[q] > 0
         /\ data' = [data EXCEPT ![q] = @ + k] /\ room' = [room EXCEPT ![q] = @ - k]
         /\ \/ Wakeup(<<"data", q>>)
            \/ k < Len(todo[p]) /\ WakeupAndSleep(p, <<"data", q>>, <<"room", q>>)
      \/ UNCHANGED <<data, room, event>>
  BY <1>a, <1>b, Zenon DEF WriteLoop
<1> SUFFICES ASSUME NEW r \in Proc, NEW x \in Pipes PROVE Sound(r, x)'
  BY DEF NoMissedWakeup, Sound
<1>4. Sound(r, x)
  BY DEF NoMissedWakeup, Sound
<1>5. None # <<"data", x>> /\ None # <<"room", x>>
  BY ConstantFacts
<1>6. CASE /\ nreader[q] > 0
           /\ data' = [data EXCEPT ![q] = @ + k] /\ room' = [room EXCEPT ![q] = @ - k]
           /\ \/ Wakeup(<<"data", q>>)
              \/ k < Len(todo[p]) /\ WakeupAndSleep(p, <<"data", q>>, <<"room", q>>)
  <2>1. \/ event'[r] = (IF event[r] = <<"data", q>> THEN None ELSE event[r])
        \/ r = p /\ event'[r] = <<"room", q>> /\ k < Len(todo[p])
    BY <1>6 DEF Wakeup, WakeupAndSleep
  <2>2. x # q => data'[x] = data[x] /\ room'[x] = room[x]
    BY <1>0, <1>6
  <2>3. room'[q] = room[q] - k
    BY <1>0, <1>1, <1>6
  <2>4. CASE r = p /\ event'[r] = <<"room", q>> /\ k < Len(todo[p])
    <3>1. room'[q] = 0
      BY <1>0, <1>1, <1>c, <2>3, <2>4
    <3> QED BY <1>2, <1>6, <2>4, <3>1 DEF Sound
  <2>5. CASE event'[r] = IF event[r] = <<"data", q>> THEN None ELSE event[r]
    <3>1. ~ (x = q /\ event'[r] = <<"data", x>>)
      BY <1>5, <2>5
    <3>2. event[r] = <<"room", q>> /\ x = q => room'[q] = room[q]
      BY <1>0, <1>1, <1>c, <1>4, <2>3 DEF Sound
    <3> QED BY <1>2, <1>4, <1>5, <2>2, <2>5, <3>1, <3>2, SleeperKept
  <2> QED BY <2>1, <2>4, <2>5
<1>7. CASE UNCHANGED <<data, room, event>>
  BY <1>2, <1>4, <1>7, SleeperKept
<1> QED BY <1>3, <1>6, <1>7

LEMMA WakeStep ==
  ASSUME PipeInv, NoMissedWakeup, [Next]_vars PROVE NoMissedWakeup'
<1> USE DEF oftVars, endVars, ringVars, callVars
<1>1. CASE UNCHANGED vars
  BY <1>1 DEF vars, NoMissedWakeup
<1> SUFFICES ASSUME NEW p \in Proc, Call(p) \/ Loop(p) \/ Kill(p)
             PROVE  NoMissedWakeup'
  BY <1>1 DEF Next
<1>t. nreader \in [Pipes -> Int] /\ nwriter \in [Pipes -> Int]
  BY DEF PipeInv, PipeType
<1>2. CASE MakePipe(p)
  <2>1. PICK q \in Pipes, o1 \in Ofts, o2 \in Ofts, i1 \in Fds, i2 \in Fds :
              MadeOf(p, q, o1, o2, i1, i2)
    BY <1>2, NewPipe DEF PipeInv
  <2> SUFFICES ASSUME NEW r \in Proc, NEW x \in Pipes PROVE Sound(r, x)'
    BY DEF NoMissedWakeup, Sound
  <2>2. Sound(r, x)
    BY DEF NoMissedWakeup, Sound
  <2>3. event'[r] = event[r]
    BY <1>2 DEF MakePipe
  <2>4. CASE x = q
    BY <2>1, <2>3, <2>4, SleeperHolds DEF Sound, MadeOf
  <2>5. CASE x # q
    <3>1. /\ nreader'[x] = nreader[x] /\ nwriter'[x] = nwriter[x]
          /\ data'[x] = data[x] /\ room'[x] = room[x]
      BY <2>1, <2>5 DEF MadeOf, PipeInv, PipeType
    <3> QED BY <2>2, <2>3, <3>1, SleeperKept
  <2> QED BY <2>4, <2>5
<1>3. ASSUME NEW i \in Fds, Close(p, i) PROVE NoMissedWakeup'
  BY <1>3, CloseWakes DEF Close
<1>4. ASSUME NEW i \in Fds, Dup(p, i) PROVE NoMissedWakeup'
  <2>1. UNCHANGED <<event, data, room>>
    BY <1>4 DEF Dup
  <2>2. \A x \in Pipes : /\ nreader[x] > 0 => nreader'[x] > 0
                         /\ nwriter[x] > 0 => nwriter'[x] > 0
    BY <1>t, <1>4 DEF Dup
  <2> QED BY <2>1, <2>2 DEF NoMissedWakeup
<1>5. ASSUME NEW c \in Proc, Fork(p, c) PROVE NoMissedWakeup'
  <2>1. UNCHANGED <<event, data, room>>
    BY <1>5 DEF Fork
  <2>2. \A x \in Pipes : /\ Cardinality(Ends(p, x, "READ_PIPE")) \in Nat
                         /\ Cardinality(Ends(p, x, "WRITE_PIPE")) \in Nat
    BY HandlesFinite, FS_Subset, FS_CardinalityType DEF Ends
  <2>3. \A x \in Pipes : /\ nreader[x] > 0 => nreader'[x] > 0
                         /\ nwriter[x] > 0 => nwriter'[x] > 0
    BY <1>t, <1>5, <2>2 DEF Fork, CountEach
  <2> QED BY <2>1, <2>3 DEF NoMissedWakeup
<1>6. CASE ReadLoop(p)
  BY <1>6, ReadWakes
<1>7. CASE WriteLoop(p)
  BY <1>7, WriteWakes
<1>8. CASE ExitClose(p)
  <2> DEFINE open == {i \in Fds : fd[p][i] # None}
  <2>1. open # {} /\ open \subseteq Nat /\ open \subseteq Fds
    BY <1>8, ConstantFacts DEF ExitClose
  <2>2. Min(open) \in Fds
    BY <2>1, MinOfNats
  <2> QED BY <1>8, <2>2, CloseWakes DEF ExitClose
<1>9. CASE Kill(p)
  <2>1. UNCHANGED <<data, room, nreader, nwriter>> /\ \A r \in Proc : event'[r] \in {event[r], None}
    BY <1>9 DEF Kill, Wakeup
  <2>2. \A q \in Pipes : None # <<"data", q>> /\ None # <<"room", q>>
    BY ConstantFacts
  <2> QED BY <2>1, <2>2 DEF NoMissedWakeup
<1>10. CASE \/ Exit(p) \/ ExitDone(p)
            \/ \E i \in Fds, n \in 1..MaxBytes : Read(p, i, n)
            \/ \E i \in Fds, s \in Messages : Write(p, i, s)
  <2>1. UNCHANGED <<event, data, room, nreader, nwriter>>
    BY <1>10 DEF Exit, ExitDone, Read, Write
  <2> QED BY <2>1 DEF NoMissedWakeup
<1> QED BY <1>2, <1>3, <1>4, <1>5, <1>6, <1>7, <1>8, <1>9, <1>10 DEF Call, Loop

(* A process asleep in read_pipe() has no byte to read and a writer left to wait for,
   one asleep in write_pipe() finds the pipe full and a reader left, whatever the
   others read, write, dup, fork and close meanwhile: no wakeup is lost and nobody
   waits for an end that is gone (kernel/pipe.c:34-109). *)
THEOREM NoSleeperForgotten == Spec => []NoMissedWakeup
<1>1. Init => NoMissedWakeup
  <2>1. \A q \in Pipes : None # <<"data", q>> /\ None # <<"room", q>>
    BY ConstantFacts
  <2> QED BY <2>1 DEF Init, NoMissedWakeup
<1>2. PipeInv /\ NoMissedWakeup /\ [Next]_vars => NoMissedWakeup'
  BY WakeStep
<1> QED BY <1>1, <1>2, PipeInvariant, PTL DEF Spec
-----------------------------------------------------------------------------
(***************************************************************************)
(* A pipe is a FIFO channel, for any finite set of processes and any sizes *)
(* of the tables and of the ring.                                          *)
(***************************************************************************)

(* A pipe's ring: head is data places behind tail, and what lies in between are
   bytes that were written; the room is the rest, once the pipe has been made. *)
RingOf(q) ==
  /\ buf[q] \in [Slots -> Byte \cup {None}]
  /\ head[q] \in Slots /\ tail[q] \in Slots
  /\ data[q] \in 0..PSIZE /\ room[q] \in 0..PSIZE
  /\ head[q] = Forward(tail[q], data[q])
  /\ busy[q] => room[q] = PSIZE - data[q]
  /\ \A j \in 0..(data[q] - 1) : buf[q][Forward(tail[q], j)] \in Byte

(* What the calls in progress were given; nobody reads for zero bytes. *)
UserOf(p) ==
  /\ cur[p] \in Fds /\ want[p] \in 0..MaxBytes
  /\ pc[p] = "read" => want[p] > 0
  /\ todo[p] \in Messages \cup {<<>>} /\ ubuf[p] \in Messages \cup {<<>>}

Functions ==
  /\ buf = [q \in Pipes |-> buf[q]]
  /\ head = [q \in Pipes |-> head[q]] /\ tail = [q \in Pipes |-> tail[q]]
  /\ data = [q \in Pipes |-> data[q]] /\ room = [q \in Pipes |-> room[q]]
  /\ cur = [p \in Proc |-> cur[p]] /\ want = [p \in Proc |-> want[p]]
  /\ todo = [p \in Proc |-> todo[p]] /\ ubuf = [p \in Proc |-> ubuf[p]]

(* There is no more room than the data leave, whether the pipe has been made or not. *)
Rings ==
  /\ Functions
  /\ \A q \in Pipes : RingOf(q)
Fits(q) == room[q] + data[q] <= PSIZE

RingInv ==
  /\ Functions
  /\ \A q \in Pipes : RingOf(q)
  /\ \A p \in Proc : UserOf(p)
-----------------------------------------------------------------------------
(* Places in a ring. *)

LEMMA ForwardValue ==
  ASSUME NEW x \in Slots, NEW k \in 0..PSIZE
  PROVE  /\ Forward(x, k) = IF x + k < PSIZE THEN x + k ELSE x + k - PSIZE
         /\ Forward(x, k) \in Slots
<1>1. PSIZE \in Nat \ {0}
  BY PipeAssumption
<1>2. x + k \in 0..(2 * PSIZE - 1)
  BY <1>1 DEF Slots
<1>3. CASE x + k < PSIZE
  BY <1>1, <1>2, <1>3 DEF Forward, Slots
<1>4. CASE x + k >= PSIZE
  BY <1>1, <1>2, <1>4 DEF Forward, Slots
<1> QED BY <1>1, <1>2, <1>3, <1>4

LEMMA DistanceValue ==
  ASSUME NEW x \in Slots, NEW y \in Slots
  PROVE  (x - y) % PSIZE = IF x >= y THEN x - y ELSE x - y + PSIZE
<1>1. PSIZE \in Nat \ {0}
  BY PipeAssumption
<1>2. CASE x >= y
  BY <1>1, <1>2 DEF Slots
<1>3. CASE x < y
  BY <1>1, <1>3 DEF Slots
<1> QED BY <1>2, <1>3 DEF Slots

LEMMA ForwardTwice ==
  ASSUME NEW x \in Slots, NEW k \in 0..PSIZE, NEW j \in 0..PSIZE, j + k <= PSIZE
  PROVE  Forward(Forward(x, k), j) = Forward(x, k + j)
<1>1. PSIZE \in Nat \ {0}
  BY PipeAssumption
<1>2. k + j \in 0..PSIZE
  BY <1>1
<1>3. /\ Forward(x, k) = IF x + k < PSIZE THEN x + k ELSE x + k - PSIZE
      /\ Forward(x, k) \in Slots
      /\ Forward(x, k + j) = IF x + (k + j) < PSIZE THEN x + (k + j) ELSE x + (k + j) - PSIZE
  BY <1>2, ForwardValue
<1> DEFINE y == Forward(x, k)
<1>4. Forward(y, j) = IF y + j < PSIZE THEN y + j ELSE y + j - PSIZE
  BY <1>3, ForwardValue
<1> HIDE DEF y
<1>5. y = IF x + k < PSIZE THEN x + k ELSE x + k - PSIZE
  BY <1>3 DEF y
<1>6. Forward(y, j) = Forward(x, k + j)
  BY <1>1, <1>3, <1>4, <1>5 DEF Slots
<1> QED BY <1>6 DEF y

(* From the head, the place j places behind the tail is reached after j - d. *)
LEMMA BehindHead ==
  ASSUME NEW x \in Slots, NEW d \in 0..PSIZE, NEW j \in 0..(PSIZE - 1)
  PROVE  (Forward(x, j) - Forward(x, d)) % PSIZE = IF j >= d THEN j - d ELSE j - d + PSIZE
<1>1. PSIZE \in Nat \ {0} /\ j \in 0..PSIZE
  BY PipeAssumption
<1> DEFINE y == Forward(x, j)
           h == Forward(x, d)
<1>2. /\ y = IF x + j < PSIZE THEN x + j ELSE x + j - PSIZE
      /\ h = IF x + d < PSIZE THEN x + d ELSE x + d - PSIZE
      /\ y \in Slots /\ h \in Slots
  BY <1>1, ForwardValue
<1> HIDE DEF y, h
<1>3. (y - h) % PSIZE = IF y >= h THEN y - h ELSE y - h + PSIZE
  BY <1>2, DistanceValue
<1>4. (y - h) % PSIZE = IF j >= d THEN j - d ELSE j - d + PSIZE
  BY <1>1, <1>2, <1>3 DEF Slots
<1> QED BY <1>4 DEF y, h
-----------------------------------------------------------------------------
(* Bytes in a pipe and bytes in user space. *)

LEMMA MessageSeq ==
  \A s : s \in Messages \cup {<<>>} <=> s \in Seq(Byte) /\ Len(s) <= MaxBytes
<1> TAKE s
<1>1. MaxBytes \in Nat
  BY PipeAssumption
<1>2. ASSUME s \in Messages \cup {<<>>} PROVE s \in Seq(Byte) /\ Len(s) <= MaxBytes
  <2>1. CASE s = <<>>
    BY <1>1, <2>1
  <2>2. CASE s \in Messages
    <3>1. PICK n \in 1..MaxBytes : s \in [1..n -> Byte]
      BY <2>2 DEF Messages
    <3> QED BY <1>1, <3>1
  <2> QED BY <1>2, <2>1, <2>2
<1>3. ASSUME s \in Seq(Byte), Len(s) <= MaxBytes PROVE s \in Messages \cup {<<>>}
  <2>1. Len(s) \in Nat /\ s \in [1..Len(s) -> Byte]
    BY <1>3, LenProperties
  <2>2. CASE Len(s) = 0
    BY <1>3, <2>2
  <2>3. CASE Len(s) # 0
    <3>1. Len(s) \in 1..MaxBytes
      BY <1>1, <1>3, <2>1, <2>3
    <3> QED BY <2>1, <3>1 DEF Messages
  <2> QED BY <2>2, <2>3
<1> QED BY <1>2, <1>3

(* The bytes of a ring from place t on. *)
LEMMA BytesFrom ==
  ASSUME NEW b, NEW t \in Slots, NEW d \in 0..PSIZE,
         \A j \in 0..(d - 1) : b[Forward(t, j)] \in Byte
  PROVE  LET s == [j \in 1..d |-> b[(t + j - 1) % PSIZE]]
         IN  /\ s \in Seq(Byte) /\ Len(s) = d
             /\ \A j \in 1..d : s[j] = b[Forward(t, j - 1)]
<1>1. d \in Nat /\ t \in Nat
  BY PipeAssumption DEF Slots
<1>2. \A j \in 1..d : (t + j) - 1 = t + (j - 1)
  BY <1>1
<1>3. [j \in 1..d |-> b[(t + j - 1) % PSIZE]] = [j \in 1..d |-> b[Forward(t, j - 1)]]
  BY <1>2 DEF Forward
<1>4. \A j \in 1..d : b[Forward(t, j - 1)] \in Byte
  <2> TAKE j \in 1..d
  <2>1. j - 1 \in 0..(d - 1)
    BY <1>1
  <2> QED BY <2>1
<1> DEFINE s == [j \in 1..d |-> b[Forward(t, j - 1)]]
<1>5. s \in [1..d -> Byte] /\ \A j \in 1..d : s[j] = b[Forward(t, j - 1)]
  BY <1>4
<1> HIDE DEF s
<1>6. s \in Seq(Byte) /\ Len(s) = d
  BY <1>1, <1>5
<1> QED BY <1>3, <1>5, <1>6 DEF s

LEMMA OldestValue ==
  ASSUME NEW q \in Pipes, RingOf(q), NEW k \in 0..data[q]
  PROVE  /\ Oldest(q, k) \in Seq(Byte) /\ Len(Oldest(q, k)) = k
         /\ \A j \in 1..k : Oldest(q, k)[j] = buf[q][Forward(tail[q], j - 1)]
<1>1. /\ tail[q] \in Slots /\ k \in 0..PSIZE
      /\ \A j \in 0..(k - 1) : buf[q][Forward(tail[q], j)] \in Byte
  BY PipeAssumption DEF RingOf
<1> QED BY <1>1, BytesFrom DEF Oldest

(* What read_pipe()'s loop does if there is data, and write_pipe()'s if there is a
   reader. *)
Taken(p, q, k) ==
  /\ k \in 1..data[q] /\ k <= want[p]
  /\ ubuf' = [ubuf EXCEPT ![p] = Oldest(q, k)]
  /\ tail' = [tail EXCEPT ![q] = Forward(@, k)]
  /\ data' = [data EXCEPT ![q] = @ - k]
  /\ room' = [room EXCEPT ![q] = @ + k]
  /\ Returns(p)
Added(p, q, k) ==
  /\ k \in 0..room[q] /\ k <= Len(todo[p])
  /\ buf' = [buf EXCEPT ![q] = Stored(q, todo[p], k)]
  /\ head' = [head EXCEPT ![q] = Forward(@, k)]
  /\ data' = [data EXCEPT ![q] = @ + k]
  /\ room' = [room EXCEPT ![q] = @ - k]
  /\ todo' = [todo EXCEPT ![p] = SubSeq(@, k + 1, Len(@))]
  /\ Returns(p) \/ UNCHANGED <<pc, cur, want>>

LEMMA ReadAt ==
  ASSUME NEW p \in Proc, ReadLoop(p), NEW q, q = pipePtr[fd[p][cur[p]]],
         data[q] \in Nat, want[p] \in Nat, want[p] > 0
  PROVE  /\ pc[p] = "read" /\ UNCHANGED <<fd, oftVars, endVars, buf, head, todo>>
         /\ \/ \E k \in Nat : Taken(p, q, k)
            \/ /\ data[q] = 0 /\ nwriter[q] > 0
               /\ UNCHANGED <<tail, data, room, ubuf, pc, cur, want>>
            \/ /\ data[q] = 0 /\ nwriter[q] <= 0 /\ Returns(p)
               /\ UNCHANGED <<tail, data, room, ubuf>>
<1> DEFINE k == Min({data[q], want[p]})
<1>1. pc[p] = "read" /\ UNCHANGED <<fd, oftVars, endVars, buf, head, todo>>
  BY Zenon DEF ReadLoop, At
<1>2. \/ /\ data[q] > 0
         /\ ubuf' = [ubuf EXCEPT ![p] = Oldest(q, k)]
         /\ tail' = [tail EXCEPT ![q] = Forward(@, k)]
         /\ data' = [data EXCEPT ![q] = @ - k]
         /\ room' = [room EXCEPT ![q] = @ + k]
         /\ Returns(p)
      \/ /\ data[q] = 0 /\ nwriter[q] > 0
         /\ UNCHANGED <<tail, data, room, ubuf, pc, cur, want>>
      \/ /\ data[q] = 0 /\ nwriter[q] <= 0 /\ Returns(p)
         /\ UNCHANGED <<tail, data, room, ubuf>>
  BY Zenon DEF ReadLoop
<1>3. k \in {data[q], want[p]} /\ k \in Nat /\ k <= data[q] /\ k <= want[p]
  BY MinOfTwo
<1> HIDE DEF k
<1>4. CASE /\ data[q] > 0
           /\ ubuf' = [ubuf EXCEPT ![p] = Oldest(q, k)]
           /\ tail' = [tail EXCEPT ![q] = Forward(@, k)]
           /\ data' = [data EXCEPT ![q] = @ - k]
           /\ room' = [room EXCEPT ![q] = @ + k]
           /\ Returns(p)
  <2>1. k \in 1..data[q]
    BY <1>3, <1>4
  <2>2. Taken(p, q, k)
    BY <1>3, <1>4, <2>1 DEF Taken
  <2> QED BY <1>1, <1>3, <2>2
<1> QED BY <1>1, <1>2, <1>4

LEMMA ReadCases ==
  ASSUME PipeInv, RingInv, NEW p \in Proc, ReadLoop(p)
  PROVE  /\ pc[p] = "read" /\ UNCHANGED <<busy, buf, head, todo>>
         /\ \/ \E q \in Pipes : busy[q] /\ \E k \in Nat : Taken(p, q, k)
            \/ /\ UNCHANGED <<tail, data, room, ubuf>>
               /\ Returns(p) \/ UNCHANGED <<pc, cur, want>>
<1>1. PICK q : q = pipePtr[fd[p][cur[p]]]
  OBVIOUS
<1>2. pc[p] = "read"
  BY Zenon DEF ReadLoop, At
<1>3. q \in Pipes /\ busy[q]
  BY <1>1, <1>2, EndHeld
<1>4. data[q] \in Nat /\ want[p] \in Nat /\ want[p] > 0
  BY <1>2, <1>3, PipeAssumption DEF RingInv, RingOf, UserOf
<1>5. /\ UNCHANGED <<fd, oftVars, endVars, buf, head, todo>>
      /\ \/ \E k \in Nat : Taken(p, q, k)
         \/ /\ data[q] = 0 /\ nwriter[q] > 0
            /\ UNCHANGED <<tail, data, room, ubuf, pc, cur, want>>
         \/ /\ data[q] = 0 /\ nwriter[q] <= 0 /\ Returns(p)
            /\ UNCHANGED <<tail, data, room, ubuf>>
  BY <1>1, <1>4, ReadAt
<1> QED BY <1>2, <1>3, <1>5 DEF endVars

LEMMA WriteAt ==
  ASSUME NEW p \in Proc, WriteLoop(p), NEW q, q = pipePtr[fd[p][cur[p]]],
         room[q] \in Nat, todo[p] \in Seq(Byte)
  PROVE  /\ pc[p] = "write" /\ UNCHANGED <<fd, oftVars, endVars, tail, ubuf>>
         /\ \/ \E k \in Nat : /\ Added(p, q, k)
                               /\ IF k = Len(todo[p]) THEN Returns(p) ELSE UNCHANGED <<pc, cur, want>>
            \/ UNCHANGED <<buf, head, data, room, todo, cur, want>> /\ pc' = [pc EXCEPT ![p] = "exit"]
<1> DEFINE k == Min({room[q], Len(todo[p])})
<1>1. pc[p] = "write" /\ UNCHANGED <<fd, oftVars, endVars, tail, ubuf>>
  BY Zenon DEF WriteLoop, At
<1>2. \/ /\ buf' = [buf EXCEPT ![q] = Stored(q, todo[p], k)]
         /\ head' = [head EXCEPT ![q] = Forward(@, k)]
         /\ data' = [data EXCEPT ![q] = @ + k]
         /\ room' = [room EXCEPT ![q] = @ - k]
         /\ todo' = [todo EXCEPT ![p] = SubSeq(@, k + 1, Len(@))]
         /\ \/ k = Len(todo[p]) /\ Returns(p)
            \/ k < Len(todo[p]) /\ UNCHANGED <<pc, cur, want>>
      \/ UNCHANGED <<buf, head, data, room, todo, cur, want>> /\ pc' = [pc EXCEPT ![p] = "exit"]
  BY Zenon DEF WriteLoop
<1>3. Len(todo[p]) \in Nat
  BY LenProperties
<1>4. k \in Nat /\ k <= room[q] /\ k <= Len(todo[p]) /\ k \in 0..room[q]
  BY <1>3, MinOfTwo
<1> HIDE DEF k
<1>5. CASE /\ buf' = [buf EXCEPT ![q] = Stored(q, todo[p], k)]
           /\ head' = [head EXCEPT ![q] = Forward(@, k)]
           /\ data' = [data EXCEPT ![q] = @ + k]
           /\ room' = [room EXCEPT ![q] = @ - k]
           /\ todo' = [todo EXCEPT ![p] = SubSeq(@, k + 1, Len(@))]
           /\ \/ k = Len(todo[p]) /\ Returns(p)
              \/ k < Len(todo[p]) /\ UNCHANGED <<pc, cur, want>>
  <2>1. Added(p, q, k)
    BY <1>4, <1>5 DEF Added
  <2>2. IF k = Len(todo[p]) THEN Returns(p) ELSE UNCHANGED <<pc, cur, want>>
    <3>1. ~ (k = Len(todo[p]) /\ k < Len(todo[p]))
      BY <1>3, <1>4
    <3> QED BY <1>5, <3>1
  <2> QED BY <1>1, <1>4, <2>1, <2>2
<1> QED BY <1>1, <1>2, <1>5

LEMMA WriteCases ==
  ASSUME PipeInv, RingInv, NEW p \in Proc, WriteLoop(p)
  PROVE  /\ pc[p] = "write" /\ UNCHANGED <<busy, tail, ubuf>>
         /\ \/ \E q \in Pipes : busy[q] /\ \E k \in Nat : Added(p, q, k)
            \/ UNCHANGED <<buf, head, data, room, todo, cur, want>> /\ pc' = [pc EXCEPT ![p] = "exit"]
<1>1. PICK q : q = pipePtr[fd[p][cur[p]]]
  OBVIOUS
<1>2. pc[p] = "write"
  BY Zenon DEF WriteLoop, At
<1>3. q \in Pipes /\ busy[q]
  BY <1>1, <1>2, EndHeld
<1>4. room[q] \in Nat /\ todo[p] \in Seq(Byte)
  BY <1>3, PipeAssumption DEF RingInv, RingOf, PipeInv, PipeType
<1>5. /\ UNCHANGED <<fd, oftVars, endVars, tail, ubuf>>
      /\ \/ \E k \in Nat : /\ Added(p, q, k)
                            /\ IF k = Len(todo[p]) THEN Returns(p) ELSE UNCHANGED <<pc, cur, want>>
         \/ UNCHANGED <<buf, head, data, room, todo, cur, want>> /\ pc' = [pc EXCEPT ![p] = "exit"]
  BY <1>1, <1>2, <1>4, WriteAt
<1> QED BY <1>2, <1>3, <1>5 DEF endVars
-----------------------------------------------------------------------------
(* The bytes in the pipes, as PipeChannel sees them. *)
Chan == [q \in Pipes |-> Oldest(q, data[q])]

LEMMA ChanValue ==
  ASSUME \A q \in Pipes : RingOf(q), NEW q \in Pipes
  PROVE  /\ Chan[q] \in Seq(Byte) /\ Len(Chan[q]) = data[q] /\ data[q] \in 0..PSIZE
         /\ \A j \in 1..data[q] : Chan[q][j] = buf[q][Forward(tail[q], j - 1)]
<1>1. RingOf(q)
  OBVIOUS
<1>2. data[q] \in 0..data[q] /\ data[q] \in 0..PSIZE
  BY <1>1, PipeAssumption DEF RingOf
<1>3. Chan[q] = Oldest(q, data[q])
  BY DEF Chan
<1> QED BY <1>1, <1>2, <1>3, OldestValue

LEMMA NextChanValue ==
  ASSUME NEW q \in Pipes, RingOf(q)'
  PROVE  /\ Chan'[q] \in Seq(Byte) /\ Len(Chan'[q]) = data'[q] /\ data'[q] \in 0..PSIZE
         /\ \A j \in 1..data'[q] : Chan'[q][j] = buf'[q][Forward(tail'[q], j - 1)]
<1>1. /\ tail'[q] \in Slots /\ data'[q] \in 0..PSIZE
      /\ \A j \in 0..(data'[q] - 1) : buf'[q][Forward(tail'[q], j)] \in Byte
  BY DEF RingOf
<1> DEFINE s == [j \in 1..data'[q] |-> buf'[q][(tail'[q] + j - 1) % PSIZE]]
<1>2. Chan'[q] = s
  BY DEF Chan, Oldest
<1>3. /\ s \in Seq(Byte) /\ Len(s) = data'[q]
      /\ \A j \in 1..data'[q] : s[j] = buf'[q][Forward(tail'[q], j - 1)]
  BY <1>1, BytesFrom
<1> QED BY <1>1, <1>2, <1>3

(* The bytes of a pipe that a step leaves alone. *)
LEMMA OldestKept ==
  ASSUME NEW x \in Pipes, buf'[x] = buf[x], tail'[x] = tail[x], data'[x] = data[x]
  PROVE  Chan'[x] = Chan[x]
BY DEF Chan, Oldest

LEMMA RingFits ==
  ASSUME RingInv PROVE Rings /\ \A q \in Pipes : busy[q] => Fits(q)
BY PipeAssumption DEF RingInv, Rings, RingOf, Fits

LEMMA TakenRing ==
  ASSUME Rings, NEW p \in Proc, NEW q \in Pipes, Fits(q), NEW k \in Nat, Taken(p, q, k),
         UNCHANGED <<busy, buf, head, todo>>
  PROVE  /\ \A x \in Pipes : RingOf(x)' /\ room'[x] + data'[x] = room[x] + data[x]
         /\ Chan' = [Chan EXCEPT ![q] = SubSeq(@, k + 1, Len(@))]
         /\ ubuf' = [ubuf EXCEPT ![p] = SubSeq(Chan[q], 1, k)]
<1> DEFINE d == data[q]
<1>1. /\ \A x \in Pipes : RingOf(x)
      /\ RingOf(q)
  BY DEF Rings
<1>2. /\ d \in 0..PSIZE /\ k \in 1..d /\ k \in 0..PSIZE /\ d - k \in 0..PSIZE
      /\ PSIZE \in Nat \ {0} /\ room[q] \in 0..PSIZE /\ room[q] + d <= PSIZE
  BY <1>1, PipeAssumption DEF RingOf, Taken, Fits
<1>3. /\ tail'[q] = Forward(tail[q], k) /\ data'[q] = d - k /\ room'[q] = room[q] + k
      /\ \A x \in Pipes : x # q => tail'[x] = tail[x] /\ data'[x] = data[x] /\ room'[x] = room[x]
  BY DEF Taken, Rings, Functions
<1>4. \A j \in 0..(d - k) : Forward(tail'[q], j) = Forward(tail[q], k + j)
  BY <1>1, <1>2, <1>3, ForwardTwice DEF RingOf
<1>5. RingOf(q)'
  <2>1. tail'[q] \in Slots
    BY <1>1, <1>2, <1>3, ForwardValue DEF RingOf
  <2>2. head'[q] = Forward(tail'[q], data'[q])
    BY <1>1, <1>2, <1>3, <1>4 DEF RingOf
  <2>3. /\ busy'[q] => room'[q] = PSIZE - data'[q]
        /\ room'[q] \in 0..PSIZE /\ data'[q] \in 0..PSIZE
    BY <1>1, <1>2, <1>3 DEF RingOf
  <2>4. \A j \in 0..(data'[q] - 1) : buf'[q][Forward(tail'[q], j)] \in Byte
    <3> TAKE j \in 0..(data'[q] - 1)
    <3>1. k + j \in 0..(d - 1) /\ j \in 0..(d - k)
      BY <1>2, <1>3
    <3> QED BY <1>1, <1>4, <3>1 DEF RingOf
  <2> QED BY <1>1, <2>1, <2>2, <2>3, <2>4 DEF RingOf
<1>6. \A x \in Pipes : RingOf(x)'
  <2> TAKE x \in Pipes
  <2>1. CASE x # q
    BY <1>1, <1>3, <2>1 DEF RingOf
  <2> QED BY <1>5, <2>1
<1>7. Chan'[q] = SubSeq(Chan[q], k + 1, Len(Chan[q]))
  <2>1. /\ Chan[q] \in Seq(Byte) /\ Len(Chan[q]) = d
        /\ \A j \in 1..d : Chan[q][j] = buf[q][Forward(tail[q], j - 1)]
    BY <1>1, ChanValue
  <2>2. /\ Chan'[q] \in Seq(Byte) /\ Len(Chan'[q]) = d - k
        /\ \A j \in 1..(d - k) : Chan'[q][j] = buf[q][Forward(tail'[q], j - 1)]
    BY <1>3, <1>6, NextChanValue
  <2>3. \A j \in 1..(d - k) : Chan'[q][j] = Chan[q][k + j]
    <3> TAKE j \in 1..(d - k)
    <3>1. j - 1 \in 0..(d - k) /\ k + j \in 1..d /\ (k + j) - 1 = k + (j - 1)
      BY <1>2
    <3> QED BY <1>4, <2>1, <2>2, <3>1
  <2>4. /\ SubSeq(Chan[q], k + 1, Len(Chan[q])) \in Seq(Byte)
        /\ Len(SubSeq(Chan[q], k + 1, Len(Chan[q]))) = d - k
        /\ \A j \in 1..(d - k) : SubSeq(Chan[q], k + 1, Len(Chan[q]))[j] = Chan[q][k + j]
    <3>1. PICK c \in Seq(Byte) : c = Chan[q] /\ Len(c) = d
      BY <2>1
    <3>2. d \in Nat /\ k \in 0..d
      BY <1>2
    <3>3. SubSeq(c, k + 1, d) \in Seq(Byte) /\ Len(SubSeq(c, k + 1, d)) = d - k
      BY <3>1, <3>2
    <3>4. \A j \in 1..(d - k) : SubSeq(c, k + 1, d)[j] = c[k + j]
      BY <3>1, <3>2
    <3> QED BY <3>1, <3>3, <3>4
  <2>5. Len(Chan'[q]) = Len(SubSeq(Chan[q], k + 1, Len(Chan[q])))
    BY <2>2, <2>4
  <2>6. \A j \in 1..Len(Chan'[q]) : Chan'[q][j] = SubSeq(Chan[q], k + 1, Len(Chan[q]))[j]
    BY <2>2, <2>3, <2>4
  <2> HIDE DEF d
  <2> QED BY <2>2, <2>4, <2>5, <2>6, SeqEqual
<1>8. Chan' = [Chan EXCEPT ![q] = SubSeq(@, k + 1, Len(@))]
  <2>1. \A x \in Pipes : x # q => Chan'[x] = Chan[x]
    BY <1>3, OldestKept
  <2> QED BY <1>7, <2>1 DEF Chan
<1>9. Oldest(q, k) = SubSeq(Chan[q], 1, k)
  <2>1. /\ Chan[q] \in Seq(Byte) /\ Len(Chan[q]) = d
        /\ \A j \in 1..d : Chan[q][j] = buf[q][Forward(tail[q], j - 1)]
    BY <1>1, ChanValue
  <2>2. /\ Oldest(q, k) \in Seq(Byte) /\ Len(Oldest(q, k)) = k
        /\ \A j \in 1..k : Oldest(q, k)[j] = buf[q][Forward(tail[q], j - 1)]
    BY <1>1, <1>2, OldestValue
  <2>3. /\ SubSeq(Chan[q], 1, k) \in Seq(Byte) /\ Len(SubSeq(Chan[q], 1, k)) = k
        /\ \A j \in 1..k : SubSeq(Chan[q], 1, k)[j] = Chan[q][j]
    BY <1>2, <2>1
  <2>4. Len(Oldest(q, k)) = Len(SubSeq(Chan[q], 1, k))
    BY <2>2, <2>3
  <2>5. \A j \in 1..k : Oldest(q, k)[j] = SubSeq(Chan[q], 1, k)[j]
    <3> TAKE j \in 1..k
    <3>1. j \in 1..d
      BY <1>2
    <3> QED BY <2>1, <2>2, <2>3, <3>1
  <2> HIDE DEF d
  <2> QED BY <2>2, <2>3, <2>4, <2>5, SeqEqual
<1>10. \A x \in Pipes : room'[x] + data'[x] = room[x] + data[x]
  <2> TAKE x \in Pipes
  <2>1. CASE x = q
    BY <1>2, <1>3, <2>1
  <2>2. CASE x # q
    BY <1>3, <2>2
  <2> QED BY <2>1, <2>2
<1> QED BY <1>6, <1>8, <1>9, <1>10 DEF Taken

LEMMA AddedRing ==
  ASSUME Rings, NEW p \in Proc, todo[p] \in Seq(Byte), NEW q \in Pipes, Fits(q), NEW k \in Nat,
         Added(p, q, k), UNCHANGED <<busy, tail, ubuf>>
  PROVE  /\ \A x \in Pipes : RingOf(x)' /\ room'[x] + data'[x] = room[x] + data[x]
         /\ Chan' = [Chan EXCEPT ![q] = @ \o SubSeq(todo[p], 1, k)]
         /\ k <= PSIZE - Len(Chan[q])
         /\ SubSeq(todo[p], 1, k) \in [1..k -> Byte]
<1> DEFINE d == data[q]
           t == todo[p]
<1>1. /\ \A x \in Pipes : RingOf(x)
      /\ RingOf(q)
  BY DEF Rings
<1>a. /\ d \in 0..PSIZE /\ room[q] \in 0..PSIZE /\ room[q] + d <= PSIZE
      /\ k \in 0..room[q] /\ PSIZE \in Nat \ {0}
      /\ busy[q] => room[q] = PSIZE - d
  BY <1>1, PipeAssumption DEF RingOf, Added, Fits
<1>2. /\ d \in 0..PSIZE /\ k \in 0..PSIZE /\ d + k \in 0..PSIZE
      /\ PSIZE \in Nat \ {0}
  BY <1>a
<1>3. t \in Seq(Byte) /\ Len(t) \in Nat /\ k <= Len(t)
  BY LenProperties DEF Added
<1>4. /\ head'[q] = Forward(head[q], k) /\ data'[q] = d + k /\ room'[q] = room[q] - k
      /\ tail'[q] = tail[q] /\ buf'[q] = Stored(q, t, k)
      /\ \A x \in Pipes : x # q => /\ head'[x] = head[x] /\ data'[x] = data[x]
                                  /\ room'[x] = room[x] /\ buf'[x] = buf[x]
  BY DEF Added, Rings, Functions
<1>5. ASSUME NEW j \in 0..(d + k - 1)
      PROVE  buf'[q][Forward(tail[q], j)] = IF j < d THEN buf[q][Forward(tail[q], j)]
                                            ELSE t[j - d + 1]
  <2>1. j \in 0..(PSIZE - 1) /\ j \in 0..PSIZE
    BY <1>2
  <2>2. tail[q] \in Slots /\ head[q] = Forward(tail[q], d)
    BY <1>1 DEF RingOf
  <2>3. (Forward(tail[q], j) - head[q]) % PSIZE = IF j >= d THEN j - d ELSE j - d + PSIZE
    BY <1>2, <2>1, <2>2, BehindHead
  <2>4. Forward(tail[q], j) \in Slots
    BY <2>1, <2>2, ForwardValue
  <2> DEFINE m == (Forward(tail[q], j) - head[q]) % PSIZE
  <2>5. buf'[q][Forward(tail[q], j)] = IF m < k THEN t[m + 1] ELSE buf[q][Forward(tail[q], j)]
    BY <1>4, <2>4 DEF Stored
  <2>6. m < k <=> j >= d
    BY <1>2, <2>1, <2>3
  <2> HIDE DEF m
  <2>7. CASE j < d
    BY <1>2, <2>1, <2>5, <2>6, <2>7
  <2>8. CASE j >= d
    <3>1. m = j - d /\ ~ (j < d)
      BY <1>2, <2>1, <2>3, <2>8 DEF m
    <3> QED BY <2>5, <2>6, <2>8, <3>1
  <2> QED BY <1>2, <2>1, <2>7, <2>8
<1>6. ASSUME NEW j \in 1..k PROVE t[j] \in Byte
  BY <1>3, <1>6
<1>7. RingOf(q)'
  <2>1. buf'[q] \in [Slots -> Byte \cup {None}]
    <3>1. ASSUME NEW j \in Slots, (j - head[q]) % PSIZE < k
          PROVE  t[((j - head[q]) % PSIZE) + 1] \in Byte
      <4>1. (j - head[q]) % PSIZE \in Nat
        BY <1>1, <1>2 DEF Slots, RingOf
      <4>2. ((j - head[q]) % PSIZE) + 1 \in 1..k
        BY <1>2, <3>1, <4>1
      <4> QED BY <1>6, <4>2
    <3> QED BY <1>1, <1>4, <3>1 DEF RingOf, Stored
  <2>2. head'[q] \in Slots /\ head'[q] = Forward(tail'[q], data'[q])
    <3>1. head[q] \in Slots /\ tail[q] \in Slots /\ head[q] = Forward(tail[q], d)
      BY <1>1 DEF RingOf
    <3>2. Forward(head[q], k) \in Slots
      BY <1>2, <3>1, ForwardValue
    <3>3. Forward(Forward(tail[q], d), k) = Forward(tail[q], d + k)
      BY <1>2, <3>1, ForwardTwice
    <3> QED BY <1>4, <3>1, <3>2, <3>3
  <2>3. /\ busy'[q] => room'[q] = PSIZE - data'[q]
        /\ room'[q] \in 0..PSIZE /\ data'[q] \in 0..PSIZE
    <3>1. busy'[q] => room'[q] = PSIZE - data'[q]
      BY <1>a, <1>4
    <3>2. room'[q] \in 0..PSIZE
      BY <1>a, <1>4
    <3>3. data'[q] \in 0..PSIZE
      BY <1>a, <1>4
    <3> QED BY <3>1, <3>2, <3>3
  <2>4. \A j \in 0..(data'[q] - 1) : buf'[q][Forward(tail'[q], j)] \in Byte
    <3> TAKE j \in 0..(data'[q] - 1)
    <3>1. j \in 0..(d + k - 1)
      BY <1>2, <1>4
    <3>2. CASE j < d
      <4>1. j \in 0..(d - 1)
        BY <3>1, <3>2, <1>2
      <4> QED BY <1>1, <1>4, <1>5, <3>1, <3>2, <4>1 DEF RingOf
    <3>3. CASE j >= d
      <4>1. j - d + 1 \in 1..k /\ ~ (j < d)
        BY <1>2, <3>1, <3>3
      <4>2. buf'[q][Forward(tail[q], j)] = t[j - d + 1]
        BY <1>5, <3>1, <4>1
      <4> QED BY <1>4, <1>6, <4>1, <4>2
    <3> QED BY <1>2, <3>1, <3>2, <3>3
  <2> QED BY <1>1, <1>4, <2>1, <2>2, <2>3, <2>4 DEF RingOf
<1>8. \A x \in Pipes : RingOf(x)'
  <2> TAKE x \in Pipes
  <2>1. CASE x # q
    BY <1>1, <1>4, <2>1 DEF RingOf
  <2> QED BY <1>7, <2>1
<1> DEFINE s == SubSeq(t, 1, k)
<1>9. s \in Seq(Byte) /\ Len(s) = k /\ \A j \in 1..k : s[j] = t[j]
  BY <1>2, <1>3
<1> HIDE DEF s
<1>10. /\ Chan[q] \in Seq(Byte) /\ Len(Chan[q]) = d
       /\ \A j \in 1..d : Chan[q][j] = buf[q][Forward(tail[q], j - 1)]
  BY <1>1, ChanValue
<1>11. Chan'[q] = Chan[q] \o s
  <2>1. /\ Chan'[q] \in Seq(Byte) /\ Len(Chan'[q]) = d + k
        /\ \A j \in 1..(d + k) : Chan'[q][j] = buf'[q][Forward(tail[q], j - 1)]
    BY <1>4, <1>8, NextChanValue
  <2>2. /\ Chan[q] \o s \in Seq(Byte) /\ Len(Chan[q] \o s) = d + k
        /\ \A j \in 1..(d + k) : (Chan[q] \o s)[j] = IF j <= d THEN Chan[q][j] ELSE s[j - d]
    <3>0. Chan[q] \in Seq(Byte) /\ s \in Seq(Byte)
      BY <1>9, <1>10
    <3>1. /\ Chan[q] \o s \in Seq(Byte)
          /\ Len(Chan[q] \o s) = Len(Chan[q]) + Len(s)
          /\ \A j \in 1..(Len(Chan[q]) + Len(s)) :
               (Chan[q] \o s)[j] = IF j <= Len(Chan[q]) THEN Chan[q][j] ELSE s[j - Len(Chan[q])]
      BY <3>0, ConcatProperties, Zenon
    <3>2. Len(Chan[q]) + Len(s) = d + k
      BY <1>9, <1>10
    <3> QED BY <1>10, <3>1, <3>2
  <2>3. \A j \in 1..(d + k) : Chan'[q][j] = (Chan[q] \o s)[j]
    <3> TAKE j \in 1..(d + k)
    <3>1. j - 1 \in 0..(d + k - 1) /\ (j - 1) - d + 1 = j - d
      BY <1>2
    <3>2. CASE j <= d
      <4>1. j \in 1..d /\ j - 1 < d
        BY <1>2, <3>2
      <4>2. Chan'[q][j] = buf[q][Forward(tail[q], j - 1)]
        BY <1>5, <2>1, <3>1, <4>1
      <4> QED BY <1>10, <2>2, <3>2, <4>1, <4>2
    <3>3. CASE ~ (j <= d)
      <4>1. j - d \in 1..k /\ ~ (j - 1 < d) /\ ~ (j <= d)
        BY <1>2, <3>3
      <4> QED BY <1>5, <1>9, <2>1, <2>2, <3>1, <4>1
    <3> QED BY <3>2, <3>3
  <2>4. Len(Chan'[q]) = Len(Chan[q] \o s)
    BY <2>1, <2>2
  <2>5. \A j \in 1..Len(Chan'[q]) : Chan'[q][j] = (Chan[q] \o s)[j]
    BY <2>1, <2>3
  <2> QED BY <2>1, <2>2, <2>4, <2>5, SeqEqual
<1>12. Chan' = [Chan EXCEPT ![q] = @ \o s]
  <2>1. \A x \in Pipes : x # q => Chan'[x] = Chan[x]
    BY <1>4, OldestKept
  <2> QED BY <1>11, <2>1 DEF Chan
<1>13. s \in [1..k -> Byte]
  BY <1>2, <1>9
<1>14. k <= PSIZE - Len(Chan[q])
  BY <1>2, <1>10
<1>15. \A x \in Pipes : room'[x] + data'[x] = room[x] + data[x]
  <2> TAKE x \in Pipes
  <2>1. CASE x = q
    BY <1>a, <1>4, <2>1
  <2>2. CASE x # q
    BY <1>4, <2>2
  <2> QED BY <2>1, <2>2
<1> QED BY <1>8, <1>12, <1>13, <1>14, <1>15 DEF s
-----------------------------------------------------------------------------
(* RingInv holds at first and after every step. *)

LEMMA RingInit == Init => RingInv
<1> SUFFICES ASSUME Init PROVE RingInv
  OBVIOUS
<1>1. PSIZE \in Nat \ {0} /\ MaxBytes \in Nat /\ 0 \in Slots /\ 0 \in Fds
  BY PipeAssumption DEF Slots, Fds
<1>2. Forward(0, 0) = 0
  BY <1>1, ForwardValue
<1>3. Functions
  BY DEF Init, Functions
<1>4. ASSUME NEW q \in Pipes PROVE RingOf(q)
  <2>1. /\ buf[q] = [k \in Slots |-> None] /\ head[q] = 0 /\ tail[q] = 0
        /\ data[q] = 0 /\ room[q] = 0 /\ ~ busy[q]
    BY DEF Init
  <2>2. buf[q] \in [Slots -> Byte \cup {None}]
    BY <2>1
  <2> QED BY <1>1, <1>2, <2>1, <2>2 DEF RingOf
<1>5. ASSUME NEW p \in Proc PROVE UserOf(p)
  <2>1. cur[p] = 0 /\ want[p] = 0 /\ todo[p] = <<>> /\ ubuf[p] = <<>> /\ pc[p] # "read"
    BY DEF Init
  <2> QED BY <1>1, <2>1 DEF UserOf
<1> QED BY <1>3, <1>4, <1>5 DEF RingInv

LEMMA RingsKept ==
  ASSUME RingInv, UNCHANGED ringVars, \A q \in Pipes : busy'[q] => busy[q]
  PROVE  (\A q \in Pipes : RingOf(q)') /\ UNCHANGED Chan
<1>1. UNCHANGED <<buf, head, tail, data, room>>
  BY DEF ringVars
<1>2. \A q \in Pipes : RingOf(q)'
  BY <1>1 DEF RingInv, RingOf
<1>3. UNCHANGED Chan
  BY <1>1 DEF Chan, Oldest
<1> QED BY <1>2, <1>3

LEMMA UsersKept ==
  ASSUME RingInv, UNCHANGED callVars, \A p \in Proc : pc'[p] = "read" => pc[p] = "read"
  PROVE  (\A p \in Proc : UserOf(p)') /\ UNCHANGED ubuf
BY DEF RingInv, UserOf, callVars

(* A step that leaves the rings and the calls alone. *)
LEMMA StepOutside ==
  ASSUME RingInv, UNCHANGED <<ringVars, callVars>>,
         \A q \in Pipes : busy'[q] => busy[q],
         \A p \in Proc : pc'[p] = "read" => pc[p] = "read"
  PROVE  RingInv' /\ UNCHANGED <<Chan, ubuf>>
<1>1. Functions'
  BY DEF RingInv, Functions, ringVars, callVars
<1>2. (\A q \in Pipes : RingOf(q)') /\ UNCHANGED Chan
  BY RingsKept
<1>3. (\A p \in Proc : UserOf(p)') /\ UNCHANGED ubuf
  BY UsersKept
<1> QED BY <1>1, <1>2, <1>3 DEF RingInv

LEMMA MadeRing ==
  ASSUME Rings, busy \in [Pipes -> BOOLEAN], NEW p, NEW q \in Pipes, NEW o1, NEW o2, NEW i1, NEW i2,
         MadeOf(p, q, o1, o2, i1, i2), UNCHANGED <<buf, callVars>>
  PROVE  /\ Rings' /\ Chan' = [Chan EXCEPT ![q] = <<>>]
         /\ \A x \in Pipes : room'[x] + data'[x] = IF x = q THEN PSIZE ELSE room[x] + data[x]
<1>3. /\ busy' = [busy EXCEPT ![q] = TRUE]
      /\ head' = [head EXCEPT ![q] = 0] /\ tail' = [tail EXCEPT ![q] = 0]
      /\ data' = [data EXCEPT ![q] = 0] /\ room' = [room EXCEPT ![q] = PSIZE]
  BY DEF MadeOf
<1>4. Functions'
  BY <1>3 DEF Rings, Functions, callVars
<1>5. /\ head'[q] = 0 /\ tail'[q] = 0 /\ data'[q] = 0 /\ room'[q] = PSIZE
      /\ \A x \in Pipes : x # q =>
           /\ head'[x] = head[x] /\ tail'[x] = tail[x] /\ data'[x] = data[x]
           /\ room'[x] = room[x] /\ buf'[x] = buf[x] /\ busy'[x] = busy[x]
  BY <1>3 DEF Rings, Functions
<1>1. PSIZE \in Nat \ {0} /\ 0 \in Slots /\ Forward(0, 0) = 0
  <2>1. PSIZE \in Nat \ {0} /\ 0 \in Slots
    BY PipeAssumption DEF Slots
  <2> QED BY <2>1, ForwardValue
<1>6. RingOf(q)'
  <2>2. buf'[q] \in [Slots -> Byte \cup {None}]
    BY DEF Rings, RingOf
  <2> QED BY <1>1, <1>5, <2>2 DEF RingOf
<1>7. \A x \in Pipes : RingOf(x)'
  <2> TAKE x \in Pipes
  <2>1. CASE x # q
    BY <1>5, <2>1 DEF Rings, RingOf
  <2> QED BY <1>6, <2>1
<1>8. Chan' = [Chan EXCEPT ![q] = <<>>]
  <2>1. Chan'[q] = <<>>
    <3>1. Chan'[q] \in Seq(Byte) /\ Len(Chan'[q]) = 0
      BY <1>5, <1>6, NextChanValue
    <3> QED BY <3>1
  <2>2. \A x \in Pipes : x # q => Chan'[x] = Chan[x]
    BY <1>5, OldestKept
  <2> QED BY <2>1, <2>2 DEF Chan
<1>9. \A x \in Pipes : room'[x] + data'[x] = IF x = q THEN PSIZE ELSE room[x] + data[x]
  BY <1>1, <1>5
<1> QED BY <1>4, <1>7, <1>8, <1>9 DEF Rings

LEMMA MakeStep ==
  ASSUME PipeInv, RingInv, NEW p \in Proc, MakePipe(p) PROVE RingInv'
<1>1. UNCHANGED <<buf, pc, callVars>>
  BY DEF MakePipe
<1>2. PICK q \in Pipes, o1 \in Ofts, o2 \in Ofts, i1 \in Fds, i2 \in Fds :
            MadeOf(p, q, o1, o2, i1, i2)
  BY NewPipe
<1>3. Rings' /\ Chan' = [Chan EXCEPT ![q] = <<>>]
  <2>1. Rings /\ busy \in [Pipes -> BOOLEAN]
    BY RingFits DEF PipeInv, PipeType
  <2> QED BY <1>1, <1>2, <2>1, MadeRing
<1>4. (\A r \in Proc : UserOf(r)') /\ UNCHANGED ubuf
  BY <1>1, UsersKept
<1> QED BY <1>3, <1>4 DEF RingInv, Rings

LEMMA CallStep ==
  ASSUME PipeInv, RingInv, NEW p \in Proc,
         \/ \E i \in Fds, n \in 1..MaxBytes : Read(p, i, n)
         \/ \E i \in Fds, s \in Messages : Write(p, i, s)
         \/ ExitDone(p)
  PROVE  RingInv'
<1>1. UNCHANGED ringVars /\ UNCHANGED endVars /\ ubuf' = [ubuf EXCEPT ![p] = <<>>]
  BY DEF Read, Write, ExitDone
<1>2. (\A q \in Pipes : RingOf(q)') /\ UNCHANGED Chan
  BY <1>1, RingsKept DEF endVars
<1>3. 0 \in Fds /\ MaxBytes \in Nat
  BY PipeAssumption DEF Fds
<1>4. Functions'
  BY <1>1 DEF RingInv, Functions, ringVars, Read, Write, ExitDone
<1>5. ASSUME NEW r \in Proc PROVE UserOf(r)'
  <2>1. UserOf(r)
    BY DEF RingInv
  <2>2. /\ cur \in [Proc -> Nat] /\ want \in [Proc -> Nat] /\ todo \in [Proc -> Seq(Byte)]
        /\ pc \in [Proc -> Points]
    BY DEF PipeInv, PipeType
  <2>3. ubuf'[r] \in {ubuf[r], <<>>}
    BY <1>1 DEF RingInv, Functions
  <2>4. CASE r # p
    BY <2>1, <2>2, <2>3, <2>4 DEF UserOf, Read, Write, ExitDone
  <2>5. CASE r = p
    <3>1. CASE \E i \in Fds, n \in 1..MaxBytes : Read(p, i, n)
      BY <1>3, <2>1, <2>2, <2>3, <2>5, <3>1 DEF UserOf, Read
    <3>2. CASE \E i \in Fds, s \in Messages : Write(p, i, s)
      BY <1>3, <2>1, <2>2, <2>3, <2>5, <3>2 DEF UserOf, Write
    <3>3. CASE ExitDone(p)
      BY <1>3, <2>1, <2>2, <2>3, <2>5, <3>3 DEF UserOf, ExitDone
    <3> QED BY <3>1, <3>2, <3>3
  <2> QED BY <2>4, <2>5
<1> QED BY <1>1, <1>2, <1>4, <1>5 DEF RingInv

LEMMA ReadStep ==
  ASSUME PipeInv, RingInv, NEW p \in Proc, ReadLoop(p) PROVE RingInv'
<1>1. /\ pc[p] = "read" /\ UNCHANGED <<busy, buf, head, todo>>
      /\ \/ \E q \in Pipes : busy[q] /\ \E k \in Nat : Taken(p, q, k)
         \/ /\ UNCHANGED <<tail, data, room, ubuf>>
            /\ Returns(p) \/ UNCHANGED <<pc, cur, want>>
  BY ReadCases
<1>2. 0 \in Fds /\ MaxBytes \in Nat
  BY PipeAssumption DEF Fds
<1>3. pc \in [Proc -> Points]
  BY DEF PipeInv, PipeType
<1>4. CASE \E q \in Pipes : busy[q] /\ \E k \in Nat : Taken(p, q, k)
  <2>1. PICK q \in Pipes, k \in Nat : busy[q] /\ Taken(p, q, k)
    BY <1>4
  <2>2. /\ \A x \in Pipes : RingOf(x)'
        /\ Chan' = [Chan EXCEPT ![q] = SubSeq(@, k + 1, Len(@))]
        /\ ubuf' = [ubuf EXCEPT ![p] = SubSeq(Chan[q], 1, k)]
    BY <1>1, <2>1, RingFits, TakenRing
  <2>5. Functions'
    BY <1>1, <2>1 DEF RingInv, Functions, Taken, Returns
  <2>6. ubuf'[p] \in Messages \cup {<<>>}
    <3>1. ubuf'[p] = Oldest(q, k)
      BY <2>1 DEF Taken, RingInv, Functions
    <3>2. k \in 0..data[q] /\ k <= want[p] /\ want[p] \in 0..MaxBytes /\ RingOf(q)
      BY <2>1 DEF Taken, RingInv, UserOf
    <3>3. Oldest(q, k) \in Seq(Byte) /\ Len(Oldest(q, k)) = k
      BY <3>2, OldestValue
    <3> QED BY <1>2, <3>1, <3>2, <3>3, MessageSeq
  <2>7. ASSUME NEW r \in Proc PROVE UserOf(r)'
    <3>1. UserOf(r)
      BY DEF RingInv
    <3>2. CASE r # p
      BY <1>1, <1>3, <2>1, <3>1, <3>2 DEF UserOf, Taken, Returns, RingInv, Functions
    <3>3. CASE r = p
      BY <1>1, <1>2, <1>3, <2>1, <2>6, <3>1, <3>3 DEF UserOf, Taken, Returns, RingInv, Functions
    <3> QED BY <3>2, <3>3
  <2> QED BY <2>2, <2>5, <2>7 DEF RingInv
<1>5. CASE /\ UNCHANGED <<tail, data, room, ubuf>>
           /\ Returns(p) \/ UNCHANGED <<pc, cur, want>>
  <2>1. (\A q \in Pipes : RingOf(q)') /\ UNCHANGED Chan
    BY <1>1, <1>5, RingsKept DEF ringVars
  <2>2. Functions'
    BY <1>1, <1>5 DEF RingInv, Functions, Returns
  <2>3. \A r \in Proc : UserOf(r)'
    BY <1>1, <1>2, <1>3, <1>5 DEF RingInv, Functions, UserOf, Returns
  <2> QED BY <1>5, <2>1, <2>2, <2>3 DEF RingInv
<1> QED BY <1>1, <1>4, <1>5

LEMMA WriteStep ==
  ASSUME PipeInv, RingInv, NEW p \in Proc, WriteLoop(p) PROVE RingInv'
<1>1. /\ pc[p] = "write" /\ UNCHANGED <<busy, tail, ubuf>>
      /\ \/ \E q \in Pipes : busy[q] /\ \E k \in Nat : Added(p, q, k)
         \/ UNCHANGED <<buf, head, data, room, todo, cur, want>> /\ pc' = [pc EXCEPT ![p] = "exit"]
  BY WriteCases
<1>2. 0 \in Fds /\ MaxBytes \in Nat
  BY PipeAssumption DEF Fds
<1>3. pc \in [Proc -> Points]
  BY DEF PipeInv, PipeType
<1>4. CASE \E q \in Pipes : busy[q] /\ \E k \in Nat : Added(p, q, k)
  <2>1. PICK q \in Pipes, k \in Nat : busy[q] /\ Added(p, q, k)
    BY <1>4
  <2> DEFINE s == SubSeq(todo[p], 1, k)
  <2>2. /\ \A x \in Pipes : RingOf(x)'
        /\ Chan' = [Chan EXCEPT ![q] = @ \o s]
        /\ k <= PSIZE - Len(Chan[q]) /\ s \in [1..k -> Byte]
    <3>1. todo[p] \in Seq(Byte) /\ Added(p, q, k) /\ UNCHANGED <<busy, tail, ubuf>>
      BY <1>1, <2>1 DEF PipeInv, PipeType
    <3>2. Rings /\ Fits(q)
      BY <2>1, RingFits
    <3> QED BY <3>1, <3>2, AddedRing
  <2> HIDE DEF s
  <2>5. Functions'
    <3>1. Functions
      BY DEF RingInv
    <3>2. buf' = [x \in Pipes |-> buf'[x]] /\ head' = [x \in Pipes |-> head'[x]]
      BY <2>1, <3>1 DEF Functions, Added
    <3>3. data' = [x \in Pipes |-> data'[x]] /\ room' = [x \in Pipes |-> room'[x]]
      BY <2>1, <3>1 DEF Functions, Added
    <3>4. tail' = [x \in Pipes |-> tail'[x]] /\ ubuf' = [x \in Proc |-> ubuf'[x]]
      BY <1>1, <2>1, <3>1 DEF Functions, Added
    <3>5. /\ cur' = [x \in Proc |-> cur'[x]] /\ want' = [x \in Proc |-> want'[x]]
          /\ todo' = [x \in Proc |-> todo'[x]]
      BY <2>1, <3>1 DEF Functions, Added, Returns
    <3> QED BY <3>2, <3>3, <3>4, <3>5 DEF Functions
  <2>6. todo'[p] \in Messages \cup {<<>>}
    <3>1. todo[p] \in Seq(Byte) /\ Len(todo[p]) <= MaxBytes /\ Len(todo[p]) \in Nat
      BY MessageSeq, LenProperties DEF RingInv, UserOf
    <3>2. todo'[p] = SubSeq(todo[p], k + 1, Len(todo[p]))
      BY <2>1 DEF Added, RingInv, Functions
    <3>3. /\ SubSeq(todo[p], k + 1, Len(todo[p])) \in Seq(Byte)
          /\ Len(SubSeq(todo[p], k + 1, Len(todo[p]))) <= Len(todo[p])
      BY <3>1
    <3>4. todo'[p] \in Seq(Byte) /\ Len(todo'[p]) \in Nat /\ Len(todo'[p]) <= Len(todo[p])
      BY <3>2, <3>3, LenProperties
    <3>5. Len(todo'[p]) <= MaxBytes
      BY <1>2, <3>1, <3>4
    <3> QED BY <3>4, <3>5, MessageSeq
  <2>7. ASSUME NEW r \in Proc PROVE UserOf(r)'
    <3>1. UserOf(r)
      BY DEF RingInv
    <3>2. CASE r # p
      BY <1>1, <1>3, <2>1, <3>1, <3>2 DEF UserOf, Added, Returns, RingInv, Functions
    <3>3. CASE r = p
      <4>1. /\ cur'[p] \in {0, cur[p]} /\ want'[p] \in {0, want[p]} /\ pc'[p] # "read"
            /\ ubuf'[p] = ubuf[p]
        BY <1>1, <1>3, <2>1 DEF Added, Returns, RingInv, Functions
      <4> QED BY <1>2, <2>6, <3>1, <3>3, <4>1 DEF UserOf
    <3> QED BY <3>2, <3>3
  <2> QED BY <2>2, <2>5, <2>7 DEF RingInv
<1>5. CASE /\ UNCHANGED <<buf, head, data, room, todo, cur, want>>
           /\ pc' = [pc EXCEPT ![p] = "exit"]
  BY <1>1, <1>3, <1>5, StepOutside DEF ringVars, callVars
<1> QED BY <1>1, <1>4, <1>5

LEMMA EachStep ==
  ASSUME PipeInv, RingInv, [Next]_vars PROVE RingInv'
<1>1. CASE UNCHANGED vars
  BY <1>1, StepOutside DEF vars, ringVars, callVars, endVars
<1> SUFFICES ASSUME NEW p \in Proc, Call(p) \/ Loop(p) \/ Kill(p)
             PROVE  RingInv'
  BY <1>1 DEF Next
<1>t. busy \in [Pipes -> BOOLEAN] /\ pc \in [Proc -> Points]
  BY DEF PipeInv, PipeType
<1>2. ASSUME NEW i, CloseAny(p, i, None), UNCHANGED <<ringVars, callVars, pc>>
      PROVE  RingInv'
  <2>1. \A q \in Pipes : busy'[q] => busy[q]
    BY <1>t, <1>2 DEF CloseAny, ClosePipe, endVars
  <2> QED BY <1>2, <2>1, StepOutside
<1>3. CASE MakePipe(p)
  BY <1>3, MakeStep
<1>4. ASSUME NEW i \in Fds, Close(p, i) PROVE RingInv'
  BY <1>2, <1>4 DEF Close
<1>5. ASSUME NEW i \in Fds, Dup(p, i) PROVE RingInv'
  BY <1>5, StepOutside DEF Dup
<1>6. ASSUME NEW c \in Proc, Fork(p, c) PROVE RingInv'
  BY <1>t, <1>6, StepOutside DEF Fork
<1>7. CASE Exit(p)
  BY <1>t, <1>7, StepOutside DEF Exit, endVars
<1>8. CASE Kill(p)
  BY <1>8, StepOutside DEF Kill, endVars
<1>9. CASE ExitClose(p)
  BY <1>2, <1>9 DEF ExitClose
<1>10. CASE \/ \E i \in Fds, n \in 1..MaxBytes : Read(p, i, n)
            \/ \E i \in Fds, s \in Messages : Write(p, i, s)
            \/ ExitDone(p)
  BY <1>10, CallStep
<1>11. CASE ReadLoop(p)
  BY <1>11, ReadStep
<1>12. CASE WriteLoop(p)
  BY <1>12, WriteStep
<1> QED BY <1>3, <1>4, <1>5, <1>6, <1>7, <1>8, <1>9, <1>10, <1>11, <1>12 DEF Call, Loop

LEMMA RingInvariant == Spec => []RingInv
<1>1. PipeInv /\ RingInv /\ [Next]_vars => RingInv'
  BY EachStep
<1> QED BY <1>1, RingInit, PipeInvariant, PTL DEF Spec

-----------------------------------------------------------------------------
(* What PipeChannel sees of the pipes: who holds their ends, as the counts have it,
   the bytes in those in use, and the calls in progress. *)
HasReaders == [q \in Pipes |-> busy[q] /\ nreader[q] > 0]
HasWriters == [q \in Pipes |-> busy[q] /\ nwriter[q] > 0]
Within == [q \in Pipes |-> IF busy[q] THEN Chan[q] ELSE <<>>]
InCalls == [p \in Proc |-> InPipe(p)]
InNone == [kind |-> "idle"]

Told ==
  Held("READ_PIPE") = HasReaders /\ Held("WRITE_PIPE") = HasWriters /\ InRing = Within

LEMMA ToldTrue == PipeInv => Told
<1> SUFFICES ASSUME PipeInv PROVE Told
  OBVIOUS
<1>1. ASSUME NEW q \in Pipes, NEW end \in {"READ_PIPE", "WRITE_PIPE"}
      PROVE  /\ Count(fd, EndOfts(q, end)) \in Nat
             /\ AllEnds(q, end) # {} <=> Count(fd, EndOfts(q, end)) > 0
  <2>1. AllEnds(q, end) = Pointing(fd, EndOfts(q, end))
    BY DEF AllEnds, Ends, Pointing, EndOfts, Handle
  <2> QED BY <2>1, CountType
<1>2. \A q \in Pipes : /\ AllEnds(q, "READ_PIPE") # {} <=> Readers(q) > 0
                       /\ AllEnds(q, "WRITE_PIPE") # {} <=> Writers(q) > 0
  BY <1>1 DEF Readers, Writers
<1>3. \A q \in Pipes : /\ Readers(q) > 0 <=> busy[q] /\ nreader[q] > 0
                       /\ Writers(q) > 0 <=> busy[q] /\ nwriter[q] > 0
  BY DEF PipeInv, CountsInv
<1>4. InRing = Within
  BY DEF InRing, Within, Chan
<1> QED BY <1>2, <1>3, <1>4 DEF Told, Held, HasReaders, HasWriters

LEMMA ToldNext == PipeInv' => Told'
BY ToldTrue, PTL

ChanVars == <<Within, HasReaders, HasWriters, InCalls, ubuf>>
ChanStep == [Channel!CNext]_(Channel!cvars)

(* A step that shows nothing. *)
LEMMA StepHidden ==
  ASSUME PipeInv, PipeInv', UNCHANGED ChanVars
  PROVE  ChanStep
<1>1. UNCHANGED <<InRing, Held("READ_PIPE"), Held("WRITE_PIPE")>>
  BY ToldTrue, ToldNext DEF Told, ChanVars
<1> QED BY <1>1 DEF ChanStep, ChanVars, InCalls, Channel!cvars

(* The steps of the channel, in those terms. *)
LEMMA ShowMake ==
  ASSUME PipeInv, PipeInv', NEW q \in Pipes, ~ HasReaders[q], ~ HasWriters[q],
         HasReaders' = [HasReaders EXCEPT ![q] = TRUE],
         HasWriters' = [HasWriters EXCEPT ![q] = TRUE],
         UNCHANGED <<Within, InCalls, ubuf>>
  PROVE  ChanStep
<1>1. Channel!Make(q)
  BY ToldTrue, ToldNext DEF Told, InCalls, Channel!Make
<1> QED BY <1>1 DEF ChanStep, Channel!CNext

LEMMA ShowNoReader ==
  ASSUME PipeInv, PipeInv', NEW q \in Pipes, HasReaders[q],
         HasReaders' = [HasReaders EXCEPT ![q] = FALSE],
         Within' = IF HasWriters[q] THEN Within ELSE [Within EXCEPT ![q] = <<>>],
         UNCHANGED <<HasWriters, InCalls, ubuf>>
  PROVE  ChanStep
<1>1. Channel!NoReader(q)
  BY ToldTrue, ToldNext DEF Told, InCalls, Channel!NoReader, Channel!Emptied
<1> QED BY <1>1 DEF ChanStep, Channel!CNext

LEMMA ShowNoWriter ==
  ASSUME PipeInv, PipeInv', NEW q \in Pipes, HasWriters[q],
         HasWriters' = [HasWriters EXCEPT ![q] = FALSE],
         Within' = IF HasReaders[q] THEN Within ELSE [Within EXCEPT ![q] = <<>>],
         UNCHANGED <<HasReaders, InCalls, ubuf>>
  PROVE  ChanStep
<1>1. Channel!NoWriter(q)
  BY ToldTrue, ToldNext DEF Told, InCalls, Channel!NoWriter, Channel!Emptied
<1> QED BY <1>1 DEF ChanStep, Channel!CNext

LEMMA ShowBegin ==
  ASSUME PipeInv, PipeInv', NEW p \in Proc, NEW c,
         InCalls[p] = InNone, InCalls' = [InCalls EXCEPT ![p] = c],
         ubuf' = [ubuf EXCEPT ![p] = <<>>],
         \/ \E q \in Pipes, s \in Messages :
              HasWriters[q] /\ c = [kind |-> "write", pipe |-> q, left |-> s]
         \/ \E q \in Pipes, n \in 1..MaxBytes :
              HasReaders[q] /\ c = [kind |-> "read", pipe |-> q, most |-> n],
         UNCHANGED <<Within, HasReaders, HasWriters>>
  PROVE  ChanStep
<1>1. Channel!Begin(p, c)
  BY ToldTrue, ToldNext DEF Told, InCalls, InNone, Channel!Begin, Channel!Idle
<1>2. Channel!BeginWrite(p) \/ Channel!BeginRead(p)
  BY <1>1, ToldTrue DEF Told, Channel!BeginWrite, Channel!BeginRead, Channel!Writing, Channel!Reading
<1> QED BY <1>2 DEF ChanStep, Channel!CNext

LEMMA ShowForget ==
  ASSUME PipeInv, PipeInv', NEW p \in Proc, InCalls[p] = InNone,
         ubuf' = [ubuf EXCEPT ![p] = <<>>], UNCHANGED <<Within, HasReaders, HasWriters, InCalls>>
  PROVE  ChanStep
<1>1. Channel!Forget(p)
  BY ToldTrue, ToldNext DEF Told, InCalls, InNone, Channel!Forget, Channel!Idle
<1> QED BY <1>1 DEF ChanStep, Channel!CNext

LEMMA ShowPut ==
  ASSUME PipeInv, PipeInv', NEW p \in Proc, NEW q \in Pipes, NEW t, NEW k,
         InCalls[p] = [kind |-> "write", pipe |-> q, left |-> t], HasReaders[q],
         k = Min({PSIZE - Len(Within[q]), Len(t)}),
         Within' = [Within EXCEPT ![q] = @ \o SubSeq(t, 1, k)],
         InCalls' = [InCalls EXCEPT ![p] =
           IF k = Len(t) THEN InNone
           ELSE [kind |-> "write", pipe |-> q, left |-> SubSeq(t, k + 1, Len(t))]],
         UNCHANGED <<HasReaders, HasWriters, ubuf>>
  PROVE  ChanStep
<1>1. /\ InCalls[p].kind = "write" /\ InCalls[p].pipe = q /\ InCalls[p].left = t
  OBVIOUS
<1>2. /\ InRing = Within /\ InRing' = Within' /\ Held("READ_PIPE") = HasReaders
      /\ UNCHANGED <<Held("READ_PIPE"), Held("WRITE_PIPE")>>
  BY ToldTrue, ToldNext DEF Told
<1>3. k = Channel!Min({PSIZE - Len(InRing[q]), Len(InCalls[p].left)})
  BY <1>1, <1>2 DEF Channel!Min, Min
<1>4. /\ InCalls[p].kind = "write" /\ InCalls[p].pipe = q /\ Held("READ_PIPE")[q]
      /\ InRing' = [InRing EXCEPT ![q] = @ \o SubSeq(InCalls[p].left, 1, k)]
      /\ InCalls' = [InCalls EXCEPT ![p] =
           IF k = Len(InCalls[p].left) THEN Channel!Idle
           ELSE Channel!Writing(q, SubSeq(InCalls[p].left, k + 1, Len(InCalls[p].left)))]
      /\ UNCHANGED <<Held("READ_PIPE"), Held("WRITE_PIPE"), ubuf>>
  BY <1>1, <1>2 DEF InNone, Channel!Idle, Channel!Writing
<1>5. Channel!Put(p, q)
  BY <1>3, <1>4, Zenon DEF Channel!Put, InCalls
<1> QED BY <1>5 DEF ChanStep, Channel!CNext

LEMMA ShowGiveUp ==
  ASSUME PipeInv, PipeInv', NEW p \in Proc, NEW q \in Pipes, NEW t,
         InCalls[p] = [kind |-> "write", pipe |-> q, left |-> t], ~ HasReaders[q],
         InCalls' = [InCalls EXCEPT ![p] = InNone],
         UNCHANGED <<Within, HasReaders, HasWriters, ubuf>>
  PROVE  ChanStep
<1>1. InCalls[p].kind = "write" /\ InCalls[p].pipe = q
  OBVIOUS
<1>2. Channel!GiveUp(p, q)
  BY <1>1, ToldTrue, ToldNext DEF Told, InCalls, InNone, Channel!GiveUp, Channel!Idle
<1> QED BY <1>2 DEF ChanStep, Channel!CNext

LEMMA ShowTake ==
  ASSUME PipeInv, PipeInv', NEW p \in Proc, NEW q \in Pipes, NEW n, NEW k,
         InCalls[p] = [kind |-> "read", pipe |-> q, most |-> n], Within[q] # <<>>,
         k = Min({Len(Within[q]), n}),
         ubuf' = [ubuf EXCEPT ![p] = SubSeq(Within[q], 1, k)],
         Within' = [Within EXCEPT ![q] = SubSeq(@, k + 1, Len(@))],
         InCalls' = [InCalls EXCEPT ![p] = InNone],
         UNCHANGED <<HasReaders, HasWriters>>
  PROVE  ChanStep
<1>1. InCalls[p].kind = "read" /\ InCalls[p].pipe = q /\ InCalls[p].most = n
  OBVIOUS
<1>2. /\ InRing = Within /\ InRing' = Within'
      /\ UNCHANGED <<Held("READ_PIPE"), Held("WRITE_PIPE")>>
  BY ToldTrue, ToldNext DEF Told
<1>3. k = Channel!Min({Len(InRing[q]), InCalls[p].most})
  BY <1>1, <1>2 DEF Channel!Min, Min
<1>4. /\ InCalls[p].kind = "read" /\ InCalls[p].pipe = q /\ InRing[q] # <<>>
      /\ ubuf' = [ubuf EXCEPT ![p] = SubSeq(InRing[q], 1, k)]
      /\ InRing' = [InRing EXCEPT ![q] = SubSeq(@, k + 1, Len(@))]
      /\ InCalls' = [InCalls EXCEPT ![p] = Channel!Idle]
      /\ UNCHANGED <<Held("READ_PIPE"), Held("WRITE_PIPE")>>
  BY <1>1, <1>2 DEF InNone, Channel!Idle
<1>5. Channel!Take(p, q)
  BY <1>3, <1>4, Zenon DEF Channel!Take, InCalls
<1> QED BY <1>5 DEF ChanStep, Channel!CNext

LEMMA ShowEndOfFile ==
  ASSUME PipeInv, PipeInv', NEW p \in Proc, NEW q \in Pipes, NEW n,
         InCalls[p] = [kind |-> "read", pipe |-> q, most |-> n], Within[q] = <<>>,
         ~ HasWriters[q], InCalls' = [InCalls EXCEPT ![p] = InNone],
         UNCHANGED <<Within, HasReaders, HasWriters, ubuf>>
  PROVE  ChanStep
<1>1. InCalls[p].kind = "read" /\ InCalls[p].pipe = q
  OBVIOUS
<1>2. Channel!EndOfFile(p, q)
  BY <1>1, ToldTrue, ToldNext DEF Told, InCalls, InNone, Channel!EndOfFile, Channel!Idle
<1> QED BY <1>2 DEF ChanStep, Channel!CNext

(* A process whose call, if it is in one, is what it was. *)
Unmoved(r) ==
  \/ pc[r] \notin {"read", "write"} /\ pc'[r] \notin {"read", "write"}
  \/ /\ pc'[r] = pc[r] /\ cur'[r] = cur[r] /\ want'[r] = want[r] /\ todo'[r] = todo[r]
     /\ fd'[r] = fd[r]

LEMMA CallsShown ==
  ASSUME PipeInv, \A o \in Ofts : refCount[o] > 0 => pipePtr'[o] = pipePtr[o], NEW p \in Proc,
         \A r \in Proc : r # p => Unmoved(r)
  PROVE  /\ InCalls' = [InCalls EXCEPT ![p] = InPipe(p)']
         /\ Unmoved(p) => InCalls' = InCalls
<1>1. ASSUME NEW r \in Proc, Unmoved(r) PROVE InPipe(r)' = InPipe(r)
  <2>1. CASE pc[r] \notin {"read", "write"} /\ pc'[r] \notin {"read", "write"}
    BY <2>1 DEF InPipe
  <2>2. CASE /\ pc[r] \in {"read", "write"}
             /\ pc'[r] = pc[r] /\ cur'[r] = cur[r] /\ want'[r] = want[r] /\ todo'[r] = todo[r]
             /\ fd'[r] = fd[r]
    <3>1. cur[r] \in Fds /\ fd[r][cur[r]] \in Ofts
      BY <2>2 DEF PipeInv, UseInv, UseOf, InEnd
    <3>2. refCount[fd[r][cur[r]]] > 0
      BY <3>1, Pointed
    <3> QED BY <2>2, <3>1, <3>2 DEF InPipe
  <2> QED BY <1>1, <2>1, <2>2 DEF Unmoved
<1> QED BY <1>1 DEF InCalls

LEMMA StaysHidden ==
  ASSUME PipeInv, PipeInv', UNCHANGED <<Chan, ubuf, busy, InCalls>>,
         \A q \in Pipes : busy[q] =>
           (nreader'[q] > 0 <=> nreader[q] > 0) /\ (nwriter'[q] > 0 <=> nwriter[q] > 0)
  PROVE  ChanStep
<1>1. UNCHANGED Within
  BY DEF Within
<1>2. UNCHANGED <<HasReaders, HasWriters>>
  BY DEF HasReaders, HasWriters
<1> QED BY <1>1, <1>2, StepHidden DEF ChanVars

LEMMA HasValue ==
  /\ \A q \in Pipes : HasReaders[q] <=> busy[q] /\ nreader[q] > 0
  /\ \A q \in Pipes : HasWriters[q] <=> busy[q] /\ nwriter[q] > 0
BY Zenon DEF HasReaders, HasWriters

(* The ends of one pipe come, or one end goes. *)
LEMMA OneMore ==
  ASSUME NEW q \in Pipes, busy'[q], nreader'[q] > 0, nwriter'[q] > 0,
         \A x \in Pipes : x # q =>
           busy'[x] = busy[x] /\ nreader'[x] = nreader[x] /\ nwriter'[x] = nwriter[x]
  PROVE  /\ HasReaders' = [HasReaders EXCEPT ![q] = TRUE]
         /\ HasWriters' = [HasWriters EXCEPT ![q] = TRUE]
BY Zenon DEF HasReaders, HasWriters

LEMMA OneLess ==
  ASSUME NEW q \in Pipes, busy[q],
         \A x \in Pipes : x # q => busy'[x] = busy[x]
  PROVE  /\ /\ nreader[q] > 0 /\ ~ (nreader'[q] > 0) /\ UNCHANGED nwriter
            /\ \A x \in Pipes : x # q => nreader'[x] = nreader[x]
            /\ ~ (nwriter[q] > 0) \/ busy'[q] = busy[q]
            => /\ HasReaders[q] /\ HasReaders' = [HasReaders EXCEPT ![q] = FALSE]
               /\ UNCHANGED HasWriters
         /\ /\ nwriter[q] > 0 /\ ~ (nwriter'[q] > 0) /\ UNCHANGED nreader
            /\ \A x \in Pipes : x # q => nwriter'[x] = nwriter[x]
            /\ ~ (nreader[q] > 0) \/ busy'[q] = busy[q]
            => /\ HasWriters[q] /\ HasWriters' = [HasWriters EXCEPT ![q] = FALSE]
               /\ UNCHANGED HasReaders
BY Zenon DEF HasReaders, HasWriters

LEMMA MakeShown ==
  ASSUME PipeInv, PipeInv', RingInv, NEW p \in Proc, MakePipe(p) PROVE ChanStep
<1>1. UNCHANGED <<buf, pc, event, callVars>> /\ pc[p] = "user"
  BY DEF MakePipe, Calling, At
<1>2. PICK q \in Pipes, o1 \in Ofts, o2 \in Ofts, i1 \in Fds, i2 \in Fds :
            MadeOf(p, q, o1, o2, i1, i2)
  BY NewPipe
<1>3. Chan' = [Chan EXCEPT ![q] = <<>>]
  <2>1. Rings /\ busy \in [Pipes -> BOOLEAN]
    BY RingFits DEF PipeInv, PipeType
  <2> QED BY <1>1, <1>2, <2>1, MadeRing
<1>4. /\ busy \in [Pipes -> BOOLEAN] /\ nreader \in [Pipes -> Int] /\ nwriter \in [Pipes -> Int]
      /\ refCount \in [Ofts -> Nat] /\ pipePtr \in [Ofts -> Pipes \cup {None}]
      /\ fd \in [Proc -> [Fds -> Ofts \cup {None, File}]]
  BY DEF PipeInv, PipeType, FdTables
<1>5. ~ busy[q] /\ busy' = [busy EXCEPT ![q] = TRUE]
      /\ nreader' = [nreader EXCEPT ![q] = 1] /\ nwriter' = [nwriter EXCEPT ![q] = 1]
  BY <1>2 DEF MadeOf
<1>6. UNCHANGED InCalls
  <2>1. \A o \in Ofts : refCount[o] > 0 => pipePtr'[o] = pipePtr[o]
    BY <1>2, <1>4 DEF MadeOf
  <2>2. \A r \in Proc : r # p => fd'[r] = fd[r]
    BY <1>2, <1>4 DEF MadeOf
  <2>3. \A r \in Proc : Unmoved(r)
    BY <1>1, <2>2 DEF Unmoved, callVars
  <2> QED BY <2>1, <2>3, CallsShown
<1>7. UNCHANGED Within
  <2>1. \A x \in Pipes : Within'[x] = Within[x]
    <3> TAKE x \in Pipes
    <3>1. Chan'[x] = IF x = q THEN <<>> ELSE Chan[x]
      BY <1>3 DEF Chan
    <3>2. busy'[x] = IF x = q THEN TRUE ELSE busy[x]
      BY <1>4, <1>5
    <3> QED BY <1>5, <3>1, <3>2 DEF Within
  <2> QED BY <2>1 DEF Within
<1>8. /\ HasReaders' = [HasReaders EXCEPT ![q] = TRUE]
      /\ HasWriters' = [HasWriters EXCEPT ![q] = TRUE]
  <2>1. /\ busy'[q] /\ nreader'[q] > 0 /\ nwriter'[q] > 0
        /\ \A x \in Pipes : x # q =>
             busy'[x] = busy[x] /\ nreader'[x] = nreader[x] /\ nwriter'[x] = nwriter[x]
    BY <1>4, <1>5
  <2> QED BY <2>1, OneMore
<1>9. ~ HasReaders[q] /\ ~ HasWriters[q]
  BY <1>5, HasValue
<1>10. UNCHANGED ubuf
  BY <1>1 DEF callVars
<1> QED BY <1>6, <1>7, <1>8, <1>9, <1>10, ShowMake

LEMMA CloseShown ==
  ASSUME PipeInv, PipeInv', RingInv, NEW p \in Proc, NEW i \in Fds, CloseAny(p, i, None),
         UNCHANGED <<mode, pipePtr, ringVars, callVars, pc>>, pc[p] \in {"user", "exit"}
  PROVE  ChanStep
<1>1. /\ busy \in [Pipes -> BOOLEAN] /\ nreader \in [Pipes -> Int] /\ nwriter \in [Pipes -> Int]
      /\ refCount \in [Ofts -> Nat] /\ pipePtr \in [Ofts -> Pipes \cup {None}]
      /\ fd \in [Proc -> [Fds -> Ofts \cup {None, File}]]
  BY DEF PipeInv, PipeType, FdTables
<1>2. UNCHANGED <<Chan, ubuf>>
  BY DEF ringVars, callVars, Chan, Oldest
<1>3. fd' = [fd EXCEPT ![p][i] = None]
  BY DEF CloseAny, ClosePipe
<1>4. UNCHANGED InCalls
  <2>1. \A r \in Proc : r # p => fd'[r] = fd[r]
    BY <1>1, <1>3
  <2>2. \A r \in Proc : Unmoved(r)
    BY <2>1 DEF Unmoved, callVars
  <2> QED BY <2>2, CallsShown
<1>5. CASE fd[p][i] \notin Ofts
  BY <1>2, <1>4, <1>5, StaysHidden DEF CloseAny, endVars
<1>6. CASE fd[p][i] \in Ofts
  <2>1. PICK o : o = fd[p][i] /\ o \in Ofts
    BY <1>6
  <2>2. PICK q : q = pipePtr[o]
    OBVIOUS
  <2>3. /\ q \in Pipes /\ busy[q] /\ refCount[o] > 0
        /\ mode[o] \in {"READ_PIPE", "WRITE_PIPE"}
        /\ Count(fd, EndOfts(q, mode[o])) = refCount[o]
    BY <1>6, <2>1, <2>2, Pointed
  <2>4. nreader[q] = Readers(q) /\ nwriter[q] = Writers(q)
    BY <2>3 DEF PipeInv, CountsInv
  <2>5. ClosePipe(p, i, None)
    BY <1>6 DEF CloseAny
  <2>6. CASE mode[o] = "READ_PIPE"
    <3>1. nreader[q] = refCount[o]
      BY <2>3, <2>4, <2>6 DEF Readers
    <3>2. /\ nreader' = [nreader EXCEPT ![q] = @ - 1] /\ UNCHANGED nwriter
          /\ \/ /\ refCount[o] = 1 /\ nwriter[q] <= 0
                /\ busy' = [busy EXCEPT ![q] = FALSE]
             \/ ~ (refCount[o] = 1 /\ nwriter[q] <= 0) /\ UNCHANGED busy
      BY <2>1, <2>2, <2>5, <2>6 DEF ClosePipe, DownOne
    <3>3. CASE nreader[q] > 1
      <4>1. UNCHANGED busy
        BY <3>1, <3>2, <3>3
      <4>2. nreader'[q] > 0 /\ \A x \in Pipes : x # q => nreader'[x] = nreader[x]
        BY <1>1, <2>3, <3>2, <3>3
      <4>3. \A x \in Pipes : (nreader'[x] > 0 <=> nreader[x] > 0) /\ nwriter'[x] = nwriter[x]
        BY <1>1, <2>3, <3>2, <3>3, <4>2
      <4> QED BY <1>2, <1>4, <4>1, <4>3, StaysHidden
    <3>4. CASE nreader[q] = 1
      <4>1. /\ HasReaders[q] /\ HasReaders' = [HasReaders EXCEPT ![q] = FALSE]
            /\ UNCHANGED HasWriters
        <5>1. nreader'[q] = 0 /\ \A x \in Pipes : x # q => nreader'[x] = nreader[x] /\ busy'[x] = busy[x]
          BY <1>1, <2>3, <3>2, <3>4
        <5>2. busy'[q] = busy[q] \/ nwriter[q] <= 0
          BY <3>2
        <5>3. nwriter[q] \in Int
          BY <1>1, <2>3
        <5>4. busy[q] /\ nreader[q] > 0 /\ ~ (nreader'[q] > 0)
          BY <2>3, <3>4, <5>1
        <5>5. ~ (nwriter[q] > 0) \/ busy'[q] = busy[q]
          BY <5>2, <5>3
        <5> QED BY <2>3, <3>2, <5>1, <5>4, <5>5, OneLess
      <4>2. Within' = IF HasWriters[q] THEN Within ELSE [Within EXCEPT ![q] = <<>>]
        <5>1. CASE nwriter[q] <= 0
          <6>1. busy' = [busy EXCEPT ![q] = FALSE]
            BY <3>1, <3>2, <3>4, <5>1
          <6>2. ~ (nwriter[q] > 0)
            BY <1>1, <2>3, <5>1
          <6>3. ~ HasWriters[q]
            BY <2>3, <6>2, HasValue
          <6> QED BY <1>1, <1>2, <6>1, <6>3 DEF Within
        <5>2. CASE nwriter[q] > 0
          <6>1. UNCHANGED busy
            BY <1>1, <2>3, <3>2, <5>2
          <6>2. HasWriters[q]
            BY <2>3, <5>2, HasValue
          <6> QED BY <1>2, <6>1, <6>2 DEF Within
        <5> QED BY <1>1, <2>3, <5>1, <5>2
      <4> QED BY <1>2, <1>4, <2>3, <4>1, <4>2, ShowNoReader
    <3> QED BY <1>1, <2>3, <3>1, <3>3, <3>4
  <2>7. CASE mode[o] = "WRITE_PIPE"
    <3>1. nwriter[q] = refCount[o]
      BY <2>3, <2>4, <2>7 DEF Writers
    <3>2. /\ nwriter' = [nwriter EXCEPT ![q] = @ - 1] /\ UNCHANGED nreader
          /\ \/ /\ refCount[o] = 1 /\ nreader[q] <= 0
                /\ busy' = [busy EXCEPT ![q] = FALSE]
             \/ ~ (refCount[o] = 1 /\ nreader[q] <= 0) /\ UNCHANGED busy
      BY <2>1, <2>2, <2>5, <2>7 DEF ClosePipe, DownOne
    <3>3. CASE nwriter[q] > 1
      <4>1. UNCHANGED busy
        BY <3>1, <3>2, <3>3
      <4>2. nwriter'[q] > 0 /\ \A x \in Pipes : x # q => nwriter'[x] = nwriter[x]
        BY <1>1, <2>3, <3>2, <3>3
      <4>3. \A x \in Pipes : (nwriter'[x] > 0 <=> nwriter[x] > 0) /\ nreader'[x] = nreader[x]
        BY <1>1, <2>3, <3>2, <3>3, <4>2
      <4> QED BY <1>2, <1>4, <4>1, <4>3, StaysHidden
    <3>4. CASE nwriter[q] = 1
      <4>1. /\ HasWriters[q] /\ HasWriters' = [HasWriters EXCEPT ![q] = FALSE]
            /\ UNCHANGED HasReaders
        <5>1. nwriter'[q] = 0 /\ \A x \in Pipes : x # q => nwriter'[x] = nwriter[x] /\ busy'[x] = busy[x]
          BY <1>1, <2>3, <3>2, <3>4
        <5>2. busy'[q] = busy[q] \/ nreader[q] <= 0
          BY <3>2
        <5>3. nreader[q] \in Int
          BY <1>1, <2>3
        <5>4. busy[q] /\ nwriter[q] > 0 /\ ~ (nwriter'[q] > 0)
          BY <2>3, <3>4, <5>1
        <5>5. ~ (nreader[q] > 0) \/ busy'[q] = busy[q]
          BY <5>2, <5>3
        <5> QED BY <2>3, <3>2, <5>1, <5>4, <5>5, OneLess
      <4>2. Within' = IF HasReaders[q] THEN Within ELSE [Within EXCEPT ![q] = <<>>]
        <5>1. CASE nreader[q] <= 0
          <6>1. busy' = [busy EXCEPT ![q] = FALSE]
            BY <3>1, <3>2, <3>4, <5>1
          <6>2. ~ (nreader[q] > 0)
            BY <1>1, <2>3, <5>1
          <6>3. ~ HasReaders[q]
            BY <2>3, <6>2, HasValue
          <6> QED BY <1>1, <1>2, <6>1, <6>3 DEF Within
        <5>2. CASE nreader[q] > 0
          <6>1. UNCHANGED busy
            BY <1>1, <2>3, <3>2, <5>2
          <6>2. HasReaders[q]
            BY <2>3, <5>2, HasValue
          <6> QED BY <1>2, <6>1, <6>2 DEF Within
        <5> QED BY <1>1, <2>3, <5>1, <5>2
      <4> QED BY <1>2, <1>4, <2>3, <4>1, <4>2, ShowNoWriter
    <3> QED BY <1>1, <2>3, <3>1, <3>3, <3>4
  <2> QED BY <2>3, <2>6, <2>7
<1> QED BY <1>5, <1>6

LEMMA ForkShown ==
  ASSUME PipeInv, PipeInv', RingInv, NEW p \in Proc, NEW c \in Proc, Fork(p, c) PROVE ChanStep
<1>1. /\ pc[p] = "user" /\ pc[c] = "none" /\ fd' = [fd EXCEPT ![c] = fd[p]]
      /\ nreader' = [q \in Pipes |-> nreader[q] + Cardinality(Ends(p, q, "READ_PIPE"))]
      /\ nwriter' = [q \in Pipes |-> nwriter[q] + Cardinality(Ends(p, q, "WRITE_PIPE"))]
      /\ pc' = [pc EXCEPT ![c] = "user"]
      /\ UNCHANGED <<mode, pipePtr, busy, ringVars, event, callVars>>
  BY DEF Fork, Calling, At, CountEach
<1>2. /\ busy \in [Pipes -> BOOLEAN] /\ nreader \in [Pipes -> Int] /\ nwriter \in [Pipes -> Int]
      /\ fd \in [Proc -> [Fds -> Ofts \cup {None, File}]] /\ pc \in [Proc -> Points]
  BY DEF PipeInv, PipeType, FdTables
<1>3. UNCHANGED <<Chan, ubuf>>
  BY <1>1 DEF ringVars, callVars, Chan, Oldest
<1>4. UNCHANGED InCalls
  <2>1. \A r \in Proc : Unmoved(r)
    BY <1>1, <1>2 DEF Unmoved, callVars
  <2> QED BY <1>1, <2>1, CallsShown
<1>5. ASSUME NEW q \in Pipes, NEW end \in {"READ_PIPE", "WRITE_PIPE"}
      PROVE  /\ Cardinality(Ends(p, q, end)) \in Nat
             /\ Count(fd, EndOfts(q, end)) = 0 => Cardinality(Ends(p, q, end)) = 0
  <2>1. IsFiniteSet(Ends(p, q, end)) /\ Cardinality(Ends(p, q, end)) \in Nat
    BY HandlesFinite, FS_Subset, FS_CardinalityType DEF Ends
  <2>2. ASSUME Count(fd, EndOfts(q, end)) = 0 PROVE Ends(p, q, end) = {}
    <3>1. Pointing(fd, EndOfts(q, end)) = {}
      BY <2>2, CountType
    <3>2. \A i \in Ends(p, q, end) : <<p, i>> \in Pointing(fd, EndOfts(q, end))
      BY DEF Ends, Pointing, EndOfts, Handle
    <3> QED BY <3>1, <3>2
  <2> QED BY <2>1, <2>2, FS_EmptySet
<1>6. ASSUME NEW q \in Pipes, busy[q]
      PROVE  (nreader'[q] > 0 <=> nreader[q] > 0) /\ (nwriter'[q] > 0 <=> nwriter[q] > 0)
  <2>1. nreader[q] = Readers(q) /\ nwriter[q] = Writers(q)
    BY <1>6 DEF PipeInv, CountsInv
  <2>2. Readers(q) \in Nat /\ Writers(q) \in Nat
    BY ReaderWriterTypes
  <2>3. /\ Cardinality(Ends(p, q, "READ_PIPE")) \in Nat
        /\ Readers(q) = 0 => Cardinality(Ends(p, q, "READ_PIPE")) = 0
        /\ Cardinality(Ends(p, q, "WRITE_PIPE")) \in Nat
        /\ Writers(q) = 0 => Cardinality(Ends(p, q, "WRITE_PIPE")) = 0
    BY <1>5 DEF Readers, Writers
  <2>4. /\ nreader'[q] = nreader[q] + Cardinality(Ends(p, q, "READ_PIPE"))
        /\ nwriter'[q] = nwriter[q] + Cardinality(Ends(p, q, "WRITE_PIPE"))
    BY <1>1
  <2> QED BY <2>1, <2>2, <2>3, <2>4
<1> QED BY <1>1, <1>3, <1>4, <1>6, StaysHidden

LEMMA DupShown ==
  ASSUME PipeInv, PipeInv', RingInv, NEW p \in Proc, NEW i \in Fds, Dup(p, i) PROVE ChanStep
<1>1. PICK o : o = fd[p][i]
  OBVIOUS
<1>2. PICK q : q = pipePtr[o]
  OBVIOUS
<1>3. /\ pc[p] = "user" /\ o \in Ofts
      /\ fd' = [fd EXCEPT ![p][Min(FreeFds(p))] = o]
      /\ nreader' = [nreader EXCEPT ![q] = @ + (IF mode[o] = "READ_PIPE" THEN 1 ELSE 0)]
      /\ nwriter' = [nwriter EXCEPT ![q] = @ + (IF mode[o] = "WRITE_PIPE" THEN 1 ELSE 0)]
      /\ UNCHANGED <<mode, pipePtr, busy, ringVars, pc, event, callVars>>
  BY <1>1, <1>2 DEF Dup, Calling, At
<1>4. /\ q \in Pipes /\ busy[q] /\ refCount[o] > 0
      /\ Count(fd, EndOfts(q, mode[o])) = refCount[o]
  BY <1>1, <1>2, <1>3, Pointed
<1>5. /\ busy \in [Pipes -> BOOLEAN] /\ nreader \in [Pipes -> Int] /\ nwriter \in [Pipes -> Int]
      /\ fd \in [Proc -> [Fds -> Ofts \cup {None, File}]] /\ refCount \in [Ofts -> Nat]
  BY DEF PipeInv, PipeType, FdTables
<1>6. UNCHANGED <<Chan, ubuf>>
  BY <1>3 DEF ringVars, callVars, Chan, Oldest
<1>7. UNCHANGED InCalls
  <2>1. \A r \in Proc : Unmoved(r)
    BY <1>3, <1>5 DEF Unmoved, callVars
  <2> QED BY <1>3, <2>1, CallsShown
<1>8. nreader[q] = Readers(q) /\ nwriter[q] = Writers(q)
  BY <1>4 DEF PipeInv, CountsInv
<1>9. /\ mode[o] = "READ_PIPE" => nreader[q] > 0
      /\ mode[o] = "WRITE_PIPE" => nwriter[q] > 0
  BY <1>4, <1>8 DEF Readers, Writers
<1>10. \A x \in Pipes : (nreader'[x] > 0 <=> nreader[x] > 0) /\ (nwriter'[x] > 0 <=> nwriter[x] > 0)
  <2> TAKE x \in Pipes
  <2>1. CASE x # q
    BY <1>3, <1>5, <2>1
  <2>2. CASE x = q
    BY <1>3, <1>4, <1>5, <1>9, <2>2
  <2> QED BY <2>1, <2>2
<1> QED BY <1>3, <1>6, <1>7, <1>10, StaysHidden

LEMMA BeginShown ==
  ASSUME PipeInv, PipeInv', RingInv, NEW p \in Proc,
         \/ \E i \in Fds, n \in 1..MaxBytes : Read(p, i, n)
         \/ \E i \in Fds, s \in Messages : Write(p, i, s)
  PROVE  ChanStep
<1>1. /\ pc[p] = "user" /\ UNCHANGED <<fd, oftVars, endVars, ringVars, event>>
      /\ ubuf' = [ubuf EXCEPT ![p] = <<>>]
  BY DEF Read, Write, Calling, At
<1>2. /\ pc \in [Proc -> Points] /\ cur \in [Proc -> Nat] /\ want \in [Proc -> Nat]
      /\ todo \in [Proc -> Seq(Byte)]
  BY DEF PipeInv, PipeType
<1>3. UNCHANGED <<Chan, busy, nreader, nwriter, pipePtr, fd>>
  BY <1>1 DEF ringVars, endVars, oftVars, Chan, Oldest
<1>4. UNCHANGED <<Within, HasReaders, HasWriters>>
  BY <1>3 DEF Within, HasReaders, HasWriters
<1>5. \A r \in Proc : r # p => Unmoved(r)
  BY <1>2, <1>3 DEF Unmoved, Read, Write
<1>6. InCalls[p] = InNone /\ InCalls' = [InCalls EXCEPT ![p] = InPipe(p)']
  <2>1. InCalls[p] = InNone
    BY <1>1 DEF InCalls, InPipe, InNone
  <2> QED BY <1>3, <1>5, <2>1, CallsShown
<1>7. ASSUME NEW i \in Fds, fd[p][i] \in Ofts
      PROVE  LET o == fd[p][i]
                 q == pipePtr[o]
             IN  /\ q \in Pipes
                 /\ mode[o] = "READ_PIPE" => HasReaders[q]
                 /\ mode[o] = "WRITE_PIPE" => HasWriters[q]
  <2> DEFINE o == fd[p][i]
             q == pipePtr[o]
  <2>1. /\ q \in Pipes /\ busy[q] /\ refCount[o] > 0
        /\ Count(fd, EndOfts(q, mode[o])) = refCount[o]
    BY <1>7, Pointed
  <2>2. nreader[q] = Readers(q) /\ nwriter[q] = Writers(q)
    BY <2>1 DEF PipeInv, CountsInv
  <2>3. /\ mode[o] = "READ_PIPE" => nreader[q] > 0
        /\ mode[o] = "WRITE_PIPE" => nwriter[q] > 0
    BY <2>1, <2>2 DEF Readers, Writers
  <2> QED BY <2>1, <2>3, HasValue
<1>8. ASSUME NEW i \in Fds, NEW n \in 1..MaxBytes, Read(p, i, n) PROVE ChanStep
  <2>1. /\ fd[p][i] \in Ofts /\ mode[fd[p][i]] = "READ_PIPE"
        /\ pc'[p] = "read" /\ cur'[p] = i /\ want'[p] = n
    BY <1>2, <1>8 DEF Read
  <2>2. InPipe(p)' = [kind |-> "read", pipe |-> pipePtr[fd[p][i]], most |-> n]
    BY <1>3, <2>1 DEF InPipe
  <2>3. pipePtr[fd[p][i]] \in Pipes /\ HasReaders[pipePtr[fd[p][i]]]
    BY <1>7, <2>1
  <2> QED BY <1>1, <1>4, <1>6, <2>2, <2>3, ShowBegin
<1>9. ASSUME NEW i \in Fds, NEW s \in Messages, Write(p, i, s) PROVE ChanStep
  <2>1. /\ fd[p][i] \in Ofts /\ mode[fd[p][i]] = "WRITE_PIPE"
        /\ pc'[p] = "write" /\ cur'[p] = i /\ todo'[p] = s
    BY <1>2, <1>9 DEF Write
  <2>2. InPipe(p)' = [kind |-> "write", pipe |-> pipePtr[fd[p][i]], left |-> s]
    BY <1>3, <2>1 DEF InPipe
  <2>3. pipePtr[fd[p][i]] \in Pipes /\ HasWriters[pipePtr[fd[p][i]]]
    BY <1>7, <2>1
  <2> QED BY <1>1, <1>4, <1>6, <2>2, <2>3, ShowBegin
<1> QED BY <1>8, <1>9

LEMMA ForgetShown ==
  ASSUME PipeInv, PipeInv', RingInv, NEW p \in Proc, ExitDone(p) PROVE ChanStep
<1>1. /\ pc[p] = "exit" /\ UNCHANGED <<fd, oftVars, endVars, ringVars, event>>
      /\ ubuf' = [ubuf EXCEPT ![p] = <<>>] /\ pc' = [pc EXCEPT ![p] = "none"]
  BY DEF ExitDone, At
<1>2. /\ pc \in [Proc -> Points] /\ cur \in [Proc -> Nat] /\ want \in [Proc -> Nat]
      /\ todo \in [Proc -> Seq(Byte)]
  BY DEF PipeInv, PipeType
<1>3. UNCHANGED <<Chan, busy, nreader, nwriter, pipePtr, fd>>
  BY <1>1 DEF ringVars, endVars, oftVars, Chan, Oldest
<1>4. UNCHANGED <<Within, HasReaders, HasWriters>>
  BY <1>3 DEF Within, HasReaders, HasWriters
<1>5. \A r \in Proc : Unmoved(r)
  BY <1>1, <1>2, <1>3 DEF Unmoved, ExitDone
<1>6. InCalls[p] = InNone /\ UNCHANGED InCalls
  <2>1. InCalls[p] = InNone
    BY <1>1 DEF InCalls, InPipe, InNone
  <2> QED BY <1>3, <1>5, <2>1, CallsShown
<1> QED BY <1>1, <1>4, <1>6, ShowForget

LEMMA ReadShown ==
  ASSUME PipeInv, PipeInv', RingInv, NEW p \in Proc, ReadLoop(p) PROVE ChanStep
<1>1. PICK q : q = pipePtr[fd[p][cur[p]]]
  OBVIOUS
<1>2. pc[p] = "read" /\ UNCHANGED <<fd, oftVars, endVars, buf, head, todo>>
  BY Zenon DEF ReadLoop, At
<1>3. /\ q \in Pipes /\ busy[q]
  BY <1>1, <1>2, EndHeld
<1>4. /\ RingOf(q) /\ data[q] \in Nat /\ want[p] \in Nat /\ want[p] > 0
      /\ Chan[q] \in Seq(Byte) /\ Len(Chan[q]) = data[q]
  BY <1>2, <1>3, ChanValue, PipeAssumption DEF RingInv, RingOf, UserOf
<1>5. /\ pc \in [Proc -> Points] /\ cur \in [Proc -> Nat] /\ want \in [Proc -> Nat]
      /\ busy \in [Pipes -> BOOLEAN]
  BY DEF PipeInv, PipeType
<1>6. UNCHANGED <<busy, nreader, nwriter, HasReaders, HasWriters>>
  BY <1>2 DEF endVars, HasReaders, HasWriters
<1>7. InCalls[p] = [kind |-> "read", pipe |-> q, most |-> want[p]]
  BY <1>1, <1>2 DEF InCalls, InPipe
<1>8. Within[q] = Chan[q]
  BY <1>3 DEF Within
<1>9. ASSUME Returns(p) PROVE InCalls' = [InCalls EXCEPT ![p] = InNone]
  <2>1. pc' = [pc EXCEPT ![p] = "user"] /\ cur' = [cur EXCEPT ![p] = 0]
        /\ want' = [want EXCEPT ![p] = 0]
    BY <1>9 DEF Returns
  <2>2. \A r \in Proc : r # p => Unmoved(r)
    BY <1>2, <1>5, <2>1 DEF Unmoved
  <2>3. InPipe(p)' = InNone
    BY <1>5, <2>1 DEF InPipe, InNone
  <2> QED BY <1>2, <2>2, <2>3, CallsShown DEF oftVars
<1> DEFINE k == Min({data[q], want[p]})
<1>10. \/ /\ data[q] > 0
          /\ ubuf' = [ubuf EXCEPT ![p] = Oldest(q, k)]
          /\ tail' = [tail EXCEPT ![q] = Forward(@, k)]
          /\ data' = [data EXCEPT ![q] = @ - k]
          /\ room' = [room EXCEPT ![q] = @ + k]
          /\ Returns(p)
       \/ /\ data[q] = 0 /\ nwriter[q] > 0
          /\ UNCHANGED <<tail, data, room, ubuf, pc, cur, want>>
       \/ /\ data[q] = 0 /\ nwriter[q] <= 0 /\ Returns(p)
          /\ UNCHANGED <<tail, data, room, ubuf>>
  BY <1>1, Zenon DEF ReadLoop
<1>11. k \in {data[q], want[p]} /\ k \in Nat /\ k <= data[q] /\ k <= want[p]
  BY <1>4, MinOfTwo
<1>k. k = Min({Len(Within[q]), want[p]})
  BY <1>4, <1>8
<1> HIDE DEF k
<1>12. CASE /\ data[q] > 0
            /\ ubuf' = [ubuf EXCEPT ![p] = Oldest(q, k)]
            /\ tail' = [tail EXCEPT ![q] = Forward(@, k)]
            /\ data' = [data EXCEPT ![q] = @ - k]
            /\ room' = [room EXCEPT ![q] = @ + k]
            /\ Returns(p)
  <2>1. k \in 1..data[q]
    BY <1>4, <1>11, <1>12
  <2>2. Taken(p, q, k)
    BY <1>11, <1>12, <2>1 DEF Taken
  <2>3. /\ Chan' = [Chan EXCEPT ![q] = SubSeq(@, k + 1, Len(@))]
        /\ ubuf' = [ubuf EXCEPT ![p] = SubSeq(Chan[q], 1, k)]
    BY <1>2, <1>3, <1>6, <1>11, <2>2, RingFits, TakenRing
  <2>4. Within' = [Within EXCEPT ![q] = SubSeq(@, k + 1, Len(@))]
    BY <1>3, <1>6, <2>3 DEF Within, Chan
  <2>5. Within[q] # <<>>
    BY <1>4, <1>8, <1>12
  <2>6. InCalls' = [InCalls EXCEPT ![p] = InNone]
    BY <1>9, <1>12
  <2>7. ubuf' = [ubuf EXCEPT ![p] = SubSeq(Within[q], 1, k)]
    BY <1>8, <2>3
  <2> QED BY <1>3, <1>6, <1>7, <1>k, <2>4, <2>5, <2>6, <2>7, ShowTake
<1>13. CASE /\ data[q] = 0 /\ nwriter[q] > 0
            /\ UNCHANGED <<tail, data, room, ubuf, pc, cur, want>>
  <2>1. UNCHANGED Chan
    BY <1>2, <1>13 DEF Chan, Oldest
  <2>2. UNCHANGED InCalls
    <3>1. \A r \in Proc : Unmoved(r)
      BY <1>2, <1>13 DEF Unmoved
    <3> QED BY <1>2, <3>1, CallsShown DEF oftVars
  <2> QED BY <1>6, <1>13, <2>1, <2>2, StaysHidden
<1>14. CASE /\ data[q] = 0 /\ nwriter[q] <= 0 /\ Returns(p)
            /\ UNCHANGED <<tail, data, room, ubuf>>
  <2>1. UNCHANGED Chan
    BY <1>2, <1>14 DEF Chan, Oldest
  <2>2. UNCHANGED Within
    BY <1>6, <2>1 DEF Within
  <2>3. Within[q] = <<>>
    BY <1>4, <1>8, <1>14
  <2>4. ~ HasWriters[q]
    <3>1. nwriter[q] \in Int
      BY <1>3 DEF PipeInv, PipeType
    <3>2. ~ (nwriter[q] > 0)
      BY <1>14, <3>1
    <3> QED BY <1>3, <3>2, HasValue
  <2> QED BY <1>3, <1>6, <1>7, <1>9, <1>14, <2>2, <2>3, <2>4, ShowEndOfFile
<1> QED BY <1>10, <1>12, <1>13, <1>14

LEMMA WriteShown ==
  ASSUME PipeInv, PipeInv', RingInv, NEW p \in Proc, WriteLoop(p) PROVE ChanStep
<1> DEFINE q == pipePtr[fd[p][cur[p]]]
           k == Min({room[q], Len(todo[p])})
<1>0. \/ /\ nreader[q] <= 0
          /\ pc' = [pc EXCEPT ![p] = "exit"]
          /\ UNCHANGED <<buf, head, data, room, todo, event, cur, want>>
       \/ /\ nreader[q] > 0
          /\ buf' = [buf EXCEPT ![q] = Stored(q, todo[p], k)]
          /\ head' = [head EXCEPT ![q] = Forward(@, k)]
          /\ data' = [data EXCEPT ![q] = @ + k]
          /\ room' = [room EXCEPT ![q] = @ - k]
          /\ todo' = [todo EXCEPT ![p] = SubSeq(@, k + 1, Len(@))]
          /\ \/ k = Len(todo[p]) /\ Returns(p)
             \/ k < Len(todo[p]) /\ UNCHANGED <<pc, cur, want>>
  BY Zenon DEF WriteLoop
<1>1. q = pipePtr[fd[p][cur[p]]]
  OBVIOUS
<1> HIDE DEF q
<1>2. pc[p] = "write" /\ UNCHANGED <<fd, oftVars, endVars, tail, ubuf>>
  BY Zenon DEF WriteLoop, At
<1>3. /\ q \in Pipes /\ busy[q]
  BY <1>1, <1>2, EndHeld
<1>4. /\ RingOf(q) /\ data[q] \in Nat /\ room[q] \in Nat /\ room[q] = PSIZE - data[q]
      /\ Chan[q] \in Seq(Byte) /\ Len(Chan[q]) = data[q] /\ PSIZE \in Nat
  BY <1>2, <1>3, ChanValue, PipeAssumption DEF RingInv, RingOf
<1>5. /\ pc \in [Proc -> Points] /\ cur \in [Proc -> Nat] /\ want \in [Proc -> Nat]
      /\ busy \in [Pipes -> BOOLEAN] /\ todo \in [Proc -> Seq(Byte)] /\ nreader[q] \in Int
  BY <1>3 DEF PipeInv, PipeType
<1>6. UNCHANGED <<busy, nreader, nwriter, HasReaders, HasWriters>>
  BY <1>2 DEF endVars, HasReaders, HasWriters
<1> DEFINE t == todo[p]
<1>7. InCalls[p] = [kind |-> "write", pipe |-> q, left |-> t]
  BY <1>1, <1>2 DEF InCalls, InPipe
<1>8. Within[q] = Chan[q]
  BY <1>3 DEF Within
<1>11. t \in Seq(Byte) /\ Len(t) \in Nat
  BY <1>5, LenProperties
<1>12. k \in Nat /\ k <= room[q] /\ k <= Len(t) /\ k \in 0..room[q]
  <2>1. room[q] \in Nat /\ Len(t) \in Nat
    BY <1>4, <1>11
  <2> DEFINE r == room[q]
             l == Len(t)
  <2>2. k = Min({r, l})
    OBVIOUS
  <2> HIDE DEF r, l, k
  <2>3. Min({r, l}) \in Nat /\ Min({r, l}) <= r /\ Min({r, l}) <= l
    BY <2>1, MinOfTwo DEF r, l
  <2>4. k \in Nat /\ k <= r /\ k <= l /\ r \in Nat
    BY <2>1, <2>2, <2>3 DEF r
  <2> QED BY <2>4 DEF r, l
<1>k. k = Min({PSIZE - Len(Within[q]), Len(t)})
  BY <1>4, <1>8
<1> HIDE DEF k
<1>13. CASE /\ nreader[q] <= 0
            /\ pc' = [pc EXCEPT ![p] = "exit"]
            /\ UNCHANGED <<buf, head, data, room, todo, event, cur, want>>
  <2>1. UNCHANGED Chan
    BY <1>2, <1>13 DEF Chan, Oldest
  <2>2. UNCHANGED Within
    BY <1>6, <2>1 DEF Within
  <2>3. InCalls' = [InCalls EXCEPT ![p] = InNone]
    <3>1. \A r \in Proc : r # p => Unmoved(r)
      BY <1>2, <1>5, <1>13 DEF Unmoved
    <3>2. InPipe(p)' = InNone
      BY <1>5, <1>13 DEF InPipe, InNone
    <3> QED BY <1>2, <3>1, <3>2, CallsShown DEF oftVars
  <2>4. ~ HasReaders[q]
    <3>1. ~ (nreader[q] > 0)
      BY <1>5, <1>13
    <3> QED BY <1>3, <3>1, HasValue
  <2> QED BY <1>2, <1>3, <1>6, <1>7, <2>2, <2>3, <2>4, ShowGiveUp
<1>14. CASE /\ nreader[q] > 0
            /\ buf' = [buf EXCEPT ![q] = Stored(q, todo[p], k)]
            /\ head' = [head EXCEPT ![q] = Forward(@, k)]
            /\ data' = [data EXCEPT ![q] = @ + k]
            /\ room' = [room EXCEPT ![q] = @ - k]
            /\ todo' = [todo EXCEPT ![p] = SubSeq(@, k + 1, Len(@))]
            /\ \/ k = Len(todo[p]) /\ Returns(p)
               \/ k < Len(todo[p]) /\ UNCHANGED <<pc, cur, want>>
  <2>1. Added(p, q, k)
    BY <1>12, <1>14 DEF Added
  <2>2. Chan' = [Chan EXCEPT ![q] = @ \o SubSeq(todo[p], 1, k)]
    BY <1>2, <1>3, <1>6, <1>11, <1>12, <2>1, RingFits, AddedRing
  <2>3. Within' = [Within EXCEPT ![q] = @ \o SubSeq(t, 1, k)]
    BY <1>3, <1>6, <2>2 DEF Within, Chan
  <2>4. HasReaders[q]
    BY <1>3, <1>14, HasValue
  <2>5. \A r \in Proc : r # p => Unmoved(r)
    <3>1. CASE Returns(p)
      BY <1>2, <1>5, <1>14, <3>1 DEF Unmoved, Returns
    <3>2. CASE UNCHANGED <<pc, cur, want>>
      BY <1>2, <1>5, <1>14, <3>2 DEF Unmoved
    <3> QED BY <1>14, <3>1, <3>2
  <2>6. InPipe(p)' = IF k = Len(t) THEN InNone
                     ELSE [kind |-> "write", pipe |-> q, left |-> SubSeq(t, k + 1, Len(t))]
    <3>1. CASE k = Len(t) /\ Returns(p)
      BY <1>5, <3>1 DEF InPipe, InNone, Returns
    <3>2. CASE k < Len(t) /\ UNCHANGED <<pc, cur, want>>
      <4>1. k # Len(t)
        BY <1>11, <1>12, <3>2
      <4>2. todo'[p] = SubSeq(t, k + 1, Len(t))
        BY <1>5, <1>14
      <4> QED BY <1>1, <1>2, <3>2, <4>1, <4>2 DEF InPipe, oftVars
    <3> QED BY <1>14, <3>1, <3>2
  <2>7. InCalls' = [InCalls EXCEPT ![p] = InPipe(p)']
    BY <1>2, <2>5, CallsShown DEF oftVars
  <2> QED BY <1>2, <1>3, <1>6, <1>7, <1>k, <2>3, <2>4, <2>6, <2>7, ShowPut
<1> QED BY <1>0, <1>13, <1>14

LEMMA EachShown ==
  ASSUME PipeInv, PipeInv', RingInv, [Next]_vars PROVE ChanStep
<1>a. pc \in [Proc -> Points]
  BY DEF PipeInv, PipeType
<1>b. ASSUME UNCHANGED <<fd, oftVars, endVars, ringVars, callVars>>,
             \A r \in Proc : pc'[r] = pc[r] \/ (pc[r] = "user" /\ pc'[r] = "exit")
      PROVE  ChanStep
  <2>1. UNCHANGED <<Chan, ubuf, busy, nreader, nwriter>>
    BY <1>b DEF ringVars, callVars, endVars, Chan, Oldest
  <2>2. \A r \in Proc : Unmoved(r)
    BY <1>b DEF Unmoved, callVars
  <2>3. UNCHANGED InCalls \/ Proc = {}
    BY <1>b, <2>2, CallsShown DEF oftVars
  <2>4. UNCHANGED InCalls
    BY <2>3 DEF InCalls
  <2> QED BY <2>1, <2>4, StaysHidden
<1>1. CASE UNCHANGED vars
  BY <1>1, <1>b DEF vars
<1> SUFFICES ASSUME NEW p \in Proc, Call(p) \/ Loop(p) \/ Kill(p) PROVE ChanStep
  BY <1>1 DEF Next
<1>3. CASE MakePipe(p)
  BY <1>3, MakeShown
<1>4. ASSUME NEW i \in Fds, Close(p, i) PROVE ChanStep
  BY <1>4, CloseShown DEF Close, Calling, At
<1>5. ASSUME NEW i \in Fds, Dup(p, i) PROVE ChanStep
  BY <1>5, DupShown
<1>6. ASSUME NEW c \in Proc, Fork(p, c) PROVE ChanStep
  BY <1>6, ForkShown
<1>7. CASE Exit(p)
  BY <1>7, <1>a, <1>b DEF Exit, Calling, At
<1>8. CASE Kill(p)
  BY <1>8, <1>b DEF Kill
<1>9. CASE ExitClose(p)
  <2> DEFINE open == {i \in Fds : fd[p][i] # None}
  <2>1. open # {} /\ open \subseteq Nat /\ open \subseteq Fds
    BY <1>9, ConstantFacts DEF ExitClose
  <2>2. Min(open) \in Fds
    BY <2>1, MinOfNats
  <2> QED BY <1>9, <2>2, CloseShown DEF ExitClose, At
<1>10. CASE ExitDone(p)
  BY <1>10, ForgetShown
<1>11. CASE \/ \E i \in Fds, n \in 1..MaxBytes : Read(p, i, n)
            \/ \E i \in Fds, s \in Messages : Write(p, i, s)
  BY <1>11, BeginShown
<1>12. CASE ReadLoop(p)
  BY <1>12, ReadShown
<1>13. CASE WriteLoop(p)
  BY <1>13, WriteShown
<1> QED BY <1>3, <1>4, <1>5, <1>6, <1>7, <1>8, <1>9, <1>10, <1>11, <1>12, <1>13 DEF Call, Loop


(* Whatever the calls and their order, every variable of the pipes keeps its type:
   the indices of a ring stay inside it, data and room between 0 and PSIZE, the
   reference counts are never negative, and what a read hands over are bytes that
   were written (kernel/pipe.c). *)
THEOREM PipeTypes == Spec => []TypeOK
<1>1. PipeInv /\ RingInv => TypeOK
  <2> SUFFICES ASSUME PipeInv, RingInv PROVE TypeOK
    OBVIOUS
  <2>1. /\ buf \in [Pipes -> [Slots -> Byte \cup {None}]]
        /\ head \in [Pipes -> Slots] /\ tail \in [Pipes -> Slots]
        /\ data \in [Pipes -> 0..PSIZE] /\ room \in [Pipes -> 0..PSIZE]
    BY DEF RingInv, Functions, RingOf
  <2>2. /\ cur \in [Proc -> Fds] /\ want \in [Proc -> 0..MaxBytes]
        /\ todo \in [Proc -> Messages \cup {<<>>}] /\ ubuf \in [Proc -> Messages \cup {<<>>}]
    BY DEF RingInv, Functions, UserOf
  <2>3. /\ fd \in [Proc -> [Fds -> Ofts \cup {None, File}]]
        /\ mode \in [Ofts -> {"file", "READ_PIPE", "WRITE_PIPE"}]
        /\ refCount \in [Ofts -> Nat] /\ pipePtr \in [Ofts -> Pipes \cup {None}]
        /\ busy \in [Pipes -> BOOLEAN]
        /\ nreader \in [Pipes -> Int] /\ nwriter \in [Pipes -> Int]
        /\ pc \in [Proc -> Points] /\ event \in [Proc -> Events \cup {None}]
    BY DEF PipeInv, PipeType, FdTables
  <2> QED BY <2>1, <2>2, <2>3 DEF TypeOK
<1> QED BY <1>1, PipeInvariant, RingInvariant, PTL

(* A pipe is a FIFO channel of PSIZE bytes between those who hold its ends: whatever
   the processes write, read, fork, dup and close, in whatever pieces and with
   whatever waiting in between, what a write was given goes in, all of it before the
   write returns, and comes out once and in that order, never from an earlier use of
   the pipe; and a read ends without a byte, or a write without having written all,
   only if nobody holds the other end (kernel/pipe.c:34-109). *)
THEOREM PipeIsFifo == Spec => FifoChannel
<1>1. Init => Channel!CInit
  <2> SUFFICES ASSUME Init PROVE Channel!CInit
    OBVIOUS
  <2>1. PipeInv
    BY InitInv
  <2>2. \A q \in Pipes : ~ busy[q]
    BY DEF Init
  <2>3. InRing = [q \in Pipes |-> <<>>]
    BY <2>2 DEF InRing
  <2>4. /\ Held("READ_PIPE") = [q \in Pipes |-> FALSE]
        /\ Held("WRITE_PIPE") = [q \in Pipes |-> FALSE]
    BY <2>1, <2>2, ToldTrue, Zenon DEF Told, HasReaders, HasWriters
  <2>5. ubuf = [p \in Proc |-> <<>>] /\ \A p \in Proc : pc[p] \notin {"read", "write"}
    BY DEF Init
  <2>6. [p \in Proc |-> InPipe(p)] = [p \in Proc |-> Channel!Idle]
    BY <2>5 DEF InPipe, Channel!Idle
  <2> QED BY <2>3, <2>4, <2>5, <2>6 DEF Channel!CInit
<1>2. PipeInv /\ PipeInv' /\ RingInv /\ [Next]_vars => [Channel!CNext]_(Channel!cvars)
  BY EachShown DEF ChanStep
<1> QED BY <1>1, <1>2, PipeInvariant, RingInvariant, PTL DEF Spec, FifoChannel, Channel!CSpec
-----------------------------------------------------------------------------
(***************************************************************************)
(* What a pipe's users leave behind, also those that use dup2: its counts  *)
(* may be too low, never too high, so that the last close frees it.        *)
(***************************************************************************)
EndTypes ==
  /\ fd \in FdTables
  /\ mode \in [Ofts -> {"file", "READ_PIPE", "WRITE_PIPE"}]
  /\ refCount \in [Ofts -> Nat]
  /\ pipePtr \in [Ofts -> Pipes \cup {None}]
  /\ busy \in [Pipes -> BOOLEAN]
  /\ nreader \in [Pipes -> Int] /\ nwriter \in [Pipes -> Int]
  /\ pc \in [Proc -> Points]
EntryCounts == \A o \in Ofts : refCount[o] = Count(fd, {o})
EntryUse ==
  \A o \in Ofts : refCount[o] > 0 =>
    mode[o] \in {"READ_PIPE", "WRITE_PIPE"} /\ pipePtr[o] \in Pipes
AtMost(q) ==
  /\ nreader[q] <= Readers(q) /\ nwriter[q] <= Writers(q)
  /\ busy[q] => Readers(q) > 0 \/ Writers(q) > 0
HoldsNone(p) == \A i \in Fds : fd[p][i] = None
LeftInv ==
  /\ EndTypes /\ EntryCounts /\ EntryUse
  /\ \A q \in Pipes : AtMost(q)
  /\ \A p \in Proc : pc[p] = "none" => HoldsNone(p)

LEMMA EntryHeld ==
  ASSUME EntryCounts, NEW p \in Proc, NEW i \in Fds, fd[p][i] \in Ofts
  PROVE  refCount[fd[p][i]] > 0
<1> DEFINE x == <<p, i>>
<1>a. PICK r : r = fd[p][i]
  OBVIOUS
<1>1. x \in Handle /\ fd[x[1]][x[2]] = r
  BY <1>a DEF Handle
<1> HIDE DEF x
<1>2. x \in Pointing(fd, {r})
  BY <1>1 DEF Pointing
<1>3. Count(fd, {r}) \in Nat /\ Count(fd, {r}) # 0
  BY <1>2, CountType
<1>4. r \in Ofts /\ refCount[r] = Count(fd, {r})
  BY <1>a DEF EntryCounts
<1> QED BY <1>a, <1>3, <1>4

LEMMA LeftFrame ==
  ASSUME LeftInv, UNCHANGED <<fd, oftVars, endVars>>, pc' \in [Proc -> Points],
         \A r \in Proc : pc'[r] = "none" => HoldsNone(r)
  PROVE  LeftInv'
<1>1. UNCHANGED <<fd, mode, refCount, pipePtr, busy, nreader, nwriter>>
  BY DEF oftVars, endVars
<1>2. \A S : Count(fd, S)' = Count(fd, S')
  BY <1>1 DEF Count, Pointing
<1>3. \A q : Readers(q)' = Readers(q) /\ Writers(q)' = Writers(q)
  BY <1>1 DEF Readers, Writers, Count, Pointing, EndOfts
<1>4. \A o : Count(fd, {o})' = Count(fd, {o})
  BY <1>1
<1>5. \A r \in Proc : HoldsNone(r)' <=> HoldsNone(r)
  BY <1>1 DEF HoldsNone
<1> QED BY <1>1, <1>3, <1>4, <1>5 DEF LeftInv, EndTypes, EntryCounts, EntryUse, AtMost

(* How setting one descriptor changes the counts. *)
LEMMA EndsSet ==
  ASSUME EndTypes, NEW p \in Proc, NEW i \in Fds, NEW v \in Ofts \cup {None, File},
         fd' = [fd EXCEPT ![p][i] = v], UNCHANGED <<mode, pipePtr>>
  PROVE  /\ fd' \in FdTables
         /\ \A S : S \subseteq Ofts =>
              Count(fd', S) = Count(fd, S) - (IF fd[p][i] \in S THEN 1 ELSE 0)
                                           + (IF v \in S THEN 1 ELSE 0)
         /\ \A x : /\ Readers(x)' = Readers(x)
                        - (IF fd[p][i] \in EndOfts(x, "READ_PIPE") THEN 1 ELSE 0)
                        + (IF v \in EndOfts(x, "READ_PIPE") THEN 1 ELSE 0)
                   /\ Writers(x)' = Writers(x)
                        - (IF fd[p][i] \in EndOfts(x, "WRITE_PIPE") THEN 1 ELSE 0)
                        + (IF v \in EndOfts(x, "WRITE_PIPE") THEN 1 ELSE 0)
<1>1. fd \in FdTables
  BY DEF EndTypes
<1>2. \A x, end : EndOfts(x, end) \subseteq Ofts /\ EndOfts(x, end)' = EndOfts(x, end)
  BY DEF EndOfts
<1>3. \A S : Count(SetTo(fd, p, i, v), S)
               = Count(fd, S) - (IF fd[p][i] \in S THEN 1 ELSE 0)
                              + (IF v \in S THEN 1 ELSE 0)
  BY <1>1, SetCount
<1>4. fd' \in FdTables
  BY <1>1 DEF FdTables
<1>5. \A S : Count(fd', S) = Count(fd, S) - (IF fd[p][i] \in S THEN 1 ELSE 0)
                                          + (IF v \in S THEN 1 ELSE 0)
  BY <1>3 DEF SetTo
<1>6. \A x : /\ Readers(x)' = Count(fd', EndOfts(x, "READ_PIPE"))
             /\ Writers(x)' = Count(fd', EndOfts(x, "WRITE_PIPE"))
  BY <1>2 DEF Readers, Writers
<1> QED BY <1>4, <1>5, <1>6 DEF Readers, Writers

LEMMA LeftClose ==
  ASSUME LeftInv, NEW p \in Proc, NEW i \in Fds, NEW v \in Ofts \cup {None, File},
         CloseAny(p, i, v), v \in Ofts => refCount[v] > 0,
         UNCHANGED <<mode, pipePtr, pc>>, pc[p] # "none"
  PROVE  LeftInv'
<1>a. PICK o : o = fd[p][i]
  OBVIOUS
<1>b. PICK q : q = pipePtr[o]
  OBVIOUS
<1> DEFINE reader == mode[o] = "READ_PIPE"
<1>0. EndTypes /\ EntryCounts /\ EntryUse
  BY DEF LeftInv
<1>1. fd' = [fd EXCEPT ![p][i] = v]
  BY DEF CloseAny, ClosePipe
<1>2. /\ fd' \in FdTables
      /\ \A S : S \subseteq Ofts =>
           Count(fd', S) = Count(fd, S) - (IF o \in S THEN 1 ELSE 0)
                                        + (IF v \in S THEN 1 ELSE 0)
      /\ \A x : /\ Readers(x)' = Readers(x)
                     - (IF o \in EndOfts(x, "READ_PIPE") THEN 1 ELSE 0)
                     + (IF v \in EndOfts(x, "READ_PIPE") THEN 1 ELSE 0)
                /\ Writers(x)' = Writers(x)
                     - (IF o \in EndOfts(x, "WRITE_PIPE") THEN 1 ELSE 0)
                     + (IF v \in EndOfts(x, "WRITE_PIPE") THEN 1 ELSE 0)
  <2>1. /\ fd' \in FdTables
        /\ \A S : S \subseteq Ofts =>
             Count(fd', S) = Count(fd, S) - (IF fd[p][i] \in S THEN 1 ELSE 0)
                                          + (IF v \in S THEN 1 ELSE 0)
        /\ \A x : /\ Readers(x)' = Readers(x)
                       - (IF fd[p][i] \in EndOfts(x, "READ_PIPE") THEN 1 ELSE 0)
                       + (IF v \in EndOfts(x, "READ_PIPE") THEN 1 ELSE 0)
                  /\ Writers(x)' = Writers(x)
                       - (IF fd[p][i] \in EndOfts(x, "WRITE_PIPE") THEN 1 ELSE 0)
                       + (IF v \in EndOfts(x, "WRITE_PIPE") THEN 1 ELSE 0)
    BY <1>0, <1>1, EndsSet
  <2> QED BY <1>a, <2>1, Zenon
<1>3. \A r \in Ofts : refCount[r] \in Nat /\ refCount[r] = Count(fd, {r})
  BY <1>0 DEF EndTypes, EntryCounts
<1>4. \A r \in Ofts : refCount'[r] = refCount[r] - (IF r = o THEN 1 ELSE 0)
                                                 + (IF r = v THEN 1 ELSE 0)
  <2>1. CASE o \in Ofts
    BY <1>a, <2>1, Zenon DEF CloseAny, ClosePipe
  <2>2. CASE o \notin Ofts
    <3>1. \A r \in Ofts : refCount'[r] = refCount[r] + (IF r = v THEN 1 ELSE 0)
      BY <1>a, <2>2, Zenon DEF CloseAny
    <3>2. \A r \in Ofts : refCount[r] \in Nat /\ r # o
      BY <1>3, <2>2
    <3> QED BY <3>1, <3>2
  <2> QED BY <2>1, <2>2
<1>5. refCount' = [r \in Ofts |-> refCount'[r]]
  BY DEF CloseAny, ClosePipe
<1>6. \A r \in Ofts : refCount'[r] = Count(fd', {r}) /\ refCount'[r] \in Nat
  <2> TAKE r \in Ofts
  <2>1. {r} \subseteq Ofts /\ (o \in {r} <=> r = o) /\ (v \in {r} <=> r = v)
    OBVIOUS
  <2>2. Count(fd', {r}) = Count(fd, {r}) - (IF r = o THEN 1 ELSE 0) + (IF r = v THEN 1 ELSE 0)
    BY <1>2, <2>1
  <2>3. Count(fd', {r}) \in Nat
    BY CountType
  <2> QED BY <1>3, <1>4, <2>2, <2>3
<1>7. \A r \in Ofts : refCount'[r] > 0 => refCount[r] > 0
  <2>1. \A r \in Ofts : refCount[r] \in Nat
    BY <1>3
  <2> QED BY <1>4, <2>1
<1>8. \A x : Readers(x) \in Nat /\ Writers(x) \in Nat /\ Readers(x)' \in Nat /\ Writers(x)' \in Nat
  BY CountType DEF Readers, Writers
<1>9. /\ busy \in [Pipes -> BOOLEAN]
      /\ nreader \in [Pipes -> Int] /\ nwriter \in [Pipes -> Int]
  BY <1>0 DEF EndTypes
<1>10. /\ busy' \in [Pipes -> BOOLEAN]
       /\ nreader' \in [Pipes -> Int] /\ nwriter' \in [Pipes -> Int]
       /\ \A x \in Pipes : AtMost(x)'
  <2>1. CASE o \notin Ofts
    <3>1. UNCHANGED <<busy, nreader, nwriter>>
      BY <1>a, <2>1 DEF CloseAny, endVars
    <3>2. \A x : o \notin EndOfts(x, "READ_PIPE") /\ o \notin EndOfts(x, "WRITE_PIPE")
      BY <2>1 DEF EndOfts
    <3>3. \A x : Readers(x)' >= Readers(x) /\ Writers(x)' >= Writers(x)
      BY <1>2, <1>8, <3>2
    <3>4. \A x \in Pipes : AtMost(x)'
      <4> TAKE x \in Pipes
      <4>1. AtMost(x)
        BY DEF LeftInv
      <4> QED BY <1>8, <1>9, <3>1, <3>3, <4>1 DEF AtMost
    <3> QED BY <1>9, <3>1, <3>4
  <2>2. CASE o \in Ofts
    <3>1. refCount[o] > 0 /\ mode[o] \in {"READ_PIPE", "WRITE_PIPE"} /\ q \in Pipes
      <4>1. refCount[o] > 0
        BY <1>a, <1>0, <2>2, EntryHeld
      <4> QED BY <1>b, <1>0, <2>2, <4>1 DEF EntryUse
    <3>2. ClosePipe(p, i, v)
      BY <1>a, <2>2 DEF CloseAny
    <3>3. /\ nreader' = IF reader THEN [nreader EXCEPT ![q] = @ - 1] ELSE nreader
          /\ nwriter' = IF reader THEN nwriter ELSE [nwriter EXCEPT ![q] = @ - 1]
      BY <1>a, <1>b, <3>2 DEF ClosePipe, DownOne
    <3>4. IF refCount[o] = 1 /\ (IF reader THEN nwriter[q] ELSE nreader[q]) <= 0
          THEN busy' = [busy EXCEPT ![q] = FALSE] ELSE busy' = busy
      BY <1>a, <1>b, <3>2 DEF ClosePipe
    <3>5. \A x : /\ o \in EndOfts(x, "READ_PIPE") <=> reader /\ x = q
                 /\ o \in EndOfts(x, "WRITE_PIPE") <=> ~ reader /\ x = q
      BY <1>b, <2>2, <3>1 DEF EndOfts
    <3>6. \A x : /\ Readers(x)' >= Readers(x) - (IF reader /\ x = q THEN 1 ELSE 0)
                 /\ Writers(x)' >= Writers(x) - (IF ~ reader /\ x = q THEN 1 ELSE 0)
      BY <1>2, <1>8, <3>5
    <3>7. Count(fd, EndOfts(q, mode[o])) >= refCount[o]
      <4>1. Pointing(fd, {o}) \subseteq Pointing(fd, EndOfts(q, mode[o]))
        BY <1>b, <2>2 DEF Pointing, EndOfts
      <4>2. IsFiniteSet(Pointing(fd, EndOfts(q, mode[o])))
        BY CountType
      <4>3. Cardinality(Pointing(fd, {o})) <= Cardinality(Pointing(fd, EndOfts(q, mode[o])))
        BY <4>1, <4>2, FS_Subset
      <4>4. Count(fd, {o}) \in Nat /\ Count(fd, EndOfts(q, mode[o])) \in Nat
        BY CountType
      <4> QED BY <1>3, <2>2, <4>3, <4>4 DEF Count
    <3> HIDE DEF reader
    <3>8. nreader' \in [Pipes -> Int] /\ nwriter' \in [Pipes -> Int]
      <4>1. nreader' = [nreader EXCEPT ![q] = @ - 1] \/ nreader' = nreader
        BY <3>3
      <4>2. nwriter' = [nwriter EXCEPT ![q] = @ - 1] \/ nwriter' = nwriter
        BY <3>3
      <4> QED BY <1>9, <4>1, <4>2
    <3>9. busy' \in [Pipes -> BOOLEAN]
      BY <1>9, <3>4
    <3>10. /\ \A x \in Pipes : nreader'[x] = nreader[x] - (IF reader /\ x = q THEN 1 ELSE 0)
           /\ \A x \in Pipes : nwriter'[x] = nwriter[x] - (IF ~ reader /\ x = q THEN 1 ELSE 0)
      BY <1>9, <3>3
    <3>11. \A x \in Pipes : AtMost(x)'
      <4> TAKE x \in Pipes
      <4>1. AtMost(x)
        BY DEF LeftInv
      <4>2. nreader'[x] <= Readers(x)' /\ nwriter'[x] <= Writers(x)'
        BY <1>8, <1>9, <3>6, <3>8, <3>10, <4>1 DEF AtMost
      <4>3. busy'[x] => Readers(x)' > 0 \/ Writers(x)' > 0
        <5>1. CASE x # q
          <6>1. busy'[x] = busy[x]
            BY <1>9, <3>4, <5>1
          <6> QED BY <1>8, <3>6, <4>1, <5>1, <6>1 DEF AtMost
        <5>2. CASE x = q /\ Readers(q)' = 0 /\ Writers(q)' = 0
          <6>1. CASE reader
            <7>1. Readers(q) <= 1 /\ Writers(q) <= 0
              BY <1>8, <3>6, <5>2, <6>1
            <7>2. Readers(q) >= refCount[o]
              BY <3>7, <6>1 DEF Readers, reader
            <7>3. refCount[o] = 1
              <8>1. refCount[o] \in Nat /\ Readers(q) \in Nat /\ Writers(q) \in Nat
                BY <1>3, <1>8, <2>2
              <8> QED BY <3>1, <7>1, <7>2, <8>1
            <7>4. nwriter[q] <= 0
              BY <1>8, <1>9, <4>1, <5>2, <7>1 DEF AtMost
            <7> QED BY <1>9, <3>4, <5>2, <6>1, <7>3, <7>4
          <6>2. CASE ~ reader
            <7>1. Writers(q) <= 1 /\ Readers(q) <= 0
              BY <1>8, <3>6, <5>2, <6>2
            <7>2. Writers(q) >= refCount[o]
              BY <3>1, <3>7, <6>2 DEF Writers, reader
            <7>3. refCount[o] = 1
              <8>1. refCount[o] \in Nat /\ Readers(q) \in Nat /\ Writers(q) \in Nat
                BY <1>3, <1>8, <2>2
              <8> QED BY <3>1, <7>1, <7>2, <8>1
            <7>4. nreader[q] <= 0
              BY <1>8, <1>9, <4>1, <5>2, <7>1 DEF AtMost
            <7> QED BY <1>9, <3>4, <5>2, <6>2, <7>3, <7>4
          <6> QED BY <6>1, <6>2
        <5> QED BY <1>8, <5>1, <5>2
      <4> QED BY <4>2, <4>3 DEF AtMost
    <3> QED BY <3>8, <3>9, <3>11
  <2> QED BY <2>1, <2>2
<1>11. EntryUse' /\ EntryCounts'
  BY <1>0, <1>6, <1>7 DEF EntryUse, EntryCounts
<1>12. EndTypes'
  BY <1>0, <1>2, <1>5, <1>6, <1>10 DEF EndTypes
<1>13. \A r \in Proc : pc'[r] = "none" => HoldsNone(r)'
  <2> TAKE r \in Proc
  <2> HAVE pc'[r] = "none"
  <2>1. r # p /\ HoldsNone(r)
    BY DEF LeftInv
  <2>2. fd'[r] = fd[r]
    BY <1>0, <1>1, <2>1 DEF EndTypes, FdTables
  <2> QED BY <2>1, <2>2 DEF HoldsNone
<1> QED BY <1>10, <1>11, <1>12, <1>13 DEF LeftInv

LEMMA LeftDup ==
  ASSUME LeftInv, NEW p \in Proc, NEW i \in Fds, Dup(p, i)
  PROVE  LeftInv'
<1>a. PICK o : o = fd[p][i]
  OBVIOUS
<1>b. PICK q : q = pipePtr[o]
  OBVIOUS
<1>c. PICK k : k = Min(FreeFds(p))
  OBVIOUS
<1>0. EndTypes /\ EntryCounts /\ EntryUse /\ pc[p] = "user"
  BY DEF LeftInv, Dup, Calling, At
<1>1. k \in Fds /\ fd[p][k] = None
  <2>1. FreeFds(p) # {} /\ FreeFds(p) \subseteq Nat
    BY ConstantFacts DEF Dup, FreeFds
  <2>2. k \in FreeFds(p)
    BY <1>c, <2>1, MinOfNats
  <2> QED BY <2>2 DEF FreeFds
<1>2. o \in Ofts /\ refCount[o] > 0 /\ mode[o] \in {"READ_PIPE", "WRITE_PIPE"} /\ q \in Pipes
  <2>1. o \in Ofts
    BY <1>a DEF Dup
  <2>2. refCount[o] > 0
    BY <1>a, <1>0, <2>1, EntryHeld
  <2> QED BY <1>b, <1>0, <2>1, <2>2 DEF EntryUse
<1>3. /\ fd' = [fd EXCEPT ![p][k] = o]
      /\ refCount' = [refCount EXCEPT ![o] = @ + 1]
      /\ nreader' = [nreader EXCEPT ![q] = @ + (IF mode[o] = "READ_PIPE" THEN 1 ELSE 0)]
      /\ nwriter' = [nwriter EXCEPT ![q] = @ + (IF mode[o] = "WRITE_PIPE" THEN 1 ELSE 0)]
      /\ UNCHANGED <<mode, pipePtr, busy, pc>>
  BY <1>a, <1>b, <1>c DEF Dup
<1>4. /\ fd' \in FdTables
      /\ \A S : S \subseteq Ofts =>
           Count(fd', S) = Count(fd, S) - (IF fd[p][k] \in S THEN 1 ELSE 0)
                                        + (IF o \in S THEN 1 ELSE 0)
      /\ \A x : /\ Readers(x)' = Readers(x)
                     - (IF fd[p][k] \in EndOfts(x, "READ_PIPE") THEN 1 ELSE 0)
                     + (IF o \in EndOfts(x, "READ_PIPE") THEN 1 ELSE 0)
                /\ Writers(x)' = Writers(x)
                     - (IF fd[p][k] \in EndOfts(x, "WRITE_PIPE") THEN 1 ELSE 0)
                     + (IF o \in EndOfts(x, "WRITE_PIPE") THEN 1 ELSE 0)
  <2>1. fd' = [fd EXCEPT ![p][k] = o] /\ UNCHANGED <<mode, pipePtr>>
    BY <1>3
  <2>2. EndTypes /\ k \in Fds /\ o \in Ofts \cup {None, File}
    BY <1>0, <1>1, <1>2
  <2> QED BY <2>1, <2>2, EndsSet
<1>5. \A x : Readers(x) \in Nat /\ Writers(x) \in Nat /\ Readers(x)' \in Nat /\ Writers(x)' \in Nat
  BY CountType DEF Readers, Writers
<1>6. \A S : S \subseteq Ofts => fd[p][k] \notin S
  BY <1>1, ConstantFacts
<1>7. \A x : /\ Readers(x)' = Readers(x) + (IF mode[o] = "READ_PIPE" /\ x = q THEN 1 ELSE 0)
             /\ Writers(x)' = Writers(x) + (IF mode[o] = "WRITE_PIPE" /\ x = q THEN 1 ELSE 0)
  <2> TAKE x
  <2>1. /\ fd[p][k] \notin EndOfts(x, "READ_PIPE")
        /\ fd[p][k] \notin EndOfts(x, "WRITE_PIPE")
    BY <1>6 DEF EndOfts
  <2>2. /\ o \in EndOfts(x, "READ_PIPE") <=> mode[o] = "READ_PIPE" /\ x = q
        /\ o \in EndOfts(x, "WRITE_PIPE") <=> mode[o] = "WRITE_PIPE" /\ x = q
    BY <1>b, <1>2 DEF EndOfts
  <2> QED BY <1>4, <1>5, <2>1, <2>2
<1>8. \A r \in Ofts : refCount'[r] = Count(fd', {r}) /\ (refCount'[r] > 0 => refCount[r] > 0)
  <2> TAKE r \in Ofts
  <2>1. refCount[r] \in Nat /\ refCount[r] = Count(fd, {r}) /\ refCount \in [Ofts -> Nat]
    BY <1>0 DEF EntryCounts, EndTypes
  <2>2. refCount'[r] = refCount[r] + (IF o = r THEN 1 ELSE 0)
    BY <1>3, <2>1
  <2>3. {r} \subseteq Ofts /\ (o \in {r} <=> o = r)
    OBVIOUS
  <2>4. Count(fd', {r}) = Count(fd, {r}) + (IF o = r THEN 1 ELSE 0)
    BY <1>4, <1>6, <2>1, <2>3
  <2> QED BY <1>2, <2>1, <2>2, <2>4
<1>9. refCount' \in [Ofts -> Nat]
  <2>1. refCount \in [Ofts -> Nat]
    BY <1>0 DEF EndTypes
  <2> QED BY <1>2, <1>3, <2>1
<1>10. /\ nreader \in [Pipes -> Int] /\ nwriter \in [Pipes -> Int]
       /\ nreader' \in [Pipes -> Int] /\ nwriter' \in [Pipes -> Int]
  <2>1. nreader \in [Pipes -> Int] /\ nwriter \in [Pipes -> Int]
    BY <1>0 DEF EndTypes
  <2>2. /\ nreader' = [nreader EXCEPT ![q] = nreader[q] + 1] \/ nreader' = [nreader EXCEPT ![q] = nreader[q] + 0]
        /\ nwriter' = [nwriter EXCEPT ![q] = nwriter[q] + 1] \/ nwriter' = [nwriter EXCEPT ![q] = nwriter[q] + 0]
    BY <1>3, Zenon
  <2>3. nreader[q] + 1 \in Int /\ nreader[q] + 0 \in Int /\ nwriter[q] + 1 \in Int /\ nwriter[q] + 0 \in Int
    BY <1>2, <2>1
  <2>4. nreader' \in [Pipes -> Int]
    BY <2>1, <2>2, <2>3
  <2>5. nwriter' \in [Pipes -> Int]
    BY <2>1, <2>2, <2>3
  <2> QED BY <2>1, <2>4, <2>5
<1>11. \A x \in Pipes : AtMost(x)'
  <2> TAKE x \in Pipes
  <2>1. AtMost(x)
    BY DEF LeftInv
  <2>2. /\ nreader'[x] = nreader[x] + (IF mode[o] = "READ_PIPE" /\ x = q THEN 1 ELSE 0)
        /\ nwriter'[x] = nwriter[x] + (IF mode[o] = "WRITE_PIPE" /\ x = q THEN 1 ELSE 0)
    BY <1>3, <1>10
  <2> QED BY <1>3, <1>5, <1>7, <1>10, <2>1, <2>2 DEF AtMost
<1>12. \A r \in Proc : pc'[r] = "none" => HoldsNone(r)'
  <2> TAKE r \in Proc
  <2> HAVE pc'[r] = "none"
  <2>1. r # p /\ HoldsNone(r)
    BY <1>0, <1>3 DEF LeftInv
  <2>2. fd'[r] = fd[r]
    BY <1>0, <1>3, <2>1 DEF EndTypes, FdTables
  <2> QED BY <2>1, <2>2 DEF HoldsNone
<1>13. EntryUse' /\ EntryCounts'
  BY <1>0, <1>3, <1>8 DEF EntryUse, EntryCounts
<1>14. EndTypes'
  BY <1>0, <1>3, <1>4, <1>9, <1>10 DEF EndTypes
<1> QED BY <1>11, <1>12, <1>13, <1>14 DEF LeftInv

(* What fork() adds to the counts: the descriptors that it copies. *)
LEMMA ForkFacts ==
  ASSUME LeftInv, NEW p \in Proc, NEW c \in Proc, Fork(p, c)
  PROVE  /\ fd' \in FdTables
         /\ \A r \in Ofts : refCount'[r] = Count(fd', {r}) /\ (refCount'[r] > 0 => refCount[r] > 0)
         /\ \A x : /\ Readers(x)' = Readers(x) + Cardinality(Ends(p, x, "READ_PIPE"))
                   /\ Writers(x)' = Writers(x) + Cardinality(Ends(p, x, "WRITE_PIPE"))
                   /\ Cardinality(Ends(p, x, "READ_PIPE")) \in Nat
                   /\ Cardinality(Ends(p, x, "WRITE_PIPE")) \in Nat
<1>0. EndTypes /\ EntryCounts /\ EntryUse /\ HoldsNone(c)
  BY DEF LeftInv, Fork
<1>1. UNCHANGED <<mode, pipePtr, busy>> /\ fd' = [fd EXCEPT ![c] = fd[p]]
  BY DEF Fork
<1>2. /\ fd' \in FdTables
      /\ \A S : S \subseteq Ofts =>
           /\ Count(fd', S) = Count(fd, S) + Cardinality(Own(fd, p, S))
           /\ Pointing(fd', S) = {} <=> Pointing(fd, S) = {}
  <2>1. fd \in FdTables
    BY <1>0 DEF EndTypes
  <2>2. ASSUME NEW S, S \subseteq Ofts
        PROVE  /\ Count([fd EXCEPT ![c] = fd[p]], S) = Count(fd, S) + Cardinality(Own(fd, p, S))
               /\ Pointing([fd EXCEPT ![c] = fd[p]], S) = {} <=> Pointing(fd, S) = {}
    <3>1. \A i \in Fds : fd[c][i] \notin S
      BY <1>0, <2>2, ConstantFacts DEF HoldsNone
    <3> QED BY <2>1, <3>1, CountCopy
  <2>3. fd' \in FdTables
    BY <1>1, <2>1 DEF FdTables
  <2> QED BY <1>1, <2>2, <2>3
<1>3. \A S : IsFiniteSet(Own(fd, p, S)) /\ Cardinality(Own(fd, p, S)) \in Nat
  <2> TAKE S
  <2>1. IsFiniteSet(Own(fd, p, S))
    BY HandlesFinite, FS_Subset DEF Own
  <2> QED BY <2>1, FS_CardinalityType
<1>4. \A r \in Ofts : refCount'[r] = Count(fd', {r}) /\ (refCount'[r] > 0 => refCount[r] > 0)
  <2> TAKE r \in Ofts
  <2>1. refCount[r] = Count(fd, {r})
    BY <1>0 DEF EntryCounts
  <2>2. refCount'[r] = refCount[r] + Refs(p, r)
    BY DEF Fork
  <2>3. {r} \subseteq Ofts /\ Own(fd, p, {r}) = {i \in Fds : fd[p][i] = r}
    BY DEF Own
  <2>4. refCount'[r] = Count(fd', {r})
    BY <1>2, <2>1, <2>2, <2>3 DEF Refs
  <2>5. Pointing(fd', {r}) = {} <=> Pointing(fd, {r}) = {}
    BY <1>2, <2>3
  <2>6. /\ Count(fd', {r}) \in Nat /\ (Count(fd', {r}) = 0 <=> Pointing(fd', {r}) = {})
        /\ Count(fd, {r}) \in Nat /\ (Count(fd, {r}) = 0 <=> Pointing(fd, {r}) = {})
    BY CountType
  <2> QED BY <2>1, <2>4, <2>5, <2>6
<1>5. \A x, end : /\ EndOfts(x, end) \subseteq Ofts /\ EndOfts(x, end)' = EndOfts(x, end)
                  /\ Own(fd, p, EndOfts(x, end)) = Ends(p, x, end)
  BY <1>1 DEF Own, EndOfts, Ends
<1>6. \A x : /\ Readers(x)' = Readers(x) + Cardinality(Ends(p, x, "READ_PIPE"))
             /\ Writers(x)' = Writers(x) + Cardinality(Ends(p, x, "WRITE_PIPE"))
             /\ Cardinality(Ends(p, x, "READ_PIPE")) \in Nat
             /\ Cardinality(Ends(p, x, "WRITE_PIPE")) \in Nat
  <2> TAKE x
  <2>1. /\ Count(fd', EndOfts(x, "READ_PIPE")) = Readers(x)'
        /\ Count(fd', EndOfts(x, "WRITE_PIPE")) = Writers(x)'
    BY <1>5 DEF Readers, Writers
  <2>2. /\ Cardinality(Ends(p, x, "READ_PIPE")) \in Nat
        /\ Cardinality(Ends(p, x, "WRITE_PIPE")) \in Nat
    BY <1>3, <1>5
  <2> QED BY <1>2, <1>5, <2>1, <2>2 DEF Readers, Writers
<1> QED BY <1>2, <1>4, <1>6

LEMMA LeftFork ==
  ASSUME LeftInv, NEW p \in Proc, NEW c \in Proc, Fork(p, c)
  PROVE  LeftInv'
<1>0. EndTypes /\ EntryCounts /\ EntryUse /\ HoldsNone(c)
  BY DEF LeftInv, Fork
<1>1. UNCHANGED <<mode, pipePtr, busy>> /\ fd' = [fd EXCEPT ![c] = fd[p]]
  BY DEF Fork
<1>2. fd' \in FdTables
  BY ForkFacts
<1>3. \A r \in Ofts : Count(fd', {r}) \in Nat
  BY CountType
<1>4. \A r \in Ofts : refCount'[r] = Count(fd', {r}) /\ (refCount'[r] > 0 => refCount[r] > 0)
  BY ForkFacts
<1>6. \A x : /\ Readers(x)' = Readers(x) + Cardinality(Ends(p, x, "READ_PIPE"))
             /\ Writers(x)' = Writers(x) + Cardinality(Ends(p, x, "WRITE_PIPE"))
             /\ Cardinality(Ends(p, x, "READ_PIPE")) \in Nat
             /\ Cardinality(Ends(p, x, "WRITE_PIPE")) \in Nat
  BY ForkFacts
<1>7. \A x : Readers(x) \in Nat /\ Writers(x) \in Nat
  BY ReaderWriterTypes
<1>8. /\ nreader \in [Pipes -> Int] /\ nwriter \in [Pipes -> Int]
      /\ nreader' = [q \in Pipes |-> nreader[q] + Cardinality(Ends(p, q, "READ_PIPE"))]
      /\ nwriter' = [q \in Pipes |-> nwriter[q] + Cardinality(Ends(p, q, "WRITE_PIPE"))]
  BY <1>0 DEF EndTypes, Fork, CountEach
<1>9. nreader' \in [Pipes -> Int] /\ nwriter' \in [Pipes -> Int]
  BY <1>6, <1>8
<1>10. \A x \in Pipes : AtMost(x)'
  <2> TAKE x \in Pipes
  <2>1. AtMost(x)
    BY DEF LeftInv
  <2>2. /\ nreader'[x] = nreader[x] + Cardinality(Ends(p, x, "READ_PIPE"))
        /\ nwriter'[x] = nwriter[x] + Cardinality(Ends(p, x, "WRITE_PIPE"))
        /\ nreader[x] \in Int /\ nwriter[x] \in Int
    BY <1>8
  <2> QED BY <1>1, <1>6, <1>7, <2>1, <2>2 DEF AtMost
<1>11. refCount' \in [Ofts -> Nat]
  <2>1. refCount' = [o \in Ofts |-> refCount'[o]]
    BY DEF Fork
  <2>2. \A o \in Ofts : refCount'[o] \in Nat
    BY <1>4, CountType
  <2> QED BY <2>1, <2>2
<1>12. pc' \in [Proc -> Points] /\ \A r \in Proc : pc'[r] = "none" => HoldsNone(r)'
  <2>1. pc \in [Proc -> Points] /\ pc' = [pc EXCEPT ![c] = "user"] /\ fd \in FdTables
    BY <1>0 DEF EndTypes, Fork
  <2>2. pc' \in [Proc -> Points]
    BY <2>1, ConstantFacts
  <2>3. ASSUME NEW r \in Proc, pc'[r] = "none" PROVE HoldsNone(r)'
    <3>1. r # c /\ pc[r] = "none"
      BY <2>1, <2>3
    <3>2. HoldsNone(r) /\ fd'[r] = fd[r]
      BY <1>1, <2>1, <3>1 DEF LeftInv, FdTables
    <3> QED BY <3>2 DEF HoldsNone
  <2> QED BY <2>2, <2>3
<1>13. EntryUse' /\ EntryCounts'
  BY <1>0, <1>1, <1>4 DEF EntryUse, EntryCounts
<1>14. EndTypes'
  BY <1>0, <1>1, <1>2, <1>9, <1>11, <1>12 DEF EndTypes
<1> QED BY <1>10, <1>12, <1>13, <1>14 DEF LeftInv

(* Nobody points to an entry that is not in use. *)
LEMMA NobodyHolds ==
  ASSUME EntryCounts, NEW o \in Ofts, refCount[o] = 0, NEW x \in Handle
  PROVE  fd[x[1]][x[2]] # o
<1>1. Count(fd, {o}) = 0
  BY DEF EntryCounts
<1>2. Pointing(fd, {o}) = {}
  BY <1>1, CountType
<1> QED BY <1>2 DEF Pointing

(* A new pipe has one reader and one writer more than its number had, and the
   other pipes have the same. *)
LEMMA MadeEnds ==
  ASSUME LeftInv, NEW p \in Proc, NEW q \in Pipes, NEW o1 \in Ofts, NEW o2 \in Ofts,
         NEW i1 \in Fds, NEW i2 \in Fds, MadeOf(p, q, o1, o2, i1, i2),
         NEW x \in Pipes, NEW end \in {"READ_PIPE", "WRITE_PIPE"}
  PROVE  /\ Count(fd', EndOfts(x, end)') \in Nat /\ Count(fd, EndOfts(x, end)) \in Nat
         /\ Count(fd', EndOfts(x, end)') = Count(fd, EndOfts(x, end)) + (IF x = q THEN 1 ELSE 0)
<1>1. /\ o1 # o2 /\ refCount[o1] = 0 /\ refCount[o2] = 0
      /\ mode \in [Ofts -> {"file", "READ_PIPE", "WRITE_PIPE"}]
      /\ pipePtr \in [Ofts -> Pipes \cup {None}]
      /\ fd \in FdTables /\ EntryCounts
  BY DEF LeftInv, EndTypes, MadeOf
<1>2. \A S : S \subseteq Ofts =>
        Count(fd', S) = Count(fd, S) + (IF o1 \in S THEN 1 ELSE 0) + (IF o2 \in S THEN 1 ELSE 0)
  BY <1>1, MadeCount
<1>3. /\ mode'[o1] = "READ_PIPE" /\ mode'[o2] = "WRITE_PIPE"
      /\ pipePtr'[o1] = q /\ pipePtr'[o2] = q
      /\ \A r \in Ofts \ {o1, o2} : mode'[r] = mode[r] /\ pipePtr'[r] = pipePtr[r]
  BY <1>1 DEF MadeOf
<1> DEFINE S == EndOfts(x, end)'
           T == EndOfts(x, end)
<1>4. /\ S \subseteq Ofts
      /\ o1 \in S <=> x = q /\ end = "READ_PIPE"
      /\ o2 \in S <=> x = q /\ end = "WRITE_PIPE"
      /\ \A r \in Ofts \ {o1, o2} : r \in S <=> r \in T
  BY <1>3 DEF EndOfts
<1>5. T \subseteq Ofts
  BY DEF EndOfts
<1>6. \A y \in Handle : fd[y[1]][y[2]] # o1 /\ fd[y[1]][y[2]] # o2
  BY <1>1, NobodyHolds
<1> HIDE DEF S, T
<1>7. Pointing(fd, S) = Pointing(fd, T)
  BY <1>4, <1>5, <1>6 DEF Pointing
<1>8. Count(fd, S) = Count(fd, T) /\ Count(fd, T) \in Nat
  BY <1>7, CountType DEF Count
<1>9. Count(fd', S) = Count(fd, S) + (IF o1 \in S THEN 1 ELSE 0) + (IF o2 \in S THEN 1 ELSE 0)
  BY <1>2, <1>4
<1>10. Count(fd', S) \in Nat /\ Count(fd', S) = Count(fd, T) + (IF x = q THEN 1 ELSE 0)
  BY <1>4, <1>8, <1>9
<1> QED BY <1>8, <1>10 DEF S, T

LEMMA LeftMake ==
  ASSUME LeftInv, NEW p \in Proc, MakePipe(p)
  PROVE  LeftInv'
<1>0. EndTypes /\ EntryCounts /\ EntryUse /\ pc[p] = "user" /\ UNCHANGED pc
  BY DEF LeftInv, MakePipe, Calling, At
<1>1. PICK q \in Pipes, o1 \in Ofts, o2 \in Ofts, i1 \in Fds, i2 \in Fds :
        MadeOf(p, q, o1, o2, i1, i2)
  BY NewPipe
<1>2. /\ ~ busy[q] /\ o1 # o2 /\ refCount[o1] = 0 /\ refCount[o2] = 0
      /\ i1 # i2 /\ fd[p][i1] = None /\ fd[p][i2] = None
  BY <1>1 DEF MadeOf
<1>3. /\ fd \in FdTables /\ refCount \in [Ofts -> Nat]
      /\ mode \in [Ofts -> {"file", "READ_PIPE", "WRITE_PIPE"}]
      /\ pipePtr \in [Ofts -> Pipes \cup {None}]
      /\ nreader \in [Pipes -> Int] /\ nwriter \in [Pipes -> Int]
      /\ busy \in [Pipes -> BOOLEAN]
  BY <1>0 DEF EndTypes
<1>4. \A S : S \subseteq Ofts =>
        Count(fd', S) = Count(fd, S) + (IF o1 \in S THEN 1 ELSE 0) + (IF o2 \in S THEN 1 ELSE 0)
  BY <1>1, <1>3, MadeCount
<1>5. \A r \in Ofts : refCount'[r] = Count(fd', {r})
  <2> TAKE r \in Ofts
  <2>1. refCount[r] = Count(fd, {r}) /\ refCount[r] \in Nat
    BY <1>0, <1>3 DEF EntryCounts
  <2>2. refCount'[r] = IF r = o1 \/ r = o2 THEN 1 ELSE refCount[r]
    BY <1>1, <1>3 DEF MadeOf
  <2>3. {r} \subseteq Ofts /\ (o1 \in {r} <=> r = o1) /\ (o2 \in {r} <=> r = o2)
    OBVIOUS
  <2>4. Count(fd', {r}) = Count(fd, {r}) + (IF r = o1 THEN 1 ELSE 0) + (IF r = o2 THEN 1 ELSE 0)
    BY <1>4, <2>3
  <2> QED BY <1>2, <2>1, <2>2, <2>4
<1>6. /\ mode' \in [Ofts -> {"file", "READ_PIPE", "WRITE_PIPE"}]
      /\ mode'[o1] = "READ_PIPE" /\ mode'[o2] = "WRITE_PIPE"
      /\ \A r \in Ofts \ {o1, o2} : mode'[r] = mode[r]
  BY <1>1, <1>2, <1>3 DEF MadeOf
<1>7. /\ pipePtr' \in [Ofts -> Pipes \cup {None}]
      /\ pipePtr'[o1] = q /\ pipePtr'[o2] = q
      /\ \A r \in Ofts \ {o1, o2} : pipePtr'[r] = pipePtr[r]
  BY <1>1, <1>2, <1>3 DEF MadeOf
<1>8. /\ refCount' \in [Ofts -> Nat]
      /\ refCount'[o1] = 1 /\ refCount'[o2] = 1
      /\ \A r \in Ofts \ {o1, o2} : refCount'[r] = refCount[r]
  BY <1>1, <1>2, <1>3 DEF MadeOf
<1>9. /\ busy' \in [Pipes -> BOOLEAN] /\ nreader' \in [Pipes -> Int] /\ nwriter' \in [Pipes -> Int]
      /\ nreader'[q] = 1 /\ nwriter'[q] = 1
      /\ \A x \in Pipes : x # q => busy'[x] = busy[x] /\ nreader'[x] = nreader[x]
                                   /\ nwriter'[x] = nwriter[x]
  BY <1>1, <1>3 DEF MadeOf
<1>10. ASSUME NEW x \in Pipes, NEW end \in {"READ_PIPE", "WRITE_PIPE"}
       PROVE  /\ Count(fd', EndOfts(x, end)') \in Nat /\ Count(fd, EndOfts(x, end)) \in Nat
              /\ Count(fd', EndOfts(x, end)')
                   = Count(fd, EndOfts(x, end)) + (IF x = q THEN 1 ELSE 0)
  BY <1>1, MadeEnds
<1>11. \A x \in Pipes : AtMost(x)'
  <2> TAKE x \in Pipes
  <2>1. AtMost(x)
    BY DEF LeftInv
  <2>2. /\ Readers(x)' \in Nat /\ Writers(x)' \in Nat
        /\ x = q => Readers(x)' >= 1 /\ Writers(x)' >= 1
        /\ x # q => Readers(x)' = Readers(x) /\ Writers(x)' = Writers(x)
    BY <1>10 DEF Readers, Writers
  <2>3. CASE x = q
    <3>1. nreader'[x] = 1 /\ nwriter'[x] = 1
      BY <1>9, <2>3
    <3> QED BY <2>2, <2>3, <3>1 DEF AtMost
  <2>4. CASE x # q
    BY <1>9, <2>1, <2>2, <2>4 DEF AtMost
  <2> QED BY <2>3, <2>4
<1>12. fd' \in FdTables /\ \A r \in Proc : pc'[r] = "none" => HoldsNone(r)'
  <2>1. fd' = [fd EXCEPT ![p][i1] = o1, ![p][i2] = o2]
    BY <1>1 DEF MadeOf
  <2>2. fd' \in FdTables
    BY <1>3, <2>1 DEF FdTables
  <2>3. ASSUME NEW r \in Proc, pc'[r] = "none" PROVE HoldsNone(r)'
    <3>1. r # p /\ HoldsNone(r)
      BY <1>0, <2>3 DEF LeftInv
    <3>2. fd'[r] = fd[r]
      BY <1>3, <2>1, <3>1 DEF FdTables
    <3> QED BY <3>1, <3>2 DEF HoldsNone
  <2> QED BY <2>2, <2>3
<1>13. EntryUse' /\ EntryCounts'
  <2>1. EntryCounts'
    BY <1>5 DEF EntryCounts
  <2>2. EntryUse'
    BY <1>0, <1>6, <1>7, <1>8 DEF EntryUse
  <2> QED BY <2>1, <2>2
<1>14. EndTypes'
  BY <1>0, <1>6, <1>7, <1>8, <1>9, <1>12 DEF EndTypes
<1> QED BY <1>11, <1>12, <1>13, <1>14 DEF LeftInv

LEMMA LeftInit == Init => LeftInv
<1> SUFFICES ASSUME Init PROVE LeftInv
  OBVIOUS
<1>1. PICK p \in Proc : /\ pc = [r \in Proc |-> IF r = p THEN "user" ELSE "none"]
                        /\ fd = [r \in Proc |-> [i \in Fds |->
                                   IF r = p /\ i \in StdFds THEN File ELSE None]]
  BY DEF Init
<1>2. fd \in FdTables
  BY <1>1 DEF FdTables
<1>3. \A x \in Handle : fd[x[1]][x[2]] \in {None, File}
  BY <1>1 DEF Handle
<1>4. \A S : S \subseteq Ofts => Count(fd, S) = 0
  <2> TAKE S
  <2> HAVE S \subseteq Ofts
  <2>1. Pointing(fd, S) = {}
    BY <1>3, ConstantFacts DEF Pointing
  <2> QED BY <2>1, CountType
<1>5. EndTypes
  BY <1>1, <1>2, ConstantFacts DEF EndTypes, Init
<1>6. EntryCounts /\ EntryUse
  <2>1. \A r \in Ofts : {r} \subseteq Ofts /\ refCount[r] = 0
    BY DEF Init
  <2> QED BY <1>4, <2>1 DEF EntryCounts, EntryUse
<1>7. \A q \in Pipes : AtMost(q)
  <2> TAKE q \in Pipes
  <2>1. EndOfts(q, "READ_PIPE") \subseteq Ofts /\ EndOfts(q, "WRITE_PIPE") \subseteq Ofts
    BY DEF EndOfts
  <2>2. Readers(q) = 0 /\ Writers(q) = 0
    BY <1>4, <2>1 DEF Readers, Writers
  <2> QED BY <2>2 DEF AtMost, Init
<1>8. \A r \in Proc : pc[r] = "none" => HoldsNone(r)
  BY <1>1 DEF HoldsNone
<1> QED BY <1>5, <1>6, <1>7, <1>8 DEF LeftInv

(* The steps that leave the descriptors alone. *)
LEMMA LeftCalls ==
  ASSUME LeftInv, NEW p \in Proc, NEW i, NEW n,
         \/ Exit(p) \/ Read(p, i, n) \/ Write(p, i, n)
         \/ ReadLoop(p) \/ WriteLoop(p) \/ ExitDone(p) \/ Kill(p)
  PROVE  LeftInv'
<1>1. UNCHANGED <<fd, oftVars, endVars>>
  BY DEF Exit, Read, Write, ReadLoop, WriteLoop, ExitDone, Kill
<1>2. \/ pc' = pc
      \/ \E w \in {"user", "read", "write", "exit"} : pc' = [pc EXCEPT ![p] = w]
      \/ pc' = [pc EXCEPT ![p] = "none"] /\ HoldsNone(p)
  BY DEF Exit, Read, Write, ReadLoop, WriteLoop, ExitDone, Kill, Returns, HoldsNone
<1>3. pc \in [Proc -> Points]
  BY DEF LeftInv, EndTypes
<1>4. pc' \in [Proc -> Points]
  BY <1>2, <1>3, ConstantFacts
<1>5. \A r \in Proc : pc'[r] = "none" => HoldsNone(r)
  BY <1>2, <1>3 DEF LeftInv
<1> QED BY <1>1, <1>4, <1>5, LeftFrame

LEMMA LeftEnds ==
  ASSUME LeftInv, NEW p \in Proc,
         \/ ExitClose(p)
         \/ \E i \in Fds : Close(p, i)
         \/ \E i, k \in Fds : Dup2(p, i, k)
  PROVE  LeftInv'
<1>1. CASE ExitClose(p)
  <2> DEFINE open == {i \in Fds : fd[p][i] # None}
  <2>1. open # {} /\ open \subseteq Nat /\ open \subseteq Fds
    BY <1>1, ConstantFacts DEF ExitClose
  <2>2. Min(open) \in Fds
    BY <2>1, MinOfNats
  <2>3. /\ CloseAny(p, Min(open), None) /\ UNCHANGED <<mode, pipePtr, pc>>
        /\ pc[p] # "none"
    BY <1>1 DEF ExitClose, At
  <2> HIDE DEF open
  <2> QED BY <2>2, <2>3, ConstantFacts, LeftClose
<1>2. ASSUME NEW i \in Fds, Close(p, i) PROVE LeftInv'
  <2>1. CloseAny(p, i, None) /\ UNCHANGED <<mode, pipePtr, pc>> /\ pc[p] # "none"
    BY <1>2 DEF Close, Calling, At
  <2> QED BY <2>1, ConstantFacts, LeftClose
<1>3. ASSUME NEW i \in Fds, NEW k \in Fds, Dup2(p, i, k) PROVE LeftInv'
  <2>1. PICK v : v = fd[p][i]
    OBVIOUS
  <2>2. CloseAny(p, k, v) /\ UNCHANGED <<mode, pipePtr, pc>> /\ pc[p] # "none"
    BY <1>3, <2>1 DEF Dup2, Calling, At
  <2>3. v \in Ofts \cup {None, File}
    BY <2>1 DEF LeftInv, EndTypes, FdTables
  <2>4. v \in Ofts => refCount[v] > 0
    BY <2>1, EntryHeld DEF LeftInv
  <2> QED BY <2>2, <2>3, <2>4, LeftClose
<1> QED BY <1>1, <1>2, <1>3

LEMMA LeftStep == LeftInv /\ [NextDup2]_vars => LeftInv'
<1> SUFFICES ASSUME LeftInv, [NextDup2]_vars PROVE LeftInv'
  OBVIOUS
<1>1. CASE UNCHANGED vars
  <2>1. UNCHANGED <<fd, oftVars, endVars, pc>>
    BY <1>1 DEF vars
  <2> QED BY <2>1, LeftFrame DEF LeftInv, EndTypes
<1> SUFFICES ASSUME NEW p \in Proc,
                    Call(p) \/ Loop(p) \/ Kill(p) \/ \E i, k \in Fds : Dup2(p, i, k)
             PROVE  LeftInv'
  BY <1>1 DEF NextDup2, Next
<1>2. CASE MakePipe(p)
  BY <1>2, LeftMake
<1>3. CASE \E i \in Fds : Close(p, i) \/ Dup(p, i)
  BY <1>3, LeftEnds, LeftDup
<1>4. CASE \E c \in Proc : Fork(p, c)
  BY <1>4, LeftFork
<1>5. CASE \/ Exit(p) \/ Kill(p) \/ ReadLoop(p) \/ WriteLoop(p) \/ ExitDone(p)
           \/ \E i \in Fds, n \in 1..MaxBytes : Read(p, i, n)
           \/ \E i \in Fds, s \in Messages : Write(p, i, s)
  BY <1>5, LeftCalls
<1>6. CASE ExitClose(p) \/ \E i, k \in Fds : Dup2(p, i, k)
  BY <1>6, LeftEnds
<1> QED BY <1>2, <1>3, <1>4, <1>5, <1>6 DEF Call, Loop

LEMMA LeftGone == LeftInv => NothingLeft
<1> SUFFICES ASSUME LeftInv, Gone PROVE /\ \A q \in Pipes : ~ busy[q]
                                        /\ \A o \in Ofts : refCount[o] = 0
  BY DEF NothingLeft
<1>1. \A x \in Handle : fd[x[1]][x[2]] = None
  BY DEF LeftInv, Gone, HoldsNone, Handle
<1>2. \A S : S \subseteq Ofts => Count(fd, S) = 0
  <2> TAKE S
  <2> HAVE S \subseteq Ofts
  <2>1. Pointing(fd, S) = {}
    BY <1>1, ConstantFacts DEF Pointing
  <2> QED BY <2>1, CountType
<1>3. \A o \in Ofts : refCount[o] = 0
  <2>1. \A o \in Ofts : {o} \subseteq Ofts
    OBVIOUS
  <2> QED BY <1>2, <2>1 DEF LeftInv, EntryCounts
<1>4. \A q \in Pipes : Readers(q) = 0 /\ Writers(q) = 0
  BY <1>2 DEF Readers, Writers, EndOfts
<1> QED BY <1>3, <1>4 DEF LeftInv, AtMost

(* Whoever used pipes with dup2 in whatever way: once every process is gone, no pipe
   is in use and no open file table entry is referenced. *)
THEOREM DupLeavesNothing == SpecDup2 => []NothingLeft
<1>1. LeftInv /\ [NextDup2]_vars => LeftInv'
  BY LeftStep
<1> QED BY <1>1, LeftInit, LeftGone, PTL DEF SpecDup2
-----------------------------------------------------------------------------
(* The shell's pipelines.  LineInv is the shape of the line: where each process is in
   do_pipe() and its command, which pipe each of its descriptors leads to, and, as long as
   the line is laid, that no pipe of it has been freed or written to although dup2() leaves
   a writer out of the count.  FlowInv says which part of the text is where. *)
(* What the shell's array lpd holds are descriptors. *)
LpdTypes == pd \in [Proc -> Fds \X Fds]

LEMMA ShellInit == SInit => LeftInv /\ LpdTypes
<1> SUFFICES ASSUME SInit PROVE LeftInv /\ LpdTypes
  OBVIOUS
<1>1. LeftInv
  BY LeftInit DEF SInit
<1>2. 0 \in Fds
  BY PipeAssumption DEF Fds
<1> QED BY <1>1, <1>2 DEF SInit, LpdTypes

LEMMA ShellStepLeft == LeftInv /\ LpdTypes /\ [SNext]_svars => LeftInv' /\ LpdTypes'
<1> SUFFICES ASSUME LeftInv, LpdTypes, [SNext]_svars PROVE LeftInv' /\ LpdTypes'
  OBVIOUS
<1>a. 0 \in Fds /\ 1 \in Fds
  BY PipeAssumption, ShellAssumption DEF Fds
<1>b. ASSUME UNCHANGED <<fd, oftVars, endVars, pc>> PROVE LeftInv'
  <2>1. UNCHANGED <<fd, oftVars, endVars>> /\ pc' = pc
    BY <1>b
  <2> QED BY <2>1, LeftFrame DEF LeftInv, EndTypes
<1>1. CASE UNCHANGED svars
  <2>1. UNCHANGED <<fd, oftVars, endVars, pc>> /\ UNCHANGED pd
    BY <1>1 DEF svars, vars, shellVars
  <2> QED BY <1>b, <2>1 DEF LpdTypes
<1> SUFFICES ASSUME NEW p \in Proc, Step(p) PROVE LeftInv' /\ LpdTypes'
  BY <1>1 DEF SNext
<1>c. pd[p][1] \in Fds /\ pd[p][2] \in Fds
  BY DEF LpdTypes
<1>d. ASSUME UNCHANGED pd PROVE LpdTypes'
  BY <1>d DEF LpdTypes
<1>2. CASE CloseRead(p) \/ DropWrite(p)
  <2>1. (Close(p, pd[p][1]) \/ Close(p, pd[p][2])) /\ UNCHANGED pd
    BY <1>2 DEF CloseRead, DropWrite, CloseWrite
  <2> QED BY <1>c, <1>d, <2>1, LeftEnds
<1>3. CASE TakeStdout(p) \/ TakeStdin(p)
  <2>1. (Dup2(p, pd[p][2], 1) \/ Dup2(p, pd[p][1], 0)) /\ UNCHANGED pd
    BY <1>3 DEF TakeStdout, TakeStdin
  <2> QED BY <1>a, <1>c, <1>d, <2>1, LeftEnds
<1>4. CASE LastOne(p) \/ ShowOut(p) \/ Look(p)
  <2>1. UNCHANGED <<fd, oftVars, endVars, pc>> /\ UNCHANGED pd
    BY <1>4 DEF LastOne, ShowOut, Look, vars
  <2> QED BY <1>b, <1>d, <2>1
<1>5. CASE MakeLpd(p)
  <2>1. MakePipe(p) /\ pd' = [pd EXCEPT ![p] =
                               <<Min(FreeFds(p)), Min(FreeFds(p) \ {Min(FreeFds(p))})>>]
    BY <1>5 DEF MakeLpd
  <2>2. LeftInv'
    BY <2>1, LeftMake
  <2>3. Min(FreeFds(p)) \in Fds /\ Min(FreeFds(p) \ {Min(FreeFds(p))}) \in Fds
    <3>1. FreeFds(p) \subseteq Nat /\ FreeFds(p) \subseteq Fds /\ Cardinality(FreeFds(p)) >= 2
      BY <2>1, ConstantFacts DEF MakePipe, FreeFds
    <3> QED BY <3>1, TwoSmallest
  <2> QED BY <2>1, <2>2, <2>3 DEF LpdTypes
<1>6. CASE ForkReader(p)
  <2>1. PICK c \in Proc : Fork(p, c) /\ pd' = [pd EXCEPT ![c] = pd[p]]
    BY <1>6 DEF ForkReader
  <2>2. LeftInv'
    BY <2>1, LeftFork
  <2> QED BY <2>1, <2>2 DEF LpdTypes
<1>7. CASE PutOut(p) \/ GetIn(p) \/ Quit(p)
  <2>1. (Write(p, 1, copied[p]) \/ (\E n : Read(p, 0, n)) \/ Exit(p)) /\ UNCHANGED pd
    BY <1>7 DEF PutOut, GetIn, Quit
  <2> QED BY <1>d, <2>1, LeftCalls
<1>8. CASE Kernel(p)
  <2>1. (ReadLoop(p) \/ WriteLoop(p) \/ ExitDone(p) \/ ExitClose(p)) /\ UNCHANGED pd
    BY <1>8 DEF Kernel, Loop
  <2> QED BY <1>d, <2>1, LeftCalls, LeftEnds
<1> QED BY <1>2, <1>3, <1>4, <1>5, <1>6, <1>7, <1>8 DEF Step, ShellStep, CommandStep

(* A pipeline of any number of commands, with any text, tables and processes: when it
   is over no pipe is in use and no open file table entry is referenced, although
   dup2() has left readers and writers out of every count. *)
THEOREM PipelineLeavesNothing == SSpec => []NothingLeft
<1>1. SInit => LeftInv /\ LpdTypes
  BY ShellInit
<1>2. LeftInv /\ LpdTypes /\ [SNext]_svars => LeftInv' /\ LpdTypes'
  BY ShellStepLeft
<1>3. SInit /\ [][SNext]_svars => []NothingLeft
  BY <1>1, <1>2, LeftGone, PTL
<1> QED BY <1>3, PTL DEF SSpec
-----------------------------------------------------------------------------
(* The shape of a line, and the flow of the text through it *)

(* The pipes are made in turn, from the line's end on: these are the one that
   feeds a process and the one that it feeds. *)
Into(p) == Stages - stage[p]
OutOf(p) == Stages - 1 - stage[p]

Living(p) == pc[p] \in {"user", "read", "write"}

(* Steps of the process that the line's next command or pipe comes from, and
   those of one that waits for it. *)
Laying == {"writer", "stdout", "split", "fork"}
Joining == {"reader", "stdin"}

StepNames == Laying \cup Joining \cup {"none", "run", "got", "quit", "gone"}
ShellTypes ==
  /\ step \in [Proc -> StepNames] /\ stage \in [Proc -> 0..Stages]
  /\ copied = [p \in Proc |-> copied[p]]

(* Where a process can be in do_pipe() and its command. *)
StepOf(p) ==
  /\ stage[p] \in 0..Stages
  /\ step[p] = "none" <=> stage[p] = 0
  /\ \/ step[p] = "none" /\ pc[p] = "none"
     \/ step[p] \in Laying \cup Joining /\ pc[p] = "user"
     \/ step[p] \in {"run", "quit"} /\ pc[p] \in {"user", "write", "exit", "none"}
     \/ step[p] = "got" /\ pc[p] \in {"read", "user"}
     \/ step[p] = "gone" /\ pc[p] \in {"exit", "none"}
  /\ step[p] \in {"writer", "stdout"} => stage[p] < Stages
  /\ step[p] \in {"fork", "reader", "stdin", "got"} => stage[p] > 1
  /\ pc[p] = "read" => cur[p] = 0 /\ want[p] > 0 /\ ubuf[p] = <<>>
  /\ pc[p] = "write" => cur[p] = 1 /\ stage[p] < Stages
  /\ step[p] \in Laying \cup Joining \cup {"none", "got"} \/ pc[p] = "write" => copied[p] = <<>>

(* What its descriptors lead to. *)
Leads(p, i, q, end) == i \in Fds /\ fd[p][i] \in EndOfts(q, end)
InOf(p) ==
  /\ step[p] \in Laying \cup Joining => fd[p][0] = File
  /\ step[p] \in {"fork", "reader"} =>
       pd[p][2] \notin {0, 1} /\ Leads(p, pd[p][2], Into(p), "WRITE_PIPE")
  /\ step[p] \in {"fork", "reader", "stdin"} =>
       pd[p][1] \notin {0, 1} /\ Leads(p, pd[p][1], Into(p), "READ_PIPE")
  /\ step[p] \in {"run", "got", "quit"} /\ stage[p] > 1 => Leads(p, 0, Into(p), "READ_PIPE")
OutEndOf(p) ==
  /\ stage[p] = Stages => fd[p][1] = File
  /\ step[p] \in {"writer", "stdout"} =>
       /\ fd[p][1] = File \/ (stage[p] + 1 < Stages /\ Leads(p, 1, OutOf(p) - 1, "WRITE_PIPE"))
       /\ pd[p][2] \notin {0, 1} /\ Leads(p, pd[p][2], OutOf(p), "WRITE_PIPE")
  /\ step[p] = "writer" =>
       pd[p][1] \notin {0, 1} /\ Leads(p, pd[p][1], OutOf(p), "READ_PIPE")
  /\ stage[p] < Stages /\ step[p] \notin {"writer", "stdout"} =>
       /\ Leads(p, 1, OutOf(p), "WRITE_PIPE")
       /\ \E k \in Fds \ {0, 1} : Leads(p, k, OutOf(p), "WRITE_PIPE")
EndsOf(p) == Living(p) => InOf(p) /\ OutEndOf(p)

(* One process for each stage. *)
OnePerStage == \A p, r \in Proc : step[p] # "none" /\ stage[p] = stage[r] => p = r

(* While the line is being laid: f is the last of it, and so many pipes have been
   made.  The others wait for it, but for the last command, which may have gone. *)
Laid(f) == Stages - stage[f] + (IF step[f] = "fork" THEN 1 ELSE 0)
Waits(p) ==
  \/ step[p] \in Joining \cup {"run"} /\ pc[p] = "user" /\ copied[p] = <<>>
  \/ step[p] = "got" /\ pc[p] = "read"
  \/ step[p] = "gone" /\ stage[p] = Stages
LaidBy(f) ==
  /\ \A p \in Proc \ {f} : step[p] # "none" => stage[p] > stage[f] /\ Waits(p)
  /\ \A t \in stage[f]..Stages : \E p \in Proc : step[p] # "none" /\ stage[p] = t
(* None of its pipes has been freed or written to, and dup2 has left out one writer. *)
PipeLaid(f, q) ==
  /\ busy[q] <=> q < Laid(f)
  /\ q < Laid(f) =>
       /\ data[q] = 0
       /\ nwriter[q] >= Writers(q)
            - (IF q = Laid(f) - 1 /\ step[f] # "split" THEN 0 ELSE 1)
Building ==
  \A f \in Proc : step[f] \in Laying =>
    /\ LaidBy(f)
    /\ \A q \in Pipes : PipeLaid(f, q)
    /\ \A o \in Ofts : refCount[o] > 0 => pipePtr[o] < Laid(f)

LineInv ==
  /\ ShellTypes /\ EntriesInv
  /\ \A p \in Proc : StepOf(p) /\ EndsOf(p)
  /\ OnePerStage /\ Building

(* The rings, whoever uses them. *)
WholeRing(q) == RingOf(q) /\ room[q] + data[q] <= PSIZE
CopyTypes(p) == todo[p] \in Seq(Byte) /\ ubuf[p] \in Seq(Byte) /\ copied[p] \in Seq(Byte)
RingsInv ==
  /\ Functions
  /\ \A q \in Pipes : WholeRing(q)
  /\ \A p \in Proc : CopyTypes(p) /\ cur[p] \in Nat /\ want[p] \in Nat

(* Which part of the text has got where: stage s has written its first w[s] bytes,
   and the next one has read the first r[s] of them. *)
Part(a, b) == SubSeq(Text, a + 1, b)
Hand(p) == IF pc[p] = "write" THEN todo[p] ELSE IF step[p] = "got" THEN ubuf[p] ELSE copied[p]
Active(p) == step[p] \in Joining \cup {"run", "got", "quit"} /\ Living(p)
Flow(w, r) ==
  /\ r[0] = Len(Text) /\ out = Part(0, w[Stages])
  /\ \A s \in 1..Stages : w[s] <= r[s - 1] /\ (s < Stages => r[s] <= w[s])
  /\ \A s \in 1..(Stages - 1) : Stages - 1 - s \in Pipes => Chan[Stages - 1 - s] = Part(r[s], w[s])
  /\ \A p \in Proc : Active(p) => Hand(p) = Part(w[stage[p]], r[stage[p] - 1])
  /\ (\E p \in Proc : step[p] \in Laying) =>
       \A s \in 1..Stages : w[s] = 0 /\ (s < Stages => r[s] = 0)
FlowInv == \E w, r \in [0..Stages -> 0..Len(Text)] : Flow(w, r)
-----------------------------------------------------------------------------
AllInv == LeftInv /\ LpdTypes /\ RingsInv /\ LineInv

(* A step that leaves a process, and an entry in use, as they were. *)
Same(r) ==
  /\ fd'[r] = fd[r] /\ pc'[r] = pc[r] /\ step'[r] = step[r] /\ stage'[r] = stage[r]
  /\ pd'[r] = pd[r] /\ copied'[r] = copied[r]
  /\ cur'[r] = cur[r] /\ want'[r] = want[r] /\ ubuf'[r] = ubuf[r] /\ todo'[r] = todo[r]
EntriesSame ==
  \A o \in Ofts : refCount[o] > 0 => mode'[o] = mode[o] /\ pipePtr'[o] = pipePtr[o]
PipesSame ==
  /\ UNCHANGED <<busy, data, mode, pipePtr>>
  /\ \A q \in Pipes : nwriter'[q] - Writers(q)' = nwriter[q] - Writers(q)
  /\ \A o \in Ofts : refCount'[o] > 0 => refCount[o] > 0

LEMMA LeadsKept ==
  ASSUME EntryCounts, EntriesSame, NEW r \in Proc, NEW i, NEW q, NEW end,
         Leads(r, i, q, end), fd'[r][i] = fd[r][i]
  PROVE  Leads(r, i, q, end)'
<1>1. PICK o \in Ofts : o = fd[r][i] /\ mode[o] = end /\ pipePtr[o] = q /\ i \in Fds
  BY DEF Leads, EndOfts
<1>2. refCount[o] > 0
  BY <1>1, EntryHeld
<1>3. fd'[r][i] = o /\ mode'[o] = end /\ pipePtr'[o] = q
  BY <1>1, <1>2 DEF EntriesSame
<1> QED BY <1>1, <1>3 DEF Leads, EndOfts

LEMMA SameKept ==
  ASSUME EntryCounts, EntriesSame, NEW r \in Proc, Same(r), StepOf(r), EndsOf(r)
  PROVE  StepOf(r)' /\ EndsOf(r)'
<1>1. /\ fd'[r] = fd[r] /\ pc'[r] = pc[r] /\ step'[r] = step[r] /\ stage'[r] = stage[r]
      /\ pd'[r] = pd[r] /\ copied'[r] = copied[r]
      /\ cur'[r] = cur[r] /\ want'[r] = want[r] /\ ubuf'[r] = ubuf[r]
  BY DEF Same
<1>2. StepOf(r)'
  BY <1>1 DEF StepOf
<1>3. \A i, q, end : Leads(r, i, q, end) => Leads(r, i, q, end)'
  BY <1>1, LeadsKept
<1>4. PICK a, b : a = Into(r) /\ b = OutOf(r) /\ a = Into(r)' /\ b = OutOf(r)'
  BY <1>1 DEF Into, OutOf
<1>5. Living(r)' = Living(r)
  BY <1>1 DEF Living
<1>6. InOf(r) => InOf(r)'
  BY <1>1, <1>3, <1>4 DEF InOf
<1>7. OutEndOf(r) => OutEndOf(r)'
  BY <1>1, <1>3, <1>4 DEF OutEndOf
<1> QED BY <1>2, <1>5, <1>6, <1>7 DEF EndsOf

LEMMA LineFrom ==
  ASSUME LineInv, LeftInv, NEW p \in Proc, EntriesSame, EntriesInv', ShellTypes', UNCHANGED stage,
         step[p] # "none", \A r \in Proc \ {p} : Same(r), StepOf(p)', EndsOf(p)', Building'
  PROVE  LineInv'
<1>1. \A r \in Proc : StepOf(r)' /\ EndsOf(r)'
  BY SameKept DEF LineInv, LeftInv
<1>2. \A r \in Proc : step'[r] # "none" => step[r] # "none"
  BY DEF Same
<1>3. OnePerStage'
  BY <1>2 DEF LineInv, OnePerStage
<1> QED BY <1>1, <1>3 DEF LineInv

(* Only one process lays the line. *)
LEMMA OneLayer ==
  ASSUME Building, NEW f \in Proc, step[f] \in Laying, NEW r \in Proc, r # f, step[r] # "none"
  PROVE  Waits(r) /\ stage[r] > stage[f] /\ step[r] \notin Laying
BY DEF Building, LaidBy, Waits, Laying, Joining

(* A step of one that waits, or of the last command that is gone. *)
LEMMA BuildingKept ==
  ASSUME LineInv, LeftInv, LeftInv', NEW p \in Proc, UNCHANGED stage,
         \A r \in Proc \ {p} : Same(r),
         step[p] # "none", step'[p] # "none", step[p] \notin Laying, step'[p] \notin Laying,
         \A f \in Proc : step[f] \in Laying => Waits(p)' /\ PipesSame
  PROVE  Building'
<1> SUFFICES ASSUME NEW f \in Proc, step'[f] \in Laying
             PROVE  /\ LaidBy(f)'
                    /\ \A q \in Pipes : PipeLaid(f, q)'
                    /\ \A o \in Ofts : refCount'[o] > 0 => pipePtr'[o] < Laid(f)'
  BY DEF Building
<1>1. f # p /\ Same(f)
  OBVIOUS
<1>2. step[f] \in Laying /\ step'[f] = step[f] /\ stage'[f] = stage[f]
  BY <1>1 DEF Same
<1>3. /\ LaidBy(f)
      /\ \A q \in Pipes : PipeLaid(f, q)
      /\ \A o \in Ofts : refCount[o] > 0 => pipePtr[o] < Laid(f)
  BY <1>2 DEF LineInv, Building
<1>4. Laid(f)' = Laid(f) /\ PipesSame /\ Waits(p)'
  BY <1>2 DEF Laid
<1>5. ASSUME NEW r \in Proc
      PROVE  /\ stage'[r] = stage[r] /\ (step'[r] # "none" <=> step[r] # "none")
             /\ r # p => (Waits(r) => Waits(r)')
  <2>1. CASE r = p
    BY <2>1
  <2>2. CASE r # p
    <3>1. Same(r)
      BY <2>2
    <3> QED BY <3>1 DEF Same, Waits
  <2> QED BY <2>1, <2>2
<1>6. LaidBy(f)'
  <2>1. ASSUME NEW r \in Proc \ {f}, step'[r] # "none" PROVE stage'[r] > stage'[f] /\ Waits(r)'
    <3>1. step[r] # "none" /\ stage'[r] = stage[r]
      BY <1>5, <2>1
    <3>2. stage[r] > stage[f] /\ Waits(r)
      BY <1>3, <3>1 DEF LaidBy
    <3>3. Waits(r)'
      BY <1>4, <1>5, <3>2
    <3> QED BY <1>2, <3>1, <3>2, <3>3
  <2>2. \A r \in Proc : step[r] # "none" => step'[r] # "none"
    <3> TAKE r \in Proc
    <3> QED BY <1>5
  <2> QED BY <1>2, <1>3, <2>1, <2>2 DEF LaidBy
<1>7. ASSUME NEW q \in Pipes PROVE PipeLaid(f, q)'
  <2>1. PipeLaid(f, q)
    BY <1>3
  <2>2. /\ busy'[q] = busy[q] /\ data'[q] = data[q]
        /\ nwriter'[q] - Writers(q)' = nwriter[q] - Writers(q)
    BY <1>4 DEF PipesSame
  <2>3. nwriter'[q] \in Int /\ nwriter[q] \in Int
        /\ Writers(q) \in Nat /\ Writers(q)' \in Nat
    BY CountType DEF LeftInv, EndTypes, Writers
  <2> QED BY <1>2, <1>4, <2>1, <2>2, <2>3 DEF PipeLaid
<1>8. \A o \in Ofts : refCount'[o] > 0 => pipePtr'[o] < Laid(f)'
  BY <1>3, <1>4 DEF PipesSame
<1> QED BY <1>6, <1>7, <1>8

(* Two descriptors count twice. *)
LEMMA CountTwo ==
  ASSUME NEW g, NEW S, NEW x \in Pointing(g, S), NEW y \in Pointing(g, S), x # y
  PROVE  Count(g, S) >= 2
<1>1. IsFiniteSet(Pointing(g, S)) /\ {x, y} \subseteq Pointing(g, S)
  BY CountType
<1>2. Cardinality({x, y}) = 2
  <2>1. IsFiniteSet({x}) /\ Cardinality({x}) = 1
    BY FS_Singleton
  <2>2. Cardinality({x} \cup {y}) = 2
    BY <2>1, FS_AddElement
  <2>3. {x} \cup {y} = {x, y}
    OBVIOUS
  <2> QED BY <2>2, <2>3
<1>3. Cardinality({x, y}) <= Cardinality(Pointing(g, S))
  BY <1>1, FS_Subset
<1> QED BY <1>2, <1>3, CountType DEF Count

LEMMA LeadsCounted ==
  ASSUME NEW q, NEW end
  PROVE  \A r \in Proc : \A i : Leads(r, i, q, end) => <<r, i>> \in Pointing(fd, EndOfts(q, end))
BY DEF Leads, Pointing, Handle

(* While the line is laid every pipe of it has a writer that is counted, at the
   process before it in the line or at the one that lays it. *)
HolderOf(h, f, q) ==
  \/ h = f /\ ~ (q < OutOf(f))
  \/ step[h] # "none" /\ stage[h] = Stages - 1 - q
LEMMA WriterThere ==
  ASSUME LineInv, LeftInv, NEW f \in Proc, step[f] \in Laying, NEW q \in Pipes, q < Laid(f)
  PROVE  nwriter[q] > 0 /\ \E h \in Proc : HolderOf(h, f, q) /\ \E k : Leads(h, k, q, "WRITE_PIPE")
<1>0. Stages \in Nat /\ stage[f] \in 0..Stages /\ q \in Nat
  BY ShellAssumption, ConstantFacts DEF LineInv, StepOf
<1>1. /\ nwriter[q] \in Int /\ Writers(q) \in Nat
      /\ Writers(q) = Count(fd, EndOfts(q, "WRITE_PIPE"))
  BY CountType DEF LeftInv, EndTypes, Writers
<1>2. /\ nwriter[q] >= Writers(q) - (IF q = Laid(f) - 1 /\ step[f] # "split" THEN 0 ELSE 1)
      /\ LaidBy(f)
  BY DEF LineInv, Building, PipeLaid
<1>3. EndsOf(f) /\ StepOf(f) /\ Living(f)
  BY DEF LineInv, StepOf, Living, Laying, Joining
<1>4. CASE step[f] = "fork" /\ q = Into(f)
  <2>1. Leads(f, pd[f][2], q, "WRITE_PIPE") /\ q = Laid(f) - 1
    BY <1>0, <1>3, <1>4 DEF EndsOf, InOf, Laid, Into
  <2>a. HolderOf(f, f, q)
    BY <1>0, <1>4 DEF HolderOf, Into, OutOf
  <2>2. Writers(q) > 0
    <3>1. <<f, pd[f][2]>> \in Pointing(fd, EndOfts(q, "WRITE_PIPE"))
      BY <2>1, LeadsCounted
    <3> QED BY <1>1, <3>1, CountType
  <2>3. nwriter[q] > 0
    BY <1>1, <1>2, <1>4, <2>1, <2>2
  <2> QED BY <2>a, <2>1, <2>3
<1>5. CASE step[f] \in {"writer", "stdout"} /\ q = OutOf(f)
  <2>1. Leads(f, pd[f][2], q, "WRITE_PIPE") /\ q = Laid(f) - 1 /\ step[f] # "split"
    BY <1>0, <1>3, <1>5 DEF EndsOf, OutEndOf, Laid, OutOf
  <2>a. HolderOf(f, f, q)
    BY <1>0, <1>5 DEF HolderOf, OutOf
  <2>2. Writers(q) > 0
    <3>1. <<f, pd[f][2]>> \in Pointing(fd, EndOfts(q, "WRITE_PIPE"))
      BY <2>1, LeadsCounted
    <3> QED BY <1>1, <3>1, CountType
  <2>3. nwriter[q] > 0
    BY <1>1, <1>2, <2>1, <2>2
  <2> QED BY <2>a, <2>1, <2>3
<1>6. ASSUME NEW h \in Proc, HolderOf(h, f, q),
             NEW k, k \in Fds \ {0, 1},
             Leads(h, 1, q, "WRITE_PIPE"), Leads(h, k, q, "WRITE_PIPE")
      PROVE  /\ nwriter[q] > 0
             /\ \E r \in Proc : HolderOf(r, f, q) /\ \E j : Leads(r, j, q, "WRITE_PIPE")
  <2>1. Writers(q) >= 2
    <3>1. /\ <<h, 1>> \in Pointing(fd, EndOfts(q, "WRITE_PIPE"))
          /\ <<h, k>> \in Pointing(fd, EndOfts(q, "WRITE_PIPE"))
          /\ <<h, 1>> # <<h, k>>
      BY <1>6, LeadsCounted
    <3> QED BY <1>1, <3>1, CountTwo
  <2> QED BY <1>1, <1>2, <1>6, <2>1
<1>7. CASE step[f] \notin {"writer", "stdout"} /\ q = OutOf(f)
  <2>1. stage[f] < Stages
    BY <1>0, <1>7 DEF OutOf
  <2>2. /\ Leads(f, 1, OutOf(f), "WRITE_PIPE")
        /\ \E k \in Fds \ {0, 1} : Leads(f, k, OutOf(f), "WRITE_PIPE")
    BY <1>3, <1>7, <2>1 DEF EndsOf, OutEndOf
  <2>3. HolderOf(f, f, q)
    BY <1>0, <1>7 DEF HolderOf, OutOf
  <2> QED BY <1>6, <1>7, <2>2, <2>3
<1>8. CASE q < OutOf(f)
  <2>1. Stages - 1 - q \in stage[f]..Stages /\ Stages - 1 - q > stage[f] /\ Stages - 1 - q < Stages
    BY <1>0, <1>8 DEF OutOf
  <2>2. PICK h \in Proc : step[h] # "none" /\ stage[h] = Stages - 1 - q
    BY <1>2, <2>1 DEF LaidBy
  <2>3. h # f
    BY <1>0, <2>1, <2>2
  <2>4. Waits(h)
    BY <1>2, <2>2, <2>3 DEF LaidBy
  <2>5. stage[h] < Stages
    BY <2>1, <2>2
  <2>6. /\ Living(h) /\ step[h] \notin {"writer", "stdout"}
    BY <1>0, <2>4, <2>5 DEF Waits, Living, Joining
  <2>7. OutEndOf(h) /\ OutOf(h) = q
    BY <1>0, <2>2, <2>6 DEF LineInv, EndsOf, OutOf
  <2>8. /\ Leads(h, 1, q, "WRITE_PIPE")
        /\ \E k \in Fds \ {0, 1} : Leads(h, k, q, "WRITE_PIPE")
    BY <2>5, <2>6, <2>7 DEF OutEndOf
  <2>9. HolderOf(h, f, q)
    BY <2>2 DEF HolderOf
  <2> QED BY <1>6, <2>8, <2>9
<1>9. q = OutOf(f) \/ q < OutOf(f) \/ (step[f] = "fork" /\ q = Into(f))
  BY <1>0 DEF Laid, OutOf, Into
<1> QED BY <1>4, <1>5, <1>7, <1>8, <1>9

(* What a close does to the writers' count, and when it frees the pipe. *)
LEMMA CloseFacts ==
  ASSUME LeftInv, NEW p \in Proc, NEW i \in Fds, NEW v \in Ofts \cup {None, File},
         CloseAny(p, i, v), v \in Ofts => refCount[v] > 0, UNCHANGED <<mode, pipePtr>>
  PROVE  /\ fd' = [fd EXCEPT ![p][i] = v]
         /\ \A r \in Ofts : refCount'[r] > 0 => refCount[r] > 0
         /\ \A x \in Pipes : nwriter'[x] - Writers(x)'
              = nwriter[x] - Writers(x) - (IF v \in EndOfts(x, "WRITE_PIPE") THEN 1 ELSE 0)
         /\ \/ UNCHANGED busy
            \/ /\ fd[p][i] \in Ofts /\ refCount[fd[p][i]] = 1
               /\ mode[fd[p][i]] = "WRITE_PIPE" \/ nwriter[pipePtr[fd[p][i]]] <= 0
<1>a. PICK o : o = fd[p][i]
  OBVIOUS
<1>b. PICK q : q = pipePtr[o]
  OBVIOUS
<1>0. EndTypes /\ EntryCounts /\ EntryUse
  BY DEF LeftInv
<1>1. fd' = [fd EXCEPT ![p][i] = v]
  BY DEF CloseAny, ClosePipe
<1>2. \A x : Writers(x)' = Writers(x) - (IF o \in EndOfts(x, "WRITE_PIPE") THEN 1 ELSE 0)
                                      + (IF v \in EndOfts(x, "WRITE_PIPE") THEN 1 ELSE 0)
  <2> TAKE x
  <2>1. Writers(x)' = Writers(x) - (IF fd[p][i] \in EndOfts(x, "WRITE_PIPE") THEN 1 ELSE 0)
                                 + (IF v \in EndOfts(x, "WRITE_PIPE") THEN 1 ELSE 0)
    BY <1>0, <1>1, EndsSet
  <2>2. o \in EndOfts(x, "WRITE_PIPE") <=> fd[p][i] \in EndOfts(x, "WRITE_PIPE")
    BY <1>a
  <2> QED BY <2>1, <2>2, Zenon
<1>3. \A r \in Ofts : refCount[r] \in Nat
  BY <1>0 DEF EndTypes
<1>4. \A x : Writers(x) \in Nat /\ Writers(x)' \in Nat
  BY CountType DEF Writers
<1>5. nwriter \in [Pipes -> Int]
  BY <1>0 DEF EndTypes
<1>6. CASE o \notin Ofts
  <2>1. UNCHANGED <<busy, nwriter>>
    BY <1>a, <1>6 DEF CloseAny, endVars
  <2>2. \A r \in Ofts : refCount'[r] = refCount[r] + (IF r = v THEN 1 ELSE 0)
    BY <1>a, <1>6, Zenon DEF CloseAny
  <2>3. \A r \in Ofts : refCount'[r] > 0 => refCount[r] > 0
    BY <1>3, <2>2
  <2>4. \A x : o \notin EndOfts(x, "WRITE_PIPE")
    BY <1>6 DEF EndOfts
  <2>5. \A x \in Pipes : nwriter'[x] - Writers(x)'
              = nwriter[x] - Writers(x) - (IF v \in EndOfts(x, "WRITE_PIPE") THEN 1 ELSE 0)
    BY <1>2, <1>4, <1>5, <2>1, <2>4
  <2> QED BY <1>1, <2>1, <2>3, <2>5
<1>7. CASE o \in Ofts
  <2>1. refCount[o] > 0 /\ mode[o] \in {"READ_PIPE", "WRITE_PIPE"} /\ q \in Pipes
    <3>1. refCount[o] > 0
      BY <1>a, <1>0, <1>7, EntryHeld
    <3> QED BY <1>b, <1>0, <1>7, <3>1 DEF EntryUse
  <2>2. ClosePipe(p, i, v)
    BY <1>a, <1>7 DEF CloseAny
  <2>3. nwriter' = IF mode[o] = "READ_PIPE" THEN nwriter ELSE [nwriter EXCEPT ![q] = @ - 1]
    BY <1>a, <1>b, <2>2 DEF ClosePipe, DownOne
  <2>4. \/ UNCHANGED busy
        \/ refCount[o] = 1 /\ (mode[o] = "READ_PIPE" => nwriter[q] <= 0)
    BY <1>a, <1>b, <2>2 DEF ClosePipe
  <2>5. \A r \in Ofts : refCount'[r] = refCount[r] - (IF r = o THEN 1 ELSE 0)
                                                   + (IF r = v THEN 1 ELSE 0)
    BY <1>a, <2>2, Zenon DEF ClosePipe
  <2>6. \A r \in Ofts : refCount'[r] > 0 => refCount[r] > 0
    BY <1>3, <2>5
  <2>7. \A x : o \in EndOfts(x, "WRITE_PIPE") <=> mode[o] # "READ_PIPE" /\ x = q
    BY <1>b, <1>7, <2>1 DEF EndOfts
  <2>8. \A x \in Pipes : nwriter'[x] - Writers(x)'
              = nwriter[x] - Writers(x) - (IF v \in EndOfts(x, "WRITE_PIPE") THEN 1 ELSE 0)
    <3> TAKE x \in Pipes
    <3>1. nwriter'[x] = nwriter[x] - (IF o \in EndOfts(x, "WRITE_PIPE") THEN 1 ELSE 0)
      BY <1>5, <2>1, <2>3, <2>7
    <3>2. nwriter[x] \in Int
      BY <1>5
    <3> QED BY <1>2, <1>4, <3>1, <3>2
  <2> QED BY <1>a, <1>b, <1>1, <1>7, <2>1, <2>4, <2>6, <2>8
<1> QED BY <1>6, <1>7

(* A close that another process's writer survives frees no pipe. *)
LEMMA CloseLaid ==
  ASSUME LineInv, LeftInv, NEW f \in Proc, step[f] \in Laying, UNCHANGED <<mode, pipePtr>>,
         NEW p \in Proc, NEW i \in Fds, NEW v \in Ofts \cup {None, File},
         CloseAny(p, i, v), v \in Ofts => refCount[v] > 0,
         \A q \in Pipes : Leads(p, i, q, "WRITE_PIPE") =>
           (p # f /\ stage[p] # Stages - 1 - q) \/ (p = f /\ q < OutOf(f))
  PROVE  UNCHANGED busy
<1>1. SUFFICES ASSUME fd[p][i] \in Ofts, refCount[fd[p][i]] = 1,
                      mode[fd[p][i]] = "WRITE_PIPE" \/ nwriter[pipePtr[fd[p][i]]] <= 0
               PROVE  FALSE
  BY CloseFacts
<1>2. PICK o \in Ofts : o = fd[p][i]
  BY <1>1
<1>3. PICK q : q = pipePtr[o]
  OBVIOUS
<1>4. /\ q \in Pipes /\ refCount[o] = 1
      /\ mode[o] = "WRITE_PIPE" \/ nwriter[q] <= 0
      /\ refCount[o] = Count(fd, {o})
  BY <1>1, <1>2, <1>3 DEF LeftInv, EntryUse, EntryCounts
<1>5. q < Laid(f)
  BY <1>2, <1>3, <1>4 DEF LineInv, Building
<1>6. PICK h \in Proc : HolderOf(h, f, q) /\ \E k : Leads(h, k, q, "WRITE_PIPE")
  BY <1>4, <1>5, WriterThere
<1>7. PICK k : Leads(h, k, q, "WRITE_PIPE")
  BY <1>6
<1>8. nwriter[q] > 0 /\ nwriter[q] \in Int
  BY <1>4, <1>5, WriterThere DEF LeftInv, EndTypes
<1>9. mode[o] = "WRITE_PIPE"
  BY <1>4, <1>8
<1>10. Leads(p, i, q, "WRITE_PIPE")
  BY <1>2, <1>3, <1>9 DEF Leads, EndOfts
<1>11. PICK g \in Ofts : g = fd[h][k] /\ mode[g] = "WRITE_PIPE" /\ pipePtr[g] = q /\ k \in Fds
  BY <1>7 DEF Leads, EndOfts
<1>12. refCount[g] > 0
  BY <1>11, EntryHeld DEF LeftInv
<1>13. g = o
  BY <1>3, <1>4, <1>9, <1>11, <1>12 DEF LineInv, EntriesInv
<1>14. CASE h # p
  <2>1. <<p, i>> \in Pointing(fd, {o}) /\ <<h, k>> \in Pointing(fd, {o}) /\ <<p, i>> # <<h, k>>
    BY <1>2, <1>11, <1>13, <1>14 DEF Pointing, Handle
  <2>2. Count(fd, {o}) >= 2
    BY <2>1, CountTwo
  <2> QED BY <1>4, <2>2
<1>15. CASE h = p
  <2>1. q \in Nat /\ Stages \in Nat /\ stage[f] \in 0..Stages
    BY <1>4, ShellAssumption, ConstantFacts DEF LineInv, StepOf
  <2>2. (p # f /\ stage[p] # Stages - 1 - q) \/ (p = f /\ q < OutOf(f))
    BY <1>4, <1>10
  <2> QED BY <1>6, <1>15, <2>1, <2>2 DEF HolderOf, OutOf
<1> QED BY <1>14, <1>15
-----------------------------------------------------------------------------
(* The steps that leave the descriptors alone. *)
LEMMA FrameSame ==
  ASSUME LineInv, LeftInv, UNCHANGED <<fd, oftVars, endVars>>
  PROVE  /\ EntriesSame /\ EntriesInv' /\ (UNCHANGED data => PipesSame)
         /\ \A r, i, q, end : Leads(r, i, q, end)' <=> Leads(r, i, q, end)
<1>1. UNCHANGED <<fd, mode, refCount, pipePtr, busy, nwriter>>
  BY DEF oftVars, endVars
<1>2. \A q : Writers(q)' = Writers(q)
  BY <1>1 DEF Writers, Count, Pointing, EndOfts
<1>3. EntriesSame
  BY <1>1 DEF EntriesSame
<1>4. EntriesInv'
  BY <1>1 DEF LineInv, EntriesInv
<1>5. UNCHANGED data => PipesSame
  BY <1>1, <1>2 DEF PipesSame
<1>6. \A r, i, q, end : Leads(r, i, q, end)' <=> Leads(r, i, q, end)
  BY <1>1 DEF Leads, EndOfts
<1> QED BY <1>3, <1>4, <1>5, <1>6

LEMMA PlainEnds ==
  ASSUME LineInv, LeftInv, NEW p \in Proc, UNCHANGED <<fd, oftVars, endVars, stage, pd>>,
         Living(p)' => Living(p), step[p] \notin {"writer", "stdout"},
         step'[p] \in {"run", "got", "quit", "gone"},
         step[p] \in {"run", "got", "quit"} \/ stage[p] <= 1 \/ ~ Living(p)'
  PROVE  EndsOf(p)'
<1>1. SUFFICES ASSUME Living(p)' PROVE InOf(p)' /\ OutEndOf(p)'
  BY DEF EndsOf
<1>2. InOf(p) /\ OutEndOf(p)
  BY <1>1 DEF LineInv, EndsOf
<1>3. \A r, i, q, end : Leads(r, i, q, end)' <=> Leads(r, i, q, end)
  BY FrameSame
<1>4. PICK a, b : a = Into(p) /\ b = OutOf(p) /\ a = Into(p)' /\ b = OutOf(p)'
  BY DEF Into, OutOf
<1>5. stage[p] \in Nat
  BY ShellAssumption DEF LineInv, ShellTypes
<1>6. InOf(p)'
  BY <1>1, <1>2, <1>3, <1>4, <1>5 DEF InOf, Laying, Joining
<1>7. OutEndOf(p)'
  BY <1>2, <1>3, <1>4 DEF OutEndOf
<1> QED BY <1>6, <1>7

LEMMA PlainLine ==
  ASSUME LineInv, LeftInv, LeftInv', NEW p \in Proc, UNCHANGED <<fd, oftVars, endVars, stage, pd>>,
         \A r \in Proc \ {p} : Same(r), ShellTypes', StepOf(p)',
         Living(p)' => Living(p), step[p] \notin {"writer", "stdout", "none"},
         step'[p] \in {"run", "got", "quit", "gone"},
         step[p] \in {"run", "got", "quit"} \/ stage[p] <= 1 \/ ~ Living(p)',
         \/ step[p] \in Laying
         \/ \A f \in Proc : step[f] \in Laying => Waits(p)' /\ UNCHANGED data
  PROVE  LineInv'
<1>1. EntriesSame /\ EntriesInv' /\ (UNCHANGED data => PipesSame)
  BY FrameSame
<1>2. EndsOf(p)'
  BY PlainEnds
<1>3. step'[p] \notin Laying /\ step'[p] # "none"
  BY DEF Laying
<1>4. Building'
  <2>1. CASE step[p] \in Laying
    <3>1. \A f \in Proc : step'[f] \notin Laying
      <4> TAKE f \in Proc
      <4>1. CASE f # p
        <5>1. step'[f] = step[f]
          BY <4>1 DEF Same
        <5>2. step[f] # "none" => step[f] \notin Laying
          BY <2>1, <4>1, OneLayer DEF LineInv
        <5> QED BY <5>1, <5>2 DEF Laying
      <4> QED BY <1>3, <4>1
    <3> QED BY <3>1 DEF Building
  <2>2. CASE step[p] \notin Laying
    BY <1>1, <1>3, <2>2, BuildingKept
  <2> QED BY <2>1, <2>2
<1> QED BY <1>1, <1>2, <1>4, LineFrom

(* The variables are functions on the processes. *)
LEMMA OnProcesses ==
  ASSUME RingsInv, LineInv, LeftInv, LpdTypes
  PROVE  /\ step = [p \in Proc |-> step[p]] /\ stage = [p \in Proc |-> stage[p]]
         /\ copied = [p \in Proc |-> copied[p]] /\ pd = [p \in Proc |-> pd[p]]
         /\ fd = [p \in Proc |-> fd[p]] /\ pc = [p \in Proc |-> pc[p]]
         /\ cur = [p \in Proc |-> cur[p]] /\ want = [p \in Proc |-> want[p]]
         /\ todo = [p \in Proc |-> todo[p]] /\ ubuf = [p \in Proc |-> ubuf[p]]
BY DEF RingsInv, Functions, LineInv, ShellTypes, LeftInv, EndTypes, FdTables, LpdTypes

LEMMA StepTypes ==
  ASSUME ShellTypes, NEW p \in Proc, NEW new \in StepNames, step' = [step EXCEPT ![p] = new],
         UNCHANGED stage, NEW w, copied' = copied \/ copied' = [copied EXCEPT ![p] = w]
  PROVE  ShellTypes' /\ step'[p] = new
BY DEF ShellTypes

LEMMA LastOneLine ==
  ASSUME AllInv, LeftInv', NEW p \in Proc, LastOne(p) PROVE LineInv'
<1>0. RingsInv /\ LineInv /\ LeftInv /\ LpdTypes /\ ShellTypes /\ StepOf(p)
  BY DEF AllInv, LineInv
<1>1. /\ step[p] = "split" /\ step' = [step EXCEPT ![p] = "run"] /\ stage[p] = 1
      /\ copied' = [copied EXCEPT ![p] = Text] /\ UNCHANGED <<vars, stage, pd>>
  BY DEF LastOne, Goes
<1>2. /\ UNCHANGED <<fd, oftVars, endVars, stage, pd, pc>>
      /\ UNCHANGED <<cur, want, todo, ubuf>>
  BY <1>1 DEF vars, callVars
<1>3. \A r \in Proc \ {p} : Same(r)
  BY <1>0, <1>1, <1>2, OnProcesses DEF Same
<1>4. ShellTypes' /\ step'[p] = "run"
  BY <1>0, <1>1, StepTypes DEF StepNames
<1>5. pc[p] = "user"
  BY <1>0, <1>1 DEF StepOf, Laying, Joining
<1>6. StepOf(p)'
  BY <1>0, <1>1, <1>2, <1>4, <1>5 DEF StepOf, Laying, Joining
<1>7. Living(p)' => Living(p)
  BY <1>2 DEF Living
<1> QED BY <1>0, <1>1, <1>2, <1>3, <1>4, <1>6, <1>7, PlainLine DEF Laying

LEMMA NoneLaying ==
  ASSUME LineInv, NEW p \in Proc, step[p] # "none", step[p] \notin Laying, ~ Waits(p)
  PROVE  \A f \in Proc : step[f] \notin Laying
<1> TAKE f \in Proc
<1>1. CASE f = p
  BY <1>1
<1>2. CASE f # p
  BY <1>2, OneLayer DEF LineInv
<1> QED BY <1>1, <1>2

LEMMA ShowOutLine ==
  ASSUME AllInv, LeftInv', NEW p \in Proc, ShowOut(p) PROVE LineInv'
<1>0. RingsInv /\ LineInv /\ LeftInv /\ LpdTypes /\ ShellTypes /\ StepOf(p)
  BY DEF AllInv, LineInv
<1>1. PICK new \in {"run", "quit"} :
      /\ step[p] = "run" /\ step' = [step EXCEPT ![p] = new] /\ copied[p] # <<>>
      /\ copied' = [copied EXCEPT ![p] = <<>>] /\ UNCHANGED <<vars, stage, pd>> /\ pc[p] = "user"
  BY DEF ShowOut, Goes, At
<1>2. /\ UNCHANGED <<fd, oftVars, endVars, stage, pd, pc>>
      /\ UNCHANGED <<cur, want, todo, ubuf>>
  BY <1>1 DEF vars, callVars
<1>3. \A r \in Proc \ {p} : Same(r)
  BY <1>0, <1>1, <1>2, OnProcesses DEF Same
<1>4. ShellTypes' /\ step'[p] = new
  BY <1>0, <1>1, StepTypes DEF StepNames
<1>5. StepOf(p)'
  BY <1>0, <1>1, <1>2, <1>4 DEF StepOf, Laying, Joining
<1>6. Living(p)' => Living(p)
  BY <1>2 DEF Living
<1>7. \A f \in Proc : step[f] \notin Laying
  BY <1>0, <1>1, NoneLaying DEF Waits, Laying, Joining
<1> QED BY <1>0, <1>1, <1>2, <1>3, <1>4, <1>5, <1>6, <1>7, PlainLine

LEMMA PutOutLine ==
  ASSUME AllInv, LeftInv', NEW p \in Proc, PutOut(p) PROVE LineInv'
<1>0. RingsInv /\ LineInv /\ LeftInv /\ LpdTypes /\ ShellTypes /\ StepOf(p)
  BY DEF AllInv, LineInv
<1>1. PICK new \in {"run", "quit"} :
      /\ step[p] = "run" /\ step' = [step EXCEPT ![p] = new] /\ copied[p] # <<>>
      /\ copied' = [copied EXCEPT ![p] = <<>>] /\ UNCHANGED <<stage, pd>>
      /\ stage[p] # Stages /\ Write(p, 1, copied[p])
  BY DEF PutOut, Goes, IsLast
<1>2. /\ UNCHANGED <<fd, oftVars, endVars, stage, pd>> /\ pc[p] = "user"
      /\ pc' = [pc EXCEPT ![p] = "write"] /\ cur' = [cur EXCEPT ![p] = 1]
      /\ ubuf' = [ubuf EXCEPT ![p] = <<>>] /\ todo' = [todo EXCEPT ![p] = copied[p]]
      /\ want' = want
  BY <1>1 DEF Write, Calling, At
<1>3. \A r \in Proc \ {p} : Same(r)
  BY <1>0, <1>1, <1>2, OnProcesses DEF Same
<1>4. ShellTypes' /\ step'[p] = new
  BY <1>0, <1>1, StepTypes DEF StepNames
<1>5. StepOf(p)'
  <2>1. pc'[p] = "write" /\ cur'[p] = 1 /\ copied'[p] = <<>> /\ stage'[p] = stage[p]
    BY <1>0, <1>1, <1>2, OnProcesses
  <2>2. stage[p] < Stages
    BY <1>0, <1>1, ShellAssumption DEF ShellTypes
  <2> QED BY <1>0, <1>1, <1>4, <2>1, <2>2 DEF StepOf, Laying, Joining
<1>6. Living(p)' => Living(p)
  BY <1>2 DEF Living
<1>7. \A f \in Proc : step[f] \notin Laying
  BY <1>0, <1>1, NoneLaying DEF Waits, Laying, Joining
<1> QED BY <1>0, <1>1, <1>2, <1>3, <1>4, <1>5, <1>6, <1>7, PlainLine

LEMMA GetInLine ==
  ASSUME AllInv, LeftInv', NEW p \in Proc, GetIn(p) PROVE LineInv'
<1>0. RingsInv /\ LineInv /\ LeftInv /\ LpdTypes /\ ShellTypes /\ StepOf(p)
  BY DEF AllInv, LineInv
<1>1. PICK n \in 1..MaxBytes :
      /\ step[p] = "run" /\ step' = [step EXCEPT ![p] = "got"] /\ copied[p] = <<>>
      /\ UNCHANGED <<stage, pd, copied>> /\ stage[p] # 1 /\ Read(p, 0, n)
  BY DEF GetIn, Goes, IsFirst
<1>2. /\ UNCHANGED <<fd, oftVars, endVars, stage, pd, data>> /\ pc[p] = "user"
      /\ pc' = [pc EXCEPT ![p] = "read"] /\ cur' = [cur EXCEPT ![p] = 0]
      /\ ubuf' = [ubuf EXCEPT ![p] = <<>>] /\ want' = [want EXCEPT ![p] = n]
      /\ todo' = todo
  BY <1>1 DEF Read, Calling, At, ringVars
<1>3. \A r \in Proc \ {p} : Same(r)
  BY <1>0, <1>1, <1>2, OnProcesses DEF Same
<1>4. ShellTypes' /\ step'[p] = "got"
  BY <1>0, <1>1, StepTypes DEF StepNames
<1>5. pc'[p] = "read" /\ cur'[p] = 0 /\ ubuf'[p] = <<>> /\ want'[p] = n /\ n > 0
  BY <1>0, <1>2, OnProcesses
<1>6. StepOf(p)'
  <2>1. stage[p] > 1
    BY <1>0, <1>1, ShellAssumption DEF ShellTypes, StepOf
  <2> QED BY <1>0, <1>1, <1>4, <1>5, <2>1 DEF StepOf, Laying, Joining
<1>7. Living(p)' => Living(p)
  BY <1>2 DEF Living
<1>8. Waits(p)'
  BY <1>4, <1>5 DEF Waits
<1> QED BY <1>0, <1>1, <1>2, <1>3, <1>4, <1>6, <1>7, <1>8, PlainLine

LEMMA LookLine ==
  ASSUME AllInv, LeftInv', NEW p \in Proc, Look(p) PROVE LineInv'
<1>0. RingsInv /\ LineInv /\ LeftInv /\ LpdTypes /\ ShellTypes /\ StepOf(p)
  BY DEF AllInv, LineInv
<1>1. PICK new \in {"run", "quit"} :
      /\ step[p] = "got" /\ step' = [step EXCEPT ![p] = new] /\ pc[p] = "user"
      /\ copied' = [copied EXCEPT ![p] = ubuf[p]] /\ ubuf' = [ubuf EXCEPT ![p] = <<>>]
      /\ UNCHANGED <<fd, oftVars, endVars, pc, cur, want, todo, stage, pd>>
  BY DEF Look, Goes, At
<1>3. \A r \in Proc \ {p} : Same(r)
  BY <1>0, <1>1, OnProcesses DEF Same
<1>4. ShellTypes' /\ step'[p] = new
  BY <1>0, <1>1, StepTypes DEF StepNames
<1>5. StepOf(p)'
  BY <1>0, <1>1, <1>4 DEF StepOf, Laying, Joining
<1>6. Living(p)' => Living(p)
  BY <1>1 DEF Living
<1>7. \A f \in Proc : step[f] \notin Laying
  BY <1>0, <1>1, NoneLaying DEF Waits, Laying, Joining
<1> QED BY <1>0, <1>1, <1>3, <1>4, <1>5, <1>6, <1>7, PlainLine

LEMMA QuitLine ==
  ASSUME AllInv, LeftInv', NEW p \in Proc, Quit(p) PROVE LineInv'
<1>0. RingsInv /\ LineInv /\ LeftInv /\ LpdTypes /\ ShellTypes /\ StepOf(p)
  BY DEF AllInv, LineInv
<1>1. /\ step[p] = "quit" \/ (step[p] = "run" /\ stage[p] = Stages)
      /\ step' = [step EXCEPT ![p] = "gone"] /\ UNCHANGED <<stage, pd, copied>> /\ Exit(p)
  BY DEF Quit, Goes, IsLast
<1>2. /\ UNCHANGED <<fd, oftVars, endVars, stage, pd, data, cur, want, todo, ubuf>>
      /\ pc[p] = "user" /\ pc' = [pc EXCEPT ![p] = "exit"]
  BY <1>1 DEF Exit, Calling, At, ringVars, callVars
<1>3. \A r \in Proc \ {p} : Same(r)
  BY <1>0, <1>1, <1>2, OnProcesses DEF Same
<1>4. ShellTypes' /\ step'[p] = "gone"
  BY <1>0, <1>1, StepTypes DEF StepNames
<1>5. pc'[p] = "exit"
  BY <1>0, <1>2, OnProcesses
<1>6. StepOf(p)'
  BY <1>0, <1>1, <1>2, <1>4, <1>5 DEF StepOf, Laying, Joining
<1>7. ~ Living(p)'
  BY <1>5 DEF Living
<1>8. \A f \in Proc : step[f] \in Laying => Waits(p)' /\ UNCHANGED data
  <2>1. CASE step[p] = "quit"
    BY <1>0, <2>1, NoneLaying DEF Waits, Laying, Joining
  <2>2. CASE stage[p] = Stages
    <3>1. Waits(p)'
      BY <1>1, <1>4, <2>2 DEF Waits
    <3> QED BY <1>2, <3>1
  <2> QED BY <1>1, <2>1, <2>2
<1> QED BY <1>0, <1>1, <1>2, <1>3, <1>4, <1>6, <1>7, <1>8, PlainLine

LEMMA ExitDoneLine ==
  ASSUME AllInv, LeftInv', NEW p \in Proc, ExitDone(p), UNCHANGED <<stage, step, pd, copied>>
  PROVE  LineInv'
<1>0. RingsInv /\ LineInv /\ LeftInv /\ LpdTypes /\ ShellTypes /\ StepOf(p)
  BY DEF AllInv, LineInv
<1>1. /\ UNCHANGED <<fd, oftVars, endVars, data>>
      /\ pc[p] = "exit" /\ pc' = [pc EXCEPT ![p] = "none"]
      /\ cur' = [cur EXCEPT ![p] = 0] /\ want' = [want EXCEPT ![p] = 0]
      /\ todo' = [todo EXCEPT ![p] = <<>>] /\ ubuf' = [ubuf EXCEPT ![p] = <<>>]
  BY DEF ExitDone, At, ringVars
<1>2. \A r \in Proc \ {p} : Same(r)
  BY <1>0, <1>1, OnProcesses DEF Same
<1>3. ShellTypes'
  BY <1>0 DEF ShellTypes
<1>4. pc'[p] = "none" /\ step[p] \in {"run", "quit", "gone"}
  BY <1>0, <1>1, OnProcesses DEF StepOf
<1>5. StepOf(p)'
  BY <1>0, <1>1, <1>4 DEF StepOf, Laying, Joining
<1>6. ~ Living(p)'
  BY <1>4 DEF Living
<1>7. \A f \in Proc : step[f] \in Laying => Waits(p)' /\ UNCHANGED data
  <2>1. CASE step[p] = "gone" /\ stage[p] = Stages
    <3>1. Waits(p)'
      BY <2>1 DEF Waits
    <3> QED BY <1>1, <3>1
  <2>2. CASE ~ (step[p] = "gone" /\ stage[p] = Stages)
    <3>1. ~ Waits(p) /\ step[p] # "none" /\ step[p] \notin Laying
      BY <1>1, <1>4, <2>2 DEF Waits, Laying, Joining
    <3> QED BY <1>0, <3>1, NoneLaying
  <2> QED BY <2>1, <2>2
<1> QED BY <1>0, <1>1, <1>2, <1>3, <1>4, <1>5, <1>6, <1>7, PlainLine
-----------------------------------------------------------------------------
(* The loops of read and write. *)
LEMMA LeadsTo ==
  ASSUME LeftInv, NEW r \in Proc, NEW i, NEW q, NEW end, Leads(r, i, q, end)
  PROVE  q \in Pipes /\ pipePtr[fd[r][i]] = q
BY EntryHeld DEF Leads, EndOfts, LeftInv, EntryUse

(* Who reads or writes does so at the pipe that feeds it, or that it feeds. *)
LEMMA LoopPipe ==
  ASSUME LineInv, LeftInv, NEW p \in Proc
  PROVE  /\ pc[p] = "read" =>
              /\ step[p] = "got" /\ stage[p] > 1
              /\ Into(p) \in Pipes /\ Into(p) = pipePtr[fd[p][cur[p]]]
              /\ Leads(p, 0, Into(p), "READ_PIPE")
         /\ pc[p] = "write" =>
              /\ step[p] \in {"run", "quit"} /\ stage[p] < Stages /\ copied[p] = <<>>
              /\ OutOf(p) \in Pipes /\ OutOf(p) = pipePtr[fd[p][cur[p]]]
<1>1. StepOf(p) /\ EndsOf(p)
  BY DEF LineInv
<1>2. CASE pc[p] = "read"
  <2>1. step[p] = "got" /\ cur[p] = 0 /\ stage[p] > 1
    BY <1>1, <1>2 DEF StepOf
  <2>2. Leads(p, 0, Into(p), "READ_PIPE")
    BY <1>1, <1>2, <2>1 DEF EndsOf, InOf, Living
  <2> QED BY <1>2, <2>1, <2>2, LeadsTo
<1>3. CASE pc[p] = "write"
  <2>1. step[p] \in {"run", "quit"} /\ cur[p] = 1 /\ stage[p] < Stages /\ copied[p] = <<>>
    BY <1>1, <1>3 DEF StepOf
  <2>2. Leads(p, 1, OutOf(p), "WRITE_PIPE")
    BY <1>1, <1>3, <2>1 DEF EndsOf, OutEndOf, Living
  <2> QED BY <1>3, <2>1, <2>2, LeadsTo
<1> QED BY <1>2, <1>3

LEMMA ReadFacts ==
  ASSUME RingsInv, LineInv, LeftInv, NEW p \in Proc, ReadLoop(p)
  PROVE  /\ pc[p] = "read" /\ Into(p) \in Pipes
         /\ UNCHANGED <<fd, oftVars, endVars, buf, head, todo>>
         /\ \/ \E k \in Nat : Taken(p, Into(p), k)
            \/ /\ data[Into(p)] = 0 /\ nwriter[Into(p)] > 0
               /\ UNCHANGED <<tail, data, room, ubuf, pc, cur, want>>
            \/ /\ data[Into(p)] = 0 /\ nwriter[Into(p)] <= 0 /\ Returns(p)
               /\ UNCHANGED <<tail, data, room, ubuf>>
<1>1. pc[p] = "read"
  BY Zenon DEF ReadLoop, At
<1>2. PICK q \in Pipes : q = Into(p) /\ q = pipePtr[fd[p][cur[p]]]
  BY <1>1, LoopPipe
<1>3. data[q] \in Nat
  BY ConstantFacts DEF RingsInv, WholeRing, RingOf
<1>4. want[p] \in Nat /\ want[p] > 0
  BY <1>1 DEF RingsInv, LineInv, StepOf
<1>5. /\ UNCHANGED <<fd, oftVars, endVars, buf, head, todo>>
      /\ \/ \E k \in Nat : Taken(p, q, k)
         \/ /\ data[q] = 0 /\ nwriter[q] > 0
            /\ UNCHANGED <<tail, data, room, ubuf, pc, cur, want>>
         \/ /\ data[q] = 0 /\ nwriter[q] <= 0 /\ Returns(p)
            /\ UNCHANGED <<tail, data, room, ubuf>>
  BY <1>2, <1>3, <1>4, ReadAt
<1> QED BY <1>1, <1>2, <1>5

LEMMA WriteFacts ==
  ASSUME RingsInv, LineInv, LeftInv, NEW p \in Proc, WriteLoop(p)
  PROVE  /\ pc[p] = "write" /\ OutOf(p) \in Pipes
         /\ UNCHANGED <<fd, oftVars, endVars, tail, ubuf>>
         /\ \/ \E k \in Nat : /\ Added(p, OutOf(p), k)
                               /\ IF k = Len(todo[p]) THEN Returns(p) ELSE UNCHANGED <<pc, cur, want>>
            \/ UNCHANGED <<buf, head, data, room, todo, cur, want>> /\ pc' = [pc EXCEPT ![p] = "exit"]
<1>1. pc[p] = "write"
  BY Zenon DEF WriteLoop, At
<1>2. PICK q \in Pipes : q = OutOf(p) /\ q = pipePtr[fd[p][cur[p]]]
  BY <1>1, LoopPipe
<1>3. room[q] \in Nat
  BY ConstantFacts DEF RingsInv, WholeRing, RingOf
<1>4. todo[p] \in Seq(Byte)
  BY DEF RingsInv, CopyTypes
<1>5. /\ UNCHANGED <<fd, oftVars, endVars, tail, ubuf>>
      /\ \/ \E k \in Nat : /\ Added(p, q, k)
                            /\ IF k = Len(todo[p]) THEN Returns(p) ELSE UNCHANGED <<pc, cur, want>>
         \/ UNCHANGED <<buf, head, data, room, todo, cur, want>> /\ pc' = [pc EXCEPT ![p] = "exit"]
  BY <1>1, <1>2, <1>3, <1>4, WriteAt
<1> QED BY <1>1, <1>2, <1>5

LEMMA ReadLine ==
  ASSUME AllInv, LeftInv', NEW p \in Proc, ReadLoop(p), UNCHANGED <<stage, step, pd, copied>>
  PROVE  LineInv'
<1>0. RingsInv /\ LineInv /\ LeftInv /\ LpdTypes /\ ShellTypes /\ StepOf(p)
  BY DEF AllInv, LineInv
<1>1. /\ pc[p] = "read" /\ Into(p) \in Pipes
      /\ UNCHANGED <<fd, oftVars, endVars, todo>>
      /\ \/ \E k \in Nat : Taken(p, Into(p), k)
         \/ /\ data[Into(p)] = 0 /\ nwriter[Into(p)] > 0
            /\ UNCHANGED <<tail, data, room, ubuf, pc, cur, want>>
         \/ /\ data[Into(p)] = 0 /\ nwriter[Into(p)] <= 0 /\ Returns(p)
            /\ UNCHANGED <<tail, data, room, ubuf>>
  BY <1>0, ReadFacts
<1>2. step[p] = "got" /\ stage[p] > 1 /\ Leads(p, 0, Into(p), "READ_PIPE")
  BY <1>0, <1>1, LoopPipe
<1>3. /\ Returns(p) \/ UNCHANGED <<pc, cur, want>>
      /\ ubuf' = ubuf \/ \E w : ubuf' = [ubuf EXCEPT ![p] = w]
  BY <1>1 DEF Taken
<1>4. \A r \in Proc \ {p} : Same(r)
  BY <1>0, <1>1, <1>3, OnProcesses DEF Same, Returns
<1>5. ShellTypes'
  BY <1>0 DEF ShellTypes
<1>6. StepOf(p)' /\ Living(p)
  <2>1. CASE Returns(p)
    <3>1. pc'[p] = "user"
      BY <1>0, <2>1, OnProcesses DEF Returns
    <3> QED BY <1>0, <1>1, <1>2, <3>1 DEF StepOf, Laying, Joining, Living
  <2>2. CASE UNCHANGED <<pc, cur, want>> /\ UNCHANGED ubuf
    BY <1>0, <1>1, <2>2 DEF StepOf, Laying, Joining, Living
  <2> QED BY <1>1, <2>1, <2>2 DEF Taken
<1>7. \A f \in Proc : step[f] \in Laying => Waits(p)' /\ UNCHANGED data
  <2> TAKE f \in Proc
  <2> HAVE step[f] \in Laying
  <2>1. PICK q \in Pipes : q = Into(p)
    BY <1>1
  <2>2. PICK o \in Ofts : o = fd[p][0] /\ pipePtr[o] = q /\ refCount[o] > 0
    BY <1>0, <1>2, <2>1, EntryHeld DEF Leads, EndOfts, LeftInv
  <2>3. q < Laid(f)
    BY <1>0, <2>2 DEF LineInv, Building
  <2>4. data[q] = 0
    BY <1>0, <2>3 DEF LineInv, Building, PipeLaid
  <2>5. nwriter[q] > 0 /\ nwriter[q] \in Int
    BY <1>0, <2>3, WriterThere DEF LeftInv, EndTypes
  <2>6. \A k : ~ Taken(p, q, k)
    BY <2>4 DEF Taken
  <2>7. UNCHANGED <<data, pc>>
    BY <1>1, <2>1, <2>4, <2>5, <2>6
  <2> QED BY <1>1, <1>2, <2>7 DEF Waits
<1> QED BY <1>0, <1>1, <1>2, <1>4, <1>5, <1>6, <1>7, PlainLine

LEMMA WriteLine ==
  ASSUME AllInv, LeftInv', NEW p \in Proc, WriteLoop(p), UNCHANGED <<stage, step, pd, copied>>
  PROVE  LineInv'
<1>0. RingsInv /\ LineInv /\ LeftInv /\ LpdTypes /\ ShellTypes /\ StepOf(p)
  BY DEF AllInv, LineInv
<1>1. /\ pc[p] = "write" /\ UNCHANGED <<fd, oftVars, endVars, ubuf>>
      /\ \/ \E k \in Nat : /\ Added(p, OutOf(p), k)
                            /\ IF k = Len(todo[p]) THEN Returns(p) ELSE UNCHANGED <<pc, cur, want>>
         \/ UNCHANGED <<buf, head, data, room, todo, cur, want>> /\ pc' = [pc EXCEPT ![p] = "exit"]
  BY <1>0, WriteFacts
<1>2. step[p] \in {"run", "quit"} /\ stage[p] < Stages /\ copied[p] = <<>>
  BY <1>0, <1>1, LoopPipe
<1>3. /\ Returns(p) \/ UNCHANGED <<pc, cur, want>> \/ (pc' = [pc EXCEPT ![p] = "exit"] /\ UNCHANGED <<cur, want>>)
      /\ todo' = todo \/ \E w : todo' = [todo EXCEPT ![p] = w]
  BY <1>1 DEF Added
<1>4. \A r \in Proc \ {p} : Same(r)
  BY <1>0, <1>1, <1>3, OnProcesses DEF Same, Returns
<1>5. ShellTypes'
  BY <1>0 DEF ShellTypes
<1>6. StepOf(p)' /\ Living(p)
  <2>1. CASE Returns(p)
    <3>1. pc'[p] = "user"
      BY <1>0, <2>1, OnProcesses DEF Returns
    <3> QED BY <1>0, <1>1, <1>2, <3>1 DEF StepOf, Laying, Joining, Living
  <2>2. CASE UNCHANGED <<pc, cur, want>>
    BY <1>0, <1>1, <1>2, <2>2 DEF StepOf, Laying, Joining, Living
  <2>3. CASE pc' = [pc EXCEPT ![p] = "exit"]
    <3>1. pc'[p] = "exit"
      BY <1>0, <2>3, OnProcesses
    <3> QED BY <1>0, <1>1, <1>2, <3>1 DEF StepOf, Laying, Joining, Living
  <2> QED BY <1>3, <2>1, <2>2, <2>3
<1>7. \A f \in Proc : step[f] \notin Laying
  <2>1. ~ Waits(p) /\ step[p] \notin Laying /\ step[p] # "none"
    BY <1>1, <1>2 DEF Waits, Laying, Joining
  <2> QED BY <1>0, <2>1, NoneLaying
<1> QED BY <1>0, <1>1, <1>2, <1>4, <1>5, <1>6, <1>7, PlainLine
-----------------------------------------------------------------------------
(* The steps that close a descriptor. *)
LEMMA CloseStep ==
  ASSUME AllInv, NEW p \in Proc, NEW i \in Fds, NEW v \in Ofts \cup {None, File},
         CloseAny(p, i, v), v \in Ofts => refCount[v] > 0, UNCHANGED <<mode, pipePtr>>
  PROVE  /\ EntriesSame /\ EntriesInv'
         /\ \A r \in Proc \ {p} : fd'[r] = fd[r]
         /\ \A k : k \in Fds \ {i} => fd'[p][k] = fd[p][k]
         /\ \A k, q, end : k # i /\ Leads(p, k, q, end) => Leads(p, k, q, end)'
         /\ fd'[p][i] = v
         /\ \A q, end : v \in EndOfts(q, end) => Leads(p, i, q, end)'
<1>0. LineInv /\ LeftInv /\ EntryCounts /\ fd \in FdTables
  BY DEF AllInv, LeftInv, EndTypes
<1>1. fd' = [fd EXCEPT ![p][i] = v] /\ \A r \in Ofts : refCount'[r] > 0 => refCount[r] > 0
  BY <1>0, CloseFacts
<1>2. EntriesSame
  BY DEF EntriesSame
<1>3. EntriesInv'
  BY <1>0, <1>1, EntriesKept DEF LineInv
<1>4. /\ \A r \in Proc \ {p} : fd'[r] = fd[r]
      /\ \A k : k \in Fds \ {i} => fd'[p][k] = fd[p][k]
      /\ fd'[p][i] = v
  BY <1>0, <1>1 DEF FdTables
<1>5. \A k, q, end : k # i /\ Leads(p, k, q, end) => Leads(p, k, q, end)'
  <2> TAKE k, q, end
  <2> HAVE k # i /\ Leads(p, k, q, end)
  <2>1. fd'[p][k] = fd[p][k]
    BY <1>4 DEF Leads
  <2> QED BY <1>0, <1>2, <2>1, LeadsKept
<1>6. \A q, end : v \in EndOfts(q, end) => Leads(p, i, q, end)'
  BY <1>4 DEF Leads, EndOfts
<1> QED BY <1>2, <1>3, <1>4, <1>5, <1>6

(* While the line is laid such a step frees no pipe and miscounts nothing but
   the copy it makes. *)
LEMMA ClosePipes ==
  ASSUME AllInv, NEW f \in Proc, step[f] \in Laying,
         NEW p \in Proc, NEW i \in Fds, NEW v \in Ofts \cup {None, File},
         CloseAny(p, i, v), v \in Ofts => refCount[v] > 0 /\ mode[v] # "WRITE_PIPE",
         UNCHANGED <<mode, pipePtr, data>>,
         \A q \in Pipes : Leads(p, i, q, "WRITE_PIPE") =>
           (p # f /\ stage[p] # Stages - 1 - q) \/ (p = f /\ q < OutOf(f))
  PROVE  PipesSame
<1>0. LineInv /\ LeftInv
  BY DEF AllInv
<1>1. /\ \A r \in Ofts : refCount'[r] > 0 => refCount[r] > 0
      /\ \A x \in Pipes : nwriter'[x] - Writers(x)'
              = nwriter[x] - Writers(x) - (IF v \in EndOfts(x, "WRITE_PIPE") THEN 1 ELSE 0)
  BY <1>0, CloseFacts
<1>2. UNCHANGED busy
  BY <1>0, CloseLaid
<1>3. \A x : v \notin EndOfts(x, "WRITE_PIPE")
  BY DEF EndOfts
<1>4. \A x \in Pipes : nwriter'[x] - Writers(x)' = nwriter[x] - Writers(x)
  <2> TAKE x \in Pipes
  <2>1. nwriter[x] \in Int /\ Writers(x) \in Nat
    BY <1>0, CountType DEF LeftInv, EndTypes, Writers
  <2> QED BY <1>1, <1>3, <2>1
<1> QED BY <1>1, <1>2, <1>4 DEF PipesSame

LEMMA DropWriteLine ==
  ASSUME AllInv, LeftInv', NEW p \in Proc, DropWrite(p) PROVE LineInv'
<1>0. /\ RingsInv /\ LineInv /\ LeftInv /\ LpdTypes /\ ShellTypes /\ StepOf(p) /\ EndsOf(p)
      /\ Stages \in Nat /\ stage[p] \in 0..Stages
  BY ShellAssumption DEF AllInv, LineInv, ShellTypes
<1>a. PICK i \in Fds : i = pd[p][2]
  BY <1>0 DEF LpdTypes
<1>1. /\ step[p] = "reader" /\ step' = [step EXCEPT ![p] = "stdin"]
      /\ pc[p] = "user" /\ CloseAny(p, i, None)
      /\ UNCHANGED <<mode, pipePtr, data, pc, cur, want, todo, ubuf, stage, pd, copied>>
  BY <1>a DEF DropWrite, CloseWrite, Close, Calling, At, Goes, ringVars, callVars
<1>2. None \in Ofts \cup {None, File} /\ None \notin Ofts
  BY ConstantFacts
<1>3. /\ EntriesSame /\ EntriesInv'
      /\ \A r \in Proc \ {p} : fd'[r] = fd[r]
      /\ \A k : k \in Fds \ {i} => fd'[p][k] = fd[p][k]
      /\ \A k, q, end : k # i /\ Leads(p, k, q, end) => Leads(p, k, q, end)'
  BY <1>1, <1>2, CloseStep
<1>4. \A r \in Proc \ {p} : Same(r)
  BY <1>0, <1>1, <1>3, OnProcesses DEF Same
<1>5. ShellTypes' /\ step'[p] = "stdin"
  BY <1>0, <1>1, StepTypes DEF StepNames, Joining
<1>6. StepOf(p)'
  BY <1>0, <1>1, <1>5 DEF StepOf, Laying, Joining
<1>7. InOf(p) /\ OutEndOf(p)
  BY <1>0, <1>1 DEF EndsOf, Living
<1>8. PICK a, b : a = Into(p) /\ b = OutOf(p) /\ a = Into(p)' /\ b = OutOf(p)' /\ a # b
  BY <1>0, <1>1 DEF Into, OutOf
<1>9. /\ fd[p][0] = File /\ i \notin {0, 1} /\ Leads(p, i, a, "WRITE_PIPE")
      /\ pd[p][1] \notin {0, 1} /\ Leads(p, pd[p][1], a, "READ_PIPE")
  BY <1>a, <1>1, <1>7, <1>8 DEF InOf, Laying, Joining
<1>10. pd[p][1] # i
  BY <1>9 DEF Leads, EndOfts
<1>11. 0 \in Fds /\ 1 \in Fds
  BY PipeAssumption, ShellAssumption DEF Fds
<1>12. InOf(p)'
  BY <1>1, <1>3, <1>5, <1>8, <1>9, <1>10, <1>11 DEF InOf, Laying, Joining
<1>13. OutEndOf(p)'
  <2>1. stage[p] = Stages => fd'[p][1] = File
    BY <1>3, <1>7, <1>9, <1>11 DEF OutEndOf
  <2>2. ASSUME stage[p] < Stages
        PROVE  /\ Leads(p, 1, b, "WRITE_PIPE")'
               /\ \E k \in Fds \ {0, 1} : Leads(p, k, b, "WRITE_PIPE")'
    <3>1. Leads(p, 1, b, "WRITE_PIPE") /\ \E k \in Fds \ {0, 1} : Leads(p, k, b, "WRITE_PIPE")
      BY <1>1, <1>7, <1>8, <2>2 DEF OutEndOf
    <3>2. PICK k \in Fds \ {0, 1} : Leads(p, k, b, "WRITE_PIPE")
      BY <3>1
    <3>3. k # i
      BY <1>8, <1>9, <3>2 DEF Leads, EndOfts
    <3> QED BY <1>3, <1>9, <3>1, <3>2, <3>3
  <2> QED BY <1>1, <1>5, <1>8, <2>1, <2>2 DEF OutEndOf
<1>14. EndsOf(p)'
  BY <1>12, <1>13 DEF EndsOf
<1>15. ASSUME NEW f \in Proc, step[f] \in Laying PROVE Waits(p)' /\ PipesSame
  <2>1. Waits(p) /\ p # f
    BY <1>0, <1>1, <1>15, OneLayer DEF LineInv, Laying, Joining
  <2>2. Waits(p)'
    BY <1>1, <1>5, <2>1 DEF Waits, Laying, Joining
  <2>3. ASSUME NEW q \in Pipes, Leads(p, i, q, "WRITE_PIPE") PROVE stage[p] # Stages - 1 - q
    <3>1. q = Stages - stage[p]
      BY <1>8, <1>9, <2>3 DEF Leads, EndOfts, Into
    <3> QED BY <1>0, <3>1
  <2>4. PipesSame
    BY <1>1, <1>2, <1>15, <2>1, <2>3, ClosePipes
  <2> QED BY <2>2, <2>4
<1>16. Building'
  <2>1. step[p] # "none" /\ step'[p] # "none" /\ step[p] \notin Laying /\ step'[p] \notin Laying
    BY <1>1, <1>5 DEF Laying
  <2> QED BY <1>0, <1>1, <1>4, <1>15, <2>1, BuildingKept
<1> QED BY <1>0, <1>1, <1>3, <1>4, <1>5, <1>6, <1>14, <1>16, LineFrom

LEMMA TakeStdinLine ==
  ASSUME AllInv, LeftInv', NEW p \in Proc, TakeStdin(p) PROVE LineInv'
<1>0. /\ RingsInv /\ LineInv /\ LeftInv /\ LpdTypes /\ ShellTypes /\ StepOf(p) /\ EndsOf(p)
      /\ Stages \in Nat /\ stage[p] \in 0..Stages
  BY ShellAssumption DEF AllInv, LineInv, ShellTypes
<1>a. PICK i \in Fds : i = pd[p][1]
  BY <1>0 DEF LpdTypes
<1>b. PICK v : v = fd[p][i]
  OBVIOUS
<1>1. /\ step[p] = "stdin" /\ step' = [step EXCEPT ![p] = "run"]
      /\ pc[p] = "user" /\ CloseAny(p, 0, v)
      /\ UNCHANGED <<mode, pipePtr, data, pc, cur, want, todo, ubuf, stage, pd, copied>>
  BY <1>a, <1>b DEF TakeStdin, Dup2, Calling, At, Goes, ringVars, callVars
<1>7. InOf(p) /\ OutEndOf(p)
  BY <1>0, <1>1 DEF EndsOf, Living
<1>8. PICK a, b : a = Into(p) /\ b = OutOf(p) /\ a = Into(p)' /\ b = OutOf(p)' /\ a # b
  BY <1>0, <1>1 DEF Into, OutOf
<1>9. /\ fd[p][0] = File /\ i \notin {0, 1} /\ Leads(p, i, a, "READ_PIPE")
  BY <1>a, <1>1, <1>7, <1>8 DEF InOf, Laying, Joining
<1>2. /\ v \in Ofts \cup {None, File} /\ v \in EndOfts(a, "READ_PIPE")
      /\ v \in Ofts => refCount[v] > 0 /\ mode[v] # "WRITE_PIPE"
  BY <1>0, <1>b, <1>9, EntryHeld DEF Leads, EndOfts, LeftInv
<1>11. 0 \in Fds /\ 1 \in Fds
  BY PipeAssumption, ShellAssumption DEF Fds
<1>3. /\ EntriesSame /\ EntriesInv'
      /\ \A r \in Proc \ {p} : fd'[r] = fd[r]
      /\ \A k : k \in Fds \ {0} => fd'[p][k] = fd[p][k]
      /\ \A k, q, end : k # 0 /\ Leads(p, k, q, end) => Leads(p, k, q, end)'
      /\ \A q, end : v \in EndOfts(q, end) => Leads(p, 0, q, end)'
  BY <1>1, <1>2, <1>11, CloseStep
<1>4. \A r \in Proc \ {p} : Same(r)
  BY <1>0, <1>1, <1>3, OnProcesses DEF Same
<1>5. ShellTypes' /\ step'[p] = "run"
  BY <1>0, <1>1, StepTypes DEF StepNames
<1>6. StepOf(p)'
  BY <1>0, <1>1, <1>5 DEF StepOf, Laying, Joining
<1>12. InOf(p)'
  BY <1>1, <1>2, <1>3, <1>5, <1>8 DEF InOf, Laying, Joining
<1>13. OutEndOf(p)'
  <2>1. stage[p] = Stages => fd'[p][1] = File
    BY <1>3, <1>7, <1>11 DEF OutEndOf
  <2>2. ASSUME stage[p] < Stages
        PROVE  /\ Leads(p, 1, b, "WRITE_PIPE")'
               /\ \E k \in Fds \ {0, 1} : Leads(p, k, b, "WRITE_PIPE")'
    <3>1. Leads(p, 1, b, "WRITE_PIPE") /\ \E k \in Fds \ {0, 1} : Leads(p, k, b, "WRITE_PIPE")
      BY <1>1, <1>7, <1>8, <2>2 DEF OutEndOf
    <3>2. PICK k \in Fds \ {0, 1} : Leads(p, k, b, "WRITE_PIPE")
      BY <3>1
    <3> QED BY <1>3, <3>1, <3>2
  <2> QED BY <1>1, <1>5, <1>8, <2>1, <2>2 DEF OutEndOf
<1>14. EndsOf(p)'
  BY <1>12, <1>13 DEF EndsOf
<1>15. ASSUME NEW f \in Proc, step[f] \in Laying PROVE Waits(p)' /\ PipesSame
  <2>1. Waits(p) /\ p # f
    BY <1>0, <1>1, <1>15, OneLayer DEF LineInv, Laying, Joining
  <2>2. Waits(p)'
    BY <1>1, <1>5, <2>1 DEF Waits, Laying, Joining
  <2>3. \A q : ~ Leads(p, 0, q, "WRITE_PIPE")
    BY <1>9, ConstantFacts DEF Leads, EndOfts
  <2>4. PipesSame
    BY <1>1, <1>2, <1>11, <1>15, <2>3, ClosePipes
  <2> QED BY <2>2, <2>4
<1>16. Building'
  <2>1. step[p] # "none" /\ step'[p] # "none" /\ step[p] \notin Laying /\ step'[p] \notin Laying
    BY <1>1, <1>5 DEF Laying
  <2> QED BY <1>0, <1>1, <1>4, <1>15, <2>1, BuildingKept
<1> QED BY <1>0, <1>1, <1>3, <1>4, <1>5, <1>6, <1>14, <1>16, LineFrom

LEMMA ExitCloseLine ==
  ASSUME AllInv, LeftInv', NEW p \in Proc, ExitClose(p), UNCHANGED <<stage, step, pd, copied>>
  PROVE  LineInv'
<1>0. /\ RingsInv /\ LineInv /\ LeftInv /\ LpdTypes /\ ShellTypes /\ StepOf(p)
      /\ Stages \in Nat /\ stage[p] \in 0..Stages
  BY ShellAssumption DEF AllInv, LineInv, ShellTypes
<1>a. PICK i \in Fds : i = Min({k \in Fds : fd[p][k] # None})
  <2>1. {k \in Fds : fd[p][k] # None} \subseteq Nat /\ {k \in Fds : fd[p][k] # None} # {}
    BY ConstantFacts DEF ExitClose
  <2>2. Min({k \in Fds : fd[p][k] # None}) \in {k \in Fds : fd[p][k] # None}
    BY <2>1, MinOfNats
  <2> QED BY <2>2
<1>1. /\ pc[p] = "exit" /\ CloseAny(p, i, None)
      /\ UNCHANGED <<mode, pipePtr, data, pc, cur, want, todo, ubuf>>
  BY <1>a DEF ExitClose, At, ringVars, callVars
<1>2. None \in Ofts \cup {None, File} /\ None \notin Ofts
  BY ConstantFacts
<1>3. /\ EntriesSame /\ EntriesInv'
      /\ \A r \in Proc \ {p} : fd'[r] = fd[r]
  BY <1>1, <1>2, CloseStep
<1>4. \A r \in Proc \ {p} : Same(r)
  BY <1>1, <1>3 DEF Same
<1>5. ShellTypes'
  BY <1>0 DEF ShellTypes
<1>6. StepOf(p)'
  BY <1>0, <1>1 DEF StepOf
<1>7. EndsOf(p)'
  BY <1>1 DEF EndsOf, Living
<1>8. step[p] # "none" /\ step[p] \notin Laying
  BY <1>0, <1>1 DEF StepOf, Laying, Joining
<1>9. ASSUME NEW f \in Proc, step[f] \in Laying PROVE Waits(p)' /\ PipesSame
  <2>1. Waits(p) /\ p # f
    BY <1>0, <1>8, <1>9, OneLayer DEF LineInv
  <2>2. stage[p] = Stages /\ Waits(p)'
    BY <1>1, <2>1 DEF Waits
  <2>3. \A q \in Pipes : stage[p] # Stages - 1 - q
    <3> TAKE q \in Pipes
    <3>1. q \in Nat
      BY ConstantFacts
    <3> QED BY <1>0, <2>2, <3>1
  <2>4. PipesSame
    BY <1>1, <1>2, <1>9, <2>1, <2>3, ClosePipes
  <2> QED BY <2>2, <2>4
<1>10. Building'
  BY <1>0, <1>4, <1>8, <1>9, BuildingKept
<1> QED BY <1>0, <1>3, <1>4, <1>5, <1>6, <1>7, <1>8, <1>10, LineFrom

(* A step of the process that lays the line. *)
LEMMA BuildingOwn ==
  ASSUME LineInv, NEW p \in Proc, UNCHANGED stage, \A r \in Proc \ {p} : Same(r),
         step[p] \in Laying, step'[p] \in Laying,
         \A q \in Pipes : PipeLaid(p, q)',
         \A o \in Ofts : refCount'[o] > 0 => pipePtr'[o] < Laid(p)'
  PROVE  Building'
<1> SUFFICES ASSUME NEW f \in Proc, step'[f] \in Laying
             PROVE  /\ LaidBy(f)'
                    /\ \A q \in Pipes : PipeLaid(f, q)'
                    /\ \A o \in Ofts : refCount'[o] > 0 => pipePtr'[o] < Laid(f)'
  BY DEF Building
<1>1. f = p
  <2>1. ASSUME f # p PROVE FALSE
    <3>1. step'[f] = step[f]
      BY <2>1 DEF Same
    <3>2. step[f] # "none"
      BY <3>1 DEF Laying
    <3> QED BY <2>1, <3>1, <3>2, OneLayer DEF LineInv
  <2> QED BY <2>1
<1>2. LaidBy(p)
  BY DEF LineInv, Building
<1>3. ASSUME NEW r \in Proc
      PROVE  /\ step'[r] # "none" <=> step[r] # "none"
             /\ r # p => (Waits(r) => Waits(r)')
  <2>1. CASE r = p
    BY <2>1 DEF Laying
  <2>2. CASE r # p
    <3>1. Same(r)
      BY <2>2
    <3> QED BY <3>1 DEF Same, Waits
  <2> QED BY <2>1, <2>2
<1>4. LaidBy(p)'
  <2>1. ASSUME NEW r \in Proc \ {p}, step'[r] # "none" PROVE stage'[r] > stage'[p] /\ Waits(r)'
    BY <1>2, <1>3, <2>1 DEF LaidBy
  <2>2. ASSUME NEW t \in stage[p]..Stages PROVE \E r \in Proc : step'[r] # "none" /\ stage'[r] = t
    BY <1>2, <1>3 DEF LaidBy
  <2> QED BY <2>1, <2>2 DEF LaidBy
<1> QED BY <1>1, <1>4

LEMMA CloseReadLine ==
  ASSUME AllInv, LeftInv', NEW p \in Proc, CloseRead(p) PROVE LineInv'
<1>0. /\ RingsInv /\ LineInv /\ LeftInv /\ LpdTypes /\ ShellTypes /\ StepOf(p) /\ EndsOf(p)
      /\ Stages \in Nat /\ stage[p] \in 0..Stages
  BY ShellAssumption DEF AllInv, LineInv, ShellTypes
<1>a. PICK i \in Fds : i = pd[p][1]
  BY <1>0 DEF LpdTypes
<1>1. /\ step[p] = "writer" /\ step' = [step EXCEPT ![p] = "stdout"]
      /\ pc[p] = "user" /\ CloseAny(p, i, None)
      /\ UNCHANGED <<mode, pipePtr, data, pc, cur, want, todo, ubuf, stage, pd, copied>>
  BY <1>a DEF CloseRead, Close, Calling, At, Goes, ringVars, callVars
<1>2. None \in Ofts \cup {None, File} /\ None \notin Ofts
  BY ConstantFacts
<1>3. /\ EntriesSame /\ EntriesInv'
      /\ \A r \in Proc \ {p} : fd'[r] = fd[r]
      /\ \A k : k \in Fds \ {i} => fd'[p][k] = fd[p][k]
      /\ \A k, q, end : k # i /\ Leads(p, k, q, end) => Leads(p, k, q, end)'
  BY <1>1, <1>2, CloseStep
<1>4. \A r \in Proc \ {p} : Same(r)
  BY <1>0, <1>1, <1>3, OnProcesses DEF Same
<1>5. ShellTypes' /\ step'[p] = "stdout"
  BY <1>0, <1>1, StepTypes DEF StepNames, Laying
<1>6. StepOf(p)'
  BY <1>0, <1>1, <1>5 DEF StepOf, Laying, Joining
<1>7. InOf(p) /\ OutEndOf(p)
  BY <1>0, <1>1 DEF EndsOf, Living
<1>8. PICK a, b : a = Into(p) /\ b = OutOf(p) /\ a = Into(p)' /\ b = OutOf(p)'
  BY <1>1 DEF Into, OutOf
<1>9. /\ fd[p][0] = File /\ i \notin {0, 1} /\ Leads(p, i, b, "READ_PIPE")
      /\ pd[p][2] \notin {0, 1} /\ Leads(p, pd[p][2], b, "WRITE_PIPE")
      /\ fd[p][1] = File \/ (stage[p] + 1 < Stages /\ Leads(p, 1, b - 1, "WRITE_PIPE"))
  BY <1>a, <1>1, <1>7, <1>8 DEF InOf, OutEndOf, Laying, Joining
<1>10. pd[p][2] # i
  BY <1>9 DEF Leads, EndOfts
<1>11. 0 \in Fds /\ 1 \in Fds
  BY PipeAssumption, ShellAssumption DEF Fds
<1>12. InOf(p)'
  BY <1>3, <1>5, <1>9, <1>11 DEF InOf, Laying, Joining
<1>13. OutEndOf(p)'
  <2>1. fd'[p][1] = fd[p][1]
    BY <1>3, <1>9, <1>11
  <2>2. fd'[p][1] = File \/ (stage[p] + 1 < Stages /\ Leads(p, 1, b - 1, "WRITE_PIPE")')
    BY <1>3, <1>9, <2>1
  <2>3. Leads(p, pd[p][2], b, "WRITE_PIPE")'
    BY <1>1, <1>3, <1>9, <1>10
  <2>4. stage[p] = Stages => fd'[p][1] = File
    BY <1>7, <2>1 DEF OutEndOf
  <2> QED BY <1>1, <1>5, <1>8, <1>9, <2>2, <2>3, <2>4 DEF OutEndOf
<1>14. EndsOf(p)'
  BY <1>12, <1>13 DEF EndsOf
<1>15. PipesSame
  <2>1. step[p] \in Laying
    BY <1>1 DEF Laying
  <2>2. \A q : ~ Leads(p, i, q, "WRITE_PIPE")
    BY <1>9 DEF Leads, EndOfts
  <2> QED BY <1>1, <1>2, <2>1, <2>2, ClosePipes
<1>16. Building'
  <2>1. step[p] \in Laying /\ step'[p] \in Laying
    BY <1>1, <1>5 DEF Laying
  <2>2. Laid(p)' = Laid(p)
    BY <1>1, <1>5 DEF Laid
  <2>3. ASSUME NEW q \in Pipes PROVE PipeLaid(p, q)'
    <3>1. PipeLaid(p, q)
      BY <1>0, <2>1 DEF LineInv, Building
    <3>2. /\ busy'[q] = busy[q] /\ data'[q] = data[q]
          /\ nwriter'[q] - Writers(q)' = nwriter[q] - Writers(q)
      BY <1>15 DEF PipesSame
    <3>3. /\ nwriter'[q] \in Int /\ nwriter[q] \in Int
          /\ Writers(q) \in Nat /\ Writers(q)' \in Nat
      BY <1>0, CountType DEF LeftInv, EndTypes, Writers
    <3> QED BY <1>1, <1>5, <2>2, <3>1, <3>2, <3>3 DEF PipeLaid
  <2>4. \A o \in Ofts : refCount'[o] > 0 => pipePtr'[o] < Laid(p)'
    BY <1>0, <1>15, <2>1, <2>2 DEF PipesSame, LineInv, Building
  <2> QED BY <1>0, <1>1, <1>4, <2>1, <2>3, <2>4, BuildingOwn
<1> QED BY <1>0, <1>1, <1>3, <1>4, <1>5, <1>6, <1>14, <1>16, LineFrom

LEMMA TakeStdoutLine ==
  ASSUME AllInv, LeftInv', NEW p \in Proc, TakeStdout(p) PROVE LineInv'
<1>0. /\ RingsInv /\ LineInv /\ LeftInv /\ LpdTypes /\ ShellTypes /\ StepOf(p) /\ EndsOf(p)
      /\ Stages \in Nat /\ stage[p] \in 0..Stages
  BY ShellAssumption DEF AllInv, LineInv, ShellTypes
<1>a. PICK i \in Fds : i = pd[p][2]
  BY <1>0 DEF LpdTypes
<1>b. PICK v : v = fd[p][i]
  OBVIOUS
<1>1. /\ step[p] = "stdout" /\ step' = [step EXCEPT ![p] = "split"]
      /\ pc[p] = "user" /\ CloseAny(p, 1, v)
      /\ UNCHANGED <<mode, pipePtr, data, pc, cur, want, todo, ubuf, stage, pd, copied>>
  BY <1>a, <1>b DEF TakeStdout, Dup2, Calling, At, Goes, ringVars, callVars
<1>7. InOf(p) /\ OutEndOf(p) /\ stage[p] < Stages
  BY <1>0, <1>1 DEF EndsOf, Living, StepOf
<1>8. PICK a, b : a = Into(p) /\ b = OutOf(p) /\ a = Into(p)' /\ b = OutOf(p)'
  BY <1>1 DEF Into, OutOf
<1>9. /\ fd[p][0] = File /\ i \notin {0, 1} /\ Leads(p, i, b, "WRITE_PIPE")
      /\ fd[p][1] = File \/ (stage[p] + 1 < Stages /\ Leads(p, 1, b - 1, "WRITE_PIPE"))
  BY <1>a, <1>1, <1>7, <1>8 DEF InOf, OutEndOf, Laying, Joining
<1>2. /\ v \in Ofts \cup {None, File} /\ v \in EndOfts(b, "WRITE_PIPE")
      /\ v \in Ofts => refCount[v] > 0
  BY <1>0, <1>b, <1>9, EntryHeld DEF Leads, EndOfts, LeftInv
<1>11. 0 \in Fds /\ 1 \in Fds
  BY PipeAssumption, ShellAssumption DEF Fds
<1>3. /\ EntriesSame /\ EntriesInv'
      /\ \A r \in Proc \ {p} : fd'[r] = fd[r]
      /\ \A k : k \in Fds \ {1} => fd'[p][k] = fd[p][k]
      /\ \A k, q, end : k # 1 /\ Leads(p, k, q, end) => Leads(p, k, q, end)'
      /\ \A q, end : v \in EndOfts(q, end) => Leads(p, 1, q, end)'
  BY <1>1, <1>2, <1>11, CloseStep
<1>4. \A r \in Proc \ {p} : Same(r)
  BY <1>0, <1>1, <1>3, OnProcesses DEF Same
<1>5. ShellTypes' /\ step'[p] = "split"
  BY <1>0, <1>1, StepTypes DEF StepNames, Laying
<1>6. StepOf(p)'
  BY <1>0, <1>1, <1>5 DEF StepOf, Laying, Joining
<1>12. InOf(p)'
  BY <1>3, <1>5, <1>9, <1>11 DEF InOf, Laying, Joining
<1>13. OutEndOf(p)'
  <2>1. Leads(p, 1, b, "WRITE_PIPE")'
    BY <1>2, <1>3
  <2>2. i \in Fds \ {0, 1} /\ Leads(p, i, b, "WRITE_PIPE")'
    BY <1>3, <1>9
  <2>3. \E k \in Fds \ {0, 1} : Leads(p, k, b, "WRITE_PIPE")'
    BY <2>2
  <2>4. stage'[p] # Stages
    BY <1>0, <1>1, <1>7
  <2> QED BY <1>5, <1>8, <2>1, <2>3, <2>4 DEF OutEndOf
<1>14. EndsOf(p)'
  BY <1>12, <1>13 DEF EndsOf
<1>15. step[p] \in Laying /\ step'[p] \in Laying /\ b \in Pipes /\ b \in Int /\ b = Laid(p) - 1
  <2>1. b \in Pipes
    BY <1>0, <1>9, LeadsTo
  <2>2. b = Laid(p) - 1
    BY <1>0, <1>1, <1>8 DEF Laid, OutOf
  <2> QED BY <1>1, <1>5, <2>1, <2>2, ConstantFacts DEF Laying
<1>16. /\ \A r \in Ofts : refCount'[r] > 0 => refCount[r] > 0
       /\ \A x \in Pipes : nwriter'[x] - Writers(x)'
              = nwriter[x] - Writers(x) - (IF v \in EndOfts(x, "WRITE_PIPE") THEN 1 ELSE 0)
  BY <1>0, <1>1, <1>2, <1>11, CloseFacts
<1>17. UNCHANGED busy
  <2>1. ASSUME NEW q \in Pipes, Leads(p, 1, q, "WRITE_PIPE") PROVE q < OutOf(p)
    <3>1. q = b - 1
      BY <1>9, <2>1, ConstantFacts DEF Leads, EndOfts
    <3> QED BY <1>8, <1>15, <3>1
  <2> QED BY <1>0, <1>1, <1>2, <1>11, <1>15, <2>1, CloseLaid
<1>18. Building'
  <2>2. Laid(p)' = Laid(p) /\ Laid(p) \in Int
    BY <1>0, <1>1, <1>5 DEF Laid
  <2>3. ASSUME NEW q \in Pipes PROVE PipeLaid(p, q)'
    <3>1. PipeLaid(p, q)
      BY <1>0, <1>15 DEF LineInv, Building
    <3>2. v \in EndOfts(q, "WRITE_PIPE") => q = Laid(p) - 1
      BY <1>2, <1>15 DEF EndOfts
    <3>3. /\ nwriter'[q] \in Int /\ nwriter[q] \in Int
          /\ Writers(q) \in Nat /\ Writers(q)' \in Nat
      BY <1>0, CountType DEF LeftInv, EndTypes, Writers
    <3>4. nwriter'[q] - Writers(q)' =
            nwriter[q] - Writers(q) - (IF v \in EndOfts(q, "WRITE_PIPE") THEN 1 ELSE 0)
      BY <1>16
    <3>5. q < Laid(p) => nwriter[q] >= Writers(q) - (IF q = Laid(p) - 1 THEN 0 ELSE 1)
      BY <1>1, <3>1 DEF PipeLaid
    <3>6. q < Laid(p) => nwriter'[q] >= Writers(q)' - 1
      BY <2>2, <3>2, <3>3, <3>4, <3>5
    <3> QED BY <1>1, <1>5, <1>17, <2>2, <3>1, <3>6 DEF PipeLaid
  <2>4. \A o \in Ofts : refCount'[o] > 0 => pipePtr'[o] < Laid(p)'
    BY <1>0, <1>1, <1>15, <1>16, <2>2 DEF LineInv, Building
  <2> QED BY <1>0, <1>1, <1>4, <1>15, <2>3, <2>4, BuildingOwn
<1> QED BY <1>0, <1>1, <1>3, <1>4, <1>5, <1>6, <1>14, <1>18, LineFrom
-----------------------------------------------------------------------------
(* The next pipe of the line, and the next process. *)
LEMMA ForkLine ==
  ASSUME AllInv, LeftInv', LpdTypes', NEW p \in Proc, ForkReader(p) PROVE LineInv'
<1>0. /\ RingsInv /\ LineInv /\ LeftInv /\ LpdTypes /\ ShellTypes /\ StepOf(p) /\ EndsOf(p)
      /\ Stages \in Nat /\ stage[p] \in 0..Stages
  BY ShellAssumption DEF AllInv, LineInv, ShellTypes
<1>1. PICK c \in Proc : /\ step[p] = "fork" /\ step[c] = "none" /\ Fork(p, c)
                        /\ step' = [step EXCEPT ![p] = "reader", ![c] = "writer"]
                        /\ stage' = [stage EXCEPT ![c] = stage[p] - 1]
                        /\ pd' = [pd EXCEPT ![c] = pd[p]] /\ copied' = copied
  BY DEF ForkReader
<1>2. /\ UNCHANGED <<mode, pipePtr, busy, data, cur, want, todo, ubuf>>
      /\ fd' = [fd EXCEPT ![c] = fd[p]] /\ pc' = [pc EXCEPT ![c] = "user"]
      /\ pc[p] = "user" /\ p # c
      /\ nwriter' = [q \in Pipes |-> nwriter[q] + Cardinality(Ends(p, q, "WRITE_PIPE"))]
  BY <1>1 DEF Fork, Calling, At, ringVars, callVars, CountEach
<1>3. EntriesSame
  BY <1>2 DEF EntriesSame
<1>4. \A o \in Ofts : refCount'[o] > 0 => refCount[o] > 0
  BY <1>0, <1>1, ForkFacts
<1>5. EntriesInv'
  BY <1>0, <1>2, <1>4, EntriesKept DEF LineInv
<1>6. /\ step'[p] = "reader" /\ step'[c] = "writer"
      /\ stage'[p] = stage[p] /\ stage'[c] = stage[p] - 1
      /\ pd'[p] = pd[p] /\ pd'[c] = pd[p]
      /\ fd'[p] = fd[p] /\ fd'[c] = fd[p]
      /\ pc'[p] = "user" /\ pc'[c] = "user"
  BY <1>0, <1>1, <1>2, OnProcesses
<1>7. \A r \in Proc \ {p, c} : Same(r)
  BY <1>0, <1>1, <1>2, OnProcesses DEF Same
<1>8. stage[p] > 1 /\ copied[p] = <<>> /\ copied[c] = <<>>
  BY <1>0, <1>1 DEF StepOf, LineInv, Laying, Joining
<1>9. ShellTypes'
  <2>1. step' \in [Proc -> StepNames]
    BY <1>0, <1>1 DEF ShellTypes, StepNames, Laying, Joining
  <2>2. stage' \in [Proc -> 0..Stages]
    BY <1>0, <1>1, <1>8 DEF ShellTypes
  <2> QED BY <1>0, <1>1, <2>1, <2>2 DEF ShellTypes
<1>10. InOf(p) /\ OutEndOf(p)
  BY <1>0, <1>1, <1>2 DEF EndsOf, Living
<1>11. PICK a, b : /\ a = Into(p) /\ b = OutOf(p) /\ a = Into(p)' /\ b = OutOf(p)'
                   /\ a = OutOf(c)' /\ b = a - 1
  BY <1>0, <1>6 DEF Into, OutOf
<1>12. PICK i, j : i = pd[p][1] /\ j = pd[p][2]
  OBVIOUS
<1>13. /\ fd[p][0] = File
       /\ j \notin {0, 1} /\ Leads(p, j, a, "WRITE_PIPE")
       /\ i \notin {0, 1} /\ Leads(p, i, a, "READ_PIPE")
  BY <1>1, <1>10, <1>11, <1>12 DEF InOf, Laying, Joining
<1>14. /\ stage[p] = Stages => fd[p][1] = File
       /\ stage[p] < Stages => /\ Leads(p, 1, b, "WRITE_PIPE")
                               /\ \E k \in Fds \ {0, 1} : Leads(p, k, b, "WRITE_PIPE")
  BY <1>1, <1>10, <1>11 DEF OutEndOf
<1>15. \A k, q, end : Leads(p, k, q, end) => Leads(p, k, q, end)' /\ Leads(c, k, q, end)'
  BY <1>2, <1>6 DEF Leads, EndOfts
<1>16. StepOf(p)' /\ StepOf(c)'
  <2>1. StepOf(p)'
    BY <1>0, <1>1, <1>2, <1>6, <1>8 DEF StepOf, Laying, Joining
  <2>2. StepOf(c)'
    BY <1>0, <1>1, <1>2, <1>6, <1>8 DEF StepOf, Laying, Joining
  <2> QED BY <2>1, <2>2
<1>17. EndsOf(p)'
  <2>1. InOf(p)'
    BY <1>6, <1>11, <1>12, <1>13, <1>15 DEF InOf, Laying, Joining
  <2>2. OutEndOf(p)'
    BY <1>6, <1>11, <1>14, <1>15 DEF OutEndOf
  <2> QED BY <2>1, <2>2 DEF EndsOf
<1>18. EndsOf(c)'
  <2>1. InOf(c)'
    BY <1>6, <1>13 DEF InOf, Laying, Joining
  <2>2. fd'[c][1] = File \/ (stage'[c] + 1 < Stages /\ Leads(c, 1, a - 1, "WRITE_PIPE")')
    <3>1. CASE stage[p] = Stages
      BY <1>6, <1>14, <3>1
    <3>2. CASE stage[p] < Stages
      <4>1. Leads(c, 1, b, "WRITE_PIPE")'
        BY <1>14, <1>15, <3>2
      <4> QED BY <1>0, <1>6, <1>11, <3>2, <4>1
    <3> QED BY <1>0, <3>1, <3>2
  <2>3. Leads(c, j, a, "WRITE_PIPE")' /\ Leads(c, i, a, "READ_PIPE")'
    BY <1>13, <1>15
  <2>4. stage'[c] # Stages
    BY <1>0, <1>6
  <2>5. OutEndOf(c)'
    BY <1>6, <1>11, <1>12, <1>13, <2>2, <2>3, <2>4 DEF OutEndOf
  <2> QED BY <2>1, <2>5 DEF EndsOf
<1>19. \A r \in Proc : StepOf(r)' /\ EndsOf(r)'
  <2> TAKE r \in Proc
  <2>1. CASE r \notin {p, c}
    <3>1. Same(r) /\ StepOf(r) /\ EndsOf(r) /\ EntryCounts
      BY <1>0, <1>7, <2>1 DEF LineInv, LeftInv
    <3> QED BY <1>3, <3>1, SameKept
  <2> QED BY <1>16, <1>17, <1>18, <2>1
<1>20. step[p] \in Laying /\ LaidBy(p)
  BY <1>0, <1>1 DEF Laying, LineInv, Building
<1>21. ASSUME NEW r \in Proc, r # c
       PROVE  /\ step'[r] # "none" <=> step[r] # "none"
              /\ stage'[r] = stage[r]
              /\ step'[r] # "none" => stage'[r] > stage'[c] /\ step'[r] \notin Laying /\ Waits(r)'
  <2>1. CASE r = p
    <3>1. Waits(p)'
      BY <1>1, <1>6, <1>8 DEF Waits, Joining
    <3> QED BY <1>0, <1>1, <1>6, <2>1, <3>1 DEF Laying
  <2>2. CASE r # p
    <3>1. Same(r)
      BY <1>7, <1>21, <2>2
    <3>2. step'[r] = step[r] /\ stage'[r] = stage[r] /\ (Waits(r) => Waits(r)')
      BY <3>1 DEF Same, Waits
    <3>3. step[r] # "none" => Waits(r) /\ stage[r] > stage[p] /\ step[r] \notin Laying
      BY <1>0, <1>20, <2>2, OneLayer DEF LineInv
    <3>4. stage[r] \in Nat
      BY <1>0, ShellAssumption DEF ShellTypes
    <3> QED BY <1>0, <1>6, <3>2, <3>3, <3>4
  <2> QED BY <2>1, <2>2
<1>22. OnePerStage'
  <2> SUFFICES ASSUME NEW r \in Proc, NEW s \in Proc, step'[r] # "none", stage'[r] = stage'[s]
               PROVE  r = s
    BY DEF OnePerStage
  <2>0. \A x \in Proc : stage'[x] \in Nat /\ (step'[x] = "none" <=> stage'[x] = 0)
    BY <1>9, <1>19, ShellAssumption DEF ShellTypes, StepOf
  <2>1. step'[s] # "none"
    BY <2>0
  <2>2. CASE r # c /\ s # c
    BY <1>0, <1>21, <2>2 DEF LineInv, OnePerStage
  <2>3. CASE r = c
    BY <1>21, <2>0, <2>1, <2>3
  <2>4. CASE s = c
    BY <1>21, <2>0, <2>4
  <2> QED BY <2>2, <2>3, <2>4
<1>23. Building'
  <2> SUFFICES ASSUME NEW f \in Proc, step'[f] \in Laying
               PROVE  /\ LaidBy(f)'
                      /\ \A q \in Pipes : PipeLaid(f, q)'
                      /\ \A o \in Ofts : refCount'[o] > 0 => pipePtr'[o] < Laid(f)'
    BY DEF Building
  <2>1. f = c
    BY <1>21 DEF Laying
  <2>2. Laid(c)' = Laid(p) /\ step'[c] # "split" /\ step[p] # "split"
    BY <1>0, <1>1, <1>6 DEF Laid
  <2>3. LaidBy(c)'
    <3>1. \A r \in Proc \ {c} : step'[r] # "none" => stage'[r] > stage'[c] /\ Waits(r)'
      BY <1>21
    <3>2. ASSUME NEW t \in stage'[c]..Stages PROVE \E r \in Proc : step'[r] # "none" /\ stage'[r] = t
      <4>1. CASE t = stage'[c]
        BY <1>6, <4>1
      <4>2. CASE t # stage'[c]
        <5>1. t \in stage[p]..Stages
          BY <1>0, <1>6, <4>2
        <5>2. PICK r \in Proc : step[r] # "none" /\ stage[r] = t
          BY <1>20, <5>1 DEF LaidBy
        <5> QED BY <1>1, <1>21, <5>2
      <4> QED BY <4>1, <4>2
    <3> QED BY <3>1, <3>2 DEF LaidBy
  <2>4. ASSUME NEW q \in Pipes PROVE PipeLaid(c, q)'
    <3>1. PipeLaid(p, q)
      BY <1>0, <1>20 DEF LineInv, Building
    <3>2. /\ Writers(q)' = Writers(q) + Cardinality(Ends(p, q, "WRITE_PIPE"))
          /\ Cardinality(Ends(p, q, "WRITE_PIPE")) \in Nat
          /\ nwriter'[q] = nwriter[q] + Cardinality(Ends(p, q, "WRITE_PIPE"))
      BY <1>0, <1>1, <1>2, ForkFacts
    <3>3. nwriter[q] \in Int /\ Writers(q) \in Nat
      BY <1>0, CountType DEF LeftInv, EndTypes, Writers
    <3> QED BY <1>2, <2>2, <3>1, <3>2, <3>3 DEF PipeLaid
  <2>5. \A o \in Ofts : refCount'[o] > 0 => pipePtr'[o] < Laid(c)'
    BY <1>0, <1>2, <1>4, <1>20, <2>2 DEF LineInv, Building
  <2> QED BY <2>1, <2>3, <2>4, <2>5
<1> QED BY <1>5, <1>9, <1>19, <1>22, <1>23 DEF LineInv

LEMMA MakeLine ==
  ASSUME AllInv, LeftInv', LpdTypes', NEW p \in Proc, MakeLpd(p) PROVE LineInv'
<1>0. /\ RingsInv /\ LineInv /\ LeftInv /\ LpdTypes /\ ShellTypes /\ StepOf(p) /\ EndsOf(p)
      /\ Stages \in Nat /\ stage[p] \in 0..Stages /\ EntryCounts
  BY ShellAssumption DEF AllInv, LineInv, ShellTypes, LeftInv
<1>1. /\ step[p] = "split" /\ step' = [step EXCEPT ![p] = "fork"] /\ stage[p] > 1
      /\ MakePipe(p) /\ pc[p] = "user"
      /\ pd' = [pd EXCEPT ![p] = <<Min(FreeFds(p)), Min(FreeFds(p) \ {Min(FreeFds(p))})>>]
      /\ UNCHANGED <<stage, copied, pc, cur, want, todo, ubuf>>
  BY DEF MakeLpd, Goes, MakePipe, Calling, At, callVars
<1>2. PICK q \in Pipes, o1 \in Ofts, o2 \in Ofts, i1 \in Fds, i2 \in Fds :
        MadeOf(p, q, o1, o2, i1, i2) /\ LeastOf(p, q, i1, i2)
  BY <1>1, LeastPipe
<1>3. step[p] \in Laying /\ LaidBy(p) /\ (\A x \in Pipes : PipeLaid(p, x))
      /\ \A o \in Ofts : refCount[o] > 0 => pipePtr[o] < Laid(p)
  BY <1>0, <1>1 DEF Laying, LineInv, Building
<1>4. q = Laid(p) /\ q \in Nat
  <2>1. Laid(p) \in Nat /\ q \in Nat
    BY <1>0, <1>1, ConstantFacts DEF Laid
  <2>2. ~ (q < Laid(p))
    BY <1>2, <1>3 DEF MadeOf, PipeLaid
  <2>3. Laid(p) \in Pipes
    BY <2>1, <2>2, PipeAssumption DEF Pipes
  <2>4. ~ busy[Laid(p)]
    BY <1>3, <2>1, <2>3 DEF PipeLaid
  <2>5. q <= Laid(p)
    BY <1>2, <2>3, <2>4 DEF LeastOf
  <2> QED BY <2>1, <2>2, <2>5
<1>5. /\ fd \in FdTables /\ refCount \in [Ofts -> Nat]
      /\ mode \in [Ofts -> {"file", "READ_PIPE", "WRITE_PIPE"}]
      /\ pipePtr \in [Ofts -> Pipes \cup {None}]
      /\ nwriter \in [Pipes -> Int] /\ busy \in [Pipes -> BOOLEAN]
  BY <1>0 DEF LeftInv, EndTypes
<1>6. /\ o1 # o2 /\ refCount[o1] = 0 /\ refCount[o2] = 0
      /\ i1 # i2 /\ fd[p][i1] = None /\ fd[p][i2] = None
      /\ mode'[o1] = "READ_PIPE" /\ mode'[o2] = "WRITE_PIPE"
      /\ pipePtr'[o1] = q /\ pipePtr'[o2] = q
      /\ \A o \in Ofts \ {o1, o2} :
           mode'[o] = mode[o] /\ pipePtr'[o] = pipePtr[o] /\ refCount'[o] = refCount[o]
  BY <1>2, <1>5 DEF MadeOf
<1>7. EntriesSame
  BY <1>6 DEF EntriesSame
<1>8. EntriesInv'
  <2>1. \A o \in Ofts : refCount'[o] > 0 =>
          mode'[o] \in {"READ_PIPE", "WRITE_PIPE"} /\ pipePtr'[o] \in Pipes
    BY <1>0, <1>6 DEF LineInv, EntriesInv
  <2>2. \A o \in Ofts \ {o1, o2} : refCount'[o] > 0 => pipePtr'[o] # q
    BY <1>3, <1>4, <1>6
  <2>3. ASSUME NEW a \in Ofts, NEW b \in Ofts, refCount'[a] > 0, refCount'[b] > 0,
               mode'[a] = mode'[b], pipePtr'[a] = pipePtr'[b]
        PROVE  a = b
    <3>1. CASE a \in {o1, o2}
      BY <1>6, <2>2, <2>3, <3>1
    <3>2. CASE b \in {o1, o2}
      BY <1>6, <2>2, <2>3, <3>2
    <3>3. CASE a \notin {o1, o2} /\ b \notin {o1, o2}
      BY <1>0, <1>6, <2>3, <3>3 DEF LineInv, EntriesInv
    <3> QED BY <3>1, <3>2, <3>3
  <2> QED BY <2>1, <2>3 DEF EntriesInv
<1>9. /\ \A r \in Proc \ {p} : fd'[r] = fd[r]
      /\ \A k : k \in Fds \ {i1, i2} => fd'[p][k] = fd[p][k]
      /\ fd'[p][i1] = o1 /\ fd'[p][i2] = o2
  BY <1>2, <1>5, <1>6 DEF MadeOf, FdTables
<1>10. step'[p] = "fork" /\ pd'[p][1] = i1 /\ pd'[p][2] = i2
  BY <1>0, <1>1, <1>2, OnProcesses DEF LeastOf
<1>11. \A r \in Proc \ {p} : Same(r)
  BY <1>0, <1>1, <1>9, OnProcesses DEF Same
<1>12. ShellTypes'
  BY <1>0, <1>1, StepTypes DEF StepNames, Laying
<1>13. StepOf(p)'
  BY <1>0, <1>1, <1>10 DEF StepOf, Laying, Joining
<1>14. InOf(p) /\ OutEndOf(p)
  BY <1>0, <1>1 DEF EndsOf, Living
<1>15. PICK a, b : a = Into(p) /\ b = OutOf(p) /\ a = Into(p)' /\ b = OutOf(p)' /\ a = q
  <2>1. Into(p) = q
    BY <1>0, <1>1, <1>4 DEF Into, Laid
  <2>2. Into(p)' = Into(p) /\ OutOf(p)' = OutOf(p)
    BY <1>1 DEF Into, OutOf
  <2> QED BY <2>1, <2>2
<1>16. fd[p][0] = File /\ fd[p][1] # None /\ 0 \in Fds /\ 1 \in Fds /\ File # None
  <2>1. stage[p] = Stages \/ stage[p] < Stages
    BY <1>0
  <2>2. fd[p][0] = File /\ (fd[p][1] = File \/ Leads(p, 1, b, "WRITE_PIPE"))
    BY <1>1, <1>3, <1>14, <1>15, <2>1 DEF InOf, OutEndOf
  <2> QED BY <2>2, PipeAssumption, ShellAssumption DEF Fds, Leads, EndOfts
<1>17. i1 \notin {0, 1} /\ i2 \notin {0, 1}
  BY <1>6, <1>16
<1>18. \A k, x, end : Leads(p, k, x, end) => Leads(p, k, x, end)'
  <2> TAKE k, x, end
  <2> HAVE Leads(p, k, x, end)
  <2>1. k \in Fds /\ fd[p][k] # None
    BY ConstantFacts DEF Leads, EndOfts
  <2>2. fd'[p][k] = fd[p][k]
    BY <1>6, <1>9, <2>1
  <2> QED BY <1>0, <1>7, <2>2, LeadsKept
<1>19. InOf(p)'
  <2>1. Leads(p, i2, q, "WRITE_PIPE")' /\ Leads(p, i1, q, "READ_PIPE")'
    BY <1>6, <1>9 DEF Leads, EndOfts
  <2>2. fd'[p][0] = File
    BY <1>9, <1>16, <1>17
  <2> QED BY <1>10, <1>15, <1>17, <2>1, <2>2 DEF InOf, Laying, Joining
<1>20. OutEndOf(p)'
  <2>1. fd'[p][1] = fd[p][1]
    BY <1>9, <1>16, <1>17
  <2>2. /\ stage[p] = Stages => fd[p][1] = File
        /\ stage[p] < Stages => /\ Leads(p, 1, b, "WRITE_PIPE")
                                /\ \E k \in Fds \ {0, 1} : Leads(p, k, b, "WRITE_PIPE")
    BY <1>1, <1>14, <1>15 DEF OutEndOf
  <2> QED BY <1>1, <1>10, <1>15, <1>18, <2>1, <2>2 DEF OutEndOf
<1>21. EndsOf(p)'
  BY <1>19, <1>20 DEF EndsOf
<1>22. Laid(p)' = Laid(p) + 1
  BY <1>0, <1>1, <1>10 DEF Laid
<1>23. ASSUME NEW x \in Pipes PROVE PipeLaid(p, x)'
  <2>1. PipeLaid(p, x)
    BY <1>3
  <2>2. /\ Writers(x)' = Writers(x) + (IF x = q THEN 1 ELSE 0)
        /\ Writers(x) \in Nat
    BY <1>0, <1>2, MadeEnds DEF Writers
  <2>3. x \in Nat
    BY ConstantFacts
  <2>4. CASE x = q
    <3>1. busy'[x] /\ data'[x] = 0 /\ nwriter'[x] = 1
      <4>1. busy'[x]
        BY <1>2, <1>5, <2>4 DEF MadeOf
      <4>2. nwriter'[x] = 1
        BY <1>2, <1>5, <2>4 DEF MadeOf
      <4>3. data'[x] = 0
        BY <1>0, <1>2, <2>4 DEF MadeOf, RingsInv, Functions
      <4> QED BY <4>1, <4>2, <4>3
    <3>2. Writers(x) = 0
      <4>1. \A y \in Handle : fd[y[1]][y[2]] \notin EndOfts(q, "WRITE_PIPE")
        <5> TAKE y \in Handle
        <5>1. PICK u \in Proc, k \in Fds : u = y[1] /\ k = y[2]
          BY DEF Handle
        <5>2. fd[u][k] \in Ofts => refCount[fd[u][k]] > 0
          BY <1>0, EntryHeld
        <5>3. fd[u][k] \in Ofts => pipePtr[fd[u][k]] # q
          BY <1>3, <1>4, <5>2
        <5> QED BY <5>1, <5>3 DEF EndOfts
      <4>2. Pointing(fd, EndOfts(q, "WRITE_PIPE")) = {}
        BY <4>1 DEF Pointing
      <4> QED BY <2>4, <4>2, CountType DEF Writers
    <3> QED BY <1>4, <1>10, <1>22, <2>2, <2>3, <2>4, <3>1, <3>2 DEF PipeLaid
  <2>5. CASE x # q
    <3>1. busy'[x] = busy[x] /\ data'[x] = data[x] /\ nwriter'[x] = nwriter[x]
      BY <1>0, <1>2, <1>5, <2>5 DEF MadeOf, RingsInv, Functions
    <3>2. nwriter[x] \in Int
      BY <1>5
    <3> QED BY <1>1, <1>4, <1>10, <1>22, <2>1, <2>2, <2>3, <2>5, <3>1, <3>2 DEF PipeLaid
  <2> QED BY <2>4, <2>5
<1>24. ASSUME NEW o \in Ofts, refCount'[o] > 0 PROVE pipePtr'[o] < Laid(p)'
  <2>1. CASE o \in {o1, o2}
    BY <1>4, <1>6, <1>22, <2>1
  <2>2. CASE o \notin {o1, o2}
    <3>1. pipePtr'[o] = pipePtr[o] /\ pipePtr[o] < Laid(p) /\ pipePtr[o] \in Pipes
      BY <1>0, <1>3, <1>6, <1>24, <2>2 DEF LineInv, EntriesInv
    <3>2. pipePtr[o] \in Nat
      BY <3>1, ConstantFacts
    <3> QED BY <1>4, <1>22, <3>1, <3>2
  <2> QED BY <2>1, <2>2
<1>25. Building'
  <2>1. step'[p] \in Laying
    BY <1>10 DEF Laying
  <2> QED BY <1>0, <1>1, <1>3, <1>11, <1>23, <1>24, <2>1, BuildingOwn
<1> QED BY <1>0, <1>1, <1>7, <1>8, <1>11, <1>12, <1>13, <1>21, <1>25, LineFrom

LEMMA LineStutter ==
  ASSUME LineInv, LeftInv, UNCHANGED <<fd, oftVars, endVars, data, pc, callVars, stage, step, pd, copied>>
  PROVE  LineInv'
<1>1. EntriesSame /\ EntriesInv' /\ PipesSame
  BY FrameSame
<1>2. UNCHANGED <<cur, want, todo, ubuf, busy, nwriter, mode, pipePtr, refCount>>
  BY DEF callVars, oftVars, endVars
<1>3. \A r \in Proc : Same(r)
  BY <1>2 DEF Same
<1>4. \A r \in Proc : StepOf(r)' /\ EndsOf(r)'
  BY <1>1, <1>3, SameKept DEF LineInv, LeftInv
<1>5. ShellTypes' /\ OnePerStage'
  BY DEF LineInv, ShellTypes, OnePerStage
<1>6. \A q : Writers(q)' = Writers(q)
  BY <1>2 DEF Writers, Count, Pointing, EndOfts
<1>7. Building'
  BY <1>2, <1>6 DEF LineInv, Building, LaidBy, Waits, PipeLaid, Laid
<1> QED BY <1>1, <1>4, <1>5, <1>7 DEF LineInv

LEMMA LineStep ==
  ASSUME AllInv, LeftInv', LpdTypes', [SNext]_svars PROVE LineInv'
<1>0. LineInv /\ LeftInv
  BY DEF AllInv
<1>1. CASE UNCHANGED svars
  <2>1. UNCHANGED <<fd, oftVars, endVars, data, pc, callVars, stage, step, pd, copied>>
    BY <1>1 DEF svars, vars, shellVars, ringVars
  <2> QED BY <1>0, <2>1, LineStutter
<1> SUFFICES ASSUME NEW p \in Proc, Step(p) PROVE LineInv'
  BY <1>1 DEF SNext
<1>2. CASE ShellStep(p)
  BY <1>2, CloseReadLine, TakeStdoutLine, LastOneLine, MakeLine, ForkLine, DropWriteLine,
     TakeStdinLine DEF ShellStep
<1>3. CASE CommandStep(p)
  BY <1>3, ShowOutLine, PutOutLine, GetInLine, LookLine, QuitLine DEF CommandStep
<1>4. CASE Kernel(p)
  BY <1>4, ReadLine, WriteLine, ExitCloseLine, ExitDoneLine DEF Kernel, Loop
<1> QED BY <1>2, <1>3, <1>4 DEF Step

LEMMA LineInit == SInit => LineInv
<1> SUFFICES ASSUME SInit PROVE LineInv
  OBVIOUS
<1>1. Init
  BY DEF SInit
<1>2. PICK p \in Proc : /\ pc = [r \in Proc |-> IF r = p THEN "user" ELSE "none"]
                        /\ fd = [r \in Proc |-> [i \in Fds |->
                                   IF r = p /\ i \in StdFds THEN File ELSE None]]
  BY <1>1 DEF Init
<1>3. /\ stage = [r \in Proc |-> IF pc[r] = "user" THEN Stages ELSE 0]
      /\ step = [r \in Proc |-> IF pc[r] = "user" THEN "split" ELSE "none"]
      /\ copied = [r \in Proc |-> <<>>]
  BY DEF SInit
<1>4. /\ stage[p] = Stages /\ step[p] = "split" /\ pc[p] = "user"
      /\ \A r \in Proc \ {p} : stage[r] = 0 /\ step[r] = "none" /\ pc[r] = "none"
      /\ \A r \in Proc : copied[r] = <<>>
  BY <1>2, <1>3
<1>5. Stages \in Nat \ {0} /\ {0, 1} \subseteq StdFds /\ StdFds \subseteq Fds
  BY PipeAssumption, ShellAssumption
<1>6. fd[p][0] = File /\ fd[p][1] = File
  BY <1>2, <1>5
<1>7. \A o \in Ofts : refCount[o] = 0
  BY <1>1 DEF Init
<1>8. ShellTypes
  <2>1. "split" \in StepNames /\ "none" \in StepNames
    BY DEF StepNames, Laying
  <2> QED BY <1>3, <1>5, <2>1 DEF ShellTypes
<1>9. EntriesInv
  BY <1>7 DEF EntriesInv
<1>10. \A r \in Proc : StepOf(r)
  BY <1>4, <1>5 DEF StepOf, Laying, Joining
<1>11. \A r \in Proc : EndsOf(r)
  <2> TAKE r \in Proc
  <2>1. CASE r # p
    BY <1>4, <2>1 DEF EndsOf, Living
  <2>2. InOf(p)
    BY <1>4, <1>6 DEF InOf
  <2>3. OutEndOf(p)
    BY <1>4, <1>5, <1>6 DEF OutEndOf
  <2> QED BY <2>1, <2>2, <2>3 DEF EndsOf
<1>12. OnePerStage
  BY <1>4, <1>5 DEF OnePerStage
<1>13. Building
  <2> SUFFICES ASSUME NEW f \in Proc, step[f] \in Laying
               PROVE  LaidBy(f) /\ \A q \in Pipes : PipeLaid(f, q)
    BY <1>7 DEF Building
  <2>1. f = p
    BY <1>4 DEF Laying
  <2>2. Laid(p) = 0
    BY <1>4, <1>5 DEF Laid
  <2>3. LaidBy(p)
    BY <1>4, <1>5 DEF LaidBy
  <2>4. \A q \in Pipes : ~ busy[q] /\ ~ (q < 0)
    BY <1>1, ConstantFacts DEF Init
  <2> QED BY <2>1, <2>2, <2>3, <2>4 DEF PipeLaid
<1> QED BY <1>8, <1>9, <1>10, <1>11, <1>12, <1>13 DEF LineInv
-----------------------------------------------------------------------------
(* Parts of the text. *)
LEMMA PartValue ==
  ASSUME NEW a \in 0..Len(Text), NEW b \in a..Len(Text)
  PROVE  /\ Part(a, b) \in Seq(Byte) /\ Len(Part(a, b)) = b - a
         /\ \A j \in 1..(b - a) : Part(a, b)[j] = Text[a + j]
<1>1. Text \in Seq(Byte) /\ Len(Text) \in Nat
  BY ShellAssumption, LenProperties
<1>2. a + 1 \in Int /\ b \in Int /\ \A j \in (a + 1)..b : Text[j] \in Byte
  BY <1>1
<1>3. /\ SubSeq(Text, a + 1, b) \in Seq(Byte)
      /\ Len(SubSeq(Text, a + 1, b)) = IF a + 1 <= b THEN b - (a + 1) + 1 ELSE 0
      /\ \A i \in 1..(b - (a + 1) + 1) : SubSeq(Text, a + 1, b)[i] = Text[(a + 1) + i - 1]
  BY <1>2, SubSeqProperties
<1>4. Len(Part(a, b)) = b - a
  BY <1>1, <1>3 DEF Part
<1>5. ASSUME NEW j \in 1..(b - a) PROVE Part(a, b)[j] = Text[a + j]
  <2>1. j \in 1..(b - (a + 1) + 1) /\ (a + 1) + j - 1 = a + j
    BY <1>1
  <2>2. Part(a, b)[j] = Text[(a + 1) + j - 1]
    BY <1>3, <2>1 DEF Part
  <2> QED BY <2>1, <2>2
<1> QED BY <1>3, <1>4, <1>5 DEF Part

LEMMA PartWhole ==
  /\ Part(0, Len(Text)) = Text
  /\ \A a \in 0..Len(Text) : Part(a, a) = <<>>
<1>1. Text \in Seq(Byte) /\ Len(Text) \in Nat
  BY ShellAssumption, LenProperties
<1>2. SubSeq(Text, 1, Len(Text)) = Text
  BY <1>1, SubSeqFull
<1>3. Part(0, Len(Text)) = Text
  BY <1>2 DEF Part
<1>4. ASSUME NEW a \in 0..Len(Text) PROVE Part(a, a) = <<>>
  <2>1. Part(a, a) \in Seq(Byte) /\ Len(Part(a, a)) = a - a
    BY <1>1, PartValue
  <2> QED BY <1>1, <2>1
<1> QED BY <1>3, <1>4

LEMMA PartJoin ==
  ASSUME NEW a \in 0..Len(Text), NEW b \in a..Len(Text), NEW c \in b..Len(Text)
  PROVE  Part(a, b) \o Part(b, c) = Part(a, c)
<1>1. Text \in Seq(Byte) /\ Len(Text) \in Nat
  BY ShellAssumption, LenProperties
<1>2. a + 1 \in 1..(Len(Text) + 1) /\ b \in ((a + 1) - 1)..Len(Text)
  BY <1>1
<1> QED BY <1>1, <1>2, ConcatAdjacentSubSeq DEF Part

LEMMA PartSplit ==
  ASSUME NEW a \in 0..Len(Text), NEW b \in a..Len(Text), NEW k \in 0..(b - a)
  PROVE  /\ SubSeq(Part(a, b), 1, k) = Part(a, a + k)
         /\ SubSeq(Part(a, b), k + 1, Len(Part(a, b))) = Part(a + k, b)
<1> DEFINE s == Part(a, b)
<1>1. Text \in Seq(Byte) /\ Len(Text) \in Nat
  BY ShellAssumption, LenProperties
<1>2. /\ a + k \in 0..Len(Text) /\ a + k \in a..Len(Text) /\ b \in (a + k)..Len(Text)
      /\ (a + k) - a = k /\ b - (a + k) = (b - a) - k
  BY <1>1
<1>3. s \in Seq(Byte) /\ Len(s) = b - a /\ \A j \in 1..(b - a) : s[j] = Text[a + j]
  BY PartValue
<1>4. /\ Part(a, a + k) \in Seq(Byte) /\ Len(Part(a, a + k)) = k
      /\ \A j \in 1..k : Part(a, a + k)[j] = Text[a + j]
  BY <1>2, PartValue
<1>5. /\ Part(a + k, b) \in Seq(Byte) /\ Len(Part(a + k, b)) = (b - a) - k
      /\ \A j \in 1..((b - a) - k) : Part(a + k, b)[j] = Text[(a + k) + j]
  BY <1>2, PartValue
<1> HIDE DEF s
<1>6. /\ SubSeq(s, 1, k) \in Seq(Byte) /\ Len(SubSeq(s, 1, k)) = k
      /\ \A j \in 1..k : SubSeq(s, 1, k)[j] = s[j]
  BY <1>1, <1>3
<1>7. SubSeq(s, 1, k) = Part(a, a + k)
  <2>1. \A j \in 1..k : SubSeq(s, 1, k)[j] = Part(a, a + k)[j]
    <3> TAKE j \in 1..k
    <3>1. j \in 1..(b - a)
      BY <1>1
    <3> QED BY <1>3, <1>4, <1>6, <3>1
  <2> QED BY <1>4, <1>6, <2>1, SeqEqual
<1>8. /\ SubSeq(s, k + 1, Len(s)) \in Seq(Byte)
      /\ Len(SubSeq(s, k + 1, Len(s))) = (b - a) - k
      /\ \A j \in 1..((b - a) - k) : SubSeq(s, k + 1, Len(s))[j] = s[k + j]
  BY <1>1, <1>3
<1>9. SubSeq(s, k + 1, Len(s)) = Part(a + k, b)
  <2>1. \A j \in 1..((b - a) - k) : SubSeq(s, k + 1, Len(s))[j] = Part(a + k, b)[j]
    <3> TAKE j \in 1..((b - a) - k)
    <3>1. k + j \in 1..(b - a) /\ a + (k + j) = (a + k) + j
      BY <1>1
    <3>2. s[k + j] = Text[a + (k + j)]
      BY <1>3, <3>1
    <3> QED BY <1>5, <1>8, <3>1, <3>2
  <2> QED BY <1>5, <1>8, <2>1, SeqEqual
<1> QED BY <1>7, <1>9 DEF s
-----------------------------------------------------------------------------
(* What a step leaves of a process's part in the flow. *)
Keeps(x) ==
  /\ step'[x] = step[x] /\ stage'[x] = stage[x] /\ pc'[x] = pc[x]
  /\ copied'[x] = copied[x] /\ todo'[x] = todo[x] /\ ubuf'[x] = ubuf[x]
  /\ cur'[x] = cur[x] /\ want'[x] = want[x]
Lying == \E f \in Proc : step[f] \in Laying

LEMMA KeepsHand ==
  ASSUME NEW x, Keeps(x)
  PROVE  (Active(x)' <=> Active(x)) /\ Hand(x)' = Hand(x) /\ stage'[x] = stage[x]
BY DEF Keeps, Active, Hand, Living

LEMMA FlowFrom ==
  ASSUME NEW w, NEW r, Flow(w, r), out' = out,
         \A q \in Pipes : Chan'[q] = Chan[q] \/ (Chan'[q] = <<>> /\ Lying),
         Lying' => Lying,
         \A x \in Proc : Active(x)' =>
            \/ Active(x) /\ Hand(x)' = Hand(x) /\ stage'[x] = stage[x]
            \/ Hand(x)' = Part(w[stage'[x]], r[stage'[x] - 1])
  PROVE  Flow(w, r)'
<1>1. /\ r[0] = Len(Text) /\ out = Part(0, w[Stages])
      /\ \A s \in 1..Stages : w[s] <= r[s - 1] /\ (s < Stages => r[s] <= w[s])
      /\ \A s \in 1..(Stages - 1) : Stages - 1 - s \in Pipes => Chan[Stages - 1 - s] = Part(r[s], w[s])
      /\ \A p \in Proc : Active(p) => Hand(p) = Part(w[stage[p]], r[stage[p] - 1])
      /\ Lying => \A s \in 1..Stages : w[s] = 0 /\ (s < Stages => r[s] = 0)
  BY DEF Flow, Lying
<1>2. ASSUME NEW s \in 1..(Stages - 1), Stages - 1 - s \in Pipes
      PROVE  Chan'[Stages - 1 - s] = Part(r[s], w[s])
  <2>1. CASE Chan'[Stages - 1 - s] = Chan[Stages - 1 - s]
    BY <1>1, <1>2, <2>1
  <2>2. CASE Chan'[Stages - 1 - s] = <<>> /\ Lying
    <3>1. s \in 1..Stages /\ s < Stages
      BY ShellAssumption
    <3>2. w[s] = 0 /\ r[s] = 0
      BY <1>1, <2>2, <3>1
    <3>3. 0 \in 0..Len(Text)
      BY ShellAssumption, LenProperties
    <3> QED BY <2>2, <3>2, <3>3, PartWhole
  <2> QED BY <1>2, <2>1, <2>2
<1>3. \A p \in Proc : Active(p)' => Hand(p)' = Part(w[stage'[p]], r[stage'[p] - 1])
  <2> TAKE p \in Proc
  <2> HAVE Active(p)'
  <2>1. CASE Active(p) /\ Hand(p)' = Hand(p) /\ stage'[p] = stage[p]
    BY <1>1, <2>1
  <2> QED BY <2>1
<1> QED BY <1>1, <1>2, <1>3 DEF Flow, Lying

(* A step that leaves the rings alone, and the flow but for what process p has. *)
LEMMA RingsFrom ==
  ASSUME RingsInv, UNCHANGED ringVars, \A q \in Pipes : busy'[q] => busy[q],
         Functions', NEW p \in Proc, \A x \in Proc \ {p} : Keeps(x),
         CopyTypes(p)', cur'[p] \in Nat, want'[p] \in Nat
  PROVE  RingsInv' /\ UNCHANGED Chan
<1>1. UNCHANGED <<buf, head, tail, data, room>>
  BY DEF ringVars
<1>2. UNCHANGED Chan
  BY <1>1 DEF Chan, Oldest
<1>3. \A q \in Pipes : WholeRing(q)'
  BY <1>1 DEF RingsInv, WholeRing, RingOf
<1>4. ASSUME NEW x \in Proc PROVE CopyTypes(x)' /\ cur'[x] \in Nat /\ want'[x] \in Nat
  <2>1. CASE x = p
    BY <2>1
  <2>2. CASE x # p
    <3>1. Keeps(x)
      BY <2>2
    <3> QED BY <3>1 DEF RingsInv, CopyTypes, Keeps
  <2> QED BY <2>1, <2>2
<1> QED BY <1>2, <1>3, <1>4 DEF RingsInv

LEMMA FlowOf ==
  ASSUME NEW w, NEW r, Flow(w, r), UNCHANGED <<out, Chan>>, Lying' => Lying,
         NEW p \in Proc, \A x \in Proc \ {p} : Keeps(x),
         Active(p)' => \/ Active(p) /\ Hand(p)' = Hand(p) /\ stage'[p] = stage[p]
                       \/ Hand(p)' = Part(w[stage'[p]], r[stage'[p] - 1])
  PROVE  Flow(w, r)'
<1>1. \A x \in Proc : Active(x)' =>
            \/ Active(x) /\ Hand(x)' = Hand(x) /\ stage'[x] = stage[x]
            \/ Hand(x)' = Part(w[stage'[x]], r[stage'[x] - 1])
  <2> TAKE x \in Proc
  <2>1. CASE x # p
    BY <2>1, KeepsHand
  <2> QED BY <2>1
<1>2. \A q \in Pipes : Chan'[q] = Chan[q]
  OBVIOUS
<1> QED BY <1>1, <1>2, FlowFrom
LEMMA LyingKept ==
  ASSUME NEW p \in Proc, \A x \in Proc \ {p} : Keeps(x), step'[p] \in Laying => Lying
  PROVE  Lying' => Lying
<1> SUFFICES ASSUME NEW f \in Proc, step'[f] \in Laying PROVE Lying
  BY DEF Lying
<1>1. CASE f = p
  BY <1>1
<1>2. CASE f # p
  <2>1. Keeps(f)
    BY <1>2
  <2> QED BY <2>1 DEF Keeps, Lying
<1> QED BY <1>1, <1>2

(* Steps of the shell and of an exit: the calls' parameters stay, too. *)
HandStays(p) ==
  /\ Active(p) /\ step[p] # "got" /\ step'[p] # "got" /\ stage'[p] = stage[p]
  /\ copied' = copied /\ pc'[p] = pc[p]
TextInHand(p) ==
  copied'[p] = Text /\ stage'[p] = 1 /\ Lying /\ step'[p] # "got" /\ pc'[p] # "write"

LEMMA QuietFlow ==
  ASSUME AllInv, FlowInv, NEW p \in Proc, UNCHANGED <<ringVars, callVars, out>>,
         \A q \in Pipes : busy'[q] => busy[q],
         \A x \in Proc \ {p} : Keeps(x), step'[p] \in Laying => step[p] \in Laying,
         copied' = copied \/ (TextInHand(p) /\ copied' = [copied EXCEPT ![p] = Text]),
         Active(p)' => HandStays(p) \/ TextInHand(p)
  PROVE  RingsInv' /\ FlowInv'
<1>1. UNCHANGED <<buf, head, tail, data, room, cur, want, todo, ubuf>>
  BY DEF ringVars, callVars
<1>2. RingsInv' /\ UNCHANGED Chan
  <2>1. Functions'
    BY <1>1 DEF AllInv, RingsInv, Functions
  <2>2. CopyTypes(p)
    BY DEF AllInv, RingsInv
  <2>3. CopyTypes(p)'
    BY <1>1, <2>2, ShellAssumption DEF CopyTypes, TextInHand
  <2>4. cur'[p] \in Nat /\ want'[p] \in Nat
    BY <1>1 DEF AllInv, RingsInv
  <2>5. RingsInv
    BY DEF AllInv
  <2> QED BY <2>1, <2>3, <2>4, <2>5, RingsFrom
<1>3. PICK w, r \in [0..Stages -> 0..Len(Text)] : Flow(w, r)
  BY DEF FlowInv
<1>4. Lying' => Lying
  <2>1. step'[p] \in Laying => Lying
    BY DEF Lying
  <2> QED BY <2>1, LyingKept
<1>5. Active(p)' => \/ Active(p) /\ Hand(p)' = Hand(p) /\ stage'[p] = stage[p]
                    \/ Hand(p)' = Part(w[stage'[p]], r[stage'[p] - 1])
  <2> HAVE Active(p)'
  <2>1. CASE HandStays(p)
    BY <1>1, <2>1 DEF Hand, HandStays
  <2>2. CASE TextInHand(p)
    <3>1. Hand(p)' = Text
      BY <2>2 DEF Hand, TextInHand
    <3>2. 1 \in 1..Stages
      BY ShellAssumption
    <3>3. w[1] = 0 /\ r[0] = Len(Text)
      BY <1>3, <2>2, <3>2 DEF Flow, Lying, TextInHand
    <3> QED BY <2>2, <3>1, <3>3, PartWhole DEF TextInHand
  <2> QED BY <2>1, <2>2
<1>6. Flow(w, r)'
  BY <1>2, <1>3, <1>4, <1>5, FlowOf
<1> QED BY <1>2, <1>3, <1>6 DEF FlowInv

LEMMA ClosingFlow ==
  ASSUME AllInv, FlowInv, NEW p \in Proc, NEW i, NEW v, CloseAny(p, i, v),
         UNCHANGED <<ringVars, callVars, pc, stage, copied, out>>,
         \/ UNCHANGED step /\ pc[p] = "exit"
         \/ \E new : /\ step' = [step EXCEPT ![p] = new] /\ new # "got" /\ step[p] # "got"
                     /\ (new \in Laying => step[p] \in Laying)
                     /\ Active(p)' => step[p] \in Joining \cup {"run", "quit"}
  PROVE  RingsInv' /\ FlowInv'
<1>0. RingsInv /\ LineInv /\ LeftInv /\ LpdTypes
  BY DEF AllInv
<1>1. \A q \in Pipes : busy'[q] => busy[q]
  BY <1>0 DEF CloseAny, ClosePipe, endVars, LeftInv, EndTypes
<1>2. \A x \in Proc \ {p} : Keeps(x)
  BY <1>0, OnProcesses DEF Keeps, callVars
<1>3. CASE UNCHANGED step /\ pc[p] = "exit"
  <2>1. ~ Active(p)' /\ (step'[p] \in Laying => step[p] \in Laying)
    BY <1>3 DEF Active, Living
  <2> QED BY <1>1, <1>2, <1>3, <2>1, QuietFlow
<1>4. ASSUME NEW new, step' = [step EXCEPT ![p] = new], new # "got", step[p] # "got",
             new \in Laying => step[p] \in Laying,
             Active(p)' => step[p] \in Joining \cup {"run", "quit"}
      PROVE  RingsInv' /\ FlowInv'
  <2>1. step'[p] = new
    BY <1>0, <1>4, OnProcesses
  <2>2. Active(p)' => HandStays(p)
    BY <1>4, <2>1 DEF Active, Living, HandStays
  <2>3. step'[p] \in Laying => step[p] \in Laying
    BY <1>4, <2>1
  <2> QED BY <1>1, <1>2, <1>4, <2>1, <2>2, <2>3, QuietFlow
<1> QED BY <1>3, <1>4

LEMMA ShellFlow ==
  ASSUME AllInv, FlowInv, NEW p \in Proc,
         CloseRead(p) \/ TakeStdout(p) \/ DropWrite(p) \/ TakeStdin(p)
  PROVE  RingsInv' /\ FlowInv'
<1>1. CASE CloseRead(p)
  <2>1. /\ step[p] = "writer" /\ step' = [step EXCEPT ![p] = "stdout"] /\ CloseAny(p, pd[p][1], None)
        /\ UNCHANGED <<ringVars, callVars, pc, stage, copied, out>>
    BY <1>1 DEF CloseRead, Goes, Close
  <2>2. ~ Active(p)'
    BY <2>1, OnProcesses DEF AllInv, Active, Joining
  <2> QED BY <2>1, <2>2, ClosingFlow DEF Laying
<1>2. CASE TakeStdout(p)
  <2>1. /\ step[p] = "stdout" /\ step' = [step EXCEPT ![p] = "split"]
        /\ CloseAny(p, 1, fd[p][pd[p][2]])
        /\ UNCHANGED <<ringVars, callVars, pc, stage, copied, out>>
    BY <1>2 DEF TakeStdout, Goes, Dup2
  <2>2. ~ Active(p)'
    BY <2>1, OnProcesses DEF AllInv, Active, Joining
  <2> QED BY <2>1, <2>2, ClosingFlow DEF Laying
<1>3. CASE DropWrite(p)
  <2>1. /\ step[p] = "reader" /\ step' = [step EXCEPT ![p] = "stdin"]
        /\ CloseAny(p, pd[p][2], None)
        /\ UNCHANGED <<ringVars, callVars, pc, stage, copied, out>>
    BY <1>3 DEF DropWrite, CloseWrite, Goes, Close
  <2> QED BY <2>1, ClosingFlow DEF Laying, Joining
<1>4. CASE TakeStdin(p)
  <2>1. /\ step[p] = "stdin" /\ step' = [step EXCEPT ![p] = "run"]
        /\ CloseAny(p, 0, fd[p][pd[p][1]])
        /\ UNCHANGED <<ringVars, callVars, pc, stage, copied, out>>
    BY <1>4 DEF TakeStdin, Goes, Dup2
  <2> QED BY <2>1, ClosingFlow DEF Laying, Joining
<1> QED BY <1>1, <1>2, <1>3, <1>4

LEMMA LastOneFlow ==
  ASSUME AllInv, FlowInv, NEW p \in Proc, LastOne(p) PROVE RingsInv' /\ FlowInv'
<1>0. RingsInv /\ LineInv /\ LeftInv /\ LpdTypes
  BY DEF AllInv
<1>1. /\ step[p] = "split" /\ step' = [step EXCEPT ![p] = "run"] /\ stage[p] = 1
      /\ copied' = [copied EXCEPT ![p] = Text] /\ UNCHANGED <<vars, stage, out>>
  BY DEF LastOne, Goes
<1>2. UNCHANGED <<ringVars, callVars, busy, pc, stage, out>>
  BY <1>1 DEF vars, endVars
<1>3. /\ step'[p] = "run" /\ copied'[p] = Text /\ stage'[p] = 1
      /\ \A x \in Proc \ {p} : Keeps(x)
  BY <1>0, <1>1, <1>2, OnProcesses DEF Keeps, callVars
<1>4. Lying /\ step[p] \in Laying
  BY <1>1 DEF Lying, Laying
<1>5. pc'[p] # "write"
  BY <1>0, <1>1, <1>2 DEF LineInv, StepOf, Laying, Joining
<1> QED BY <1>1, <1>2, <1>3, <1>4, <1>5, QuietFlow DEF TextInHand

LEMMA QuitFlow ==
  ASSUME AllInv, FlowInv, NEW p \in Proc, Quit(p) PROVE RingsInv' /\ FlowInv'
<1>0. RingsInv /\ LineInv /\ LeftInv /\ LpdTypes
  BY DEF AllInv
<1>1. /\ step' = [step EXCEPT ![p] = "gone"] /\ UNCHANGED <<stage, copied, out>> /\ Exit(p)
  BY DEF Quit, Goes
<1>2. UNCHANGED <<ringVars, callVars, busy, stage, out, copied>> /\ pc' = [pc EXCEPT ![p] = "exit"]
  BY <1>1 DEF Exit, endVars
<1>3. step'[p] = "gone" /\ \A x \in Proc \ {p} : Keeps(x)
  BY <1>0, <1>1, <1>2, OnProcesses DEF Keeps, callVars
<1>4. ~ Active(p)' /\ step'[p] \notin Laying
  BY <1>3 DEF Active, Laying, Joining
<1> QED BY <1>2, <1>3, <1>4, QuietFlow
LEMMA MakeFlow ==
  ASSUME AllInv, FlowInv, NEW p \in Proc, MakeLpd(p) PROVE RingsInv' /\ FlowInv'
<1>0. RingsInv /\ LineInv /\ LeftInv /\ LpdTypes
  BY DEF AllInv
<1>1. /\ step[p] = "split" /\ step' = [step EXCEPT ![p] = "fork"] /\ MakePipe(p)
      /\ UNCHANGED <<buf, pc, callVars, stage, copied, out>>
  BY DEF MakeLpd, Goes, MakePipe
<1>2. PICK q \in Pipes, o1 \in Ofts, o2 \in Ofts, i1 \in Fds, i2 \in Fds :
        MadeOf(p, q, o1, o2, i1, i2) /\ LeastOf(p, q, i1, i2)
  BY <1>0, <1>1, LeastPipe
<1>3. /\ Rings' /\ Chan' = [Chan EXCEPT ![q] = <<>>]
      /\ \A x \in Pipes : room'[x] + data'[x] = IF x = q THEN PSIZE ELSE room[x] + data[x]
  <2>1. Rings /\ busy \in [Pipes -> BOOLEAN]
    BY <1>0 DEF RingsInv, Rings, WholeRing, LeftInv, EndTypes
  <2> QED BY <1>1, <1>2, <2>1, MadeRing
<1>4. RingsInv'
  <2>1. \A x \in Pipes : WholeRing(x)'
    BY <1>0, <1>3, PipeAssumption DEF RingsInv, WholeRing, Rings
  <2>2. \A x \in Proc : CopyTypes(x)' /\ cur'[x] \in Nat /\ want'[x] \in Nat
    BY <1>0, <1>1 DEF RingsInv, CopyTypes, callVars
  <2> QED BY <1>3, <2>1, <2>2 DEF RingsInv, Rings
<1>5. PICK w, r \in [0..Stages -> 0..Len(Text)] : Flow(w, r)
  BY DEF FlowInv
<1>6. Lying
  BY <1>1 DEF Lying, Laying
<1>7. step'[p] = "fork" /\ \A x \in Proc \ {p} : Keeps(x)
  BY <1>0, <1>1, OnProcesses DEF Keeps, callVars
<1>8. \A x \in Proc : Active(x)' => Active(x) /\ Hand(x)' = Hand(x) /\ stage'[x] = stage[x]
  <2> TAKE x \in Proc
  <2>1. CASE x = p
    BY <1>7, <2>1 DEF Active, Joining
  <2>2. CASE x # p
    BY <1>7, <2>2, KeepsHand
  <2> QED BY <2>1, <2>2
<1>9. \A x \in Pipes : Chan'[x] = Chan[x] \/ (Chan'[x] = <<>> /\ Lying)
  BY <1>3, <1>6 DEF Chan
<1>10. Flow(w, r)'
  BY <1>1, <1>5, <1>6, <1>8, <1>9, FlowFrom
<1> QED BY <1>4, <1>5, <1>10 DEF FlowInv

LEMMA ForkFlow ==
  ASSUME AllInv, FlowInv, NEW p \in Proc, ForkReader(p) PROVE RingsInv' /\ FlowInv'
<1>0. RingsInv /\ LineInv /\ LeftInv /\ LpdTypes /\ StepOf(p)
  BY DEF AllInv, LineInv
<1>1. PICK c \in Proc : /\ step[p] = "fork" /\ step[c] = "none" /\ Fork(p, c)
                        /\ step' = [step EXCEPT ![p] = "reader", ![c] = "writer"]
                        /\ stage' = [stage EXCEPT ![c] = stage[p] - 1]
                        /\ UNCHANGED <<copied, out>>
  BY DEF ForkReader
<1>2. /\ UNCHANGED <<ringVars, callVars, busy>> /\ pc' = [pc EXCEPT ![c] = "user"]
      /\ pc[p] = "user" /\ p # c
  BY <1>1 DEF Fork, Calling, At
<1>3. UNCHANGED <<buf, head, tail, data, room, cur, want, todo, ubuf>>
  BY <1>2 DEF ringVars, callVars
<1>4. /\ step'[p] = "reader" /\ step'[c] = "writer" /\ stage'[p] = stage[p] /\ pc'[p] = "user"
      /\ \A x \in Proc \ {p, c} : Keeps(x)
  BY <1>0, <1>1, <1>2, <1>3, OnProcesses DEF Keeps
<1>5. RingsInv' /\ UNCHANGED Chan
  <2>1. RingsInv'
    BY <1>0, <1>1, <1>2, <1>3 DEF RingsInv, Functions, WholeRing, RingOf, CopyTypes
  <2> QED BY <1>3, <2>1 DEF Chan, Oldest
<1>6. PICK w, r \in [0..Stages -> 0..Len(Text)] : Flow(w, r)
  BY DEF FlowInv
<1>7. Lying
  BY <1>1 DEF Lying, Laying
<1>8. Hand(p)' = Part(w[stage'[p]], r[stage'[p] - 1])
  <2>1. copied[p] = <<>> /\ stage[p] > 1 /\ stage[p] \in 0..Stages
    BY <1>0, <1>1 DEF StepOf, Laying, Joining
  <2>2. Hand(p)' = <<>>
    BY <1>1, <1>4, <2>1 DEF Hand
  <2>3. stage[p] \in 1..Stages /\ stage[p] - 1 \in 1..Stages /\ stage[p] - 1 < Stages
    BY <2>1, ShellAssumption
  <2>4. w[stage[p]] = 0 /\ r[stage[p] - 1] = 0
    BY <1>6, <1>7, <2>3 DEF Flow, Lying
  <2>5. 0 \in 0..Len(Text)
    BY ShellAssumption, LenProperties
  <2> QED BY <1>4, <2>2, <2>4, <2>5, PartWhole
<1>9. \A x \in Proc : Active(x)' =>
            \/ Active(x) /\ Hand(x)' = Hand(x) /\ stage'[x] = stage[x]
            \/ Hand(x)' = Part(w[stage'[x]], r[stage'[x] - 1])
  <2> TAKE x \in Proc
  <2>1. CASE x = p
    BY <1>8, <2>1
  <2>2. CASE x = c
    BY <1>4, <2>2 DEF Active, Joining
  <2>3. CASE x \notin {p, c}
    BY <1>4, <2>3, KeepsHand
  <2> QED BY <2>1, <2>2, <2>3
<1>10. \A q \in Pipes : Chan'[q] = Chan[q]
  BY <1>5
<1>11. Flow(w, r)'
  <2>1. out' = out /\ \A q \in Pipes : Chan'[q] = Chan[q] \/ (Chan'[q] = <<>> /\ Lying)
    BY <1>1, <1>10
  <2> QED BY <1>6, <1>7, <1>9, <2>1, FlowFrom
<1> QED BY <1>5, <1>6, <1>11 DEF FlowInv

(* Steps of a command, and the end of an exit: they leave the rings alone. *)
LEMMA CommandFlow ==
  ASSUME AllInv, FlowInv, NEW p \in Proc, UNCHANGED <<ringVars, busy, stage, out>>,
         \A x \in Proc \ {p} : Keeps(x), step'[p] \notin Laying, Functions',
         CopyTypes(p)', cur'[p] \in Nat, want'[p] \in Nat,
         Active(p)' => Active(p) /\ Hand(p)' = Hand(p)
  PROVE  RingsInv' /\ FlowInv'
<1>1. PICK w, r \in [0..Stages -> 0..Len(Text)] : Flow(w, r)
  BY DEF FlowInv
<1>2. RingsInv' /\ UNCHANGED Chan
  BY RingsFrom DEF AllInv
<1>3. Lying' => Lying
  BY LyingKept
<1>4. Flow(w, r)'
  BY <1>1, <1>2, <1>3, FlowOf
<1> QED BY <1>1, <1>2, <1>4 DEF FlowInv

LEMMA PutOutFlow ==
  ASSUME AllInv, FlowInv, NEW p \in Proc, PutOut(p) PROVE RingsInv' /\ FlowInv'
<1>0. RingsInv /\ LineInv /\ LeftInv /\ LpdTypes
  BY DEF AllInv
<1>1. PICK new \in {"run", "quit"} :
      /\ step[p] = "run" /\ step' = [step EXCEPT ![p] = new]
      /\ copied' = [copied EXCEPT ![p] = <<>>] /\ UNCHANGED <<stage, out>>
      /\ Write(p, 1, copied[p])
  BY DEF PutOut, Goes
<1>2. /\ UNCHANGED <<ringVars, busy, want>> /\ pc[p] = "user"
      /\ pc' = [pc EXCEPT ![p] = "write"] /\ cur' = [cur EXCEPT ![p] = 1]
      /\ ubuf' = [ubuf EXCEPT ![p] = <<>>] /\ todo' = [todo EXCEPT ![p] = copied[p]]
  BY <1>1 DEF Write, Calling, At, endVars
<1>3. /\ step'[p] = new /\ pc'[p] = "write" /\ cur'[p] = 1 /\ ubuf'[p] = <<>>
      /\ todo'[p] = copied[p] /\ copied'[p] = <<>> /\ want'[p] = want[p]
      /\ \A x \in Proc \ {p} : Keeps(x)
  BY <1>0, <1>1, <1>2, OnProcesses DEF Keeps
<1>4. Functions'
  BY <1>0, <1>2 DEF RingsInv, Functions, ringVars
<1>5. CopyTypes(p)' /\ cur'[p] \in Nat /\ want'[p] \in Nat
  BY <1>0, <1>3 DEF RingsInv, CopyTypes
<1>6. step'[p] \notin Laying /\ (Active(p)' => Active(p) /\ Hand(p)' = Hand(p))
  BY <1>1, <1>2, <1>3 DEF Laying, Active, Living, Hand
<1> QED BY <1>1, <1>2, <1>3, <1>4, <1>5, <1>6, CommandFlow

LEMMA GetInFlow ==
  ASSUME AllInv, FlowInv, NEW p \in Proc, GetIn(p) PROVE RingsInv' /\ FlowInv'
<1>0. RingsInv /\ LineInv /\ LeftInv /\ LpdTypes
  BY DEF AllInv
<1>1. PICK n \in 1..MaxBytes :
      /\ step[p] = "run" /\ step' = [step EXCEPT ![p] = "got"] /\ copied[p] = <<>>
      /\ UNCHANGED <<stage, copied, out>> /\ Read(p, 0, n)
  BY DEF GetIn, Goes
<1>2. /\ UNCHANGED <<ringVars, busy, todo>> /\ pc[p] = "user"
      /\ pc' = [pc EXCEPT ![p] = "read"] /\ cur' = [cur EXCEPT ![p] = 0]
      /\ ubuf' = [ubuf EXCEPT ![p] = <<>>] /\ want' = [want EXCEPT ![p] = n]
  BY <1>1 DEF Read, Calling, At, endVars
<1>3. /\ step'[p] = "got" /\ pc'[p] = "read" /\ cur'[p] = 0 /\ ubuf'[p] = <<>>
      /\ want'[p] = n /\ \A x \in Proc \ {p} : Keeps(x)
  BY <1>0, <1>1, <1>2, OnProcesses DEF Keeps
<1>4. Functions'
  BY <1>0, <1>2 DEF RingsInv, Functions, ringVars
<1>5. CopyTypes(p)' /\ cur'[p] \in Nat /\ want'[p] \in Nat
  BY <1>0, <1>1, <1>2, <1>3 DEF RingsInv, CopyTypes
<1>6. step'[p] \notin Laying /\ (Active(p)' => Active(p) /\ Hand(p)' = Hand(p))
  BY <1>1, <1>2, <1>3 DEF Laying, Active, Living, Hand
<1> QED BY <1>1, <1>2, <1>3, <1>4, <1>5, <1>6, CommandFlow

LEMMA LookFlow ==
  ASSUME AllInv, FlowInv, NEW p \in Proc, Look(p) PROVE RingsInv' /\ FlowInv'
<1>0. RingsInv /\ LineInv /\ LeftInv /\ LpdTypes
  BY DEF AllInv
<1>1. PICK new \in {"run", "quit"} :
      /\ step[p] = "got" /\ step' = [step EXCEPT ![p] = new] /\ pc[p] = "user"
      /\ copied' = [copied EXCEPT ![p] = ubuf[p]] /\ ubuf' = [ubuf EXCEPT ![p] = <<>>]
      /\ UNCHANGED <<ringVars, endVars, pc, cur, want, todo, stage, out>>
  BY DEF Look, Goes, At
<1>2. UNCHANGED busy
  BY <1>1 DEF endVars
<1>3. /\ step'[p] = new /\ copied'[p] = ubuf[p] /\ ubuf'[p] = <<>>
      /\ \A x \in Proc \ {p} : Keeps(x)
  BY <1>0, <1>1, OnProcesses DEF Keeps
<1>4. Functions'
  BY <1>0, <1>1 DEF RingsInv, Functions, ringVars
<1>5. CopyTypes(p)' /\ cur'[p] \in Nat /\ want'[p] \in Nat
  BY <1>0, <1>1, <1>3 DEF RingsInv, CopyTypes
<1>6. step'[p] \notin Laying /\ (Active(p)' => Active(p) /\ Hand(p)' = Hand(p))
  BY <1>1, <1>3 DEF Laying, Active, Living, Hand
<1> QED BY <1>1, <1>2, <1>3, <1>4, <1>5, <1>6, CommandFlow

LEMMA ExitDoneFlow ==
  ASSUME AllInv, FlowInv, NEW p \in Proc, ExitDone(p), UNCHANGED <<stage, step, copied, out>>
  PROVE  RingsInv' /\ FlowInv'
<1>0. RingsInv /\ LineInv /\ LeftInv /\ LpdTypes /\ StepOf(p)
  BY DEF AllInv, LineInv
<1>1. /\ UNCHANGED <<ringVars, endVars>>
      /\ pc[p] = "exit" /\ pc' = [pc EXCEPT ![p] = "none"]
      /\ cur' = [cur EXCEPT ![p] = 0] /\ want' = [want EXCEPT ![p] = 0]
      /\ todo' = [todo EXCEPT ![p] = <<>>] /\ ubuf' = [ubuf EXCEPT ![p] = <<>>]
  BY DEF ExitDone, At
<1>2. UNCHANGED busy
  BY <1>1 DEF endVars
<1>3. /\ pc'[p] = "none" /\ cur'[p] = 0 /\ want'[p] = 0 /\ todo'[p] = <<>> /\ ubuf'[p] = <<>>
      /\ \A x \in Proc \ {p} : Keeps(x)
  BY <1>0, <1>1, OnProcesses DEF Keeps
<1>4. Functions'
  BY <1>0, <1>1 DEF RingsInv, Functions, ringVars
<1>5. CopyTypes(p)' /\ cur'[p] \in Nat /\ want'[p] \in Nat
  BY <1>0, <1>3 DEF RingsInv, CopyTypes
<1>6. step'[p] \notin Laying /\ ~ Active(p)'
  BY <1>0, <1>1, <1>3 DEF Laying, Active, Living, Joining, StepOf
<1> QED BY <1>1, <1>2, <1>3, <1>4, <1>5, <1>6, CommandFlow
(* The bounds of a flow. *)
LEMMA FlowBounds ==
  ASSUME NEW w \in [0..Stages -> 0..Len(Text)], NEW r \in [0..Stages -> 0..Len(Text)],
         Flow(w, r), NEW s \in 1..Stages
  PROVE  /\ w[s] \in 0..Len(Text) /\ r[s - 1] \in w[s]..Len(Text) /\ r[s - 1] \in 0..Len(Text)
         /\ s < Stages => r[s] \in 0..Len(Text) /\ w[s] \in r[s]..Len(Text)
<1>1. Stages \in Nat /\ Len(Text) \in Nat
  BY ShellAssumption, LenProperties
<1>2. s \in 0..Stages /\ s - 1 \in 0..Stages
  BY <1>1
<1>3. w[s] \in 0..Len(Text) /\ r[s - 1] \in 0..Len(Text) /\ r[s] \in 0..Len(Text)
  BY <1>2
<1>4. w[s] <= r[s - 1] /\ (s < Stages => r[s] <= w[s])
  BY DEF Flow
<1> QED BY <1>1, <1>3, <1>4

(* The last command prints what it has in hand. *)
LEMMA ShowOutFlow ==
  ASSUME AllInv, FlowInv, NEW p \in Proc, ShowOut(p) PROVE RingsInv' /\ FlowInv'
<1>0. /\ RingsInv /\ LineInv /\ LeftInv /\ LpdTypes /\ StepOf(p) /\ OnePerStage
      /\ Stages \in Nat \ {0} /\ Len(Text) \in Nat
  BY ShellAssumption, LenProperties DEF AllInv, LineInv
<1>1. PICK new \in {"run", "quit"} :
      /\ step[p] = "run" /\ step' = [step EXCEPT ![p] = new] /\ copied[p] # <<>>
      /\ copied' = [copied EXCEPT ![p] = <<>>] /\ UNCHANGED <<vars, stage>> /\ pc[p] = "user"
      /\ stage[p] = Stages /\ out' = out \o copied[p]
  BY DEF ShowOut, Goes, At, IsLast
<1>2. UNCHANGED <<ringVars, callVars, busy, pc, cur, want, todo, ubuf, stage>>
  BY <1>1 DEF vars, callVars, endVars
<1>3. /\ step'[p] = new /\ copied'[p] = <<>> /\ pc'[p] = "user" /\ stage'[p] = Stages
      /\ \A x \in Proc \ {p} : Keeps(x)
  BY <1>0, <1>1, <1>2, OnProcesses DEF Keeps
<1>4. RingsInv' /\ UNCHANGED Chan
  <2>1. Functions'
    BY <1>0, <1>2 DEF RingsInv, Functions, ringVars, callVars
  <2>2. CopyTypes(p)' /\ cur'[p] \in Nat /\ want'[p] \in Nat
    BY <1>0, <1>2, <1>3 DEF RingsInv, CopyTypes
  <2> QED BY <1>0, <1>2, <1>3, <2>1, <2>2, RingsFrom
<1>5. PICK w, r \in [0..Stages -> 0..Len(Text)] : Flow(w, r)
  BY DEF FlowInv
<1>6. ~ Lying /\ ~ Lying'
  <2>1. ~ Lying
    BY <1>0, <1>1, NoneLaying DEF Waits, Laying, Joining, Lying
  <2>2. step'[p] \notin Laying
    BY <1>3 DEF Laying
  <2> QED BY <1>3, <2>1, <2>2, LyingKept
<1>7. PICK b : b = r[Stages - 1]
  OBVIOUS
<1>8. /\ Stages \in 1..Stages /\ w[Stages] \in 0..Len(Text)
      /\ b \in w[Stages]..Len(Text) /\ b \in 0..Len(Text)
  <2>1. Stages \in 1..Stages
    BY <1>0
  <2>2. /\ w[Stages] \in 0..Len(Text) /\ r[Stages - 1] \in w[Stages]..Len(Text)
        /\ r[Stages - 1] \in 0..Len(Text)
    BY <1>5, <2>1, FlowBounds
  <2> QED BY <1>7, <2>1, <2>2
<1>9. copied[p] = Part(w[Stages], b) /\ out = Part(0, w[Stages])
  <2>1. Active(p) /\ Hand(p) = copied[p]
    BY <1>1 DEF Active, Living, Hand
  <2> QED BY <1>1, <1>5, <1>7, <2>1 DEF Flow
<1>10. out' = Part(0, b)
  <2>1. 0 \in 0..Len(Text) /\ w[Stages] \in 0..Len(Text) /\ b \in w[Stages]..Len(Text)
    BY <1>0, <1>8
  <2> QED BY <1>1, <1>9, <2>1, PartJoin
<1> DEFINE v == [w EXCEPT ![Stages] = b]
<1>11. /\ v \in [0..Stages -> 0..Len(Text)] /\ v[Stages] = b
       /\ \A s \in 0..Stages : s # Stages => v[s] = w[s]
  BY <1>0, <1>8
<1> HIDE DEF v
<1>12. Flow(v, r)'
  <2>1. r[0] = Len(Text) /\ out' = Part(0, v[Stages])
    BY <1>5, <1>10, <1>11 DEF Flow
  <2>2. \A s \in 1..Stages : v[s] <= r[s - 1] /\ (s < Stages => r[s] <= v[s])
    <3> TAKE s \in 1..Stages
    <3>1. CASE s = Stages
      BY <1>0, <1>7, <1>8, <1>11, <3>1
    <3>2. CASE s # Stages
      BY <1>0, <1>5, <1>11, <3>2 DEF Flow
    <3> QED BY <3>1, <3>2
  <2>3. \A s \in 1..(Stages - 1) : Stages - 1 - s \in Pipes => Chan'[Stages - 1 - s] = Part(r[s], v[s])
    <3> TAKE s \in 1..(Stages - 1)
    <3>1. s \in 0..Stages /\ s # Stages
      BY <1>0
    <3> QED BY <1>4, <1>5, <1>11, <3>1 DEF Flow
  <2>4. \A x \in Proc : Active(x)' => Hand(x)' = Part(v[stage'[x]], r[stage'[x] - 1])
    <3> TAKE x \in Proc
    <3> HAVE Active(x)'
    <3>1. CASE x = p
      <4>1. Hand(p)' = <<>>
        BY <1>3 DEF Hand
      <4> QED BY <1>3, <1>7, <1>8, <1>11, <3>1, <4>1, PartWhole
    <3>2. CASE x # p
      <4>1. Active(x) /\ Hand(x)' = Hand(x) /\ stage'[x] = stage[x]
        BY <1>3, <3>2, KeepsHand
      <4>2. stage[x] # Stages /\ stage[x] \in 0..Stages
        BY <1>0, <1>1, <3>2, <4>1 DEF OnePerStage, Active, Joining, LineInv, StepOf
      <4> QED BY <1>5, <1>11, <4>1, <4>2 DEF Flow
    <3> QED BY <3>1, <3>2
  <2> QED BY <1>6, <2>1, <2>2, <2>3, <2>4 DEF Flow, Lying
<1> QED BY <1>4, <1>11, <1>12 DEF FlowInv
LEMMA WriteFlow ==
  ASSUME AllInv, FlowInv, NEW p \in Proc, WriteLoop(p), UNCHANGED <<stage, step, copied, out>>
  PROVE  RingsInv' /\ FlowInv'
<1>0. /\ RingsInv /\ LineInv /\ LeftInv /\ LpdTypes /\ StepOf(p) /\ OnePerStage
      /\ Stages \in Nat \ {0} /\ Len(Text) \in Nat
  BY ShellAssumption, LenProperties DEF AllInv, LineInv
<1>a. PICK s : s = stage[p]
  OBVIOUS
<1>b. PICK q : q = OutOf(p)
  OBVIOUS
<1>1. /\ pc[p] = "write" /\ q \in Pipes /\ UNCHANGED <<fd, oftVars, endVars, tail, ubuf>>
      /\ \/ \E k \in Nat : /\ Added(p, q, k)
                            /\ IF k = Len(todo[p]) THEN Returns(p) ELSE UNCHANGED <<pc, cur, want>>
         \/ UNCHANGED <<buf, head, data, room, todo, cur, want>> /\ pc' = [pc EXCEPT ![p] = "exit"]
  BY <1>0, <1>b, WriteFacts
<1>2. step[p] \in {"run", "quit"} /\ s < Stages /\ copied[p] = <<>> /\ s \in 1..Stages /\ s \in 0..Stages
  <2>1. step[p] \in {"run", "quit"} /\ s < Stages /\ copied[p] = <<>>
    BY <1>0, <1>a, <1>1, LoopPipe
  <2>2. s \in 0..Stages /\ s # 0
    BY <1>0, <1>a, <2>1 DEF StepOf
  <2> QED BY <1>0, <2>1, <2>2
<1>3. q = Stages - 1 - s /\ UNCHANGED busy
  BY <1>a, <1>b, <1>1 DEF OutOf, endVars
<1>4. CASE UNCHANGED <<buf, head, data, room, todo, cur, want>> /\ pc' = [pc EXCEPT ![p] = "exit"]
  <2>1. UNCHANGED <<ringVars, callVars>>
    BY <1>1, <1>4 DEF ringVars, callVars
  <2>2. pc'[p] = "exit" /\ \A x \in Proc \ {p} : Keeps(x)
    BY <1>0, <1>1, <1>4, OnProcesses DEF Keeps
  <2>3. ~ Active(p)'
    BY <2>2 DEF Active, Living
  <2> QED BY <1>3, <2>1, <2>2, <2>3, QuietFlow
<1>5. ASSUME NEW k \in Nat, Added(p, q, k),
             IF k = Len(todo[p]) THEN Returns(p) ELSE UNCHANGED <<pc, cur, want>>
      PROVE  RingsInv' /\ FlowInv'
  <2>1. /\ todo[p] \in Seq(Byte) /\ Rings /\ Fits(q) /\ UNCHANGED <<busy, tail, ubuf>>
    BY <1>0, <1>1, <1>3 DEF RingsInv, CopyTypes, Rings, WholeRing, Fits
  <2>2. /\ \A x \in Pipes : RingOf(x)' /\ room'[x] + data'[x] = room[x] + data[x]
        /\ Chan' = [Chan EXCEPT ![q] = @ \o SubSeq(todo[p], 1, k)]
    BY <1>1, <1>5, <2>1, AddedRing
  <2>3. /\ k <= Len(todo[p]) /\ todo' = [todo EXCEPT ![p] = SubSeq(todo[p], k + 1, Len(todo[p]))]
        /\ Returns(p) \/ UNCHANGED <<pc, cur, want>>
    BY <1>5 DEF Added
  <2>4. /\ todo'[p] = SubSeq(todo[p], k + 1, Len(todo[p])) /\ ubuf' = ubuf
        /\ IF k = Len(todo[p]) THEN pc'[p] = "user" ELSE pc'[p] = "write"
        /\ cur'[p] \in {0, cur[p]} /\ want'[p] \in {0, want[p]}
    BY <1>0, <1>1, <1>5, <2>3, OnProcesses DEF Returns
  <2>5. \A x \in Proc \ {p} : Keeps(x)
    BY <1>0, <1>1, <2>3, OnProcesses DEF Keeps, Returns
  <2>6. RingsInv'
    <3>1. Functions'
      BY <1>0, <1>1, <1>5, <2>3 DEF RingsInv, Functions, Added, Returns
    <3>2. \A x \in Pipes : WholeRing(x)'
      BY <1>0, <2>2 DEF RingsInv, WholeRing
    <3>3. CopyTypes(p)' /\ cur'[p] \in Nat /\ want'[p] \in Nat
      <4>1. todo'[p] \in Seq(Byte)
        BY <1>5, <2>1, <2>4
      <4> QED BY <1>0, <2>4, <4>1 DEF RingsInv, CopyTypes
    <3>4. ASSUME NEW x \in Proc PROVE CopyTypes(x)' /\ cur'[x] \in Nat /\ want'[x] \in Nat
      <4>1. CASE x = p
        BY <3>3, <4>1
      <4>2. CASE x # p
        BY <1>0, <2>5, <4>2 DEF RingsInv, CopyTypes, Keeps
      <4> QED BY <4>1, <4>2
    <3> QED BY <3>1, <3>2, <3>4 DEF RingsInv
  <2>7. PICK w, r \in [0..Stages -> 0..Len(Text)] : Flow(w, r)
    BY DEF FlowInv
  <2>8. PICK a : a = w[s]
    OBVIOUS
  <2>9. PICK b : b = r[s - 1]
    OBVIOUS
  <2>10. PICK z : z = r[s]
    OBVIOUS
  <2>11. /\ z \in 0..Len(Text) /\ a \in 0..Len(Text) /\ a \in z..Len(Text)
         /\ b \in 0..Len(Text) /\ b \in a..Len(Text)
    <3>1. /\ w[s] \in 0..Len(Text) /\ r[s - 1] \in w[s]..Len(Text) /\ r[s - 1] \in 0..Len(Text)
          /\ r[s] \in 0..Len(Text) /\ w[s] \in r[s]..Len(Text)
      BY <1>2, <2>7, FlowBounds
    <3> QED BY <2>8, <2>9, <2>10, <3>1
  <2>12. todo[p] = Part(a, b)
    <3>1. Active(p) /\ Hand(p) = todo[p]
      BY <1>1, <1>2 DEF Active, Living, Hand
    <3> QED BY <1>a, <2>7, <2>8, <2>9, <3>1 DEF Flow
  <2>13. Chan[q] = Part(z, a)
    <3>1. s \in 1..(Stages - 1)
      BY <1>0, <1>2
    <3> QED BY <1>1, <1>3, <2>7, <2>8, <2>10, <3>1 DEF Flow
  <2>14. /\ k \in 0..(b - a) /\ a + k \in 0..Len(Text) /\ a + k \in a..Len(Text)
         /\ b \in (a + k)..Len(Text) /\ a + k \in z..Len(Text) /\ Len(todo[p]) = b - a
    <3>1. Len(todo[p]) = b - a
      BY <2>11, <2>12, PartValue
    <3> QED BY <1>0, <2>3, <2>11, <3>1
  <2>15. todo'[p] = Part(a + k, b) /\ Chan'[q] = Part(z, a + k)
    <3>1. SubSeq(todo[p], 1, k) = Part(a, a + k) /\ todo'[p] = Part(a + k, b)
      <4>1. /\ SubSeq(Part(a, b), 1, k) = Part(a, a + k)
            /\ SubSeq(Part(a, b), k + 1, Len(Part(a, b))) = Part(a + k, b)
        BY <2>11, <2>14, PartSplit
      <4> QED BY <2>4, <2>12, <4>1
    <3>2. Chan'[q] = Part(z, a) \o Part(a, a + k)
      BY <1>1, <2>2, <2>13, <3>1 DEF Chan
    <3>3. Part(z, a) \o Part(a, a + k) = Part(z, a + k)
      BY <2>11, <2>14, PartJoin
    <3> QED BY <3>1, <3>2, <3>3
  <2>16. \A x \in Pipes : x # q => Chan'[x] = Chan[x]
    BY <2>2 DEF Chan
  <2>17. Active(p)' => Hand(p)' = Part(a + k, b)
    <3>1. CASE k = Len(todo[p])
      <4>1. pc'[p] = "user" /\ Hand(p)' = <<>>
        BY <1>2, <2>4, <3>1 DEF Hand
      <4>2. a + k = b
        BY <1>0, <2>11, <2>14, <3>1
      <4> QED BY <2>11, <4>1, <4>2, PartWhole
    <3>2. CASE k # Len(todo[p])
      BY <2>4, <2>15, <3>2 DEF Hand
    <3> QED BY <3>1, <3>2
  <2>18. ~ Lying /\ ~ Lying'
    <3>1. ~ Lying
      BY <1>0, <1>1, <1>2, NoneLaying DEF Waits, Laying, Joining, Lying
    <3> QED BY <3>1 DEF Lying
  <2> DEFINE v == [w EXCEPT ![s] = a + k]
  <2>19. /\ v \in [0..Stages -> 0..Len(Text)] /\ v[s] = a + k
         /\ \A t \in 0..Stages : t # s => v[t] = w[t]
    BY <1>2, <2>14
  <2> HIDE DEF v
  <2>20. Flow(v, r)'
    <3>1. r[0] = Len(Text) /\ out' = Part(0, v[Stages])
      BY <1>0, <1>2, <2>7, <2>19 DEF Flow
    <3>2. \A t \in 1..Stages : v[t] <= r[t - 1] /\ (t < Stages => r[t] <= v[t])
      <4> TAKE t \in 1..Stages
      <4>1. CASE t = s
        BY <1>0, <2>9, <2>10, <2>11, <2>14, <2>19, <4>1
      <4>2. CASE t # s
        <5>1. v[t] = w[t]
          BY <1>0, <2>19, <4>2
        <5> QED BY <2>7, <5>1 DEF Flow
      <4> QED BY <4>1, <4>2
    <3>3. \A t \in 1..(Stages - 1) : Stages - 1 - t \in Pipes => Chan'[Stages - 1 - t] = Part(r[t], v[t])
      <4> TAKE t \in 1..(Stages - 1)
      <4> HAVE Stages - 1 - t \in Pipes
      <4>1. CASE t = s
        BY <1>3, <2>10, <2>15, <2>19, <4>1
      <4>2. CASE t # s
        <5>1. Stages - 1 - t # q /\ t \in 0..Stages
          BY <1>0, <1>2, <1>3, <4>2
        <5>2. Chan'[Stages - 1 - t] = Chan[Stages - 1 - t] /\ v[t] = w[t]
          BY <2>16, <2>19, <4>2, <5>1
        <5> QED BY <2>7, <5>2 DEF Flow
      <4> QED BY <4>1, <4>2
    <3>4. \A x \in Proc : Active(x)' => Hand(x)' = Part(v[stage'[x]], r[stage'[x] - 1])
      <4> TAKE x \in Proc
      <4> HAVE Active(x)'
      <4>1. CASE x = p
        BY <1>a, <2>9, <2>17, <2>19, <4>1
      <4>2. CASE x # p
        <5>1. Active(x) /\ Hand(x)' = Hand(x) /\ stage'[x] = stage[x]
          BY <2>5, <4>2, KeepsHand
        <5>2. stage[x] # s /\ stage[x] \in 0..Stages
          BY <1>0, <1>a, <1>2, <4>2, <5>1 DEF OnePerStage, Active, Joining, LineInv, StepOf
        <5> QED BY <2>7, <2>19, <5>1, <5>2 DEF Flow
      <4> QED BY <4>1, <4>2
    <3> QED BY <2>18, <3>1, <3>2, <3>3, <3>4 DEF Flow, Lying
  <2> QED BY <2>6, <2>7, <2>19, <2>20 DEF FlowInv
<1> QED BY <1>1, <1>4, <1>5
LEMMA ReadFlow ==
  ASSUME AllInv, FlowInv, NEW p \in Proc, ReadLoop(p), UNCHANGED <<stage, step, copied, out>>
  PROVE  RingsInv' /\ FlowInv'
<1>0. /\ RingsInv /\ LineInv /\ LeftInv /\ LpdTypes /\ StepOf(p) /\ OnePerStage
      /\ Stages \in Nat \ {0} /\ Len(Text) \in Nat
  BY ShellAssumption, LenProperties DEF AllInv, LineInv
<1>a. PICK s : s = stage[p] - 1
  OBVIOUS
<1>b. PICK q : q = Into(p)
  OBVIOUS
<1>1. /\ pc[p] = "read" /\ q \in Pipes
      /\ UNCHANGED <<fd, oftVars, endVars, buf, head, todo>>
      /\ \/ \E k \in Nat : Taken(p, q, k)
         \/ /\ data[q] = 0 /\ nwriter[q] > 0
            /\ UNCHANGED <<tail, data, room, ubuf, pc, cur, want>>
         \/ /\ data[q] = 0 /\ nwriter[q] <= 0 /\ Returns(p)
            /\ UNCHANGED <<tail, data, room, ubuf>>
  BY <1>0, <1>b, ReadFacts
<1>2. /\ step[p] = "got" /\ ubuf[p] = <<>> /\ stage[p] = s + 1 /\ s + 1 \in 1..Stages
      /\ s \in 1..Stages /\ s < Stages /\ s \in 0..Stages /\ s \in 1..(Stages - 1)
  <2>1. step[p] = "got" /\ stage[p] > 1 /\ ubuf[p] = <<>> /\ stage[p] \in 0..Stages
    BY <1>0, <1>1, LoopPipe DEF StepOf
  <2> QED BY <1>0, <1>a, <2>1
<1>3. q = Stages - 1 - s /\ UNCHANGED busy
  <2>1. UNCHANGED busy
    BY <1>1 DEF endVars
  <2>2. q = Stages - stage[p]
    BY <1>b DEF Into
  <2> QED BY <1>0, <1>2, <2>1, <2>2
<1>4. CASE UNCHANGED <<tail, data, room, ubuf>> /\ (Returns(p) \/ UNCHANGED <<pc, cur, want>>)
  <2>1. UNCHANGED ringVars
    BY <1>1, <1>4 DEF ringVars
  <2>2. /\ \A x \in Proc \ {p} : Keeps(x)
        /\ pc'[p] \in {"user", "read"} /\ cur'[p] \in {0, cur[p]} /\ want'[p] \in {0, want[p]}
    BY <1>0, <1>1, <1>4, OnProcesses DEF Keeps, Returns
  <2>3. Functions'
    BY <1>0, <1>1, <1>4 DEF RingsInv, Functions, Returns
  <2>4. CopyTypes(p)' /\ cur'[p] \in Nat /\ want'[p] \in Nat
    BY <1>0, <1>1, <1>4, <2>2 DEF RingsInv, CopyTypes
  <2>5. step'[p] \notin Laying /\ (Active(p)' => Active(p) /\ Hand(p)' = Hand(p))
    BY <1>1, <1>2, <1>4, <2>2 DEF Laying, Active, Living, Hand
  <2> QED BY <1>3, <2>1, <2>2, <2>3, <2>4, <2>5, CommandFlow
<1>5. ASSUME NEW k \in Nat, Taken(p, q, k) PROVE RingsInv' /\ FlowInv'
  <2>1. Rings /\ Fits(q) /\ UNCHANGED <<busy, buf, head, todo>>
    BY <1>0, <1>1, <1>3 DEF RingsInv, Rings, WholeRing, Fits
  <2>2. /\ \A x \in Pipes : RingOf(x)' /\ room'[x] + data'[x] = room[x] + data[x]
        /\ Chan' = [Chan EXCEPT ![q] = SubSeq(@, k + 1, Len(@))]
        /\ ubuf' = [ubuf EXCEPT ![p] = SubSeq(Chan[q], 1, k)]
    BY <1>1, <1>5, <2>1, TakenRing
  <2>3. k \in 1..data[q] /\ Returns(p)
    BY <1>5 DEF Taken
  <2>4. /\ ubuf'[p] = SubSeq(Chan[q], 1, k) /\ todo' = todo
        /\ pc'[p] = "user" /\ cur'[p] = 0 /\ want'[p] = 0
    BY <1>0, <1>1, <2>2, <2>3, OnProcesses DEF Returns
  <2>5. \A x \in Proc \ {p} : Keeps(x)
    BY <1>0, <1>1, <2>2, <2>3, OnProcesses DEF Keeps, Returns
  <2>c. Chan[q] \in Seq(Byte) /\ Len(Chan[q]) = data[q]
    BY <1>1, <2>1, ChanValue DEF Rings
  <2>6. RingsInv'
    <3>1. Functions'
      BY <1>0, <1>1, <1>5, <2>3 DEF RingsInv, Functions, Taken, Returns
    <3>2. \A x \in Pipes : WholeRing(x)'
      BY <1>0, <2>2 DEF RingsInv, WholeRing
    <3>3. CopyTypes(p)' /\ cur'[p] \in Nat /\ want'[p] \in Nat
      <4>1. ubuf'[p] \in Seq(Byte)
        BY <2>3, <2>4, <2>c
      <4> QED BY <1>0, <2>4, <4>1 DEF RingsInv, CopyTypes
    <3>4. ASSUME NEW x \in Proc PROVE CopyTypes(x)' /\ cur'[x] \in Nat /\ want'[x] \in Nat
      <4>1. CASE x = p
        BY <3>3, <4>1
      <4>2. CASE x # p
        BY <1>0, <2>5, <4>2 DEF RingsInv, CopyTypes, Keeps
      <4> QED BY <4>1, <4>2
    <3> QED BY <3>1, <3>2, <3>4 DEF RingsInv
  <2>7. PICK w, r \in [0..Stages -> 0..Len(Text)] : Flow(w, r)
    BY DEF FlowInv
  <2>8. PICK a : a = r[s]
    OBVIOUS
  <2>9. PICK b : b = w[s]
    OBVIOUS
  <2>10. PICK z : z = w[s + 1]
    OBVIOUS
  <2>11. /\ z \in 0..Len(Text) /\ a \in 0..Len(Text) /\ a \in z..Len(Text)
         /\ b \in 0..Len(Text) /\ b \in a..Len(Text)
    <3>1. r[s] \in 0..Len(Text) /\ w[s] \in r[s]..Len(Text) /\ w[s] \in 0..Len(Text)
      BY <1>2, <2>7, FlowBounds
    <3>2. w[s + 1] \in 0..Len(Text) /\ r[(s + 1) - 1] \in w[s + 1]..Len(Text)
      BY <1>2, <2>7, FlowBounds
    <3>3. (s + 1) - 1 = s
      BY <1>2
    <3> QED BY <2>8, <2>9, <2>10, <3>1, <3>2, <3>3
  <2>12. z = a
    <3>1. Active(p) /\ Hand(p) = <<>>
      BY <1>1, <1>2 DEF Active, Living, Hand
    <3>2. Hand(p) = Part(w[s + 1], r[(s + 1) - 1])
      BY <1>2, <2>7, <3>1 DEF Flow
    <3>3. Part(z, a) = <<>>
      <4>1. (s + 1) - 1 = s
        BY <1>2
      <4> QED BY <2>8, <2>10, <3>1, <3>2, <4>1
    <3>4. Len(Part(z, a)) = a - z
      BY <2>11, PartValue
    <3> QED BY <1>0, <2>11, <3>3, <3>4
  <2>13. Chan[q] = Part(a, b)
    BY <1>1, <1>2, <1>3, <2>7, <2>8, <2>9 DEF Flow
  <2>14. /\ k \in 1..(b - a) /\ k \in 0..(b - a) /\ a + k \in 0..Len(Text) /\ a + k \in a..Len(Text)
         /\ b \in (a + k)..Len(Text)
    <3>1. Len(Chan[q]) = b - a
      BY <2>11, <2>13, PartValue
    <3> QED BY <1>0, <2>3, <2>c, <2>11, <3>1
  <2>15. ubuf'[p] = Part(a, a + k) /\ Chan'[q] = Part(a + k, b)
    <3>1. /\ SubSeq(Part(a, b), 1, k) = Part(a, a + k)
          /\ SubSeq(Part(a, b), k + 1, Len(Part(a, b))) = Part(a + k, b)
      BY <2>11, <2>14, PartSplit
    <3>2. Chan'[q] = SubSeq(Chan[q], k + 1, Len(Chan[q]))
      BY <1>1, <2>2 DEF Chan
    <3> QED BY <2>4, <2>13, <3>1, <3>2
  <2>16. \A x \in Pipes : x # q => Chan'[x] = Chan[x]
    BY <2>2 DEF Chan
  <2>17. Hand(p)' = Part(z, a + k)
    BY <1>2, <2>4, <2>12, <2>15 DEF Hand
  <2>18. ~ Lying /\ ~ Lying'
    <3>1. ~ Lying
      <4> SUFFICES ASSUME Lying PROVE FALSE
        OBVIOUS
      <4>1. w[s] = 0 /\ r[s] = 0
        BY <1>2, <2>7 DEF Flow, Lying
      <4> QED BY <2>8, <2>9, <2>14, <4>1
    <3> QED BY <3>1 DEF Lying
  <2> DEFINE v == [r EXCEPT ![s] = a + k]
  <2>19. /\ v \in [0..Stages -> 0..Len(Text)] /\ v[s] = a + k
         /\ \A t \in 0..Stages : t # s => v[t] = r[t]
    BY <1>2, <2>14
  <2> HIDE DEF v
  <2>20. Flow(w, v)'
    <3>1. v[0] = Len(Text) /\ out' = Part(0, w[Stages])
      BY <1>0, <1>2, <2>7, <2>19 DEF Flow
    <3>2. \A t \in 1..Stages : w[t] <= v[t - 1] /\ (t < Stages => v[t] <= w[t])
      <4> TAKE t \in 1..Stages
      <4>1. w[t] <= r[t - 1] /\ (t < Stages => r[t] <= w[t])
        BY <2>7 DEF Flow
      <4>2. w[t] <= v[t - 1]
        <5>1. CASE t = s + 1
          <6>1. t - 1 = s
            BY <1>2, <5>1
          <6>2. w[t] = z /\ v[t - 1] = a + k
            BY <2>10, <2>19, <5>1, <6>1
          <6> QED BY <1>0, <2>11, <2>12, <2>14, <6>2
        <5>2. CASE t # s + 1
          <6>1. t - 1 \in 0..Stages /\ t - 1 # s
            BY <1>0, <1>2, <5>2
          <6>2. v[t - 1] = r[t - 1]
            BY <2>19, <6>1
          <6> QED BY <4>1, <6>2
        <5> QED BY <5>1, <5>2
      <4>3. t < Stages => v[t] <= w[t]
        <5>1. CASE t = s
          BY <1>0, <2>9, <2>11, <2>14, <2>19, <5>1
        <5>2. CASE t # s
          <6>1. v[t] = r[t]
            BY <1>0, <2>19, <5>2
          <6> QED BY <4>1, <6>1
        <5> QED BY <5>1, <5>2
      <4> QED BY <4>2, <4>3
    <3>3. \A t \in 1..(Stages - 1) : Stages - 1 - t \in Pipes => Chan'[Stages - 1 - t] = Part(v[t], w[t])
      <4> TAKE t \in 1..(Stages - 1)
      <4> HAVE Stages - 1 - t \in Pipes
      <4>1. CASE t = s
        BY <1>3, <2>9, <2>15, <2>19, <4>1
      <4>2. CASE t # s
        <5>1. Stages - 1 - t # q /\ t \in 0..Stages
          BY <1>0, <1>2, <1>3, <4>2
        <5>2. Chan'[Stages - 1 - t] = Chan[Stages - 1 - t] /\ v[t] = r[t]
          BY <2>16, <2>19, <4>2, <5>1
        <5> QED BY <2>7, <5>2 DEF Flow
      <4> QED BY <4>1, <4>2
    <3>4. \A x \in Proc : Active(x)' => Hand(x)' = Part(w[stage'[x]], v[stage'[x] - 1])
      <4> TAKE x \in Proc
      <4> HAVE Active(x)'
      <4>1. CASE x = p
        <5>1. stage'[p] = s + 1 /\ stage'[p] - 1 = s
          BY <1>2
        <5>2. v[stage'[p] - 1] = a + k /\ w[stage'[p]] = z
          BY <2>10, <2>19, <5>1
        <5> QED BY <2>17, <4>1, <5>2
      <4>2. CASE x # p
        <5>1. Active(x) /\ Hand(x)' = Hand(x) /\ stage'[x] = stage[x]
          BY <2>5, <4>2, KeepsHand
        <5>2. stage[x] # s + 1 /\ stage[x] \in 1..Stages
          <6>1. step[x] # "none" /\ StepOf(x)
            BY <1>0, <5>1 DEF Active, Joining, LineInv
          <6>2. stage[x] \in 0..Stages /\ stage[x] # 0
            BY <6>1 DEF StepOf
          <6>3. stage[x] # stage[p]
            BY <1>0, <4>2, <6>1 DEF OnePerStage
          <6> QED BY <1>0, <1>2, <6>2, <6>3
        <5>3. v[stage[x] - 1] = r[stage[x] - 1]
          <6>1. PICK y \in 1..Stages : y = stage[x]
            BY <5>2
          <6>2. y # s + 1 /\ Stages \in Nat /\ s \in Nat
            BY <1>0, <1>2, <5>2, <6>1, ShellAssumption
          <6>3. y - 1 \in 0..Stages /\ y - 1 # s
            BY <6>2
          <6> QED BY <2>19, <6>1, <6>3
        <5>4. Hand(x) = Part(w[stage[x]], r[stage[x] - 1])
          BY <2>7, <5>1 DEF Flow
        <5> QED BY <5>1, <5>3, <5>4
      <4> QED BY <4>1, <4>2
    <3> QED BY <2>18, <3>1, <3>2, <3>3, <3>4 DEF Flow, Lying
  <2> QED BY <2>6, <2>7, <2>19, <2>20 DEF FlowInv
<1> QED BY <1>1, <1>4, <1>5
LEMMA FlowStutter ==
  ASSUME RingsInv, FlowInv,
         UNCHANGED <<ringVars, busy, pc, callVars, stage, step, copied, out>>
  PROVE  RingsInv' /\ FlowInv'
<1>1. UNCHANGED <<buf, head, tail, data, room, cur, want, todo, ubuf>>
  BY DEF ringVars, callVars
<1>2. RingsInv'
  BY <1>1 DEF RingsInv, Functions, WholeRing, RingOf, CopyTypes
<1>3. UNCHANGED Chan
  BY <1>1 DEF Chan, Oldest
<1>4. PICK w, r \in [0..Stages -> 0..Len(Text)] : Flow(w, r)
  BY DEF FlowInv
<1>5. \A x \in Proc : Keeps(x)
  BY <1>1 DEF Keeps
<1>6. Lying' => Lying
  BY DEF Lying
<1>7. \A x \in Proc : Active(x)' => Active(x) /\ Hand(x)' = Hand(x) /\ stage'[x] = stage[x]
  BY <1>5, KeepsHand
<1>8. \A q \in Pipes : Chan'[q] = Chan[q]
  BY <1>3
<1>9. Flow(w, r)'
  BY <1>4, <1>6, <1>7, <1>8, FlowFrom
<1> QED BY <1>2, <1>4, <1>9 DEF FlowInv

LEMMA FlowStep ==
  ASSUME AllInv, FlowInv, [SNext]_svars PROVE RingsInv' /\ FlowInv'
<1>1. CASE UNCHANGED svars
  <2>1. UNCHANGED <<ringVars, busy, pc, callVars, stage, step, copied, out>>
    BY <1>1 DEF svars, vars, shellVars, endVars
  <2> QED BY <2>1, FlowStutter DEF AllInv
<1> SUFFICES ASSUME NEW p \in Proc, Step(p) PROVE RingsInv' /\ FlowInv'
  BY <1>1 DEF SNext
<1>2. CASE ShellStep(p)
  BY <1>2, ShellFlow, LastOneFlow, MakeFlow, ForkFlow DEF ShellStep
<1>3. CASE CommandStep(p)
  BY <1>3, ShowOutFlow, PutOutFlow, GetInFlow, LookFlow, QuitFlow DEF CommandStep
<1>4. ASSUME ExitClose(p), UNCHANGED <<stage, step, copied, out>>
      PROVE  RingsInv' /\ FlowInv'
  <2>1. /\ pc[p] = "exit" /\ CloseAny(p, Min({i \in Fds : fd[p][i] # None}), None)
        /\ UNCHANGED <<ringVars, pc, callVars>>
    BY <1>4 DEF ExitClose, At
  <2> QED BY <1>4, <2>1, ClosingFlow
<1>5. CASE Kernel(p)
  BY <1>4, <1>5, ReadFlow, WriteFlow, ExitDoneFlow DEF Kernel, Loop
<1> QED BY <1>2, <1>3, <1>5 DEF Step

LEMMA FlowInit == SInit => RingsInv /\ FlowInv
<1> SUFFICES ASSUME SInit PROVE RingsInv /\ FlowInv
  OBVIOUS
<1>1. /\ Init /\ (\A p \in Proc : copied[p] = <<>>) /\ out = <<>>
      /\ step = [p \in Proc |-> IF pc[p] = "user" THEN "split" ELSE "none"]
  BY DEF SInit
<1>2. /\ Functions /\ (\A q \in Pipes : RingOf(q) /\ data[q] = 0 /\ room[q] = 0)
  BY <1>1, RingInit DEF RingInv, Init
<1>3. \A p \in Proc : cur[p] = 0 /\ want[p] = 0 /\ todo[p] = <<>> /\ ubuf[p] = <<>>
  BY <1>1 DEF Init
<1>4. RingsInv
  <2>1. \A q \in Pipes : WholeRing(q)
    BY <1>2, PipeAssumption DEF WholeRing
  <2>2. ASSUME NEW p \in Proc PROVE CopyTypes(p) /\ cur[p] \in Nat /\ want[p] \in Nat
    <3>1. <<>> \in Seq(Byte)
      OBVIOUS
    <3>2. todo[p] \in Seq(Byte) /\ ubuf[p] \in Seq(Byte)
      BY <1>3, <3>1, Zenon
    <3>3. copied[p] \in Seq(Byte)
      BY <1>1, <3>1, Zenon
    <3> QED BY <1>3, <3>2, <3>3 DEF CopyTypes
  <2> QED BY <1>2, <2>1, <2>2 DEF RingsInv
<1>5. Stages \in Nat \ {0} /\ Len(Text) \in Nat /\ 0 \in 0..Len(Text) /\ Len(Text) \in 0..Len(Text)
  BY ShellAssumption, LenProperties
<1> DEFINE w == [s \in 0..Stages |-> 0]
           r == [s \in 0..Stages |-> IF s = 0 THEN Len(Text) ELSE 0]
<1>6. /\ w \in [0..Stages -> 0..Len(Text)] /\ r \in [0..Stages -> 0..Len(Text)]
      /\ r[0] = Len(Text) /\ \A s \in 1..Stages : w[s] = 0 /\ r[s] = 0
      /\ \A s \in 1..Stages : r[s - 1] \in 0..Len(Text)
  BY <1>5
<1> HIDE DEF w, r
<1>7. Part(0, 0) = <<>>
  BY <1>5, PartWhole
<1>8. \A q \in Pipes : Chan[q] = <<>>
  <2> TAKE q \in Pipes
  <2>1. Chan[q] \in Seq(Byte) /\ Len(Chan[q]) = 0
    BY <1>2, ChanValue
  <2> QED BY <2>1
<1>9. \A p \in Proc : ~ Active(p)
  BY <1>1 DEF Active, Joining
<1>10. Flow(w, r)
  <2>1. out = Part(0, w[Stages])
    BY <1>1, <1>5, <1>6, <1>7
  <2>2. \A s \in 1..Stages : w[s] <= r[s - 1] /\ (s < Stages => r[s] <= w[s])
    BY <1>5, <1>6
  <2>3. \A s \in 1..(Stages - 1) : Stages - 1 - s \in Pipes => Chan[Stages - 1 - s] = Part(r[s], w[s])
    <3> TAKE s \in 1..(Stages - 1)
    <3>1. s \in 1..Stages
      BY <1>5
    <3> QED BY <1>6, <1>7, <1>8, <3>1
  <2> QED BY <1>6, <1>9, <2>1, <2>2, <2>3 DEF Flow
<1> QED BY <1>4, <1>6, <1>10 DEF FlowInv

LEMMA FlowInOrder == FlowInv => OutInOrder
<1> SUFFICES ASSUME NEW w \in [0..Stages -> 0..Len(Text)], NEW r \in [0..Stages -> 0..Len(Text)],
                    Flow(w, r)
             PROVE  OutInOrder
  BY DEF FlowInv
<1>1. w[Stages] \in 0..Len(Text)
  BY ShellAssumption
<1> QED BY <1>1 DEF Flow, Part, OutInOrder

(* A pipeline of any number of commands, with any text, pipe size and tables, whatever
   the commands' speed and whoever exits early or dies of a broken pipe: what the last
   command has printed is the beginning of what the first one wrote. *)
THEOREM PipelineInOrder == SSpec => []OutInOrder
<1> DEFINE IInv == AllInv /\ FlowInv
<1>1. SInit => IInv
  BY ShellInit, LineInit, FlowInit DEF AllInv
<1>2. IInv /\ [SNext]_svars => IInv'
  <2> SUFFICES ASSUME AllInv, FlowInv, [SNext]_svars PROVE AllInv' /\ FlowInv'
    OBVIOUS
  <2>1. LeftInv' /\ LpdTypes'
    BY ShellStepLeft DEF AllInv
  <2>2. LineInv'
    BY <2>1, LineStep
  <2>3. RingsInv' /\ FlowInv'
    BY FlowStep
  <2> QED BY <2>1, <2>2, <2>3 DEF AllInv
<1>3. IInv => OutInOrder
  BY FlowInOrder
<1> HIDE DEF IInv
<1>4. SInit /\ [][SNext]_svars => []OutInOrder
  BY <1>1, <1>2, <1>3, PTL
<1> QED BY <1>4, PTL DEF SSpec
=============================================================================
