---------------------------- MODULE Mount_proofs ----------------------------
(***************************************************************************)
(* Theorems about mounts, for any finite set of processes, any directories *)
(* and paths, and a mount table of any size.                               *)
(***************************************************************************)
EXTENDS MCFiles, ListFacts, FiniteSetTheorems

-----------------------------------------------------------------------------
(* Minodes, entries and who uses them. *)
Minodes == Mounts!Minode
Past == Mounts!Past
FD == Mounts!FD
RootDev == Mounts!RootDev
Slots == 1..Past
Mtab == [dev : {0, FD, RootDev}, busy : BOOLEAN, name : Special \cup {None, "/"}, inode : Minodes]

Walkers(w, m) == {p \in Walker : w[p] = m}
MountedOn(t, m) == {e \in Slots : t[e].busy /\ t[e].inode = m}

(* The mount table: its first entry is the root's, and whatever has had a name is or was FD,
   mounted on a directory that is no root. *)
TableInv ==
  /\ mtab \in [Slots -> Mtab]
  /\ mtab[1].dev = RootDev /\ mtab[1].busy
  /\ \A e \in 2..Past :
       /\ mtab[e].dev # RootDev
       /\ mtab[e].name # None \/ mtab[e].busy => mtab[e].dev = FD
       /\ mtab[e].dev = FD => mtab[e].inode[2] # 2

(* Nobody gets into FD unless an entry of the table has had it, so that getmountp() finds one;
   until the table is overrun, an entry that is mounted. *)
HasDevice == \E e \in 2..NMOUNT : mtab[e].dev = FD
Entered == HasDevice /\ (~ Mounts!Overrun => \E e \in 2..Past : mtab[e].busy)
EnteredInv ==
  /\ mtab[Past].busy => HasDevice
  /\ \A m \in Minodes : over[m] # 0 => mtab[over[m]].dev = FD /\ Entered
  /\ \A p \in Walker : where[p][1] = FD => Entered

(* Who is in FD is counted there even when the counts of the root's minodes are wrong. *)
InDevice == \A m \in Minodes : m[1] = FD => Cardinality(Walkers(where, m)) <= ref[m]

(* What is mounted is what the mount point says. *)
Pointed ==
  ~ stale /\ ~ Mounts!Overrun => \A e \in 2..NMOUNT : mtab[e].busy => over[mtab[e].inode] = e
Owned ==
  ~ Mounts!Overrun => \A m \in Minodes : over[m] # 0 => mtab[over[m]].busy /\ mtab[over[m]].inode = m

Referred ==
  ~ stale /\ ~ Mounts!Overrun => \A m \in Minodes :
    ref[m] = kept[m] + Cardinality(Walkers(where, m)) + Cardinality(MountedOn(mtab, m))

Typed ==
  /\ ref \in [Minodes -> Nat] /\ kept \in [Minodes -> 0..1] /\ held \subseteq Minodes
  /\ over \in [Minodes -> {0} \cup (2..Past)] /\ where \in [Walker -> Minodes]

MountInv ==
  /\ Typed /\ TableInv /\ EnteredInv /\ InDevice
  /\ Pointed /\ Owned /\ Referred
-----------------------------------------------------------------------------
(* The operators of the standard modules, as Mount has them. *)
LEMMA SameOperators ==
  /\ \A S : Mounts!IsFiniteSet(S) <=> IsFiniteSet(S)
  /\ \A S : Mounts!Cardinality(S) = Cardinality(S)
  /\ \A S : Mounts!Min(S) = Min(S)
  /\ \A S : Mounts!Max(S) = Max(S)
<1>1. \A S : Mounts!IsFiniteSet(S) <=> IsFiniteSet(S)
  BY DEF Mounts!IsFiniteSet, IsFiniteSet
<1>2. \A S : Mounts!Cardinality(S) = Cardinality(S)
  BY DEF Mounts!Cardinality, Cardinality
<1>3. \A S : Mounts!Min(S) = Min(S)
  BY DEF Mounts!Min, Min
<1>4. \A S : Mounts!Max(S) = Max(S)
  BY DEF Mounts!Max, Max
<1> QED BY <1>1, <1>2, <1>3, <1>4

LEMMA MountFacts ==
  /\ NMOUNT \in Nat /\ NMOUNT >= 2 /\ Past = NMOUNT + 1 /\ Past \in Nat
  /\ FD = 2 /\ RootDev = 3 /\ IsFiniteSet(Walker)
  /\ None \notin Minodes /\ None \notin Special /\ 2 \notin Point /\ ".." \notin Point
  /\ 1 \in Slots /\ Past \in Slots /\ 2..NMOUNT \subseteq 2..Past /\ 2..Past \subseteq Slots
  /\ Past \in 2..Past /\ Past \notin 2..NMOUNT /\ 2..Past \subseteq Nat /\ 0 \notin 2..Past
<1>1. NMOUNT \in Nat /\ NMOUNT >= 2 /\ Past = NMOUNT + 1 /\ FD = 2 /\ RootDev = 3 /\ IsFiniteSet(Walker)
  BY MountsHold, SameOperators DEF Mounts!Sizes, Past, FD, RootDev, Mounts!Past, Mounts!FD, Mounts!RootDev
<1>2. None \notin Minodes /\ None \notin Special /\ 2 \notin Point /\ ".." \notin Point
  BY MountsHold DEF Mounts!Sizes, Minodes
<1> QED BY <1>1, <1>2 DEF Slots

LEMMA MinodeFacts ==
  /\ \A m \in Minodes : m[1] \in {RootDev, FD} /\ m[2] \in {2} \cup Point /\ m = <<m[1], m[2]>>
  /\ \A d \in {RootDev, FD}, n \in {2} \cup Point :
       <<d, n>> \in Minodes /\ <<d, n>>[1] = d /\ <<d, n>>[2] = n
  /\ Mounts!RootDir \in Minodes /\ Mounts!RootDir = <<RootDev, 2>>
  /\ Mounts!RootDir[1] = RootDev /\ RootDev # FD
BY DEF Minodes, RootDev, FD, Mounts!Minode, Mounts!RootDev, Mounts!FD, Mounts!RootDir

LEMMA PathFacts ==
  ASSUME NEW path \in Route
  PROVE  path.names \in Seq(Point \cup {".."}) /\ path.abs \in BOOLEAN
BY MountsHold DEF Mounts!Sizes

LEMMA EntryTyped ==
  ASSUME TableInv, NEW e \in Slots
  PROVE  /\ mtab[e].dev \in {0, FD, RootDev} /\ mtab[e].busy \in BOOLEAN
         /\ mtab[e].name \in Special \cup {None, "/"} /\ mtab[e].inode \in Minodes
BY DEF TableInv, Mtab

(* The minodes a process may find. *)
Places == {None} \cup {m \in Minodes : m[1] = FD => Entered}

(* getmountp() of FD, once there is one. *)
LEMMA FirstEntry ==
  ASSUME TableInv, HasDevice
  PROVE  \E e \in 2..NMOUNT : Mounts!Getmountp(FD) = mtab[e] /\ mtab[e].dev = FD
<1> DEFINE S == {e \in 1..NMOUNT : mtab[e].dev = FD}
<1>1. S \subseteq Nat /\ S # {}
  BY MountFacts DEF HasDevice
<1>2. Min(S) \in S
  BY <1>1, MinOfNats
<1>3. Min(S) # 1
  BY <1>2, MinodeFacts DEF TableInv
<1>4. Min(S) \in 2..NMOUNT
  BY <1>2, <1>3, MountFacts
<1>5. Mounts!Getmountp(FD) = mtab[Min(S)]
  BY SameOperators DEF Mounts!Getmountp
<1> QED BY <1>2, <1>4, <1>5

LEMMA WalkStays ==
  ASSUME TableInv, EnteredInv, NEW m \in Places, NEW n \in Point \cup {".."}
  PROVE  Mounts!Walk(m, n) \in Places
<1> USE DEF Places
<1>1. CASE m = None
  BY <1>1 DEF Mounts!Walk
<1> SUFFICES ASSUME m # None PROVE Mounts!Walk(m, n) \in Places
  BY <1>1
<1>2. m \in Minodes /\ (m[1] = FD => Entered)
  OBVIOUS
<1>3. CASE n = ".."
  <2>1. CASE m = <<Mounts!FD, 2>>
    <3>1. Entered /\ HasDevice
      BY <1>2, <2>1 DEF FD, Entered
    <3>2. PICK e \in 2..NMOUNT : Mounts!Getmountp(FD) = mtab[e] /\ mtab[e].dev = FD
      BY <3>1, FirstEntry
    <3>3. mtab[e].inode \in Minodes
      BY EntryTyped, MountFacts
    <3>4. Mounts!Walk(m, n) = <<mtab[e].inode[1], 2>>
      BY <1>3, <2>1, <3>2 DEF Mounts!Walk, FD
    <3>5. Mounts!Walk(m, n) \in Minodes
      BY <3>3, <3>4, MinodeFacts
    <3> QED BY <3>1, <3>5
  <2>2. CASE m # <<Mounts!FD, 2>>
    <3>1. Mounts!Walk(m, n) = <<m[1], 2>>
      BY <1>3, <2>2 DEF Mounts!Walk
    <3> QED BY <1>2, <3>1, MinodeFacts
  <2> QED BY <2>1, <2>2
<1>4. CASE n # ".."
  <2>1. CASE m[2] # 2
    BY <1>4, <2>1 DEF Mounts!Walk
  <2>2. CASE m[2] = 2
    <3> DEFINE d == <<m[1], n>>
    <3>1. d \in Minodes /\ d[1] = m[1]
      BY <1>2, <1>4, MinodeFacts
    <3>2. Mounts!Walk(m, n) = Mounts!Across(d)
      BY <1>4, <2>2 DEF Mounts!Walk
    <3>3. CASE over[d] = 0
      <4>1. Mounts!Across(d) = d
        BY <3>3 DEF Mounts!Across
      <4> QED BY <1>2, <3>1, <3>2, <4>1
    <3>4. CASE over[d] # 0
      <4>1. mtab[over[d]].dev = FD /\ Entered
        BY <3>1, <3>4 DEF EnteredInv
      <4>2. Mounts!Across(d) = <<FD, 2>>
        BY <3>4, <4>1 DEF Mounts!Across
      <4>3. Mounts!Across(d) \in Minodes
        BY <4>2, MinodeFacts
      <4> QED BY <3>2, <4>1, <4>3
    <3> QED BY <3>3, <3>4
  <2> QED BY <2>1, <2>2
<1> QED BY <1>3, <1>4

(* Along() goes by Walk(), name by name, and stays in V. *)
Closed(V, N) == \A v \in V, n \in N : Mounts!Walk(v, n) \in V
Trail(V, b, list) ==
  \E f \in [0..Len(list) -> V] :
    /\ f[0] = b /\ \A k \in 1..Len(list) : f[k] = Mounts!Walk(f[k - 1], list[k])
    /\ Mounts!Along(b, list) = f[Len(list)]

LEMMA AlongSteps ==
  ASSUME NEW V, NEW b, NEW N, NEW list, b \in V, list \in Seq(N), Closed(V, N)
  PROVE  Trail(V, b, list)
<1> DEFINE n == Len(list)
           step == [x \in (1..n) \X V |-> Mounts!Walk(x[2], list[x[1]])]
           Rule(f) == [k \in 0..n |-> IF k = 0 THEN b ELSE Mounts!Walk(f[k - 1], list[k])]
<1>1. n \in Nat /\ \A k \in 1..n : list[k] \in N
  OBVIOUS
<1> USE DEF Closed
<1>2. step \in [(1..n) \X V -> V]
  BY <1>1
<1>3. \A k \in 1..n, v \in V : step[<<k, v>>] = Mounts!Walk(v, list[k])
  OBVIOUS
<1> HIDE DEF step
<1>r. Recursion(n, V, b, step)
  BY <1>1, <1>2 DEF Recursion
<1>4. PICK g \in [0..n -> V] : g[0] = b /\ \A i \in 1..n : g[i] = step[<<i, g[i - 1]>>]
  BY <1>r, IntervalRecursion
<1>5. \A k \in 1..n : k - 1 \in 0..n /\ k \in 0..n /\ k # 0
  BY <1>1
<1>6. \A k \in 1..n : g[k] = Mounts!Walk(g[k - 1], list[k])
  BY <1>3, <1>4, <1>5
<1>7. \A k \in 0..n : k # 0 => k \in 1..n
  BY <1>1
<1>8. g = Rule(g)
  BY <1>4, <1>6, <1>7
<1> DEFINE at == CHOOSE f : f = Rule(f)
<1>9. at = Rule(at)
  BY <1>8
<1>10. Mounts!Along(b, list) = at[n]
  BY DEF Mounts!Along
<1> HIDE DEF at
<1>11. 0 \in 0..n
  BY <1>1
<1>12. at[0] = b
  BY <1>9, <1>11
<1>13. \A k \in 1..n : at[k] = Mounts!Walk(at[k - 1], list[k])
  BY <1>5, <1>9
<1> DEFINE S == {k \in 0..n : at[k] \in V}
<1>14. 0 \in S
  BY <1>11, <1>12
<1>15. \A k \in 0..(n - 1) : k \in S => k + 1 \in S
  <2> TAKE k \in 0..(n - 1)
  <2>1. k + 1 \in 1..n /\ k + 1 \in 0..n /\ (k + 1) - 1 = k
    BY <1>1
  <2>2. at[k + 1] = Mounts!Walk(at[k], list[k + 1]) /\ list[k + 1] \in N
    BY <1>1, <1>13, <2>1
  <2> QED BY <2>1, <2>2
<1> HIDE DEF S
<1>16. \A k \in 0..n : k \in S
  BY <1>1, <1>14, <1>15, IntervalInduction
<1>17. at \in [0..n -> V]
  <2>1. \A k \in 0..n : at[k] \in V
    BY <1>16 DEF S
  <2>2. at = [k \in 0..n |-> at[k]]
    BY <1>9
  <2> HIDE DEF Rule
  <2> QED BY <2>1, <2>2
<1> QED BY <1>10, <1>12, <1>13, <1>17 DEF Trail

LEMMA GetinoStays ==
  ASSUME MountInv, NEW p \in Walker, NEW path \in Route
  PROVE  Mounts!Getino(p, path) \in Places
<1>1. TableInv /\ EnteredInv /\ where \in [Walker -> Minodes]
  BY DEF MountInv, Typed
<1>2. Mounts!RootDir \in Places
  BY MinodeFacts DEF Places
<1>3. where[p] \in Places
  BY <1>1 DEF Places, EnteredInv
<1>4. Mounts!Start(p, path) \in Places
  BY <1>2, <1>3 DEF Mounts!Start
<1>5. Closed(Places, Point \cup {".."})
  BY <1>1, WalkStays DEF Closed
<1>6. path.names \in Seq(Point \cup {".."})
  BY PathFacts
<1>7. PICK f \in [0..Len(path.names) -> Places] :
         Mounts!Along(Mounts!Start(p, path), path.names) = f[Len(path.names)]
  BY <1>4, <1>5, <1>6, AlongSteps DEF Trail
<1>8. Len(path.names) \in 0..Len(path.names)
  BY <1>6
<1> QED BY <1>7, <1>8 DEF Mounts!Getino
-----------------------------------------------------------------------------
(* How the numbers of users go. *)
LEMMA UsersFinite ==
  ASSUME NEW w, NEW t, NEW m
  PROVE  /\ IsFiniteSet(Walkers(w, m)) /\ Cardinality(Walkers(w, m)) \in Nat
         /\ IsFiniteSet(MountedOn(t, m)) /\ Cardinality(MountedOn(t, m)) \in Nat
<1>1. Walkers(w, m) \subseteq Walker /\ MountedOn(t, m) \subseteq Slots
  BY DEF Walkers, MountedOn
<1>2. IsFiniteSet(Walker) /\ IsFiniteSet(Slots)
  BY MountFacts, FS_Interval DEF Slots
<1>3. IsFiniteSet(Walkers(w, m)) /\ IsFiniteSet(MountedOn(t, m))
  BY <1>1, <1>2, FS_Subset
<1> QED BY <1>3, FS_CardinalityType

(* One walker goes to x. *)
LEMMA WalkerGoes ==
  ASSUME NEW w, NEW v, NEW p \in Walker, NEW x, NEW m, x # w[p],
         v[p] = x, \A r \in Walker \ {p} : v[r] = w[r]
  PROVE  /\ m = w[p] => Cardinality(Walkers(w, m)) >= 1
         /\ Cardinality(Walkers(v, m)) =
              IF m = x THEN Cardinality(Walkers(w, m)) + 1
              ELSE IF m = w[p] THEN Cardinality(Walkers(w, m)) - 1
              ELSE Cardinality(Walkers(w, m))
<1>1. IsFiniteSet(Walkers(w, m)) /\ Cardinality(Walkers(w, m)) \in Nat
  BY UsersFinite
<1>2. CASE m = x
  <2>1. Walkers(v, m) = Walkers(w, m) \cup {p} /\ p \notin Walkers(w, m)
    BY <1>2 DEF Walkers
  <2>2. Cardinality(Walkers(v, m)) = Cardinality(Walkers(w, m)) + 1
    BY <1>1, <2>1, FS_AddElement
  <2>3. m # w[p]
    BY <1>2
  <2> QED BY <1>2, <2>2, <2>3
<1>3. CASE m # x /\ m = w[p]
  <2>1. Walkers(v, m) = Walkers(w, m) \ {p} /\ p \in Walkers(w, m)
    BY <1>3 DEF Walkers
  <2>2. Cardinality(Walkers(v, m)) = Cardinality(Walkers(w, m)) - 1
    BY <1>1, <2>1, FS_RemoveElement
  <2>3. Cardinality(Walkers(v, m)) \in Nat
    BY UsersFinite
  <2> QED BY <1>1, <1>3, <2>2, <2>3
<1>4. CASE m # x /\ m # w[p]
  <2>1. Walkers(v, m) = Walkers(w, m)
    BY <1>4 DEF Walkers
  <2> QED BY <1>4, <2>1
<1> QED BY <1>2, <1>3, <1>4

(* An entry becomes one that is mounted on x. *)
LEMMA EntryTaken ==
  ASSUME NEW t, NEW u, NEW e \in Slots, NEW x, NEW m, ~ t[e].busy,
         u[e].busy, u[e].inode = x, \A i \in Slots \ {e} : u[i] = t[i]
  PROVE  Cardinality(MountedOn(u, m)) =
           Cardinality(MountedOn(t, m)) + (IF m = x THEN 1 ELSE 0)
<1>1. IsFiniteSet(MountedOn(t, m)) /\ Cardinality(MountedOn(t, m)) \in Nat
  BY UsersFinite
<1>2. CASE m = x
  <2>1. MountedOn(u, m) = MountedOn(t, m) \cup {e} /\ e \notin MountedOn(t, m)
    BY <1>2 DEF MountedOn
  <2>2. Cardinality(MountedOn(u, m)) = Cardinality(MountedOn(t, m)) + 1
    BY <1>1, <2>1, FS_AddElement
  <2> QED BY <1>2, <2>2
<1>3. CASE m # x
  <2>1. MountedOn(u, m) = MountedOn(t, m)
    BY <1>3 DEF MountedOn
  <2> QED BY <1>1, <1>3, <2>1
<1> QED BY <1>2, <1>3

(* An entry that was mounted is no longer. *)
LEMMA EntryLeft ==
  ASSUME NEW t, NEW u, NEW e \in Slots, NEW m, t[e].busy, ~ u[e].busy,
         \A i \in Slots \ {e} : u[i] = t[i]
  PROVE  /\ m = t[e].inode => Cardinality(MountedOn(t, m)) >= 1
         /\ Cardinality(MountedOn(u, m)) =
              Cardinality(MountedOn(t, m)) - (IF m = t[e].inode THEN 1 ELSE 0)
<1>1. IsFiniteSet(MountedOn(t, m)) /\ Cardinality(MountedOn(t, m)) \in Nat
  BY UsersFinite
<1>2. CASE m = t[e].inode
  <2>1. MountedOn(u, m) = MountedOn(t, m) \ {e} /\ e \in MountedOn(t, m)
    BY <1>2 DEF MountedOn
  <2>2. Cardinality(MountedOn(u, m)) = Cardinality(MountedOn(t, m)) - 1
    BY <1>1, <2>1, FS_RemoveElement
  <2>3. Cardinality(MountedOn(u, m)) \in Nat
    BY UsersFinite
  <2> QED BY <1>1, <1>2, <2>2, <2>3
<1>3. CASE m # t[e].inode
  <2>1. MountedOn(u, m) = MountedOn(t, m)
    BY <1>3 DEF MountedOn
  <2> QED BY <1>1, <1>3, <2>1
<1> QED BY <1>2, <1>3
-----------------------------------------------------------------------------
(* The calls *)

LEMMA MountInit == Mounts!Init => MountInv
<1> SUFFICES ASSUME Mounts!Init PROVE MountInv
  OBVIOUS
<1>1. /\ mtab \in [Slots -> Mtab] /\ mtab[1].dev = RootDev /\ mtab[1].busy
      /\ mtab[1].inode = Mounts!RootDir
      /\ \A e \in 2..Past : mtab[e] = Mounts!Idle
  <2>1. \A e \in Slots : mtab[e] =
          IF e = 1 THEN [dev |-> RootDev, busy |-> TRUE, name |-> "/", inode |-> Mounts!RootDir]
          ELSE Mounts!Idle
    BY DEF Mounts!Init, Slots, Past, RootDev
  <2>2. Mounts!Idle \in Mtab
    BY MinodeFacts DEF Mounts!Idle, Mtab
  <2>3. [dev |-> RootDev, busy |-> TRUE, name |-> "/", inode |-> Mounts!RootDir] \in Mtab
    BY MinodeFacts DEF Mtab
  <2>4. mtab \in [Slots -> Mtab]
    BY <2>1, <2>2, <2>3 DEF Mounts!Init, Slots, Past
  <2>5. \A e \in 2..Past : e \in Slots /\ e # 1
    BY MountFacts
  <2> QED BY <2>1, <2>4, <2>5, MountFacts
<1>2. Mounts!Idle.dev = 0 /\ ~ Mounts!Idle.busy /\ Mounts!Idle.name = None
  BY DEF Mounts!Idle
<1>3. TableInv
  BY <1>1, <1>2, MountFacts DEF TableInv
<1>4. /\ over = [m \in Minodes |-> 0] /\ kept = [m \in Minodes |-> 0]
      /\ where = [p \in Walker |-> Mounts!RootDir] /\ held = {} /\ ~ stale
  BY DEF Mounts!Init, Minodes
<1>5. ref = [m \in Minodes |-> IF m = Mounts!RootDir THEN Cardinality(Walker) + 1 ELSE 0]
  BY SameOperators DEF Mounts!Init, Minodes
<1>6. Cardinality(Walker) \in Nat
  BY MountFacts, FS_CardinalityType
<1>7. Typed
  BY <1>4, <1>5, <1>6, MinodeFacts DEF Typed
<1>8. EnteredInv
  BY <1>1, <1>2, <1>4, MinodeFacts, MountFacts DEF EnteredInv
<1>9. \A m \in Minodes : Walkers(where, m) = IF m = Mounts!RootDir THEN Walker ELSE {}
  BY <1>4 DEF Walkers
<1>10. \A m \in Minodes : MountedOn(mtab, m) = IF m = Mounts!RootDir THEN {1} ELSE {}
  <2>1. \A e \in Slots : e = 1 \/ e \in 2..Past
    BY MountFacts DEF Slots
  <2>2. \A e \in Slots : mtab[e].busy => e = 1
    BY <1>1, <1>2, <2>1
  <2>3. 1 \in Slots /\ mtab[1].busy /\ mtab[1].inode = Mounts!RootDir
    BY <1>1, MountFacts
  <2> QED BY <2>2, <2>3 DEF MountedOn
<1>11. Cardinality({1}) = 1 /\ Cardinality({}) = 0
  BY FS_Singleton, FS_EmptySet
<1>12. InDevice
  BY <1>5, <1>9, <1>11, MinodeFacts DEF InDevice
<1>13. Referred
  <2> SUFFICES ASSUME NEW m \in Minodes
               PROVE  ref[m] = kept[m] + Cardinality(Walkers(where, m)) + Cardinality(MountedOn(mtab, m))
    BY DEF Referred
  <2>1. kept[m] = 0
    BY <1>4
  <2>2. CASE m = Mounts!RootDir
    <3>1. ref[m] = Cardinality(Walker) + 1 /\ Walkers(where, m) = Walker /\ MountedOn(mtab, m) = {1}
      BY <1>5, <1>9, <1>10, <2>2
    <3> QED BY <1>6, <1>11, <2>1, <3>1
  <2>3. CASE m # Mounts!RootDir
    <3>1. ref[m] = 0 /\ Walkers(where, m) = {} /\ MountedOn(mtab, m) = {}
      BY <1>5, <1>9, <1>10, <2>3
    <3> QED BY <1>11, <2>1, <3>1
  <2> QED BY <2>2, <2>3
<1>14. Pointed /\ Owned
  BY <1>1, <1>2, <1>4, MountFacts DEF Pointed, Owned
<1> QED BY <1>3, <1>7, <1>8, <1>12, <1>13, <1>14 DEF MountInv

(* The entry that kmount() takes is free, or the one behind the table when that is full. *)
LEMMA EntryFree ==
  ASSUME TableInv
  PROVE  /\ Mounts!Entry \in 2..Past
         /\ Mounts!Entry # Past => ~ mtab[Mounts!Entry].busy
         /\ Mounts!Entry = Past => HasDevice
<1> DEFINE S == {e \in 1..NMOUNT : ~ mtab[e].busy}
<1>1. Mounts!Entry = Min(S \cup {Past})
  BY SameOperators DEF Mounts!Entry, Past
<1>2. S \cup {Past} \subseteq Nat /\ S \cup {Past} # {}
  BY MountFacts
<1>3. Mounts!Entry \in S \cup {Past} /\ \A k \in S \cup {Past} : Mounts!Entry <= k
  BY <1>1, <1>2, MinOfNats
<1>4. 1 \notin S
  BY DEF TableInv
<1>5. Mounts!Entry \in 2..Past
  BY <1>3, <1>4, MountFacts
<1>6. ASSUME Mounts!Entry = Past PROVE HasDevice
  <2>1. 2 \in 2..NMOUNT /\ 2 \in 1..NMOUNT /\ 2 \in 2..Past /\ 2 < Past
    BY MountFacts
  <2>2. 2 \notin S
    BY <1>3, <1>6, <2>1, MountFacts
  <2>3. mtab[2].busy
    BY <2>1, <2>2
  <2> QED BY <2>1, <2>3 DEF TableInv, HasDevice
<1> QED BY <1>3, <1>5, <1>6

(* A mount takes the entry E for x, which was no mount point. *)
LEMMA MountKeeps ==
  ASSUME MountInv, NEW p \in Walker, NEW s \in Special, NEW path \in Route, Mounts!KMount(p, s, path)
  PROVE  MountInv'
<1> DEFINE x == Mounts!Getino(p, path)
           E == Mounts!Entry
           r == [dev |-> FD, busy |-> TRUE, name |-> s, inode |-> x]
<1>0. Typed /\ TableInv /\ EnteredInv /\ InDevice /\ Pointed /\ Owned /\ Referred
  BY DEF MountInv
<1>1. x \in Minodes
  <2>1. x \in Places /\ x # None
    BY GetinoStays DEF Mounts!KMount, Mounts!MountOk
  <2> QED BY <2>1 DEF Places
<1>2. E \in 2..Past /\ E \in Slots /\ (E # Past => ~ mtab[E].busy) /\ (E = Past => HasDevice)
  BY <1>0, EntryFree, MountFacts
<1>3. /\ over[x] = 0 /\ x[2] # 2
      /\ ref' = [ref EXCEPT ![x] = ref[x] + 1] /\ over' = [over EXCEPT ![x] = E]
      /\ mtab' = [mtab EXCEPT ![E] = r]
      /\ UNCHANGED <<held, where, kept, stale>>
  BY DEF Mounts!KMount, FD, Mounts!FD
<1> HIDE DEF x, E
<1>4. r \in Mtab /\ r.dev = FD /\ r.busy /\ r.name = s /\ r.inode = x
  BY <1>1 DEF Mtab
<1> HIDE DEF r
<1>5. mtab'[E] = r /\ (\A e \in Slots \ {E} : mtab'[e] = mtab[e]) /\ mtab' \in [Slots -> Mtab]
  BY <1>0, <1>2, <1>3, <1>4 DEF TableInv
<1>6. /\ \A m \in Minodes : ref'[m] = IF m = x THEN ref[m] + 1 ELSE ref[m]
      /\ \A m \in Minodes : over'[m] = IF m = x THEN E ELSE over[m]
  BY <1>0, <1>3 DEF Typed
<1>7. Typed'
  BY <1>0, <1>1, <1>2, <1>3 DEF Typed
<1>8. TableInv'
  <2>1. mtab'[1] = mtab[1]
    BY <1>2, <1>5, MountFacts
  <2>2. \A e \in 2..Past : e \in Slots
    BY MountFacts
  <2>3. FD # RootDev
    BY MountFacts
  <2> QED BY <1>0, <1>3, <1>4, <1>5, <2>1, <2>2, <2>3 DEF TableInv
<1>9. HasDevice'
  <2>1. CASE E = Past
    <3>1. \A e \in 2..NMOUNT : e \in Slots \ {E}
      BY <2>1, MountFacts
    <3> QED BY <1>2, <1>5, <2>1, <3>1 DEF HasDevice
  <2>2. CASE E # Past
    <3>1. E \in 2..NMOUNT
      BY <1>2, <2>2, MountFacts
    <3> QED BY <1>4, <1>5, <3>1 DEF HasDevice
  <2> QED BY <2>1, <2>2
<1>10. Entered'
  <2>1. mtab'[E].busy
    BY <1>4, <1>5
  <2> QED BY <1>2, <1>9, <2>1 DEF Entered
<1>11. EnteredInv'
  <2>1. ASSUME NEW m \in Minodes, over'[m] # 0 PROVE mtab'[over'[m]].dev = FD
    <3>1. CASE over'[m] = E
      BY <1>4, <1>5, <3>1
    <3>2. CASE over'[m] # E
      <4>1. over'[m] = over[m]
        BY <1>6, <3>2
      <4>2. mtab[over[m]].dev = FD /\ over[m] \in 2..Past
        BY <1>0, <2>1, <4>1 DEF EnteredInv, Typed
      <4>3. over[m] \in Slots \ {E}
        BY <3>2, <4>1, <4>2, MountFacts
      <4> QED BY <1>5, <4>1, <4>2, <4>3
    <3> QED BY <3>1, <3>2
  <2> QED BY <1>9, <1>10, <2>1 DEF EnteredInv
<1>12. InDevice'
  <2> SUFFICES ASSUME NEW m \in Minodes, m[1] = FD PROVE Cardinality(Walkers(where, m)) <= ref'[m]
    BY <1>3 DEF InDevice
  <2>1. Cardinality(Walkers(where, m)) <= ref[m] /\ ref[m] \in Nat
    BY <1>0 DEF InDevice, Typed
  <2>2. Cardinality(Walkers(where, m)) \in Nat
    BY UsersFinite
  <2> QED BY <1>6, <2>1, <2>2
<1>13. ASSUME ~ Mounts!Overrun'
       PROVE  E \in 2..NMOUNT /\ ~ mtab[E].busy /\ ~ Mounts!Overrun
  <2>1. ~ mtab'[Past].busy
    BY <1>13 DEF Mounts!Overrun, Past
  <2>2. E # Past
    BY <1>4, <1>5, <2>1
  <2>3. Past \in Slots \ {E}
    BY <2>2, MountFacts
  <2>4. ~ mtab[Past].busy
    BY <1>5, <2>1, <2>3
  <2> QED BY <1>2, <2>2, <2>4, MountFacts DEF Mounts!Overrun, Past
<1>14. Pointed'
  <2> SUFFICES ASSUME ~ stale, ~ Mounts!Overrun', NEW e \in 2..NMOUNT, mtab'[e].busy
               PROVE  over'[mtab'[e].inode] = e
    BY <1>3 DEF Pointed
  <2>1. CASE e = E
    BY <1>1, <1>4, <1>5, <1>6, <2>1
  <2>2. CASE e # E
    <3>1. e \in Slots \ {E}
      BY <2>2, MountFacts
    <3>2. mtab'[e] = mtab[e] /\ mtab[e].inode \in Minodes
      BY <1>0, <1>5, <3>1, EntryTyped
    <3>3. over[mtab[e].inode] = e /\ e # 0
      BY <1>0, <1>13, <3>2, MountFacts DEF Pointed
    <3> QED BY <1>3, <1>6, <3>2, <3>3
  <2> QED BY <2>1, <2>2
<1>15. Owned'
  <2> SUFFICES ASSUME ~ Mounts!Overrun', NEW m \in Minodes, over'[m] # 0
               PROVE  mtab'[over'[m]].busy /\ mtab'[over'[m]].inode = m
    BY DEF Owned
  <2>1. CASE m = x
    BY <1>4, <1>5, <1>6, <2>1
  <2>2. CASE m # x
    <3>1. over'[m] = over[m] /\ over[m] \in 2..Past
      BY <1>0, <1>6, <2>2 DEF Typed
    <3>2. mtab[over[m]].busy /\ mtab[over[m]].inode = m
      BY <1>0, <1>13, <3>1 DEF Owned
    <3>3. over[m] \in Slots \ {E}
      BY <1>13, <3>1, <3>2, MountFacts
    <3> QED BY <1>5, <3>1, <3>2, <3>3
  <2> QED BY <2>1, <2>2
<1>16. Referred'
  <2> SUFFICES ASSUME ~ stale, ~ Mounts!Overrun', NEW m \in Minodes
               PROVE  ref'[m] = kept[m] + Cardinality(Walkers(where, m)) + Cardinality(MountedOn(mtab', m))
    BY <1>3 DEF Referred
  <2>1. ref[m] = kept[m] + Cardinality(Walkers(where, m)) + Cardinality(MountedOn(mtab, m))
    BY <1>0, <1>13 DEF Referred
  <2>2. Cardinality(MountedOn(mtab', m)) = Cardinality(MountedOn(mtab, m)) + (IF m = x THEN 1 ELSE 0)
    BY <1>2, <1>4, <1>5, <1>13, EntryTaken
  <2>3. /\ kept[m] \in Nat /\ Cardinality(Walkers(where, m)) \in Nat
        /\ Cardinality(MountedOn(mtab, m)) \in Nat
    BY <1>0, UsersFinite DEF Typed
  <2> QED BY <1>6, <2>1, <2>2, <2>3
<1> QED BY <1>7, <1>8, <1>11, <1>12, <1>14, <1>15, <1>16 DEF MountInv

(* A mount that is refused keeps its reference. *)
LEMMA RefusedKeeps ==
  ASSUME MountInv, NEW p \in Walker, NEW s \in Special, NEW path \in Route,
         Mounts!MountRefused(p, s, path), kept[Mounts!Getino(p, path)] < Mounts!MaxKept
  PROVE  MountInv'
<1> DEFINE x == Mounts!Getino(p, path)
<1>0. Typed /\ TableInv /\ EnteredInv /\ InDevice /\ Pointed /\ Owned /\ Referred
  BY DEF MountInv
<1>1. x \in Minodes
  <2>1. x \in Places /\ x # None
    BY GetinoStays DEF Mounts!MountRefused, Mounts!MountOk
  <2> QED BY <2>1 DEF Places
<1>2. /\ ref' = [ref EXCEPT ![x] = ref[x] + 1] /\ kept' = [kept EXCEPT ![x] = kept[x] + 1]
      /\ held' = held \cup {x} /\ kept[x] < 1
      /\ UNCHANGED <<over, mtab, where, stale>>
  BY DEF Mounts!MountRefused, Mounts!MaxKept
<1> HIDE DEF x
<1>3. /\ \A m \in Minodes : ref'[m] = IF m = x THEN ref[m] + 1 ELSE ref[m]
      /\ \A m \in Minodes : kept'[m] = IF m = x THEN kept[m] + 1 ELSE kept[m]
  BY <1>0, <1>2 DEF Typed
<1>4. kept[x] + 1 \in 0..1
  BY <1>0, <1>1, <1>2 DEF Typed
<1>5. Typed'
  BY <1>0, <1>1, <1>2, <1>4 DEF Typed
<1>6. TableInv' /\ (HasDevice <=> HasDevice') /\ (Mounts!Overrun <=> Mounts!Overrun')
  BY <1>0, <1>2 DEF TableInv, HasDevice, Mounts!Overrun
<1>7. Entered <=> Entered'
  BY <1>2, <1>6 DEF Entered
<1>8. EnteredInv'
  BY <1>0, <1>2, <1>6, <1>7 DEF EnteredInv
<1>9. InDevice'
  <2> SUFFICES ASSUME NEW m \in Minodes, m[1] = FD PROVE Cardinality(Walkers(where, m)) <= ref'[m]
    BY <1>2 DEF InDevice
  <2>1. Cardinality(Walkers(where, m)) <= ref[m] /\ ref[m] \in Nat
    BY <1>0 DEF InDevice, Typed
  <2>2. Cardinality(Walkers(where, m)) \in Nat
    BY UsersFinite
  <2> QED BY <1>3, <2>1, <2>2
<1>10. Pointed' /\ Owned'
  BY <1>0, <1>2, <1>6 DEF Pointed, Owned
<1>11. Referred'
  <2> SUFFICES ASSUME ~ stale, ~ Mounts!Overrun, NEW m \in Minodes
               PROVE  ref'[m] = kept'[m] + Cardinality(Walkers(where, m)) + Cardinality(MountedOn(mtab, m))
    BY <1>2, <1>6 DEF Referred
  <2>1. ref[m] = kept[m] + Cardinality(Walkers(where, m)) + Cardinality(MountedOn(mtab, m))
    BY <1>0 DEF Referred
  <2>2. /\ kept[m] \in Nat /\ Cardinality(Walkers(where, m)) \in Nat
        /\ Cardinality(MountedOn(mtab, m)) \in Nat
    BY <1>0, UsersFinite DEF Typed
  <2> QED BY <1>3, <2>1, <2>2
<1> QED BY <1>5, <1>6, <1>8, <1>9, <1>10, <1>11 DEF MountInv

(* An entry is unmounted, with nobody in its device. *)
LEMMA UmountKeeps ==
  ASSUME MountInv, NEW s \in Special, Mounts!KUmount(s)
  PROVE  MountInv'
<1> DEFINE S == {i \in 2..NMOUNT : mtab[i].name = s}
           e == Min(S)
           x == mtab[e].inode
<1>0. Typed /\ TableInv /\ EnteredInv /\ InDevice /\ Pointed /\ Owned /\ Referred
  BY DEF MountInv
<1>1. e \in 2..NMOUNT /\ mtab[e].name = s
  <2>1. S \subseteq Nat /\ S # {}
    BY MountFacts DEF Mounts!KUmount
  <2>2. e \in S
    BY <2>1, MinOfNats
  <2> QED BY <2>2
<1>2. Mounts!Min({i \in 2..NMOUNT : mtab[i].name = s}) = e
  BY SameOperators
<1>3. /\ ref[x] <= 1 /\ ~ Mounts!InUse(mtab[e].dev)
      /\ over' = [over EXCEPT ![x] = 0] /\ ref' = [ref EXCEPT ![x] = 0]
      /\ mtab' = [mtab EXCEPT ![e].busy = FALSE] /\ stale' = (stale \/ ~ mtab[e].busy)
      /\ UNCHANGED <<held, where, kept>>
  BY <1>2 DEF Mounts!KUmount
<1> HIDE DEF S, e
<1>4. e \in 2..Past /\ e \in Slots /\ e # Past /\ e # 1
  BY <1>1, MountFacts
<1>5. mtab[e].dev = FD
  BY <1>0, <1>1, <1>4, MountFacts DEF TableInv
<1>6. x \in Minodes
  BY <1>0, <1>4, EntryTyped
<1> DEFINE r == [mtab[e] EXCEPT !.busy = FALSE]
<1>7. /\ r \in Mtab /\ ~ r.busy /\ r.dev = mtab[e].dev /\ r.name = mtab[e].name /\ r.inode = x
  BY <1>0, <1>4 DEF TableInv, Mtab
<1>8. mtab' = [mtab EXCEPT ![e] = r]
  BY <1>3
<1> HIDE DEF r
<1>9. mtab'[e] = r /\ (\A i \in Slots \ {e} : mtab'[i] = mtab[i]) /\ mtab' \in [Slots -> Mtab]
  BY <1>0, <1>4, <1>7, <1>8 DEF TableInv
<1>10. \A i \in Slots : mtab'[i].dev = mtab[i].dev /\ mtab'[i].inode = mtab[i].inode
                        /\ mtab'[i].name = mtab[i].name /\ (mtab'[i].busy => mtab[i].busy)
  BY <1>7, <1>9
<1>x. x = mtab[e].inode
  OBVIOUS
<1> HIDE DEF x
<1>11. /\ \A m \in Minodes : ref'[m] = IF m = x THEN 0 ELSE ref[m]
       /\ \A m \in Minodes : over'[m] = IF m = x THEN 0 ELSE over[m]
  BY <1>0, <1>3 DEF Typed
<1>12. \A m \in Minodes : m[1] = FD => ref[m] = 0 /\ Cardinality(Walkers(where, m)) = 0 /\ Walkers(where, m) = {}
  <2> TAKE m \in Minodes
  <2> SUFFICES ASSUME m[1] = FD
               PROVE  ref[m] = 0 /\ Cardinality(Walkers(where, m)) = 0 /\ Walkers(where, m) = {}
    OBVIOUS
  <2>1. ref[m] \in Nat /\ ~ (ref[m] > 0)
    BY <1>0, <1>3, <1>5 DEF Typed, Mounts!InUse, Minodes
  <2>2. Cardinality(Walkers(where, m)) <= ref[m] /\ Cardinality(Walkers(where, m)) \in Nat
    BY <1>0, UsersFinite DEF InDevice
  <2>3. ref[m] = 0 /\ Cardinality(Walkers(where, m)) = 0
    BY <2>1, <2>2
  <2> QED BY <2>3, UsersFinite, FS_EmptySet
<1>13. Typed'
  BY <1>0, <1>3, <1>6, MountFacts DEF Typed
<1>14. TableInv'
  <2>1. mtab'[1] = mtab[1]
    BY <1>4, <1>9, MountFacts
  <2>2. \A i \in 2..Past : i \in Slots
    BY MountFacts
  <2>3. ASSUME NEW i \in 2..Past
        PROVE  /\ mtab'[i].dev # RootDev
               /\ mtab'[i].name # None \/ mtab'[i].busy => mtab'[i].dev = FD
               /\ mtab'[i].dev = FD => mtab'[i].inode[2] # 2
    BY <1>0, <1>10, <2>2, <2>3 DEF TableInv
  <2>4. mtab'[1].dev = RootDev /\ mtab'[1].busy
    BY <1>0, <2>1 DEF TableInv
  <2> QED BY <1>9, <2>3, <2>4 DEF TableInv
<1>15. mtab'[Past] = mtab[Past] /\ (Mounts!Overrun' <=> Mounts!Overrun)
  BY <1>4, <1>9, MountFacts DEF Mounts!Overrun, Past
<1>16. HasDevice' <=> HasDevice
  <2>1. \A i \in 2..NMOUNT : mtab'[i].dev = mtab[i].dev
    BY <1>10, MountFacts
  <2> QED BY <2>1 DEF HasDevice
<1>17. ASSUME ~ Mounts!Overrun, NEW m \in Minodes, over'[m] # 0
       PROVE  /\ over'[m] = over[m] /\ over[m] \in 2..Past /\ over[m] \in Slots \ {e}
              /\ mtab'[over[m]] = mtab[over[m]] /\ mtab[over[m]].busy /\ mtab[over[m]].inode = m
  <2>1. m # x /\ over'[m] = over[m]
    BY <1>11, <1>17
  <2>2. over[m] \in 2..Past /\ over[m] \in Slots
    BY <1>0, <1>17, <2>1, MountFacts DEF Typed
  <2>3. mtab[over[m]].busy /\ mtab[over[m]].inode = m
    BY <1>0, <1>17, <2>1 DEF Owned
  <2>4. over[m] # e
    BY <1>x, <2>1, <2>3
  <2> QED BY <1>9, <2>1, <2>2, <2>3, <2>4
<1>18. EnteredInv'
  <2>1. ASSUME NEW m \in Minodes, over'[m] # 0 PROVE mtab'[over'[m]].dev = FD /\ Entered'
    <3>1. over'[m] = over[m] /\ over[m] \in 2..Past /\ over[m] \in Slots
      BY <1>0, <1>11, <2>1, MountFacts DEF Typed
    <3>2. mtab[over[m]].dev = FD /\ HasDevice
      BY <1>0, <2>1, <3>1 DEF EnteredInv, Entered
    <3>3. ASSUME ~ Mounts!Overrun' PROVE \E i \in 2..Past : mtab'[i].busy
      BY <1>15, <1>17, <2>1, <3>1, <3>3
    <3> QED BY <1>10, <1>16, <3>1, <3>2, <3>3 DEF Entered
  <2>2. ASSUME NEW p \in Walker, where[p][1] = FD PROVE FALSE
    <3>1. where[p] \in Minodes /\ p \in Walkers(where, where[p])
      BY <1>0 DEF Typed, Walkers
    <3> QED BY <1>12, <2>2, <3>1
  <2> QED BY <1>0, <1>3, <1>15, <1>16, <2>1, <2>2 DEF EnteredInv
<1>19. InDevice'
  <2> SUFFICES ASSUME NEW m \in Minodes, m[1] = FD PROVE Cardinality(Walkers(where, m)) <= ref'[m]
    BY <1>3 DEF InDevice
  <2> QED BY <1>11, <1>12
<1>20. ASSUME ~ stale' PROVE ~ stale /\ mtab[e].busy
  BY <1>3, <1>20
<1>21. Pointed'
  <2> SUFFICES ASSUME ~ stale', ~ Mounts!Overrun', NEW i \in 2..NMOUNT, mtab'[i].busy
               PROVE  over'[mtab'[i].inode] = i
    BY DEF Pointed
  <2>1. i \in Slots /\ i # e
    BY <1>7, <1>9, MountFacts
  <2>2. mtab'[i] = mtab[i] /\ mtab[i].inode \in Minodes
    BY <1>0, <1>9, <2>1, EntryTyped
  <2>3. over[mtab[i].inode] = i /\ over[x] = e
    BY <1>0, <1>1, <1>15, <1>20, <1>x, <2>2 DEF Pointed
  <2>4. mtab[i].inode # x
    BY <2>1, <2>3
  <2> QED BY <1>11, <2>2, <2>3, <2>4
<1>22. Owned'
  BY <1>15, <1>17 DEF Owned
<1>23. Referred'
  <2> SUFFICES ASSUME ~ stale', ~ Mounts!Overrun', NEW m \in Minodes
               PROVE  ref'[m] = kept[m] + Cardinality(Walkers(where, m)) + Cardinality(MountedOn(mtab', m))
    BY <1>3 DEF Referred
  <2>1. ref[m] = kept[m] + Cardinality(Walkers(where, m)) + Cardinality(MountedOn(mtab, m))
    BY <1>0, <1>15, <1>20 DEF Referred
  <2>2. /\ m = x => Cardinality(MountedOn(mtab, m)) >= 1
        /\ Cardinality(MountedOn(mtab', m)) = Cardinality(MountedOn(mtab, m)) - (IF m = x THEN 1 ELSE 0)
    BY <1>4, <1>7, <1>9, <1>20, <1>x, EntryLeft
  <2>3. /\ kept[m] \in Nat /\ Cardinality(Walkers(where, m)) \in Nat
        /\ Cardinality(MountedOn(mtab, m)) \in Nat
    BY <1>0, UsersFinite DEF Typed
  <2>4. CASE m = x
    <3>1. ref[m] <= 1 /\ ref'[m] = 0
      BY <1>3, <1>11, <2>4
    <3>2. kept[m] = 0 /\ Cardinality(Walkers(where, m)) = 0 /\ Cardinality(MountedOn(mtab, m)) = 1
      BY <2>1, <2>2, <2>3, <2>4, <3>1
    <3> QED BY <2>2, <2>4, <3>1, <3>2
  <2>5. CASE m # x
    BY <1>11, <2>1, <2>2, <2>3, <2>5
  <2> QED BY <2>4, <2>5
<1> QED BY <1>13, <1>14, <1>18, <1>19, <1>21, <1>22, <1>23 DEF MountInv

(* A process goes to x. *)
LEMMA ChdirKeeps ==
  ASSUME MountInv, NEW p \in Walker, NEW path \in Route, Mounts!KChdir(p, path)
  PROVE  MountInv'
<1> DEFINE x == IF Mounts!Root(path) THEN Mounts!RootDir ELSE Mounts!Getino(p, path)
           a == where[p]
           n == Mounts!Max({ref[a] - 1, 0})
<1>0. Typed /\ TableInv /\ EnteredInv /\ InDevice /\ Pointed /\ Owned /\ Referred
  BY DEF MountInv
<1>1. /\ x # None /\ x # a
      /\ ref' = [ref EXCEPT ![a] = n, ![x] = ref[x] + 1]
      /\ where' = [where EXCEPT ![p] = x]
      /\ UNCHANGED <<held, over, mtab, kept, stale>>
  BY DEF Mounts!KChdir
<1>2. x \in Minodes /\ (x[1] = FD => Entered)
  <2>1. Mounts!Getino(p, path) \in Places /\ Mounts!RootDir \in Places
    BY GetinoStays, MinodeFacts DEF Places
  <2>2. x \in Places
    BY <2>1
  <2> HIDE DEF x
  <2> QED BY <1>1, <2>2 DEF Places
<1>3. a \in Minodes /\ ref[a] \in Nat /\ ref[x] \in Nat
  BY <1>0, <1>2 DEF Typed
<1>4. n \in Nat /\ (ref[a] >= 1 => n = ref[a] - 1)
  <2>1. n = Max({ref[a] - 1, 0})
    BY SameOperators
  <2>2. CASE ref[a] >= 1
    <3>1. \E z \in {ref[a] - 1, 0} : \A y \in {ref[a] - 1, 0} : z >= y
      BY <1>3, <2>2
    <3>2. n \in {ref[a] - 1, 0} /\ \A y \in {ref[a] - 1, 0} : n >= y
      BY <2>1, <3>1 DEF Max
    <3> HIDE DEF n
    <3> QED BY <1>3, <2>2, <3>2
  <2>3. CASE ~ (ref[a] >= 1)
    <3>1. \E z \in {ref[a] - 1, 0} : \A y \in {ref[a] - 1, 0} : z >= y
      BY <1>3, <2>3
    <3>2. n \in {ref[a] - 1, 0} /\ \A y \in {ref[a] - 1, 0} : n >= y
      BY <2>1, <3>1 DEF Max
    <3> HIDE DEF n
    <3> QED BY <1>3, <2>3, <3>2
  <2> QED BY <2>2, <2>3
<1> HIDE DEF n, x
<1>5. \A m \in Minodes : ref'[m] = IF m = x THEN ref[m] + 1 ELSE IF m = a THEN n ELSE ref[m]
  BY <1>0, <1>1, <1>2, <1>3 DEF Typed
<1>6. where'[p] = x /\ \A r \in Walker \ {p} : where'[r] = where[r]
  BY <1>0, <1>1 DEF Typed
<1>7. \A m \in Minodes :
        /\ m = a => Cardinality(Walkers(where, m)) >= 1
        /\ Cardinality(Walkers(where', m)) =
             IF m = x THEN Cardinality(Walkers(where, m)) + 1
             ELSE IF m = a THEN Cardinality(Walkers(where, m)) - 1
             ELSE Cardinality(Walkers(where, m))
  <2> TAKE m \in Minodes
  <2>1. x # where[p]
    BY <1>1
  <2> HIDE DEF a
  <2>2. /\ m = where[p] => Cardinality(Walkers(where, m)) >= 1
        /\ Cardinality(Walkers(where', m)) =
             IF m = x THEN Cardinality(Walkers(where, m)) + 1
             ELSE IF m = where[p] THEN Cardinality(Walkers(where, m)) - 1
             ELSE Cardinality(Walkers(where, m))
    <3>1. PICK w, v : w = where /\ v = where'
      OBVIOUS
    <3>2. x # w[p] /\ v[p] = x /\ \A r \in Walker \ {p} : v[r] = w[r]
      BY <1>6, <2>1, <3>1
    <3>3. /\ m = w[p] => Cardinality(Walkers(w, m)) >= 1
          /\ Cardinality(Walkers(v, m)) =
               IF m = x THEN Cardinality(Walkers(w, m)) + 1
               ELSE IF m = w[p] THEN Cardinality(Walkers(w, m)) - 1
               ELSE Cardinality(Walkers(w, m))
      BY <3>2, WalkerGoes
    <3> QED BY <3>1, <3>3
  <2> QED BY <2>2 DEF a
<1>8. Typed'
  <2>1. ref' \in [Minodes -> Nat]
    <3>1. \A m \in Minodes : ref'[m] \in Nat
      BY <1>0, <1>3, <1>4, <1>5 DEF Typed
    <3>2. ref' = [m \in Minodes |-> ref'[m]]
      BY <1>0, <1>1 DEF Typed
    <3> QED BY <3>1, <3>2
  <2>2. where' \in [Walker -> Minodes]
    BY <1>0, <1>1, <1>2 DEF Typed
  <2> QED BY <1>0, <1>1, <2>1, <2>2 DEF Typed
<1>9. TableInv' /\ (HasDevice <=> HasDevice') /\ (Mounts!Overrun <=> Mounts!Overrun')
  BY <1>0, <1>1 DEF TableInv, HasDevice, Mounts!Overrun
<1>10. Entered <=> Entered'
  BY <1>1, <1>9 DEF Entered
<1>11. EnteredInv'
  BY <1>0, <1>1, <1>2, <1>6, <1>9, <1>10 DEF EnteredInv
<1>12. InDevice'
  <2> SUFFICES ASSUME NEW m \in Minodes, m[1] = FD PROVE Cardinality(Walkers(where', m)) <= ref'[m]
    BY DEF InDevice
  <2>1. Cardinality(Walkers(where, m)) <= ref[m] /\ ref[m] \in Nat /\ Cardinality(Walkers(where, m)) \in Nat
    BY <1>0, UsersFinite DEF InDevice, Typed
  <2>2. CASE m = x
    BY <1>5, <1>7, <2>1, <2>2
  <2>3. CASE m # x /\ m = a
    <3>1. n = ref[m] - 1
      BY <1>4, <1>7, <2>1, <2>3
    <3> QED BY <1>5, <1>7, <2>1, <2>3, <3>1
  <2>4. CASE m # x /\ m # a
    BY <1>5, <1>7, <2>1, <2>4
  <2> QED BY <2>2, <2>3, <2>4
<1>13. Pointed' /\ Owned'
  BY <1>0, <1>1, <1>9 DEF Pointed, Owned
<1>14. Referred'
  <2> SUFFICES ASSUME ~ stale, ~ Mounts!Overrun, NEW m \in Minodes
               PROVE  ref'[m] = kept[m] + Cardinality(Walkers(where', m)) + Cardinality(MountedOn(mtab, m))
    BY <1>1, <1>9 DEF Referred
  <2>1. ref[m] = kept[m] + Cardinality(Walkers(where, m)) + Cardinality(MountedOn(mtab, m))
    BY <1>0 DEF Referred
  <2>2. /\ kept[m] \in Nat /\ Cardinality(Walkers(where, m)) \in Nat
        /\ Cardinality(MountedOn(mtab, m)) \in Nat
    BY <1>0, UsersFinite DEF Typed
  <2>3. CASE m = x
    BY <1>5, <1>7, <2>1, <2>2, <2>3
  <2>4. CASE m # x /\ m = a
    <3>1. n = ref[m] - 1
      BY <1>4, <1>7, <2>1, <2>2, <2>4
    <3> QED BY <1>5, <1>7, <2>1, <2>2, <2>4, <3>1
  <2>5. CASE m # x /\ m # a
    BY <1>5, <1>7, <2>1, <2>2, <2>5
  <2> QED BY <2>3, <2>4, <2>5
<1> QED BY <1>8, <1>9, <1>11, <1>12, <1>13, <1>14 DEF MountInv

LEMMA MountStep == MountInv /\ [MCNext]_allVars => MountInv'
<1> SUFFICES ASSUME MountInv, [MCNext]_allVars PROVE MountInv'
  OBVIOUS
<1>1. CASE UNCHANGED mounts
  BY <1>1 DEF mounts, MountInv, Typed, TableInv, EnteredInv, InDevice, Pointed, Owned, Referred,
              HasDevice, Entered, Mounts!Overrun
<1>2. CASE Mounts!Next
  BY <1>2, MountKeeps, RefusedKeeps, UmountKeeps, ChdirKeeps DEF Mounts!Next
<1> QED BY <1>1, <1>2 DEF MCNext, allVars, mounts
-----------------------------------------------------------------------------
(* pwd *)
Above(m) == IF m = Mounts!RootDir THEN Mounts!RootDir ELSE Mounts!Up(m).parent

(* What upwd() tells when it gets to the root. *)
LEMMA UpwdTells ==
  ASSUME NEW m
  PROVE  /\ m = Mounts!RootDir => Mounts!Upwd(m) = <<>>
         /\ m # Mounts!RootDir /\ Above(m) = Mounts!RootDir =>
              Mounts!Upwd(m) = [i \in 1..1 |-> Mounts!Up(m).name]
         /\ m # Mounts!RootDir /\ Above(m) # Mounts!RootDir /\ Above(Above(m)) = Mounts!RootDir =>
              Mounts!Upwd(m) = [i \in 1..2 |-> IF i = 1 THEN Mounts!Up(Above(m)).name ELSE Mounts!Up(m).name]
<1> DEFINE R == Mounts!RootDir
           Rule(f) == [k \in 0..Mounts!Calls |->
                         IF k = 0 THEN m ELSE IF f[k - 1] = R THEN R ELSE Mounts!Up(f[k - 1]).parent]
           wd == CHOOSE f : f = Rule(f)
           n == Cardinality({k \in 0..Mounts!Calls : wd[k] # R})
<1>1. 0..Mounts!Calls = {0, 1, 2}
  BY DEF Mounts!Calls
<1>2. wd = Rule(wd)
  <2> DEFINE g == [k \in 0..Mounts!Calls |-> IF k = 0 THEN m ELSE IF k = 1 THEN Above(m) ELSE Above(Above(m))]
  <2>1. g[0] = m /\ g[1] = Above(m) /\ g[2] = Above(Above(m))
    BY <1>1
  <2>2. \A k \in 0..Mounts!Calls :
           g[k] = IF k = 0 THEN m ELSE IF g[k - 1] = R THEN R ELSE Mounts!Up(g[k - 1]).parent
    <3> HIDE DEF g
    <3> TAKE k \in 0..Mounts!Calls
    <3>1. CASE k = 0
      BY <2>1, <3>1
    <3>2. CASE k = 1
      <4>1. k - 1 = 0
        BY <3>2
      <4> QED BY <2>1, <3>2, <4>1 DEF Above
    <3>3. CASE k = 2
      <4>1. k - 1 = 1
        BY <3>3
      <4> QED BY <2>1, <3>3, <4>1 DEF Above
    <3> QED BY <1>1, <3>1, <3>2, <3>3
  <2>3. g = Rule(g)
    <3>1. g = [k \in 0..Mounts!Calls |-> g[k]]
      OBVIOUS
    <3> HIDE DEF g
    <3> QED BY <2>2, <3>1
  <2> HIDE DEF g, Rule
  <2> QED BY <2>3
<1>3. Mounts!Upwd(m) = [i \in 1..n |-> Mounts!Up(wd[n - i]).name]
  BY SameOperators DEF Mounts!Upwd
<1> HIDE DEF wd
<1>4. wd[0] = m /\ wd[1] = Above(m) /\ wd[2] = Above(Above(m))
  <2>1. wd[0] = m
    BY <1>1, <1>2
  <2>2. wd[1] = IF wd[1 - 1] = R THEN R ELSE Mounts!Up(wd[1 - 1]).parent
    BY <1>1, <1>2
  <2>3. wd[2] = IF wd[2 - 1] = R THEN R ELSE Mounts!Up(wd[2 - 1]).parent
    BY <1>1, <1>2
  <2>4. 1 - 1 = 0 /\ 2 - 1 = 1
    OBVIOUS
  <2>5. wd[1] = Above(m)
    BY <2>1, <2>2, <2>4 DEF Above
  <2> QED BY <2>1, <2>3, <2>4, <2>5 DEF Above
<1> HIDE DEF Rule
<1>5. Above(R) = R
  BY DEF Above
<1>6. ASSUME m = R PROVE Mounts!Upwd(m) = <<>>
  <2>1. {k \in 0..Mounts!Calls : wd[k] # R} = {}
    BY <1>1, <1>4, <1>5, <1>6
  <2>2. n = 0
    BY <2>1, FS_EmptySet
  <2> HIDE DEF n
  <2> QED BY <1>3, <2>2
<1>7. ASSUME m # R, Above(m) = R
      PROVE  Mounts!Upwd(m) = [i \in 1..1 |-> Mounts!Up(m).name]
  <2>1. {k \in 0..Mounts!Calls : wd[k] # R} = {0}
    BY <1>1, <1>4, <1>5, <1>7
  <2>2. n = 1
    BY <2>1, FS_Singleton
  <2> HIDE DEF n
  <2>3. \A i \in 1..1 : wd[n - i] = m
    BY <1>4, <2>2
  <2> QED BY <1>3, <2>2, <2>3
<1>8. ASSUME m # R, Above(m) # R, Above(Above(m)) = R
      PROVE  Mounts!Upwd(m) = [i \in 1..2 |-> IF i = 1 THEN Mounts!Up(Above(m)).name ELSE Mounts!Up(m).name]
  <2>1. {k \in 0..Mounts!Calls : wd[k] # R} = {0} \cup {1}
    BY <1>1, <1>4, <1>8
  <2>2. n = 2
    <3>1. IsFiniteSet({0}) /\ Cardinality({0}) = 1
      BY FS_Singleton
    <3>2. Cardinality({0} \cup {1}) = 2
      BY <3>1, FS_AddElement
    <3> QED BY <2>1, <3>2
  <2> HIDE DEF n
  <2>3. \A i \in 1..2 : wd[n - i] = IF i = 1 THEN Above(m) ELSE m
    <3> TAKE i \in 1..2
    <3>1. CASE i = 1
      <4>1. n - i = 1
        BY <2>2, <3>1
      <4> QED BY <1>4, <3>1, <4>1
    <3>2. CASE i = 2
      <4>1. n - i = 0
        BY <2>2, <3>2
      <4> QED BY <1>4, <3>2, <4>1
    <3> QED BY <3>1, <3>2
  <2>4. \A i \in 1..2 : Mounts!Up(wd[n - i]).name = IF i = 1 THEN Mounts!Up(Above(m)).name ELSE Mounts!Up(m).name
    BY <2>3
  <2> QED BY <1>3, <2>2, <2>4
<1> QED BY <1>6, <1>7, <1>8

LEMMA AlongPlaces ==
  ASSUME TableInv, EnteredInv, NEW list \in Seq(Point \cup {".."})
  PROVE  Trail(Places, Mounts!RootDir, list)
<1>1. Mounts!RootDir \in Places
  BY MinodeFacts DEF Places
<1>2. Closed(Places, Point \cup {".."})
  BY WalkStays DEF Closed
<1> QED BY <1>1, <1>2, AlongSteps

LEMMA AlongPaths ==
  ASSUME TableInv, EnteredInv
  PROVE  /\ Mounts!Along(Mounts!RootDir, <<>>) = Mounts!RootDir
         /\ \A c \in Point : Mounts!Along(Mounts!RootDir, [i \in 1..1 |-> c]) = Mounts!Walk(Mounts!RootDir, c)
         /\ \A c, d \in Point : Mounts!Along(Mounts!RootDir, [i \in 1..2 |-> IF i = 1 THEN c ELSE d])
                                  = Mounts!Walk(Mounts!Walk(Mounts!RootDir, c), d)
<1>3. Mounts!Along(Mounts!RootDir, <<>>) = Mounts!RootDir
  <2> DEFINE s == <<>>
  <2>1. s \in Seq(Point \cup {".."}) /\ Len(s) = 0
    OBVIOUS
  <2> HIDE DEF s
  <2>2. PICK f \in [0..Len(s) -> Places] :
           f[0] = Mounts!RootDir /\ Mounts!Along(Mounts!RootDir, s) = f[Len(s)]
    BY <2>1, AlongPlaces DEF Trail
  <2>3. Mounts!Along(Mounts!RootDir, s) = Mounts!RootDir
    BY <2>1, <2>2
  <2> QED BY <2>3 DEF s
<1>4. ASSUME NEW c \in Point
      PROVE  Mounts!Along(Mounts!RootDir, [i \in 1..1 |-> c]) = Mounts!Walk(Mounts!RootDir, c)
  <2> DEFINE s == [i \in 1..1 |-> c]
  <2>1. s \in Seq(Point \cup {".."}) /\ Len(s) = 1 /\ s[1] = c
    OBVIOUS
  <2> HIDE DEF s
  <2>2. PICK f \in [0..Len(s) -> Places] :
           /\ f[0] = Mounts!RootDir /\ \A k \in 1..Len(s) : f[k] = Mounts!Walk(f[k - 1], s[k])
           /\ Mounts!Along(Mounts!RootDir, s) = f[Len(s)]
    BY <2>1, AlongPlaces DEF Trail
  <2>3. f[1] = Mounts!Walk(f[1 - 1], s[1]) /\ 1 - 1 = 0
    BY <2>1, <2>2
  <2>4. Mounts!Along(Mounts!RootDir, s) = Mounts!Walk(Mounts!RootDir, c)
    BY <2>1, <2>2, <2>3
  <2> QED BY <2>4 DEF s
<1>5. ASSUME NEW c \in Point, NEW d \in Point
      PROVE  Mounts!Along(Mounts!RootDir, [i \in 1..2 |-> IF i = 1 THEN c ELSE d])
               = Mounts!Walk(Mounts!Walk(Mounts!RootDir, c), d)
  <2> DEFINE s == [i \in 1..2 |-> IF i = 1 THEN c ELSE d]
  <2>1. s \in Seq(Point \cup {".."}) /\ Len(s) = 2 /\ s[1] = c /\ s[2] = d
    OBVIOUS
  <2> HIDE DEF s
  <2>2. PICK f \in [0..Len(s) -> Places] :
           /\ f[0] = Mounts!RootDir /\ \A k \in 1..Len(s) : f[k] = Mounts!Walk(f[k - 1], s[k])
           /\ Mounts!Along(Mounts!RootDir, s) = f[Len(s)]
    BY <2>1, AlongPlaces DEF Trail
  <2>3. 1 \in 1..Len(s) /\ 2 \in 1..Len(s) /\ 1 - 1 = 0 /\ 2 - 1 = 1
    BY <2>1
  <2>4. f[1] = Mounts!Walk(f[0], s[1]) /\ f[2] = Mounts!Walk(f[1], s[2])
    BY <2>2, <2>3
  <2>5. Mounts!Along(Mounts!RootDir, s) = Mounts!Walk(Mounts!Walk(Mounts!RootDir, c), d)
    BY <2>1, <2>2, <2>4
  <2> QED BY <2>5 DEF s
<1> QED BY <1>3, <1>4, <1>5

LEMMA PwdLeads == MountInv => Mounts!PwdLeadsThere
<1> SUFFICES ASSUME MountInv, ~ Mounts!Overrun, ~ stale, NEW p \in Walker, over[where[p]] = 0,
                    Mounts!Getmountp(where[p][1]).busy,
                    Mounts!Getmountp(where[p][1]).inode[1] = RootDev
             PROVE  Mounts!Along(Mounts!RootDir, Mounts!Upwd(where[p])) = where[p]
  BY DEF Mounts!PwdLeadsThere, RootDev
<1> DEFINE m == where[p]
           R == Mounts!RootDir
<1>0. Typed /\ TableInv /\ EnteredInv /\ Pointed
  BY DEF MountInv
<1>1. m \in Minodes /\ over[m] = 0 /\ R = <<RootDev, 2>>
  BY <1>0, MinodeFacts DEF Typed
<1> HIDE DEF m
<1>2. \A q \in Minodes, c \in Point : q[2] = 2 => Mounts!Walk(q, c) = Mounts!Across(<<q[1], c>>)
  BY MountFacts DEF Mounts!Walk
<1>3. \A q \in Minodes : over[q] = 0 => Mounts!Across(q) = q
  BY DEF Mounts!Across
<1>r. R \in Minodes /\ R[1] = RootDev /\ R[2] = 2
  BY MinodeFacts
<1>4. CASE m = R
  BY <1>0, <1>4, AlongPaths, UpwdTells DEF m
<1>5. CASE m # R /\ m[1] = RootDev
  <2>1. m[2] \in Point /\ m[2] # 2 /\ m = <<RootDev, m[2]>>
    BY <1>1, <1>5, MinodeFacts
  <2>2. Mounts!Up(m).name = m[2] /\ Above(m) = R
    BY <1>1, <1>5, <2>1 DEF Mounts!Up, Above
  <2>3. Mounts!Upwd(m) = [i \in 1..1 |-> m[2]]
    BY <1>5, <2>2, UpwdTells
  <2>4. Mounts!Walk(R, m[2]) = m
    BY <1>1, <1>2, <1>3, <1>r, <2>1
  <2> QED BY <1>0, <2>1, <2>3, <2>4, AlongPaths DEF m
<1>6. CASE m[1] = FD
  <2>1. HasDevice
    BY <1>0, <1>6 DEF EnteredInv, Entered, m
  <2>2. PICK e \in 2..NMOUNT : Mounts!Getmountp(FD) = mtab[e] /\ mtab[e].dev = FD
    BY <1>0, <2>1, FirstEntry
  <2> DEFINE q == mtab[e].inode
  <2>3. e \in Slots /\ e \in 2..Past /\ e # 0
    BY MountFacts
  <2>4. mtab[e].busy /\ q[1] = RootDev
    BY <1>6, <2>2 DEF m
  <2>5. q \in Minodes /\ q[2] # 2 /\ over[q] = e
    BY <1>0, <2>2, <2>3, <2>4, EntryTyped DEF TableInv, Pointed
  <2>6. q[2] \in Point /\ q = <<RootDev, q[2]>>
    BY <2>4, <2>5, MinodeFacts
  <2> HIDE DEF q
  <2>7. Mounts!Across(q) = <<FD, 2>>
    BY <2>2, <2>3, <2>5 DEF Mounts!Across
  <2>8. Mounts!Walk(R, q[2]) = <<FD, 2>>
    BY <1>2, <1>r, <2>6, <2>7
  <2> DEFINE F == <<FD, 2>>
  <2>9. F \in Minodes /\ F[1] = FD /\ F[2] = 2 /\ F # R /\ FD # RootDev
    BY <1>r, MinodeFacts
  <2>10. Mounts!Up(F).name = q[2] /\ Above(F) = R
    <3>1. Mounts!Getmountp(F[1]).inode = q
      BY <2>2, <2>9 DEF q
    <3> HIDE DEF F
    <3> QED BY <1>1, <2>4, <2>9, <3>1 DEF Mounts!Up, Above
  <2>11. CASE m = F
    <3>1. Mounts!Upwd(m) = [i \in 1..1 |-> q[2]]
      BY <2>9, <2>10, <2>11, UpwdTells
    <3> QED BY <1>0, <2>6, <2>8, <2>11, <3>1, AlongPaths DEF m
  <2>12. CASE m # F
    <3>1. m[2] \in Point /\ m[2] # 2 /\ m = <<FD, m[2]>>
      BY <1>1, <1>6, <2>12, MinodeFacts
    <3>2. m # R
      BY <1>6, <1>r, <2>9
    <3>3. Mounts!Up(m).name = m[2] /\ Above(m) = F
      BY <1>6, <3>1, <3>2 DEF Mounts!Up, Above
    <3>4. Mounts!Upwd(m) = [i \in 1..2 |-> IF i = 1 THEN q[2] ELSE m[2]]
      BY <2>9, <2>10, <3>2, <3>3, UpwdTells
    <3>5. Mounts!Walk(F, m[2]) = m
      <4> HIDE DEF F
      <4> QED BY <1>1, <1>2, <1>3, <2>9, <3>1
    <3> QED BY <1>0, <2>6, <2>8, <3>1, <3>4, <3>5, AlongPaths DEF m
  <2> QED BY <2>11, <2>12
<1> QED BY <1>1, <1>4, <1>5, <1>6, MinodeFacts DEF m

LEMMA MountsAreSound == MountInv => MountsSound
<1> SUFFICES ASSUME MountInv PROVE MountsSound
  OBVIOUS
<1>0. Typed /\ TableInv /\ EnteredInv /\ Owned /\ Referred
  BY DEF MountInv
<1>1. Mounts!TypeOK
  <2>1. \A e \in Slots : mtab[e].inode \in Minodes /\ mtab[e].dev \in {0, FD, RootDev}
    BY <1>0, EntryTyped
  <2> QED BY <1>0, <2>1 DEF Typed, Mounts!TypeOK, Mounts!MaxKept, Minodes, Past, Slots, FD, RootDev
<1>2. Mounts!RefsExact
  <2> SUFFICES ASSUME ~ stale, ~ Mounts!Overrun, NEW m \in Minodes
               PROVE  ref[m] = kept[m] + Mounts!Cardinality({p \in Walker : where[p] = m})
                               + Mounts!Cardinality({e \in 1..Mounts!Past : mtab[e].busy /\ mtab[e].inode = m})
    BY DEF Mounts!RefsExact, Minodes
  <2>1. ref[m] = kept[m] + Cardinality(Walkers(where, m)) + Cardinality(MountedOn(mtab, m))
    BY <1>0 DEF Referred
  <2> QED BY <2>1, SameOperators DEF Walkers, MountedOn, Slots, Past
<1>3. Mounts!NobodyStranded
  <2> SUFFICES ASSUME ~ Mounts!Overrun
               PROVE  /\ \A m \in Minodes : over[m] # 0 => mtab[over[m]].busy /\ mtab[over[m]].inode = m
                      /\ \A p \in Walker : where[p][1] = FD => \E e \in 2..Past : mtab[e].busy
    BY DEF Mounts!NobodyStranded, Minodes, FD, Past
  <2> QED BY <1>0 DEF Owned, EnteredInv, Entered
<1> QED BY <1>1, <1>2, <1>3, PwdLeads DEF MountsSound

(* For any finite set of processes, any directories and paths and a mount table of any size:
   a minode's refCount is the number of its users until an entry is unmounted that was not
   mounted (kumount() finds it by name), nobody is in a file system that is not mounted, and
   what pwd tells leads to the working directory. *)
THEOREM NobodyLost == MCSpec => []MountsSound
<1>1. MCInit => MountInv
  BY MountInit DEF MCInit
<1> QED BY <1>1, MountStep, MountsAreSound, PTL DEF MCSpec
=============================================================================
