-------------------------------- MODULE Mount -------------------------------
(***************************************************************************)
(* Mounting (mount_umount.c): the mount table, the flags that it leaves in *)
(* the minodes of its mount points, and the processes that walk across     *)
(* (getino(), kchdir()).  The one device that can be mounted is FD, under  *)
(* any of the names that its special file has; bread() ignores the device, *)
(* so that FD holds the same files as the root.  Dir are the directories   *)
(* in the root directory.                                                  *)
(***************************************************************************)
EXTENDS Integers, FiniteSetsExt, Sequences

CONSTANTS
  Proc,
  Dir,          \* inode numbers of the directories in a root directory
  Special,      \* names of the special file
  Path,         \* [abs, names]: what the calls are given
  NMOUNT,       \* entries of the mount table, the first of which is the root's
  None

VARIABLES
  ref,          \* minode -> refCount
  held,         \* the minodes whose lock nobody will give back
  over,         \* minode -> the entry that is mounted on it, or 0
  mtab,         \* entry -> [dev, busy, name, inode]; the last is behind the table
  cwd,          \* process -> minode
  kept,         \* history, minode -> references that refused mounts have kept
  stale         \* history: an entry was unmounted that was not mounted

vars == <<ref, held, over, mtab, cwd, kept, stale>>

RootDev == 3
FD == 2
Minode == {RootDev, FD} \X ({2} \cup Dir)
RootDir == <<RootDev, 2>>
Past == NMOUNT + 1

\* What the theorems assume: the table has room for a mounted device, and the names
\* are those of directories.
Sizes ==
  /\ IsFiniteSet(Proc) /\ NMOUNT \in Nat /\ NMOUNT >= 2
  /\ Dir \cap {2, ".."} = {} /\ None \notin Minode /\ None \notin Special
  /\ Path \subseteq [abs : BOOLEAN, names : Seq(Dir \cup {".."})]

Idle == [dev |-> 0, busy |-> FALSE, name |-> None, inode |-> RootDir]
\* mountroot()
Init ==
  /\ mtab = [e \in 1..Past |->
               IF e = 1 THEN [dev |-> RootDev, busy |-> TRUE, name |-> "/", inode |-> RootDir]
               ELSE Idle]
  /\ cwd = [p \in Proc |-> RootDir]
  /\ ref = [m \in Minode |-> IF m = RootDir THEN Cardinality(Proc) + 1 ELSE 0]
  /\ over = [m \in Minode |-> 0] /\ kept = [m \in Minode |-> 0]
  /\ held = {} /\ stale = FALSE
-----------------------------------------------------------------------------
\* getmountp(): the first entry of the device, mounted or not.
Getmountp(dev) == mtab[Min({e \in 1..NMOUNT : mtab[e].dev = dev})]

\* From directory m to the one of name n, over the mount points in both directions.
Across(m) == IF over[m] = 0 THEN m ELSE <<mtab[over[m]].dev, 2>>
Walk(m, n) ==
  CASE m = None -> None
    [] m # None /\ n = ".." -> IF m = <<FD, 2>> THEN <<Getmountp(FD).inode[1], 2>> ELSE <<m[1], 2>>
    [] m # None /\ n # ".." -> IF m[2] = 2 THEN Across(<<m[1], n>>) ELSE None

\* getino() begins with P() on the root's lock or the cwd's.
Start(p, path) == IF path.abs THEN RootDir ELSE cwd[p]
Root(path) == path.abs /\ path.names = <<>>
Waits(p, path) == ~Root(path) /\ Start(p, path) \in held
Along(m, names) ==
  LET at[k \in 0..Len(names)] == IF k = 0 THEN m ELSE Walk(at[k - 1], names[k])
  IN  at[Len(names)]
Getino(p, path) == Along(Start(p, path), path.names)

\* kmount(): the entry it takes; the test for a full table is off by one.
Entry == Min({e \in 1..NMOUNT : ~mtab[e].busy} \cup {Past})

MountOk(p, s, path) ==
  LET ip == Getino(p, path) IN
  /\ ~ \E e \in 1..NMOUNT : mtab[e].busy /\ mtab[e].name = s
  /\ ~Waits(p, path) /\ ip # None

KMount(p, s, path) ==
  LET ip == Getino(p, path) IN
  /\ MountOk(p, s, path) /\ over[ip] = 0 /\ ip[2] # 2
  /\ ref' = [ref EXCEPT ![ip] = @ + 1]
  /\ over' = [over EXCEPT ![ip] = Entry]
  /\ mtab' = [mtab EXCEPT ![Entry] = [dev |-> FD, busy |-> TRUE, name |-> s, inode |-> ip]]
  /\ UNCHANGED <<held, cwd, kept, stale>>

\* "already mounted on": without the iput() that the other failures have.
MountRefused(p, s, path) ==
  LET ip == Getino(p, path) IN
  /\ MountOk(p, s, path) /\ (over[ip] # 0 \/ ip[2] = 2)
  /\ ref' = [ref EXCEPT ![ip] = @ + 1] /\ kept' = [kept EXCEPT ![ip] = @ + 1]
  /\ held' = held \cup {ip}
  /\ UNCHANGED <<over, mtab, cwd, stale>>

\* The mounted file system is in use.  (Mutant: only its root directory counts.)
RootInUse(dev) == ref[<<dev, 2>>] > 0
InUse(dev) == \E m \in Minode : m[1] = dev /\ ref[m] > 0

\* kumount(): by name, also of an entry that is no longer mounted.
KUmount(s) ==
  /\ \E e \in 2..NMOUNT : mtab[e].name = s
  /\ LET e == Min({x \in 2..NMOUNT : mtab[x].name = s})
         ip == mtab[e].inode
     IN  /\ ref[ip] <= 1 /\ ~InUse(mtab[e].dev) /\ ip \notin held
         /\ over' = [over EXCEPT ![ip] = 0]
         /\ ref' = [ref EXCEPT ![ip] = 0]
         /\ mtab' = [mtab EXCEPT ![e].busy = FALSE]
         /\ stale' = (stale \/ ~mtab[e].busy)
  /\ UNCHANGED <<held, cwd, kept>>

\* kchdir()
KChdir(p, path) ==
  LET new == IF Root(path) THEN RootDir ELSE Getino(p, path) IN
  /\ ~Waits(p, path) /\ new # None /\ new # cwd[p]
  /\ cwd[p] \notin held
  /\ ref' = [ref EXCEPT ![cwd[p]] = Max({@ - 1, 0}), ![new] = @ + 1]
  /\ cwd' = [cwd EXCEPT ![p] = new]
  /\ UNCHANGED <<held, over, mtab, kept, stale>>

\* upwd(): the name of directory m, where its mount point has one, and its parent.
Up(m) ==
  LET ip == IF m[2] = 2 THEN Getmountp(m[1]).inode ELSE m
  IN  [name |-> ip[2], parent |-> <<ip[1], 2>>]
\* It calls itself with the parent until that is the root: once for a directory of the
\* root's, once more for one that is mounted on it, and does not return otherwise.
Calls == 2
Upwd(m) ==
  LET wd[k \in 0..Calls] ==
        IF k = 0 THEN m ELSE IF wd[k - 1] = RootDir THEN RootDir ELSE Up(wd[k - 1]).parent
      n == Cardinality({k \in 0..Calls : wd[k] # RootDir})
  IN  [i \in 1..n |-> Up(wd[n - i]).name]

MaxKept == 1  \* bound: refused mounts on one minode
Next ==
  \/ \E p \in Proc, path \in Path :
       \/ \E s \in Special :
            KMount(p, s, path) \/ (MountRefused(p, s, path) /\ kept[Getino(p, path)] < MaxKept)
       \/ KChdir(p, path)
  \/ \E s \in Special : KUmount(s)
Spec == Init /\ [][Next]_vars
-----------------------------------------------------------------------------
\* Every variable holds a value of its type.
TypeOK ==
  /\ ref \in [Minode -> Nat] /\ kept \in [Minode -> 0..MaxKept]
  /\ held \subseteq Minode /\ over \in [Minode -> {0} \cup (2..Past)]
  /\ \A e \in 1..Past : mtab[e].inode \in Minode /\ mtab[e].dev \in {0, FD, RootDev}
  /\ cwd \in [Proc -> Minode]

\* A mount has gone to the entry behind the table.
Overrun == mtab[Past].busy

\* A mount point is the entry's that is mounted on it, and nobody is in a file
\* system that is not mounted, until the table is overrun.
NobodyStranded ==
  ~Overrun =>
  /\ \A m \in Minode : over[m] # 0 => mtab[over[m]].busy /\ mtab[over[m]].inode = m
  /\ \A p \in Proc : cwd[p][1] = FD => \E e \in 2..Past : mtab[e].busy

\* What kgetcwd() tells leads to the working directory, unless something is mounted
\* over that, and as long as the first of its device's entries is mounted, which is
\* the one that pwd and ".." take, and on a directory of the root's: from one of the
\* device's own upwd() would not return.
PwdLeadsThere ==
  ~Overrun /\ ~stale =>
    \A p \in Proc :
      LET first == Getmountp(cwd[p][1]) IN
      over[cwd[p]] = 0 /\ first.busy /\ first.inode[1] = RootDev =>
        Along(RootDir, Upwd(cwd[p])) = cwd[p]

\* A minode's refCount is the number of its users, until an entry is unmounted
\* that was not mounted; a mount that is refused stays one.
RefsExact ==
  ~stale /\ ~Overrun => \A m \in Minode :
    ref[m] = kept[m] + Cardinality({p \in Proc : cwd[p] = m})
                     + Cardinality({e \in 1..Past : mtab[e].busy /\ mtab[e].inode = m})
=============================================================================
