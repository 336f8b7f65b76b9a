-------------------------------- MODULE Files --------------------------------
(***************************************************************************)
(* The file system (fs/): the inodes and the directories on the disk, the  *)
(* minodes that hold inodes in memory, the open file table, and each       *)
(* process's descriptors and current directory.                            *)
(*                                                                         *)
(* A system call is one action.  The SD card driver bears only one process *)
(* at a time (module Sdc), so the calls that read or write the disk cannot *)
(* overlap; the others neither wait nor are interrupted by anything that   *)
(* touches this state.                                                     *)
(*                                                                         *)
(* One disk.  A minode is named by the inode it holds: of calls one at a   *)
(* time iget() never loads an inode that is already in memory.  A          *)
(* directory fits in one block, and how names lie in it is left out, as    *)
(* are sizes, offsets, the contents of files, and permissions: a call that *)
(* is refused puts back all it took.                                       *)
(***************************************************************************)
EXTENDS Integers, FiniteSets, SequencesExt

CONSTANTS
  Proc,         \* the processes
  P1,           \* the one that never exits
  Ino,          \* inode numbers, of which 2 is the root directory's
  Block,        \* numbers of data blocks
  Name,         \* what files and directories are called, besides "." and ".."
  Path,         \* the paths given to system calls: [abs, names] records
  Flags,        \* what is given to open(): "RD", "RDWR", of the sets below, or of
                \* those that it does not know
  NFD,          \* descriptors of a process
  NOFT,         \* open file table entries
  MaxBlocks,    \* the most blocks a file grows to
  MaxLinks,     \* bound on i_links_count
  Careful,      \* whether programs leave alone what others use: see Spared
  None          \* no directory, no descriptor

Root == 2
Fds == 0..(NFD - 1)
Ofts == 0..(NOFT - 1)
Entries == Name \cup {".", ".."}

\* A path is absolute or starts at the current directory: its names lead down
\* from there, and "/" has none.  Of the flags, some create, some truncate and
\* some are not known.
Creates == {"WR|CREAT", "WR|CREAT|APPEND"}
Truncates == {"WR", "WR|CREAT"}
Invalid == {"RDWR|CREAT", "WR|RDWR"}

\* What the theorems presume: of the constants and, with Careful, of programs.
Sizes ==
  /\ IsFiniteSet(Proc) /\ P1 \in Proc
  /\ Ino \subseteq Nat \ {0} /\ IsFiniteSet(Ino) /\ Root \in Ino
  /\ Block \subseteq Nat \ {0} /\ Block # {}
  /\ IsFiniteSet(Name) /\ "." \notin Name /\ ".." \notin Name
  /\ Path \subseteq [abs : BOOLEAN, names : Seq(Entries)]
  /\ NFD \in Nat /\ NOFT \in Nat
  /\ MaxLinks \in Nat /\ MaxLinks >= 2
  /\ None \notin Ino /\ None \notin Ofts
  /\ Careful

VARIABLES
  inode,        \* the inodes on the disk: type, links and blocks
  imap, bmap,   \* the inodes and the blocks in use, of the bitmaps
  dir,          \* block -> name -> inode: the directory blocks; 0 where a name is not
  minode,       \* inode -> ref, lock's value, dirty, and the inode as it is in memory
  oft,          \* oft[ ]: ref, whether it is open for writing, inode
  fd,           \* res->fd[ ]
  cwd           \* res->cwd; None while there is no such process

vars == <<inode, imap, bmap, dir, minode, oft, fd, cwd>>

File == "file"
Dir == "directory"

Unset == [type |-> File, links |-> 0, blocks |-> {}]
NotLoaded == [ref |-> 0, lock |-> 1, dirty |-> FALSE, inode |-> Unset]
NotOpen == [ref |-> 0, write |-> FALSE, ino |-> 0]
NoNames == [n \in Entries |-> 0]

\* fs_init() and mountroot(); the root directory is P0's and P1's cwd, and that
\* of P0, which was there before, is the reference iget() returned.
Init ==
  LET b == Min(Block)
      root == [type |-> Dir, links |-> 2, blocks |-> {b}]
  IN  /\ inode = [[i \in Ino |-> Unset] EXCEPT ![Root] = root]
      /\ imap = {Root} /\ bmap = {b}
      /\ dir = [[x \in Block |-> NoNames] EXCEPT ![b] =
                 [NoNames EXCEPT !["."] = Root, ![".."] = Root]]
      /\ minode = [[i \in Ino |-> NotLoaded] EXCEPT ![Root] =
                    [NotLoaded EXCEPT !.ref = 2, !.inode = root]]
      /\ oft = [o \in Ofts |-> NotOpen]
      /\ fd = [p \in Proc |-> [x \in Fds |-> None]]
      /\ cwd = [[p \in Proc |-> None] EXCEPT ![P1] = Root]
-----------------------------------------------------------------------------
(* Minodes.  What a call does to the minodes and the inodes on the disk is  *)
(* composed of the following, each a function of both.                      *)

Now == [mem |-> minode, disk |-> inode]
Becomes(fs) == minode' = fs.mem /\ inode' = fs.disk

\* The value of a minode's lock after iunlock().  (Mutant: it is not called.)
StillLocked(lock) == lock
Unlocked(lock) == lock + 1

\* iget(): what becomes of a minode whose inode on the disk is r.
Got(m, r) ==
  IF m.ref > 0 THEN [m EXCEPT !.ref = @ + 1, !.lock = @ - 1]
  ELSE [ref |-> 1, lock |-> m.lock - 1, dirty |-> FALSE, inode |-> r]
Iget(fs, i) == [fs EXCEPT !.mem[i] = Got(fs.mem[i], fs.disk[i])]

\* iput(): the last user writes a dirty inode back.  Of a minode that nobody
\* uses, the content is the disk's.  (Mutant: written back only while shared.)
WriteBackShared(m) == m.ref > 1 /\ m.dirty
WriteBack(m) == m.ref = 1 /\ m.dirty
Given(m) ==
  IF m.ref <= 1 THEN [NotLoaded EXCEPT !.lock = Unlocked(m.lock)]
  ELSE [m EXCEPT !.ref = @ - 1, !.lock = Unlocked(@)]
Iput(fs, i) ==
  LET m == fs.mem[i] IN
  [disk |-> IF WriteBack(m) THEN [fs.disk EXCEPT ![i] = m.inode] ELSE fs.disk,
   mem |-> [fs.mem EXCEPT ![i] = Given(m)]]

Lock(fs, i) == [fs EXCEPT !.mem[i].lock = @ - 1]
Unlock(fs, i) == [fs EXCEPT !.mem[i].lock = Unlocked(@)]

\* ilock(mip); iput(mip)
Release(fs, i) == Iput(Lock(fs, i), i)

Inode(i) == IF minode[i].ref > 0 THEN minode[i].inode ELSE inode[i]

\* What a free inode holds is overwritten before it is read.
Forgotten(fs, i) == [fs EXCEPT !.disk[i] = Unset]

Dirtied(fs, i) == [fs EXCEPT !.mem[i].dirty = TRUE]
Set(fs, i, rec) == Dirtied([fs EXCEPT !.mem[i].inode = rec], i)

\* links_count += n
Relinked(fs, i, n) == [fs EXCEPT !.mem[i].inode.links = @ + n]
-----------------------------------------------------------------------------
(* Directories and paths *)

\* ksearch(), and findino() for "." and "..".
Search(i, n) == LET r == Inode(i) IN
  IF r.blocks = {} THEN 0 ELSE dir[CHOOSE b \in r.blocks : TRUE][n]

IsDir(i) == Inode(i).type = Dir
IsEmpty(i) == \A n \in Name : Search(i, n) = 0

\* getino(): the inode at the end of a path, or 0.  What it takes on the way it
\* puts back.
Getino(p, path) ==
  LET at[k \in 0..Len(path.names)] ==
        IF k = 0 THEN IF path.abs THEN Root ELSE cwd[p]
        ELSE LET i == at[k - 1]
             IN  IF i # 0 /\ IsDir(i) THEN Search(i, path.names[k]) ELSE 0
  IN  at[Len(path.names)]

\* dirname() and basename()
Parent(path) == [path EXCEPT !.names = Front(@)]
Base(path) == Last(path.names)

\* The paths that have a last name, which may be "." or "..".
NamePath == {path \in Path : path.names # <<>>}

\* enter_name() and rm_child(), in the directory i
Renamed(d, i, n, j) ==
  LET b == CHOOSE x \in Inode(i).blocks : TRUE IN [d EXCEPT ![b][n] = j]
-----------------------------------------------------------------------------
(* The bitmaps *)

\* ialloc() and zalloc(): 0 if there is none.
Lowest(free) == IF free = {} THEN 0 ELSE Min(free)
Ialloc == Lowest(Ino \ imap)
Zalloc == Lowest(Block \ bmap)
-----------------------------------------------------------------------------
(* The open file table *)

Alive(p) == cwd[p] # None
Held(p) == {x \in Fds : fd[p][x] # None}
FreeFds(p) == Fds \ Held(p)
FreeOfts == {o \in Ofts : oft[o].ref = 0}
\* What open() with an unknown flag leaves behind: an entry in use that nobody has a
\* descriptor of, and that points to a minode put back: whatever inode that minode
\* holds later on cannot be opened.
Leaked(o) == oft[o].ref > 0 /\ oft[o].ino = 0
IsOpen(i) == \E o \in Ofts : oft[o].ref > 0 /\ oft[o].ino = i

\* Who may open a file that is open.
Compatible(o, flag) == flag = "RD" /\ ~ oft[o].write
MayOpen(i, flag) ==
  \A o \in Ofts : oft[o].ref > 0 /\ oft[o].ino = i => Compatible(o, flag)
Left == [ref |-> 1, write |-> TRUE, ino |-> 0]

\* myclose() of the descriptors S of p: the entries that lose their last one give
\* their minode back.
After(p, S, o) == oft[o].ref - Cardinality({x \in S : fd[p][x] = o})
OftClosed(p, S) ==
  [o \in Ofts |-> IF After(p, S, o) <= 0 THEN NotOpen
                  ELSE [oft[o] EXCEPT !.ref = After(p, S, o)]]
FsClosed(p, S) ==
  LET last(o) == oft[o].ref > 0 /\ After(p, S, o) = 0
      fs[n \in 0..NOFT] ==
        IF n = 0 THEN Now
        ELSE IF last(n - 1) THEN Release(fs[n - 1], oft[n - 1].ino) ELSE fs[n - 1]
  IN  fs[NOFT]

\* Careful programs do not remove a file that is open; of directories they remove
\* only empty ones, and none as "." or ".." of a path: krmdir("/usr/.") takes the
\* "." out of the root and leaves the name usr.  The code looks after none of
\* this, nor after the following, which is
\* presumed in any case: nobody writes to a directory, links below a file or
\* duplicates a descriptor onto itself.
Spared(fine) == Careful => fine
-----------------------------------------------------------------------------
(* The system calls.  What fails without a trace is left out. *)

\* mycreat(): a new inode, written at once.
Fresh(type, links, blocks) == [type |-> type, links |-> links, blocks |-> blocks]
NewInode(fs, i, rec) == Iput(Set(Iget(fs, i), i, rec), i)
Mycreat(fs, i) == NewInode(fs, i, Fresh(File, 1, {}))

\* truncate(), if the file has any blocks.  (Mutant: they stay in i_block[ ].)
CutBlocks(fs, i, flag) == IF flag \in Truncates THEN fs.mem[i].inode.blocks ELSE {}
TruncatedKept(fs, i, cut) == IF cut = {} THEN fs ELSE Dirtied(fs, i)
Truncated(fs, i, cut) ==
  IF cut = {} THEN fs ELSE Set(fs, i, [fs.mem[i].inode EXCEPT !.blocks = {}])

\* myopen() of inode i, from its iget() on, after what has been done to get fs.
\* Without a free entry, which falloc() does find missing, the code would go on
\* with a null pointer; that is left out.
OpenInode(p, fs, i, flag) ==
  LET cut == CutBlocks(Iget(fs, i), i, flag)
      g == Truncated(Iget(fs, i), i, cut)
      o == Min(FreeOfts)
  IN  \/ /\ ~ MayOpen(i, flag) \/ \E x \in Ofts : Leaked(x)
         /\ Becomes(Iput(Iget(fs, i), i))
         /\ UNCHANGED <<bmap, oft, fd>>
      \/ /\ MayOpen(i, flag) /\ FreeOfts # {} /\ flag \in Invalid
         /\ oft' = [oft EXCEPT ![o] = Left]
         /\ Becomes(Iput(Iget(fs, i), i))
         /\ UNCHANGED <<bmap, fd>>
      \/ /\ MayOpen(i, flag) /\ FreeOfts # {} /\ flag \notin Invalid /\ FreeFds(p) = {}
         /\ bmap' = bmap \ cut
         /\ Becomes(Iput(g, i))
         /\ UNCHANGED <<oft, fd>>
      \/ /\ MayOpen(i, flag) /\ FreeOfts # {} /\ flag \notin Invalid /\ FreeFds(p) # {}
         /\ bmap' = bmap \ cut
         /\ oft' = [oft EXCEPT ![o] = [ref |-> 1, write |-> flag # "RD", ino |-> i]]
         /\ fd' = [fd EXCEPT ![p][Min(FreeFds(p))] = o]
         /\ Becomes(Unlock(Dirtied(g, i), i))

OpenOld(p, path, flag) ==
  LET i == Getino(p, path) IN
  /\ i # 0
  /\ IsDir(i) => flag = "RD"
  /\ OpenInode(p, Now, i, flag)
  /\ UNCHANGED <<imap, dir, cwd>>

\* No such file: ocreat() first.
OpenNew(p, path, flag) ==
  LET d == Getino(p, Parent(path)) IN
  /\ Getino(p, path) = 0 /\ flag \in Creates
  /\ d # 0 /\ IsDir(d) /\ Ialloc # 0
  /\ imap' = imap \cup {Ialloc}
  /\ dir' = Renamed(dir, d, Base(path), Ialloc)
  /\ OpenInode(p, Iput(Mycreat(Iget(Now, d), Ialloc), d), Ialloc, flag)
  /\ UNCHANGED cwd

\* kcreat()
Creat(p, path) ==
  LET d == Getino(p, Parent(path)) IN
  /\ d # 0 /\ IsDir(d) /\ Search(d, Base(path)) = 0 /\ Ialloc # 0
  /\ imap' = imap \cup {Ialloc}
  /\ dir' = Renamed(dir, d, Base(path), Ialloc)
  /\ Becomes(Iput(Mycreat(Iget(Now, d), Ialloc), d))
  /\ UNCHANGED <<bmap, oft, fd, cwd>>

Close(p, x) ==
  /\ oft' = OftClosed(p, {x})
  /\ Becomes(FsClosed(p, {x}))
  /\ fd' = [fd EXCEPT ![p][x] = None]
  /\ UNCHANGED <<imap, bmap, dir, cwd>>

Dup(p, x) ==
  /\ FreeFds(p) # {}
  /\ fd' = [fd EXCEPT ![p][Min(FreeFds(p))] = fd[p][x]]
  /\ oft' = [oft EXCEPT ![fd[p][x]].ref = @ + 1]
  /\ UNCHANGED <<inode, imap, bmap, dir, minode, cwd>>

Dup2(p, x, z) ==
  /\ x # z
  /\ fd' = [fd EXCEPT ![p][z] = fd[p][x]]
  /\ oft' = [OftClosed(p, {z} \cap Held(p)) EXCEPT ![fd[p][x]].ref = @ + 1]
  /\ Becomes(FsClosed(p, {z} \cap Held(p)))
  /\ UNCHANGED <<imap, bmap, dir, cwd>>

\* kwrite() and mywrite(): within the file, or one block beyond it.
Write(p, x) ==
  LET o == fd[p][x]
      i == oft[o].ino
      r == Inode(i)
  IN  /\ oft[o].write
      /\ \/ /\ r.blocks # {}
            /\ Becomes(Dirtied(Now, i))
            /\ UNCHANGED bmap
         \/ /\ Cardinality(r.blocks) < MaxBlocks /\ Zalloc # 0
            /\ bmap' = bmap \cup {Zalloc}
            /\ Becomes(Set(Now, i, [r EXCEPT !.blocks = @ \cup {Zalloc}]))
      /\ UNCHANGED <<imap, dir, oft, fd, cwd>>

\* fork(): the child has the parent's descriptors and directory.
\* (Mutants: one of the two is not counted.)
OftForgotten(p) == oft
OftShared(p) ==
  [o \in Ofts |-> [oft[o] EXCEPT !.ref = @ + Cardinality({x \in Fds : fd[p][x] = o})]]
CwdForgotten(i) == minode
CwdShared(i) == [minode EXCEPT ![i].ref = @ + 1]
Fork(p, q) ==
  /\ ~ Alive(q)
  /\ oft' = OftShared(p)
  /\ minode' = CwdShared(cwd[p])
  /\ fd' = [fd EXCEPT ![q] = fd[p]]
  /\ cwd' = [cwd EXCEPT ![q] = cwd[p]]
  /\ UNCHANGED <<inode, imap, bmap, dir>>

\* kexit(), or the end by a signal
Exit(p) ==
  /\ p # P1
  /\ oft' = OftClosed(p, Fds)
  /\ Becomes(Release(FsClosed(p, Fds), cwd[p]))
  /\ fd' = [fd EXCEPT ![p] = [x \in Fds |-> None]]
  /\ cwd' = [cwd EXCEPT ![p] = None]
  /\ UNCHANGED <<imap, bmap, dir>>

\* kmkdir() and mymkdir().  An inode or a block is lost if there is not one of
\* each; the parent's link count goes up in any case, but is not marked dirty.
Mkdir(p, path) ==
  LET d == Getino(p, Parent(path))
      n == Base(path)
      f == Iget(Now, d)
      i == Ialloc
      z == Zalloc
      ends(g) == Becomes(Iput(Relinked(g, d, 1), d))
  IN  /\ d # 0 /\ IsDir(d) /\ Inode(d).links < MaxLinks
      /\ \/ /\ Search(d, n) # 0
            /\ ends(f)
            /\ UNCHANGED <<imap, bmap, dir>>
         \/ /\ Search(d, n) = 0 /\ (i = 0 \/ z = 0)
            /\ imap' = imap \cup ({i} \ {0})
            /\ bmap' = bmap \cup ({z} \ {0})
            /\ ends(f)
            /\ UNCHANGED dir
         \/ /\ Search(d, n) = 0 /\ i # 0 /\ z # 0
            /\ imap' = imap \cup {i}
            /\ bmap' = bmap \cup {z}
            /\ dir' = Renamed([dir EXCEPT ![z] = [NoNames EXCEPT !["."] = i, ![".."] = d]],
                              d, n, i)
            /\ ends(NewInode(f, i, Fresh(Dir, 2, {z})))
      /\ UNCHANGED <<oft, fd, cwd>>

\* krmdir().  Its search for names compares the address of a block buffer with
\* the end of an array on the stack and never starts, so that a directory is
\* empty if its link count is 2.  A parent's count is not followed below 0.
\* (Mutant of Unused: who uses it is not looked at.)
AnyUse(i) == i # Root
Unused(i) == i # Root /\ minode[i].ref = 0
Rmdir(p, path) ==
  LET i == Getino(p, path)
      d == Search(i, "..")
      f == Iput(Iget(Iget(Now, i), d), i)
  IN  /\ i # 0 /\ IsDir(i) /\ Unused(i) /\ Inode(i).links <= 2
      /\ Spared(IsEmpty(i) /\ Base(path) \in Name)
      /\ Inode(d).links > 0
      /\ dir' = Renamed([x \in Block |-> IF x \in Inode(i).blocks THEN NoNames ELSE dir[x]],
                        d, Base(path), 0)
      /\ bmap' = bmap \ Inode(i).blocks
      /\ imap' = imap \ {i}
      /\ Becomes(Forgotten(Iput(Dirtied(Relinked(f, d, -1), d), d), i))
      /\ UNCHANGED <<oft, fd, cwd>>

Chdir(p, path) ==
  LET i == Getino(p, path) IN
  /\ i # 0 /\ i # cwd[p] /\ IsDir(i)
  /\ Becomes(Unlock(Release(Iget(Now, i), cwd[p]), i))
  /\ cwd' = [cwd EXCEPT ![p] = i]
  /\ UNCHANGED <<imap, bmap, dir, oft, fd>>

\* klink().  (Mutant: the new count is not marked dirty.)
LinkedClean(fs, i) == Relinked(fs, i, 1)
Linked(fs, i) == Dirtied(Relinked(fs, i, 1), i)
Link(p, old, new) ==
  LET i == Getino(p, old)
      d == Getino(p, Parent(new))
      f == Iget(Iget(Now, i), d)
  IN  /\ i # 0 /\ ~ IsDir(i) /\ Getino(p, new) = 0
      /\ d # 0 /\ IsDir(d)
      /\ Inode(i).links < MaxLinks
      /\ dir' = Renamed(dir, d, Base(new), i)
      /\ Becomes(Iput(Iput(Linked(f, i), i), d))
      /\ UNCHANGED <<imap, bmap, oft, fd, cwd>>

\* kunlink().  The blocks are never freed: the test for a symbolic link is always
\* false.
Unlink(p, path) ==
  LET i == Getino(p, path)
      d == Getino(p, Parent(path))
      g == Relinked(Iput(Dirtied(Iget(Iget(Now, i), d), d), d), i, -1)
  IN  /\ i # 0 /\ ~ IsDir(i)
      /\ Spared(~ IsOpen(i))
      /\ dir' = Renamed(dir, d, Base(path), 0)
      /\ \/ /\ Inode(i).links > 1
            /\ Becomes(Iput(Dirtied(g, i), i))
            /\ UNCHANGED imap
         \/ /\ Inode(i).links <= 1
            /\ Becomes(Forgotten(Iput(g, i), i))
            /\ imap' = imap \ {i}
      /\ UNCHANGED <<bmap, oft, fd, cwd>>

\* kchmod(), kchown() and ktouch()
Touch(p, path) ==
  LET i == Getino(p, path) IN
  /\ i # 0
  /\ Becomes(Iput(Dirtied(Iget(Now, i), i), i))
  /\ UNCHANGED <<imap, bmap, dir, oft, fd, cwd>>

\* kstat(): the minode is taken, also that of "." which is there, and put back.
Stat(p, path) ==
  LET i == Getino(p, path) IN
  /\ i # 0
  /\ Becomes(Iput(Iget(Now, i), i))
  /\ UNCHANGED <<imap, bmap, dir, oft, fd, cwd>>

\* ksync(): each dirty minode is put out as if by its last user.
Sync ==
  LET out == {i \in Ino : minode[i].ref > 0 /\ minode[i].dirty} IN
  /\ inode' = [i \in Ino |-> IF i \in out THEN minode[i].inode ELSE inode[i]]
  /\ minode' = [i \in Ino |->
       IF i \in out THEN [minode[i] EXCEPT !.dirty = FALSE] ELSE minode[i]]
  /\ UNCHANGED <<imap, bmap, dir, oft, fd, cwd>>

OnDescriptor(p, x) ==
  Close(p, x) \/ Dup(p, x) \/ Write(p, x) \/ \E z \in Fds : Dup2(p, x, z)

OnPath(p, path) ==
  \/ Chdir(p, path) \/ Touch(p, path) \/ Stat(p, path)
  \/ \E flag \in Flags : OpenOld(p, path, flag)

OnName(p, path) ==
  \/ Creat(p, path) \/ Mkdir(p, path) \/ Rmdir(p, path) \/ Unlink(p, path)
  \/ \E flag \in Flags : OpenNew(p, path, flag)
  \/ \E old \in Path : Link(p, old, path)

Call(p) ==
  /\ Alive(p)
  /\ \/ Exit(p) \/ Sync
     \/ \E q \in Proc : Fork(p, q)
     \/ \E x \in Held(p) : OnDescriptor(p, x)
     \/ \E path \in Path : OnPath(p, path)
     \/ \E path \in NamePath : OnName(p, path)

Next == \E p \in Proc : Call(p)
Spec == Init /\ [][Next]_vars
-----------------------------------------------------------------------------
(* Properties *)

\* Every variable holds a value of its type; a minode that nobody uses is clean
\* and unlocked.
InodeType ==
  [type : {File, Dir}, links : 0..MaxLinks, blocks : SUBSET Block]
TypeOK ==
  /\ inode \in [Ino -> InodeType]
  /\ imap \subseteq Ino /\ bmap \subseteq Block
  /\ dir \in [Block -> [Entries -> Ino \cup {0}]]
  /\ \A i \in Ino :
       /\ minode[i] \in [ref : Nat, lock : Int, dirty : BOOLEAN, inode : InodeType]
       /\ minode[i].ref = 0 => minode[i] = NotLoaded
  /\ \A o \in Ofts :
       \/ oft[o] = NotOpen
       \/ oft[o] \in [ref : Nat \ {0}, write : BOOLEAN, ino : Ino \cup {0}]
  /\ fd \in [Proc -> [Fds -> Ofts \cup {None}]]
  /\ cwd \in [Proc -> Ino \cup {None}]

\* Between two calls a minode's refCount is the number of its users: the root
\* pointer, current directories and open file table entries; its lock is free;
\* and an entry's refCount is the number of its descriptors, but for the entries
\* that an unknown flag has left: they count one that nobody has, for ever.
CwdsAt(i) == {p \in Proc : cwd[p] = i}
OftsOf(i) == {o \in Ofts : oft[o].ref > 0 /\ oft[o].ino = i}
FdsTo(o) == {h \in Proc \X Fds : fd[h[1]][h[2]] = o}
RefsExact ==
  /\ \A i \in Ino :
       /\ minode[i].ref = Cardinality(CwdsAt(i)) + Cardinality(OftsOf(i))
                            + (IF i = Root THEN 1 ELSE 0)
       /\ minode[i].lock = 1
  /\ \A o \in Ofts : oft[o].ref = Cardinality(FdsTo(o)) + (IF Leaked(o) THEN 1 ELSE 0)

\* The inodes that names lead to.
Below(S) == {Search(d, n) : d \in {i \in S : IsDir(i)}, n \in Name} \ {0}
InUse ==
  LET within[k \in 0..Cardinality(Ino)] ==
        IF k = 0 THEN {Root} ELSE within[k - 1] \cup Below(within[k - 1])
  IN  within[Cardinality(Ino)]
NamesOf(dirs, i) == {h \in dirs \X Name : Search(h[1], h[2]) = i}

\* A name leads to an inode that is allocated, and the link count of a file, in
\* memory or, when nobody uses it, on the disk, is the number of its names: no
\* change of klink() or kunlink() gets lost in iput().  This and the next two hold
\* for careful programs only: see Spared.
NamesCounted ==
  LET inUse == InUse
      dirs == {i \in inUse : IsDir(i)}
  IN  \A i \in inUse :
        /\ i \in imap
        /\ ~ IsDir(i) => Inode(i).links = Cardinality(NamesOf(dirs, i))

\* The directories are a tree: each but the root has one name, in the directory
\* that its ".." is; and whatever is open or a current directory is in it, so
\* that nobody's directory is removed under him.
DirectoryTree ==
  LET inUse == InUse
      dirs == {i \in inUse : IsDir(i)}
  IN  /\ \A d \in dirs :
           /\ Search(d, ".") = d
           /\ IF d = Root THEN Search(d, "..") = Root
              ELSE \E n \in Name : NamesOf(dirs, d) = {<<Search(d, ".."), n>>}
      /\ \A p \in Proc : Alive(p) => cwd[p] \in dirs
      /\ \A o \in Ofts : oft[o].ref > 0 /\ ~ Leaked(o) => oft[o].ino \in inUse

\* No block belongs to two files or is free in the bitmap while it belongs to
\* one, whatever truncate(), rmdir and failed calls do.
BlocksOwned ==
  LET inUse == InUse IN
  \A i \in inUse :
    /\ Inode(i).blocks \subseteq bmap
    /\ IsDir(i) => Cardinality(Inode(i).blocks) = 1
    /\ \A j \in inUse \ {i} : Inode(i).blocks \cap Inode(j).blocks = {}

\* A file that one process has open for writing is not opened by another or a
\* second time: "compatible: must be both READ" (fs/open_close.c).
WriterAlone ==
  \A o \in Ofts : oft[o].write /\ ~ Leaked(o) => OftsOf(oft[o].ino) = {o}

\* Both of the above: who uses what is counted right, and nobody writes to a file
\* that is open twice.
UsersExact == RefsExact /\ WriterAlone

\* krmdir() removes a directory only if it is empty; of a step.
EmptyIfRemoved == \A i \in imap \ imap' : IsDir(i) => IsEmpty(i)
==============================================================================
