------------------------------ MODULE FileData ------------------------------
(***************************************************************************)
(* The contents of a file (fs/read.c, fs/write.c, lseek() and truncate()): *)
(* how its bytes lie in direct, indirect and doubly indirect blocks, which *)
(* zalloc() and zdalloc() take from and give back to the block bitmap      *)
(* beside a second file.  A call holds the file's lock throughout.         *)
(*                                                                         *)
(* A block has W places, for a byte or for a block number.  There is one   *)
(* buffer, readbuf, behind every bread(), and every zalloc() ends with the *)
(* group descriptor in it.                                                 *)
(***************************************************************************)
EXTENDS Integers, FiniteSets, SequencesExt

CONSTANTS
  Fd,           \* descriptors, each with an open file table entry of its own
  Block,        \* the numbers of the data blocks, which follow the tables'
  W,            \* BLKSIZE, and the numbers in an indirect block
  ND,           \* direct blocks of an inode
  Input,        \* what programs write: sequences of bytes
  Foreign,      \* what is in the other file
  MaxSize,      \* bound on offsets
  Beyond        \* whether programs seek past the end of the file

VARIABLES
  disk,         \* block -> its contents
  used, free,   \* the block bitmap, and the count of free blocks beside it
  size, ptr,    \* i_size; i_block[ ]: ND direct, one indirect, one double
  theirs,       \* the blocks of the other file
  fd,           \* descriptor -> mode and offset
  got,          \* what the last read() returned
  wild          \* brelse() has followed an uninitialised pointer, or the group
                \* descriptor has been overwritten

vars == <<disk, used, free, size, ptr, theirs, fd, got, wild>>

Cells == 0..(W - 1)
Zeros == [c \in Cells |-> 0]
Filled == [c \in Cells |-> Foreign]

\* The boot block, which is all zeros, and the group descriptor: the numbers
\* of the bitmaps and of the inode table, as many as fit.
Boot == 0
GD == 2
Descriptor == [c \in Cells |-> 6 + c]

Closed == [mode |-> "closed", off |-> 0]
Init ==
  /\ disk = [b \in {Boot, GD} \cup Block |->
             IF b = GD THEN Descriptor ELSE IF b = Boot THEN Zeros ELSE Filled]
  /\ used = {} /\ theirs = {} /\ free = Cardinality(Block)
  /\ size = 0 /\ ptr = [i \in 0..(ND + 1) |-> 0]
  /\ fd = [f \in Fd |-> Closed]
  /\ got = <<>> /\ wild = FALSE
-----------------------------------------------------------------------------
(* The disk and the inode together; blk is the block in hand, 0 if there is *)
(* none, and bp whether that pointer has been set in this call.             *)

Now == [disk |-> disk, used |-> used, free |-> free, size |-> size, ptr |-> ptr,
        off |-> 0, in |-> <<>>, blk |-> 0, full |-> FALSE, bp |-> FALSE, wild |-> FALSE]

\* incFreeBlocks(), decFreeBlocks()
Counted(fs, n) == [fs EXCEPT !.free = @ + n]

Zalloc(fs) ==
  LET unused == Block \ fs.used IN
  IF unused = {} THEN [fs EXCEPT !.blk = 0, !.full = TRUE]
  ELSE Counted([fs EXCEPT !.blk = Min(unused), !.used = @ \cup {Min(unused)}], -1)

\* zdalloc() of each block of a set.  What stays behind in a block that is free
\* is of no more consequence than the other file's bytes.
Freed(fs, S) ==
  Counted([fs EXCEPT !.used = @ \ S,
                     !.disk = [b \in DOMAIN @ |-> IF b \in S THEN Filled ELSE @[b]]],
          Cardinality(S))

\* brelse(bp) on the way out of a full disk.
Released(fs) == [fs EXCEPT !.wild = ~fs.bp]

Direct(fs, l) ==
  IF fs.ptr[l] # 0 THEN [fs EXCEPT !.blk = fs.ptr[l]]
  ELSE LET z == Zalloc(fs) IN [z EXCEPT !.ptr[l] = z.blk]

\* The block of block numbers that i_block[i] stands for, made if need be.
Table(fs, i) ==
  IF fs.ptr[i] # 0 THEN fs
  ELSE LET z == Zalloc(fs) IN
       IF z.full THEN z
       ELSE [z EXCEPT !.ptr[i] = z.blk, !.disk[z.blk] = Zeros]

\* Through buf12, which zalloc() leaves alone.  (Mutant: the number is not
\* put into the block.)
IndirectLost(fs, l) ==
  LET t == Table(fs, ND) IN
  IF t.full \/ t.disk[t.ptr[ND]][l] # 0
  THEN [t EXCEPT !.blk = IF t.full THEN 0 ELSE t.disk[t.ptr[ND]][l]]
  ELSE Zalloc(t)
Indirect(fs, l) ==
  LET t == Table(fs, ND) IN
  IF t.full THEN t
  ELSE IF t.disk[t.ptr[ND]][l] # 0 THEN [t EXCEPT !.blk = t.disk[t.ptr[ND]][l]]
  ELSE LET z == Zalloc(t) IN
       IF z.full THEN Released(z) ELSE [z EXCEPT !.disk[t.ptr[ND]][l] = z.blk]

\* Through readbuf: the new block's number goes where the group descriptor now
\* is, and that is written back.
IntoDescriptor(fs, c) == [fs EXCEPT !.disk[GD][c] = fs.blk, !.wild = TRUE]
Second(fs, c) ==
  LET d == fs.disk[fs.ptr[ND + 1]][c] IN
  IF d # 0 THEN [fs EXCEPT !.blk = d, !.bp = TRUE]
  ELSE LET z == Zalloc(fs) IN
       IF z.full THEN Released(z)
       ELSE IntoDescriptor([z EXCEPT !.disk[z.blk] = Zeros, !.bp = TRUE], c)
Double(fs, l) ==
  LET t == Table(fs, ND + 1)
      d == Second(t, l \div W)
  IN  IF t.full THEN Released(t)
      ELSE IF d.full THEN d
      ELSE IF d.disk[d.blk][l % W] # 0 THEN [d EXCEPT !.blk = fs.blk, !.wild = fs.blk = 0]
      ELSE LET z == Zalloc(d) IN IF z.full THEN z ELSE IntoDescriptor(z, l % W)

Locate(fs) ==
  LET l == fs.off \div W IN
  IF l < ND THEN Direct(fs, l)
  ELSE IF l < ND + W THEN Indirect(fs, l - ND)
  ELSE Double(fs, l - ND - W)

\* Beyond the end of the file, the size grows with the bytes, not to the offset.
Grown(n, off, k) == IF off > n THEN n + k ELSE Max({n, off + k})

\* One turn of mywrite()'s loop: the bytes that go into one block.
Turn(fs) ==
  LET t == Locate(fs)
      start == fs.off % W
      k == Min({W - start, Len(fs.in)})
  IN  IF fs.full \/ fs.in = <<>> \/ t.full \/ t.wild THEN t
      ELSE [t EXCEPT
             !.disk[t.blk] = [c \in Cells |->
                IF c >= start /\ c < start + k THEN t.in[c - start + 1] ELSE @[c]],
             !.size = Grown(@, t.off, k),
             !.off = @ + k, !.in = SubSeq(@, k + 1, Len(@)), !.bp = TRUE]

Turns(f, s) == ((fd[f].off + Len(s) - 1) \div W) - (fd[f].off \div W) + 1
Mywrite(f, s) == FoldLeft(LAMBDA fs, k : IF fs.full \/ fs.wild THEN fs ELSE Turn(fs),
                          [Now EXCEPT !.off = fd[f].off, !.in = s], [k \in 1..Turns(f, s) |-> k])

Becomes(fs) ==
  /\ disk' = fs.disk /\ used' = fs.used /\ free' = fs.free
  /\ size' = fs.size /\ ptr' = fs.ptr

\* The numbers in a block or an inode up to the first zero.
Leading(f, S) == {f[i] : i \in {i \in S : \A j \in S : j <= i => f[j] # 0}}

\* truncate()
Truncated(fs) ==
  LET i == fs.ptr[ND]
      d == fs.ptr[ND + 1]
      seconds == IF d = 0 THEN {} ELSE Leading(fs.disk[d], Cells)
  IN  [Freed(fs, Leading(fs.ptr, 0..(ND - 1))
            \cup (IF i = 0 THEN {} ELSE {i} \cup Leading(fs.disk[i], Cells))
            \cup (IF d = 0 THEN {} ELSE {d} \cup seconds)
            \cup UNION {Leading(fs.disk[b], Cells) : b \in seconds})
        EXCEPT !.ptr = [x \in DOMAIN @ |-> 0], !.size = 0]
-----------------------------------------------------------------------------
(* System calls *)

\* Many may read a file, or one may write it.
Compatible(how) == \A f \in Fd : fd[f].mode # "closed" => how = "RD" /\ fd[f].mode = "read"

Open(f, how) ==
  /\ fd[f].mode = "closed" /\ Compatible(how)
  /\ fd' = [fd EXCEPT ![f] = [mode |-> IF how = "RD" THEN "read" ELSE "write",
                              off  |-> IF how = "APPEND" THEN size ELSE 0]]
  /\ Becomes(IF how = "WR" /\ size # 0 THEN Truncated(Now) ELSE Now)
  /\ UNCHANGED <<theirs, got, wild>>

Close(f) ==
  /\ fd[f].mode # "closed"
  /\ fd' = [fd EXCEPT ![f] = Closed]
  /\ UNCHANGED <<disk, used, free, size, ptr, theirs, got, wild>>

Write(f, s) ==
  /\ fd[f].mode = "write" /\ fd[f].off + Len(s) <= MaxSize
  /\ LET fs == Mywrite(f, s) IN
       /\ Becomes(fs)
       /\ fd' = [fd EXCEPT ![f].off = fs.off]
       /\ wild' \in IF fs.disk[GD] # Descriptor THEN {TRUE} ELSE {FALSE, fs.wild}
  /\ UNCHANGED <<theirs, got>>

\* The block that the l-th block of the file is in.
At(l) ==
  IF l < ND THEN ptr[l]
  ELSE IF l < ND + W THEN disk[ptr[ND]][l - ND]
  ELSE LET k == l - ND - W IN disk[disk[ptr[ND + 1]][k \div W]][k % W]
ByteAt(o) == disk[At(o \div W)][o % W]

\* myread().  An offset past the end makes the count negative.
Myread(off, n) == [i \in 1..Max({0, Min({n, size - off})}) |-> ByteAt(off + i - 1)]
Read(f, n) ==
  /\ fd[f].mode = "read"
  /\ got' = Myread(fd[f].off, n)
  /\ fd' = [fd EXCEPT ![f].off = @ + Len(got')]
  /\ UNCHANGED <<disk, used, free, size, ptr, theirs, wild>>

\* The test of the file's type in klseek() looks at the x bit of others, which
\* data files lack, so that the position is taken as it is.
Sought(f, pos, whence) ==
  CASE whence = 0 -> pos
    [] whence = 1 -> fd[f].off + pos
    [] whence = 2 -> size + pos
Lseek(f, pos, whence) ==
  /\ fd[f].mode # "closed"
  /\ Sought(f, pos, whence) \in 0..(IF Beyond THEN MaxSize ELSE size)
  /\ fd' = [fd EXCEPT ![f].off = Sought(f, pos, whence)]
  /\ UNCHANGED <<disk, used, free, size, ptr, theirs, got, wild>>

\* Another process writes a block of the other file, or empties it.
Others ==
  /\ \/ LET z == Zalloc(Now) IN
          /\ ~z.full /\ theirs' = theirs \cup {z.blk}
          /\ Becomes(z)
     \/ /\ theirs # {} /\ theirs' = {}
        /\ Becomes(Freed(Now, theirs))
  /\ UNCHANGED <<fd, got, wild>>

\* After wild, anything may have happened, and nothing is said of it.
Next ==
  \/ /\ ~wild
     /\ \/ \E f \in Fd :
             \/ \E how \in {"RD", "WR", "RDWR", "APPEND"} : Open(f, how)
             \/ Close(f)
             \/ \E s \in Input : Write(f, s)
             \/ \E n \in 1..(W + 1) : Read(f, n)
             \/ \E whence \in {0, 1, 2} : \E pos \in (-MaxSize)..MaxSize : Lseek(f, pos, whence)
        \/ Others
  \/ wild /\ UNCHANGED vars

Spec == Init /\ [][Next]_vars
-----------------------------------------------------------------------------
(* Properties *)

\* Every variable holds a value of its type.
TypeOK ==
  /\ used \subseteq Block /\ theirs \subseteq used
  /\ free \in 0..Cardinality(Block) /\ size \in 0..MaxSize
  /\ ptr \in [0..(ND + 1) -> {0} \cup Block]
  /\ DOMAIN disk = {Boot, GD} \cup Block /\ \A b \in DOMAIN disk : DOMAIN disk[b] = Cells
  /\ fd \in [Fd -> [mode : {"closed", "read", "write"}, off : 0..MaxSize]]
  /\ got \in Seq(UNION {Range(s) : s \in Input} \cup {Foreign, 0}) /\ wild \in BOOLEAN

\* A file is its bytes in order: through whatever blocks they lie in, read()
\* gives back what was written, and no byte of another file, until the disk's
\* own tables are hit.
File == INSTANCE ByteFile WITH bytes <- [i \in 1..size |-> ByteAt(i - 1)]
Kept == wild' \/ File!Next \/ UNCHANGED File!vars
Contents == File!Init /\ [][Kept]_vars

\* Every block the bitmap has in use is in one place of one file, and the count
\* of free blocks is that of the bitmap, until the disk's own tables are hit.
Places ==
  {<<"inode", i>> : i \in {i \in DOMAIN ptr : ptr[i] # 0}}
    \cup (IF ptr[ND] = 0 THEN {}
          ELSE {<<"indirect", c>> : c \in {c \in Cells : disk[ptr[ND]][c] # 0}})
BlockAt(p) == IF p[1] = "inode" THEN ptr[p[2]] ELSE disk[ptr[ND]][p[2]]
BlocksAccounted ==
  ~wild =>
  /\ used = theirs \cup {BlockAt(p) : p \in Places}
  /\ Cardinality(used) = Cardinality(theirs) + Cardinality(Places)
  /\ free = Cardinality(Block \ used)
=============================================================================
