----------------------------- MODULE Files_proofs -----------------------------
(***************************************************************************)
(* Theorems about Files for any finite sets of processes, inodes and names *)
(* and any sizes of the tables: who uses what is counted, names are        *)
(* counted, the directories are a tree, and blocks have one owner.         *)
(***************************************************************************)
EXTENDS Files, ListFacts, FiniteSetTheorems

-----------------------------------------------------------------------------
(* Minodes and inodes together, fs, and what they hold for an inode: the number of
   references and the lock of its minode, and the inode as the calls see it.  Of the
   latter the link count of a directory is left out, since mymkdir() does not mark it
   dirty and so the last iput() loses it. *)
Mem == [ref : Nat, lock : Int, dirty : BOOLEAN, inode : InodeType]
FsType == [mem : [Ino -> Mem], disk : [Ino -> InodeType]]

Shape(r) == [type |-> r.type, links |-> IF r.type = File THEN r.links ELSE 0,
             blocks |-> r.blocks]
Seen(fs, i) == IF fs.mem[i].ref > 0 THEN fs.mem[i].inode ELSE fs.disk[i]

Refs(fs) == [i \in Ino |-> fs.mem[i].ref]
Locks(fs) == [i \in Ino |-> fs.mem[i].lock]
Shapes(fs) == [i \in Ino |-> Shape(Seen(fs, i))]

(* A minode that is not in use is as it was loaded but for its lock, and what is
   clean may be forgotten. *)
Sound(m, r) ==
  /\ m.ref = 0 => m = [NotLoaded EXCEPT !.lock = m.lock]
  /\ m.ref > 0 /\ ~ m.dirty => Shape(m.inode) = Shape(r)
FsOk(fs) == fs \in FsType /\ \A i \in Ino : Sound(fs.mem[i], fs.disk[i])

With(fs, i, m, r) == [mem |-> [fs.mem EXCEPT ![i] = m], disk |-> [fs.disk EXCEPT ![i] = r]]

LEMMA ShapeType ==
  ASSUME Sizes, NEW r \in InodeType
  PROVE  Shape(r) \in InodeType
BY DEF Shape, InodeType, Sizes

(* One minode becomes m and its inode on the disk r. *)
LEMMA WithOk ==
  ASSUME Sizes, NEW fs, FsOk(fs), NEW i \in Ino, NEW m \in Mem, NEW r \in InodeType, Sound(m, r)
  PROVE  LET g == With(fs, i, m, r)
             s == IF m.ref > 0 THEN m.inode ELSE r
         IN  /\ FsOk(g)
             /\ Refs(g) = [Refs(fs) EXCEPT ![i] = m.ref]
             /\ Locks(g) = [Locks(fs) EXCEPT ![i] = m.lock]
             /\ Shapes(g) = [Shapes(fs) EXCEPT ![i] = Shape(s)]
             /\ \A j \in Ino : Seen(g, j) = IF j = i THEN s ELSE Seen(fs, j)
<1> DEFINE g == With(fs, i, m, r)
           s == IF m.ref > 0 THEN m.inode ELSE r
<1>1. fs.mem \in [Ino -> Mem] /\ fs.disk \in [Ino -> InodeType]
  BY DEF FsOk, FsType
<1>2. /\ g.mem = [fs.mem EXCEPT ![i] = m] /\ g.disk = [fs.disk EXCEPT ![i] = r]
      /\ g \in FsType
  BY <1>1 DEF With, FsType
<1>3. \A j \in Ino : /\ g.mem[j] = IF j = i THEN m ELSE fs.mem[j]
                     /\ g.disk[j] = IF j = i THEN r ELSE fs.disk[j]
  BY <1>1, <1>2
<1> HIDE DEF g
<1>4. \A j \in Ino : Sound(g.mem[j], g.disk[j])
  BY <1>3 DEF FsOk
<1>5. \A j \in Ino : Seen(g, j) = IF j = i THEN s ELSE Seen(fs, j)
  BY <1>3 DEF Seen
<1>6. Refs(g) = [Refs(fs) EXCEPT ![i] = m.ref]
  BY <1>3 DEF Refs
<1>7. Locks(g) = [Locks(fs) EXCEPT ![i] = m.lock]
  BY <1>3 DEF Locks
<1>8. Shapes(g) = [Shapes(fs) EXCEPT ![i] = Shape(s)]
  BY <1>5 DEF Shapes
<1> QED BY <1>2, <1>4, <1>5, <1>6, <1>7, <1>8 DEF FsOk, g

(* What holds of one minode and its inode. *)
LEMMA OneMinode ==
  ASSUME NEW fs, FsOk(fs), NEW i \in Ino
  PROVE  /\ fs.mem[i] \in Mem /\ fs.disk[i] \in InodeType /\ Sound(fs.mem[i], fs.disk[i])
         /\ fs.mem \in [Ino -> Mem] /\ fs.disk \in [Ino -> InodeType]
         /\ fs = [mem |-> fs.mem, disk |-> fs.disk]
         /\ Refs(fs)[i] = fs.mem[i].ref /\ Locks(fs)[i] = fs.mem[i].lock
         /\ Refs(fs) \in [Ino -> Nat] /\ Locks(fs) \in [Ino -> Int]
         /\ Shapes(fs)[i] = Shape(Seen(fs, i)) /\ Seen(fs, i) \in InodeType
<1>1. fs.mem[i] \in Mem /\ fs.disk[i] \in InodeType /\ Sound(fs.mem[i], fs.disk[i])
  BY DEF FsOk, FsType
<1>2. fs.mem \in [Ino -> Mem] /\ fs.disk \in [Ino -> InodeType]
  BY DEF FsOk, FsType
<1>3. fs = [mem |-> fs.mem, disk |-> fs.disk]
  BY DEF FsOk, FsType
<1>4. Refs(fs)[i] = fs.mem[i].ref /\ Locks(fs)[i] = fs.mem[i].lock
  BY DEF Refs, Locks
<1>5. Refs(fs) \in [Ino -> Nat] /\ Locks(fs) \in [Ino -> Int]
  BY <1>2 DEF Refs, Locks, Mem
<1>6. Shapes(fs)[i] = Shape(Seen(fs, i)) /\ Seen(fs, i) \in InodeType
  BY <1>1 DEF Shapes, Seen, Mem
<1> QED BY <1>1, <1>2, <1>3, <1>4, <1>5, <1>6
-----------------------------------------------------------------------------
(* The operations on minodes.  Each moves the references and the lock of one minode
   by so much; all but Set() and Forgotten() leave every inode as the calls see it. *)
Moves(fs, g, i, refs, locks) ==
  /\ FsOk(g)
  /\ \A j \in Ino : /\ Refs(g)[j] = Refs(fs)[j] + IF j = i THEN refs ELSE 0
                    /\ Locks(g)[j] = Locks(fs)[j] + IF j = i THEN locks ELSE 0
  /\ Refs(g) \in [Ino -> Nat] /\ Locks(g) \in [Ino -> Int]

(* With() moves what its minode says. *)
LEMMA WithMoves ==
  ASSUME Sizes, NEW fs, FsOk(fs), NEW i \in Ino, NEW m \in Mem, NEW r \in InodeType, Sound(m, r)
  PROVE  Moves(fs, With(fs, i, m, r), i, m.ref - Refs(fs)[i], m.lock - Locks(fs)[i])
<1> DEFINE g == With(fs, i, m, r)
<1>1. /\ FsOk(g) /\ Refs(g) = [Refs(fs) EXCEPT ![i] = m.ref]
      /\ Locks(g) = [Locks(fs) EXCEPT ![i] = m.lock]
  BY WithOk
<1>2. /\ Refs(fs) \in [Ino -> Nat] /\ Locks(fs) \in [Ino -> Int]
      /\ Refs(g) \in [Ino -> Nat] /\ Locks(g) \in [Ino -> Int]
  BY <1>1, OneMinode
<1>3. m.ref \in Nat /\ m.lock \in Int
  BY DEF Mem
<1> HIDE DEF g
<1>4. \A j \in Ino : /\ Refs(g)[j] = Refs(fs)[j] + IF j = i THEN m.ref - Refs(fs)[i] ELSE 0
                     /\ Locks(g)[j] = Locks(fs)[j] + IF j = i THEN m.lock - Locks(fs)[i] ELSE 0
  <2>1. TAKE j \in Ino
  <2>2. Refs(fs)[j] \in Nat /\ Refs(fs)[i] \in Nat /\ Locks(fs)[j] \in Int /\ Locks(fs)[i] \in Int
    BY <1>2
  <2>3. /\ Refs(g)[j] = IF j = i THEN m.ref ELSE Refs(fs)[j]
        /\ Locks(g)[j] = IF j = i THEN m.lock ELSE Locks(fs)[j]
    BY <1>1, <1>2
  <2> QED BY <1>3, <2>2, <2>3
<1> QED BY <1>1, <1>2, <1>4 DEF Moves, g

(* The shape is kept if the new content has the old one's. *)
LEMMA WithShape ==
  ASSUME Sizes, NEW fs, FsOk(fs), NEW i \in Ino, NEW m \in Mem, NEW r \in InodeType, Sound(m, r),
         Shape(IF m.ref > 0 THEN m.inode ELSE r) = Shapes(fs)[i]
  PROVE  Shapes(With(fs, i, m, r)) = Shapes(fs)
<1>1. Shapes(With(fs, i, m, r)) = [Shapes(fs) EXCEPT ![i] = Shapes(fs)[i]]
  BY WithOk
<1> QED BY <1>1 DEF Shapes

LEMMA IgetMoves ==
  ASSUME Sizes, NEW fs, FsOk(fs), NEW i \in Ino
  PROVE  LET g == Iget(fs, i)
         IN  /\ Moves(fs, g, i, 1, -1) /\ Shapes(g) = Shapes(fs)
             /\ \A j \in Ino : Seen(g, j) = Seen(fs, j)
<1> DEFINE m0 == fs.mem[i]
           r == fs.disk[i]
           m == Got(m0, r)
<1>1. m0 \in Mem /\ r \in InodeType /\ Sound(m0, r)
  BY OneMinode
<1>2. m0.ref \in Nat /\ m0.lock \in Int /\ Seen(fs, i) = IF m0.ref > 0 THEN m0.inode ELSE r
  BY <1>1 DEF Mem, Seen
<1>3. Iget(fs, i) = With(fs, i, m, r)
  <2>1. fs.disk \in [Ino -> InodeType] /\ fs = [mem |-> fs.mem, disk |-> fs.disk]
    BY OneMinode
  <2> HIDE DEF m
  <2> QED BY <2>1 DEF Iget, With, m
<1> HIDE DEF m0, r
<1>4. /\ m \in Mem /\ m.ref = m0.ref + 1 /\ m.lock = m0.lock - 1
      /\ m.inode = Seen(fs, i) /\ (~ m.dirty => m0.ref = 0 \/ ~ m0.dirty)
  <2>1. CASE m0.ref > 0
    <3>1. m = [m0 EXCEPT !.ref = @ + 1, !.lock = @ - 1]
      BY <2>1 DEF Got
    <3>2. m0.ref + 1 \in Nat /\ m0.lock - 1 \in Int
      BY <1>2
    <3> HIDE DEF m
    <3>3. m \in Mem /\ m.ref = m0.ref + 1 /\ m.lock = m0.lock - 1 /\ m.inode = m0.inode /\ m.dirty = m0.dirty
      BY <1>1, <3>1, <3>2 DEF Mem
    <3> QED BY <1>2, <2>1, <3>3
  <2>2. CASE m0.ref = 0
    <3>1. m = [ref |-> 1, lock |-> m0.lock - 1, dirty |-> FALSE, inode |-> r]
      BY <2>2 DEF Got
    <3> HIDE DEF m
    <3> QED BY <1>1, <1>2, <2>2, <3>1 DEF Mem
  <2> QED BY <1>2, <2>1, <2>2
<1> HIDE DEF m
<1>5. Sound(m, r) /\ m.ref > 0
  BY <1>1, <1>2, <1>4 DEF Sound
<1>6. Moves(fs, With(fs, i, m, r), i, m.ref - Refs(fs)[i], m.lock - Locks(fs)[i])
  BY <1>1, <1>4, <1>5, WithMoves
<1>7. m.ref - Refs(fs)[i] = 1 /\ m.lock - Locks(fs)[i] = -1
  <2>1. Refs(fs)[i] = m0.ref /\ Locks(fs)[i] = m0.lock
    BY OneMinode DEF m0
  <2> QED BY <1>2, <1>4, <2>1
<1>8. Shapes(With(fs, i, m, r)) = Shapes(fs)
  BY <1>1, <1>4, <1>5, WithShape, OneMinode
<1>9. \A j \in Ino : Seen(With(fs, i, m, r), j) = Seen(fs, j)
  BY <1>1, <1>4, <1>5, WithOk
<1> QED BY <1>3, <1>6, <1>7, <1>8, <1>9

LEMMA IputMoves ==
  ASSUME Sizes, NEW fs, FsOk(fs), NEW i \in Ino, Refs(fs)[i] > 0
  PROVE  LET g == Iput(fs, i)
         IN  /\ Moves(fs, g, i, -1, 1) /\ Shapes(g) = Shapes(fs)
             /\ \A j \in Ino \ {i} : Seen(g, j) = Seen(fs, j)
<1> DEFINE m0 == fs.mem[i]
           m == Given(m0)
           r == IF WriteBack(m0) THEN m0.inode ELSE fs.disk[i]
<1>1. m0 \in Mem /\ fs.disk[i] \in InodeType /\ Sound(m0, fs.disk[i])
  BY OneMinode
<1>2. m0.ref \in Nat /\ m0.lock \in Int /\ m0.ref > 0
      /\ Refs(fs)[i] = m0.ref /\ Locks(fs)[i] = m0.lock /\ Shapes(fs)[i] = Shape(m0.inode)
  BY <1>1, OneMinode DEF Mem, Seen
<1>3. Iput(fs, i) = With(fs, i, m, r)
  <2>1. fs.mem \in [Ino -> Mem] /\ fs.disk \in [Ino -> InodeType]
    BY OneMinode
  <2>2. (IF WriteBack(m0) THEN [fs.disk EXCEPT ![i] = m0.inode] ELSE fs.disk)
          = [fs.disk EXCEPT ![i] = r]
    BY <2>1
  <2> QED BY <2>2 DEF Iput, With
<1>4. r \in InodeType
  BY <1>1 DEF Mem
<1> HIDE DEF m0
<1>5. /\ m \in Mem /\ m.ref = m0.ref - 1 /\ m.lock = m0.lock + 1
      /\ Sound(m, r) /\ Shape(IF m.ref > 0 THEN m.inode ELSE r) = Shapes(fs)[i]
  <2>1. CASE m0.ref = 1
    <3>1. m = [NotLoaded EXCEPT !.lock = m0.lock + 1]
      BY <2>1 DEF Given, Unlocked
    <3>2. NotLoaded \in Mem /\ NotLoaded.ref = 0 /\ m0.lock + 1 \in Int
      BY <1>2 DEF NotLoaded, Mem, Unset, InodeType, Sizes
    <3> HIDE DEF m
    <3>3. m \in Mem /\ m.ref = 0 /\ m.lock = m0.lock + 1
      BY <3>1, <3>2 DEF Mem
    <3>4. Shape(r) = Shape(m0.inode)
      BY <1>1, <2>1 DEF Sound, WriteBack
    <3>5. Sound(m, r)
      BY <3>1, <3>3 DEF Sound
    <3> QED BY <1>2, <2>1, <3>3, <3>4, <3>5
  <2>2. CASE m0.ref > 1
    <3>1. m = [m0 EXCEPT !.ref = @ - 1, !.lock = @ + 1]
      BY <1>2, <2>2 DEF Given, Unlocked
    <3>2. r = fs.disk[i]
      BY <2>2 DEF WriteBack
    <3>3. m0.ref - 1 \in Nat /\ m0.lock + 1 \in Int
      BY <1>2
    <3> HIDE DEF m, r
    <3>4. m \in Mem /\ m.ref = m0.ref - 1 /\ m.lock = m0.lock + 1 /\ m.inode = m0.inode /\ m.dirty = m0.dirty
      BY <1>1, <3>1, <3>3 DEF Mem
    <3>5. m.ref > 0
      BY <1>2, <2>2, <3>4
    <3>6. Sound(m, r)
      BY <1>1, <1>2, <3>2, <3>4, <3>5 DEF Sound
    <3> QED BY <1>2, <3>4, <3>5, <3>6
  <2> QED BY <1>2, <2>1, <2>2
<1> HIDE DEF m, r
<1>6. Moves(fs, With(fs, i, m, r), i, m.ref - Refs(fs)[i], m.lock - Locks(fs)[i])
  BY <1>4, <1>5, WithMoves
<1>7. m.ref - Refs(fs)[i] = -1 /\ m.lock - Locks(fs)[i] = 1
  BY <1>2, <1>5
<1>8. Shapes(With(fs, i, m, r)) = Shapes(fs)
  BY <1>4, <1>5, WithShape
<1>9. \A j \in Ino \ {i} : Seen(With(fs, i, m, r), j) = Seen(fs, j)
  BY <1>4, <1>5, WithOk
<1> QED BY <1>3, <1>6, <1>7, <1>8, <1>9

(* ilock() and iunlock() *)
LEMMA LockMoves ==
  ASSUME Sizes, NEW fs, FsOk(fs), NEW i \in Ino
  PROVE  /\ Moves(fs, Lock(fs, i), i, 0, -1) /\ Shapes(Lock(fs, i)) = Shapes(fs)
         /\ Moves(fs, Unlock(fs, i), i, 0, 1) /\ Shapes(Unlock(fs, i)) = Shapes(fs)
<1> DEFINE m0 == fs.mem[i]
           r == fs.disk[i]
<1>1. /\ m0 \in Mem /\ r \in InodeType /\ Sound(m0, r)
      /\ Refs(fs)[i] = m0.ref /\ Locks(fs)[i] = m0.lock
      /\ Shapes(fs)[i] = Shape(IF m0.ref > 0 THEN m0.inode ELSE r)
  BY OneMinode DEF Seen
<1>2. fs.mem \in [Ino -> Mem] /\ fs.disk \in [Ino -> InodeType] /\ fs = [mem |-> fs.mem, disk |-> fs.disk]
  BY OneMinode
<1>3. \A m : [fs EXCEPT !.mem[i] = m] = With(fs, i, m, r)
  BY <1>2 DEF With
<1>4. /\ Lock(fs, i) = With(fs, i, [m0 EXCEPT !.lock = @ - 1], r)
      /\ Unlock(fs, i) = With(fs, i, [m0 EXCEPT !.lock = @ + 1], r)
  BY <1>2 DEF With, Lock, Unlock, Unlocked
<1> HIDE DEF m0, r
<1>5. ASSUME NEW k \in Int, NEW m, m = [m0 EXCEPT !.lock = @ + k]
      PROVE  Moves(fs, With(fs, i, m, r), i, 0, k) /\ Shapes(With(fs, i, m, r)) = Shapes(fs)
  <2>1. m \in Mem /\ m.ref = m0.ref /\ m.lock = m0.lock + k /\ m.inode = m0.inode /\ m.dirty = m0.dirty
    BY <1>1, <1>5 DEF Mem
  <2>2. m0.ref = 0 => m = [NotLoaded EXCEPT !.lock = m.lock]
    BY <1>1, <1>5, <2>1 DEF Sound, NotLoaded
  <2>3. Sound(m, r)
    BY <1>1, <2>1, <2>2 DEF Sound
  <2>4. Moves(fs, With(fs, i, m, r), i, m.ref - Refs(fs)[i], m.lock - Locks(fs)[i])
    BY <1>1, <2>1, <2>3, WithMoves
  <2>5. m.ref - Refs(fs)[i] = 0 /\ m.lock - Locks(fs)[i] = k
    BY <1>1, <2>1 DEF Mem
  <2>6. Shapes(With(fs, i, m, r)) = Shapes(fs)
    BY <1>1, <2>1, <2>3, WithShape
  <2> QED BY <2>4, <2>5, <2>6
<1> DEFINE locked == [m0 EXCEPT !.lock = @ - 1]
           unlocked == [m0 EXCEPT !.lock = @ + 1]
<1>6. locked = [m0 EXCEPT !.lock = @ + (-1)] /\ unlocked = [m0 EXCEPT !.lock = @ + 1] /\ -1 \in Int
  BY <1>1 DEF Mem
<1> HIDE DEF locked, unlocked
<1>7. /\ Moves(fs, With(fs, i, locked, r), i, 0, -1) /\ Shapes(With(fs, i, locked, r)) = Shapes(fs)
      /\ Moves(fs, With(fs, i, unlocked, r), i, 0, 1) /\ Shapes(With(fs, i, unlocked, r)) = Shapes(fs)
  BY <1>5, <1>6
<1> QED BY <1>4, <1>7 DEF locked, unlocked

(* ilock(mip); iput(mip) *)
LEMMA ReleaseMoves ==
  ASSUME Sizes, NEW fs, FsOk(fs), NEW i \in Ino, Refs(fs)[i] > 0
  PROVE  Moves(fs, Release(fs, i), i, -1, 0) /\ Shapes(Release(fs, i)) = Shapes(fs)
<1> DEFINE g == Lock(fs, i)
           h == Iput(g, i)
<1>1. Moves(fs, g, i, 0, -1) /\ Shapes(g) = Shapes(fs)
  BY LockMoves
<1>2. Refs(fs) \in [Ino -> Nat] /\ Locks(fs) \in [Ino -> Int]
  BY OneMinode
<1> HIDE DEF g
<1>3. Moves(g, h, i, -1, 1) /\ Shapes(h) = Shapes(g)
  BY <1>1, <1>2, IputMoves DEF Moves
<1> HIDE DEF h
<1>4. Moves(fs, h, i, -1, 0)
  BY <1>1, <1>2, <1>3 DEF Moves
<1> QED BY <1>1, <1>3, <1>4 DEF Release, g, h

(* A minode in use gets a new content rec and is dirty. *)
LEMMA SetMoves ==
  ASSUME Sizes, NEW fs, FsOk(fs), NEW i \in Ino, Refs(fs)[i] > 0, NEW rec \in InodeType
  PROVE  LET g == Set(fs, i, rec)
         IN  /\ Moves(fs, g, i, 0, 0) /\ Shapes(g) = [Shapes(fs) EXCEPT ![i] = Shape(rec)]
             /\ \A j \in Ino : Seen(g, j) = IF j = i THEN rec ELSE Seen(fs, j)
<1> DEFINE m0 == fs.mem[i]
           r == fs.disk[i]
           m == [m0 EXCEPT !.inode = rec, !.dirty = TRUE]
<1>1. /\ m0 \in Mem /\ r \in InodeType /\ m0.ref > 0
      /\ Refs(fs)[i] = m0.ref /\ Locks(fs)[i] = m0.lock
  BY OneMinode DEF Seen
<1>2. fs.mem \in [Ino -> Mem] /\ fs.disk \in [Ino -> InodeType] /\ fs = [mem |-> fs.mem, disk |-> fs.disk]
  BY OneMinode
<1>3. Set(fs, i, rec) = With(fs, i, m, r)
  <2> DEFINE g == [fs EXCEPT !.mem[i].inode = rec]
             n == [m0 EXCEPT !.inode = rec]
  <2>1. g = [mem |-> [fs.mem EXCEPT ![i] = n], disk |-> fs.disk]
    BY <1>2
  <2>2. g.mem = [fs.mem EXCEPT ![i] = n] /\ g.disk = fs.disk /\ g.mem[i] = n
    BY <1>2, <2>1
  <2> HIDE DEF g, n
  <2>3. [g EXCEPT !.mem[i].dirty = TRUE] = [mem |-> [g.mem EXCEPT ![i] = [n EXCEPT !.dirty = TRUE]], disk |-> g.disk]
    BY <2>1, <2>2
  <2>4. [g.mem EXCEPT ![i] = [n EXCEPT !.dirty = TRUE]] = [fs.mem EXCEPT ![i] = [n EXCEPT !.dirty = TRUE]]
    BY <1>2, <2>2
  <2>5. [fs.disk EXCEPT ![i] = r] = fs.disk
    BY <1>2
  <2> QED BY <2>2, <2>3, <2>4, <2>5 DEF With, Set, Dirtied, g, n
<1> HIDE DEF m0, r
<1>4. m \in Mem /\ m.ref = m0.ref /\ m.lock = m0.lock /\ m.inode = rec /\ m.dirty
  BY <1>1 DEF Mem
<1> HIDE DEF m
<1>5. Sound(m, r) /\ m.ref > 0
  BY <1>1, <1>4 DEF Sound
<1>6. Moves(fs, With(fs, i, m, r), i, m.ref - Refs(fs)[i], m.lock - Locks(fs)[i])
  BY <1>1, <1>4, <1>5, WithMoves
<1>7. m.ref - Refs(fs)[i] = 0 /\ m.lock - Locks(fs)[i] = 0
  BY <1>1, <1>4 DEF Mem
<1> QED BY <1>1, <1>3, <1>4, <1>5, <1>6, <1>7, WithOk

LEMMA DirtiedMoves ==
  ASSUME Sizes, NEW fs, FsOk(fs), NEW i \in Ino, Refs(fs)[i] > 0
  PROVE  LET g == Dirtied(fs, i)
         IN  /\ Moves(fs, g, i, 0, 0) /\ Shapes(g) = Shapes(fs)
             /\ \A j \in Ino : Seen(g, j) = Seen(fs, j)
<1> DEFINE rec == fs.mem[i].inode
<1>1. rec \in InodeType /\ Seen(fs, i) = rec
  BY OneMinode DEF Mem, Seen
<1>2. [fs EXCEPT !.mem[i].inode = rec] = fs
  <2>1. fs \in FsType
    BY DEF FsOk
  <2> QED BY <2>1 DEF FsType, Mem
<1>3. Dirtied(fs, i) = Set(fs, i, rec)
  BY <1>2, Zenon DEF Set
<1> HIDE DEF rec
<1>4. [Shapes(fs) EXCEPT ![i] = Shape(rec)] = Shapes(fs)
  BY <1>1, OneMinode DEF Shapes
<1> QED BY <1>1, <1>3, <1>4, SetMoves

(* A directory's link count, which is not marked dirty. *)
LEMMA RelinkedMoves ==
  ASSUME Sizes, NEW fs, FsOk(fs), NEW i \in Ino, Refs(fs)[i] > 0, NEW n \in Int,
         Shapes(fs)[i].type = Dir, Seen(fs, i).links + n \in 0..MaxLinks
  PROVE  LET g == Relinked(fs, i, n)
         IN  /\ Moves(fs, g, i, 0, 0) /\ Shapes(g) = Shapes(fs)
             /\ \A j \in Ino \ {i} : Seen(g, j) = Seen(fs, j)
<1> DEFINE m0 == fs.mem[i]
           r == fs.disk[i]
           rec == [m0.inode EXCEPT !.links = @ + n]
           m == [m0 EXCEPT !.inode = rec]
<1>1. /\ m0 \in Mem /\ r \in InodeType /\ m0.ref > 0 /\ Sound(m0, r)
      /\ Refs(fs)[i] = m0.ref /\ Locks(fs)[i] = m0.lock /\ Seen(fs, i) = m0.inode
      /\ Shapes(fs)[i] = Shape(m0.inode)
  BY OneMinode DEF Seen
<1>2. fs.mem \in [Ino -> Mem] /\ fs.disk \in [Ino -> InodeType] /\ fs = [mem |-> fs.mem, disk |-> fs.disk]
  BY OneMinode
<1>3. Relinked(fs, i, n) = With(fs, i, m, r)
  BY <1>2 DEF With, Relinked
<1> HIDE DEF m0, r
<1>4. rec \in InodeType /\ Shape(rec) = Shape(m0.inode)
  <2>1. m0.inode \in InodeType /\ m0.inode.type = Dir /\ Dir # File
    BY <1>1 DEF Mem, Shape, Dir, File
  <2>2. m0.inode.links + n \in 0..MaxLinks
    BY <1>1
  <2> QED BY <2>1, <2>2 DEF InodeType, Shape
<1> HIDE DEF rec
<1>5. m \in Mem /\ m.ref = m0.ref /\ m.lock = m0.lock /\ m.inode = rec /\ m.dirty = m0.dirty
  BY <1>1, <1>4 DEF Mem
<1> HIDE DEF m
<1>6. Sound(m, r) /\ m.ref > 0
  BY <1>1, <1>4, <1>5 DEF Sound
<1>7. Moves(fs, With(fs, i, m, r), i, m.ref - Refs(fs)[i], m.lock - Locks(fs)[i])
  BY <1>1, <1>5, <1>6, WithMoves
<1>8. m.ref - Refs(fs)[i] = 0 /\ m.lock - Locks(fs)[i] = 0
  BY <1>1, <1>5 DEF Mem
<1>9. Shapes(With(fs, i, m, r)) = Shapes(fs)
  BY <1>1, <1>4, <1>5, <1>6, WithShape
<1>10. \A j \in Ino \ {i} : Seen(With(fs, i, m, r), j) = Seen(fs, j)
  BY <1>1, <1>5, <1>6, WithOk
<1> QED BY <1>3, <1>7, <1>8, <1>9, <1>10

(* A file's link count, which is. *)
LEMMA LinkedMoves ==
  ASSUME Sizes, NEW fs, FsOk(fs), NEW i \in Ino, Refs(fs)[i] > 0, NEW n \in Int,
         Seen(fs, i).links + n \in 0..MaxLinks, Seen(fs, i).type = File
  PROVE  LET g == Dirtied(Relinked(fs, i, n), i)
         IN  /\ Moves(fs, g, i, 0, 0)
             /\ Shapes(g) = [Shapes(fs) EXCEPT ![i].links = @ + n]
<1> DEFINE rec == [Seen(fs, i) EXCEPT !.links = @ + n]
<1>1. Seen(fs, i) \in InodeType /\ Seen(fs, i) = fs.mem[i].inode /\ Shapes(fs)[i] = Shape(Seen(fs, i))
  BY OneMinode DEF Seen
<1>2. rec \in InodeType
  BY <1>1 DEF InodeType
<1>3. Relinked(fs, i, n) = [fs EXCEPT !.mem[i].inode = rec]
  BY <1>1 DEF Relinked
<1>4. Dirtied(Relinked(fs, i, n), i) = Set(fs, i, rec)
  BY <1>3, Zenon DEF Set
<1>5. Shape(rec) = [Shapes(fs)[i] EXCEPT !.links = @ + n]
  BY <1>1 DEF Shape, InodeType
<1> HIDE DEF rec
<1>6. Moves(fs, Set(fs, i, rec), i, 0, 0) /\ Shapes(Set(fs, i, rec)) = [Shapes(fs) EXCEPT ![i] = Shape(rec)]
  BY <1>2, SetMoves
<1>7. [Shapes(fs) EXCEPT ![i] = Shape(rec)] = [Shapes(fs) EXCEPT ![i].links = @ + n]
  BY <1>5 DEF Shapes
<1> QED BY <1>4, <1>6, <1>7, Zenon

(* What nobody uses any more may be forgotten. *)
LEMMA ForgottenMoves ==
  ASSUME Sizes, NEW fs, FsOk(fs), NEW i \in Ino, Refs(fs)[i] = 0
  PROVE  LET g == Forgotten(fs, i)
         IN  Moves(fs, g, i, 0, 0) /\ Shapes(g) = [Shapes(fs) EXCEPT ![i] = Unset]
<1> DEFINE m0 == fs.mem[i]
<1>1. /\ m0 \in Mem /\ Sound(m0, fs.disk[i]) /\ Refs(fs)[i] = m0.ref /\ Locks(fs)[i] = m0.lock
  BY OneMinode
<1>2. fs.mem \in [Ino -> Mem] /\ fs.disk \in [Ino -> InodeType] /\ fs = [mem |-> fs.mem, disk |-> fs.disk]
  BY OneMinode
<1>3. Forgotten(fs, i) = With(fs, i, m0, Unset)
  BY <1>2 DEF Forgotten, With
<1> HIDE DEF m0
<1>4. Unset \in InodeType /\ Shape(Unset) = Unset
  BY DEF Unset, InodeType, Shape, Sizes
<1>5. Sound(m0, Unset) /\ ~ (m0.ref > 0)
  BY <1>1 DEF Sound
<1>6. Moves(fs, With(fs, i, m0, Unset), i, m0.ref - Refs(fs)[i], m0.lock - Locks(fs)[i])
  BY <1>1, <1>4, <1>5, WithMoves
<1>7. m0.ref - Refs(fs)[i] = 0 /\ m0.lock - Locks(fs)[i] = 0
  BY <1>1 DEF Mem
<1>8. Shapes(With(fs, i, m0, Unset)) = [Shapes(fs) EXCEPT ![i] = Shape(Unset)]
  BY <1>1, <1>4, <1>5, WithOk
<1> QED BY <1>3, <1>4, <1>6, <1>7, <1>8

(* The last name of a file nobody uses is removed: the count goes to where it may. *)
LEMMA UnlinkedMoves ==
  ASSUME Sizes, NEW fs, FsOk(fs), NEW i \in Ino, Refs(fs)[i] = 1
  PROVE  LET g == Forgotten(Iput(Relinked(fs, i, -1), i), i)
         IN  Moves(fs, g, i, -1, 1) /\ Shapes(g) = [Shapes(fs) EXCEPT ![i] = Unset]
<1> DEFINE m0 == fs.mem[i]
           m == [NotLoaded EXCEPT !.lock = m0.lock + 1]
           g == Relinked(fs, i, -1)
<1>1. /\ m0 \in Mem /\ Refs(fs)[i] = m0.ref /\ Locks(fs)[i] = m0.lock /\ m0.ref = 1
  BY OneMinode
<1>2. fs.mem \in [Ino -> Mem] /\ fs.disk \in [Ino -> InodeType] /\ fs = [mem |-> fs.mem, disk |-> fs.disk]
  BY OneMinode
<1>3. /\ g = [mem |-> g.mem, disk |-> fs.disk] /\ g.mem[i].ref = m0.ref /\ g.mem[i].lock = m0.lock
      /\ \A x : [g.mem EXCEPT ![i] = x] = [fs.mem EXCEPT ![i] = x]
  BY <1>2 DEF Relinked
<1> HIDE DEF m0, g
<1>4. Given(g.mem[i]) = m
  BY <1>1, <1>3 DEF Given, Unlocked
<1> DEFINE h == Iput(g, i)
<1>5. h.mem = [fs.mem EXCEPT ![i] = m] /\ h = [mem |-> h.mem, disk |-> h.disk]
      /\ \E x : h.disk = [fs.disk EXCEPT ![i] = x]
  <2>1. h.mem = [fs.mem EXCEPT ![i] = m]
    BY <1>3, <1>4 DEF Iput
  <2>2. g.disk = fs.disk
    BY <1>3
  <2>3. h = [mem |-> h.mem, disk |-> h.disk]
    BY DEF Iput
  <2>4. h.disk = IF WriteBack(g.mem[i]) THEN [fs.disk EXCEPT ![i] = g.mem[i].inode] ELSE fs.disk
    BY <2>2 DEF Iput
  <2>5. fs.disk = [fs.disk EXCEPT ![i] = fs.disk[i]]
    BY <1>2
  <2>6. \E x : h.disk = [fs.disk EXCEPT ![i] = x]
    BY <2>4, <2>5
  <2> QED BY <2>1, <2>3, <2>6
<1> HIDE DEF h
<1>6. Forgotten(h, i) = With(fs, i, m, Unset)
  <2>1. [h.disk EXCEPT ![i] = Unset] = [fs.disk EXCEPT ![i] = Unset]
    BY <1>2, <1>5
  <2>2. [h EXCEPT !.disk[i] = Unset] = [mem |-> h.mem, disk |-> [h.disk EXCEPT ![i] = Unset]]
    BY <1>5
  <2> QED BY <1>5, <2>1, <2>2 DEF Forgotten, With
<1>7. Unset \in InodeType /\ Shape(Unset) = Unset
  BY DEF Unset, InodeType, Shape, Sizes
<1>8. m \in Mem /\ m.ref = 0 /\ m.lock = m0.lock + 1 /\ Sound(m, Unset)
  <2>1. NotLoaded \in Mem /\ NotLoaded.ref = 0 /\ m0.lock + 1 \in Int
    BY <1>1 DEF NotLoaded, Mem, Unset, InodeType, Sizes
  <2> QED BY <2>1 DEF Mem, Sound
<1> HIDE DEF m
<1>9. Moves(fs, With(fs, i, m, Unset), i, m.ref - Refs(fs)[i], m.lock - Locks(fs)[i])
  BY <1>7, <1>8, WithMoves
<1>10. m.ref - Refs(fs)[i] = -1 /\ m.lock - Locks(fs)[i] = 1
  BY <1>1, <1>8 DEF Mem
<1>11. Shapes(With(fs, i, m, Unset)) = [Shapes(fs) EXCEPT ![i] = Shape(Unset)]
  BY <1>7, <1>8, WithOk
<1> QED BY <1>6, <1>7, <1>9, <1>10, <1>11 DEF g, h
-----------------------------------------------------------------------------
(* Counting: the users of an inode, for current directories cw and a table of; and the
   descriptors that f has of an entry. *)
Users(cw, of, i) ==
  Cardinality({p \in Proc : cw[p] = i})
    + Cardinality({o \in Ofts : of[o].ref > 0 /\ of[o].ino = i})
    + IF i = Root THEN 1 ELSE 0
FdsOf(f, o) == {h \in Proc \X Fds : f[h[1]][h[2]] = o}
RowOf(r, o) == {x \in Fds : r[x] = o}

OftType == [ref : Nat, write : BOOLEAN, ino : Ino \cup {0}]
FdRows == [Fds -> Ofts \cup {None}]
FdTables == [Proc -> FdRows]
CwdType == [Proc -> Ino \cup {None}]

LEMMA TablesFinite ==
  ASSUME Sizes
  PROVE  /\ IsFiniteSet(Fds) /\ IsFiniteSet(Ofts) /\ IsFiniteSet(Proc \X Fds)
         /\ Fds \subseteq Nat /\ Ofts \subseteq Nat
<1>1. IsFiniteSet(Fds) /\ IsFiniteSet(Ofts)
  BY FS_Interval DEF Sizes, Fds, Ofts
<1>2. IsFiniteSet(Proc \X Fds)
  BY <1>1, FS_Product DEF Sizes
<1> QED BY <1>1, <1>2 DEF Fds, Ofts, Sizes

(* Two sets that agree but on x. *)
Beside(A, B, x) == IsFiniteSet(A) /\ A \ {x} = B \ {x}

LEMMA OneDiffers ==
  ASSUME NEW A, NEW B, NEW x, Beside(A, B, x)
  PROVE  /\ Cardinality(A) \in Nat /\ Cardinality(B) \in Nat /\ IsFiniteSet(B)
         /\ Cardinality(B) = Cardinality(A) - (IF x \in A THEN 1 ELSE 0)
                                             + (IF x \in B THEN 1 ELSE 0)
<1> DEFINE R == A \ {x}
<1>1. /\ IsFiniteSet(R)
      /\ Cardinality(R) = IF x \in A THEN Cardinality(A) - 1 ELSE Cardinality(A)
  BY FS_RemoveElement DEF Beside
<1>2. A = (IF x \in A THEN R \cup {x} ELSE R) /\ B = (IF x \in B THEN R \cup {x} ELSE R) /\ x \notin R
  BY DEF Beside
<1> HIDE DEF R
<1>3. IsFiniteSet(R \cup {x}) /\ Cardinality(R \cup {x}) = Cardinality(R) + 1
  BY <1>1, <1>2, FS_AddElement
<1>4. Cardinality(A) \in Nat /\ Cardinality(R) \in Nat
  BY <1>1, FS_CardinalityType DEF Beside
<1>5. CASE x \in B
  <2>1. B = R \cup {x}
    BY <1>2, <1>5
  <2> QED BY <1>1, <1>3, <1>4, <1>5, <2>1
<1>6. CASE x \notin B
  <2>1. B = R
    BY <1>2, <1>6
  <2> QED BY <1>1, <1>4, <1>6, <2>1
<1> QED BY <1>5, <1>6

LEMMA UsersType ==
  ASSUME Sizes, NEW cw, NEW of, NEW i
  PROVE  /\ Users(cw, of, i) \in Nat
         /\ IsFiniteSet({p \in Proc : cw[p] = i})
         /\ IsFiniteSet({o \in Ofts : of[o].ref > 0 /\ of[o].ino = i})
         /\ Users(cw, of, i) = 0 =>
              /\ \A p \in Proc : cw[p] # i
              /\ \A o \in Ofts : of[o].ref > 0 => of[o].ino # i
              /\ i # Root
<1> DEFINE C == {p \in Proc : cw[p] = i}
           O == {o \in Ofts : of[o].ref > 0 /\ of[o].ino = i}
<1>1. C \in SUBSET Proc /\ O \in SUBSET Ofts
  OBVIOUS
<1>2. IsFiniteSet(C) /\ IsFiniteSet(O)
  BY <1>1, FS_Subset, TablesFinite DEF Sizes
<1>3. /\ Cardinality(C) \in Nat /\ Cardinality(O) \in Nat
      /\ Cardinality(C) = 0 <=> C = {}
      /\ Cardinality(O) = 0 <=> O = {}
  BY <1>2, FS_CardinalityType, FS_EmptySet
<1>4. C = {} => \A p \in Proc : cw[p] # i
  OBVIOUS
<1>5. O = {} => \A o \in Ofts : of[o].ref > 0 => of[o].ino # i
  OBVIOUS
<1>6. Users(cw, of, i) = Cardinality(C) + Cardinality(O) + IF i = Root THEN 1 ELSE 0
  BY DEF Users
<1> HIDE DEF C, O
<1>7. Users(cw, of, i) \in Nat
  BY <1>3, <1>6
<1>8. Users(cw, of, i) = 0 => C = {} /\ O = {} /\ i # Root
  BY <1>3, <1>6
<1> QED BY <1>2, <1>4, <1>5, <1>7, <1>8 DEF C, O

LEMMA SomeUser ==
  ASSUME Sizes, NEW cw, NEW of, NEW i
  PROVE  /\ \A p \in Proc : cw[p] = i => Users(cw, of, i) > 0
         /\ \A o \in Ofts : of[o].ref > 0 /\ of[o].ino = i => Users(cw, of, i) > 0
         /\ i = Root => Users(cw, of, i) > 0
<1> DEFINE u == Users(cw, of, i)
<1>1. u \in Nat /\ (u = 0 => /\ \A p \in Proc : cw[p] # i
                             /\ \A o \in Ofts : of[o].ref > 0 => of[o].ino # i
                             /\ i # Root)
  BY UsersType
<1> HIDE DEF u
<1>2. u > 0 \/ u = 0
  BY <1>1
<1>3. u = 0 \/ ((\A p \in Proc : cw[p] = i => u > 0)
                /\ (\A o \in Ofts : of[o].ref > 0 /\ of[o].ino = i => u > 0)
                /\ (i = Root => u > 0))
  BY <1>2
<1>4. u = 0 => ((\A p \in Proc : cw[p] = i => u > 0)
                /\ (\A o \in Ofts : of[o].ref > 0 /\ of[o].ino = i => u > 0)
                /\ (i = Root => u > 0))
  BY <1>1, Zenon
<1> QED BY <1>3, <1>4, Zenon DEF u

(* The table f from S to R becomes g, with v at x. *)
Put(f, S, R, x, v, g) == f \in [S -> R] /\ x \in S /\ v \in R /\ g = [f EXCEPT ![x] = v]

(* p's directory becomes v. *)
LEMMA UsersCwd ==
  ASSUME Sizes, NEW cw, NEW of, NEW p, NEW v, NEW i, NEW cw2, Put(cw, Proc, Ino \cup {None}, p, v, cw2)
  PROVE  /\ cw2 \in CwdType
         /\ Users(cw2, of, i) = Users(cw, of, i) - (IF cw[p] = i THEN 1 ELSE 0)
                                                + (IF v = i THEN 1 ELSE 0)
<1> DEFINE A == {q \in Proc : cw[q] = i}
           B == {q \in Proc : cw2[q] = i}
           O == Cardinality({o \in Ofts : of[o].ref > 0 /\ of[o].ino = i})
           r == IF i = Root THEN 1 ELSE 0
<1>1. cw2 \in CwdType /\ p \in Proc /\ \A q \in Proc : cw2[q] = IF q = p THEN v ELSE cw[q]
  BY DEF CwdType, Put
<1>2. A \ {p} = B \ {p} /\ (p \in A <=> cw[p] = i) /\ (p \in B <=> v = i)
  BY <1>1
<1>3. IsFiniteSet(A)
  BY UsersType
<1>4. O \in Nat /\ r \in Nat
  BY UsersType, FS_CardinalityType
<1>5. Users(cw, of, i) = Cardinality(A) + O + r /\ Users(cw2, of, i) = Cardinality(B) + O + r
  BY DEF Users
<1> HIDE DEF A, B, O, r
<1>6. /\ Cardinality(A) \in Nat /\ Cardinality(B) \in Nat
      /\ Cardinality(B) = Cardinality(A) - (IF p \in A THEN 1 ELSE 0) + (IF p \in B THEN 1 ELSE 0)
  <2>1. Beside(A, B, p)
    BY <1>2, <1>3 DEF Beside
  <2> QED BY <2>1, OneDiffers
<1> QED BY <1>1, <1>2, <1>4, <1>5, <1>6

(* The entry o becomes e. *)
LEMMA UsersOft ==
  ASSUME Sizes, NEW cw, NEW of, NEW o, NEW e, NEW i, NEW of2, Put(of, Ofts, OftType, o, e, of2)
  PROVE  /\ of2 \in [Ofts -> OftType]
         /\ Users(cw, of2, i) =
              Users(cw, of, i) - (IF of[o].ref > 0 /\ of[o].ino = i THEN 1 ELSE 0)
                               + (IF e.ref > 0 /\ e.ino = i THEN 1 ELSE 0)
<1> DEFINE A == {u \in Ofts : of[u].ref > 0 /\ of[u].ino = i}
           B == {u \in Ofts : of2[u].ref > 0 /\ of2[u].ino = i}
           C == Cardinality({p \in Proc : cw[p] = i})
           r == IF i = Root THEN 1 ELSE 0
<1>1. of2 \in [Ofts -> OftType] /\ o \in Ofts /\ \A u \in Ofts : of2[u] = IF u = o THEN e ELSE of[u]
  BY DEF Put
<1>2. A \ {o} = B \ {o} /\ (o \in A <=> of[o].ref > 0 /\ of[o].ino = i) /\ (o \in B <=> e.ref > 0 /\ e.ino = i)
  BY <1>1
<1>3. IsFiniteSet(A)
  BY UsersType
<1>4. C \in Nat /\ r \in Nat
  BY UsersType, FS_CardinalityType
<1>5. Users(cw, of, i) = C + Cardinality(A) + r /\ Users(cw, of2, i) = C + Cardinality(B) + r
  BY DEF Users
<1> HIDE DEF A, B, C, r
<1>6. /\ Cardinality(A) \in Nat /\ Cardinality(B) \in Nat
      /\ Cardinality(B) = Cardinality(A) - (IF o \in A THEN 1 ELSE 0) + (IF o \in B THEN 1 ELSE 0)
  <2>1. Beside(A, B, o)
    BY <1>2, <1>3 DEF Beside
  <2> QED BY <2>1, OneDiffers
<1> QED BY <1>1, <1>2, <1>4, <1>5, <1>6

(* One descriptor of p becomes v. *)
PutFd(f, p, x, v, g) ==
  /\ f \in FdTables /\ p \in Proc /\ x \in Fds /\ v \in Ofts \cup {None}
  /\ g = [f EXCEPT ![p][x] = v]

LEMMA FdSet ==
  ASSUME Sizes, NEW f, NEW p, NEW x, NEW v, NEW o, NEW g, PutFd(f, p, x, v, g)
  PROVE  /\ g \in FdTables
         /\ Cardinality(FdsOf(f, o)) \in Nat /\ Cardinality(FdsOf(g, o)) \in Nat
         /\ Cardinality(FdsOf(g, o)) = Cardinality(FdsOf(f, o)) - (IF f[p][x] = o THEN 1 ELSE 0)
                                                           + (IF v = o THEN 1 ELSE 0)
<1> DEFINE h == <<p, x>>
<1>1. /\ g \in FdTables
      /\ \A y \in Proc \X Fds : g[y[1]][y[2]] = IF y = h THEN v ELSE f[y[1]][y[2]]
  BY DEF PutFd, FdTables, FdRows
<1>2. h \in Proc \X Fds /\ f[h[1]][h[2]] = f[p][x]
  BY DEF PutFd
<1> HIDE DEF h
<1>3. FdsOf(f, o) \ {h} = FdsOf(g, o) \ {h} /\ (h \in FdsOf(f, o) <=> f[p][x] = o) /\ (h \in FdsOf(g, o) <=> v = o)
  BY <1>1, <1>2 DEF FdsOf
<1>4. FdsOf(f, o) \in SUBSET (Proc \X Fds)
  BY DEF FdsOf
<1>5. IsFiniteSet(FdsOf(f, o))
  BY <1>4, TablesFinite, FS_Subset
<1>6. /\ Cardinality(FdsOf(f, o)) \in Nat /\ Cardinality(FdsOf(g, o)) \in Nat
      /\ Cardinality(FdsOf(g, o)) = Cardinality(FdsOf(f, o)) - (IF h \in FdsOf(f, o) THEN 1 ELSE 0)
                                                        + (IF h \in FdsOf(g, o) THEN 1 ELSE 0)
  <2>1. Beside(FdsOf(f, o), FdsOf(g, o), h)
    BY <1>3, <1>5 DEF Beside
  <2> QED BY <2>1, OneDiffers
<1> QED BY <1>1, <1>3, <1>6

(* A process without descriptors gets the row r of them. *)
NoFds(f, p) == \A x \in Fds : f[p][x] = None

LEMMA FdRow ==
  ASSUME Sizes, NEW f, NEW p, NEW r, NEW o \in Ofts, NEW g, Put(f, Proc, FdRows, p, r, g), NoFds(f, p)
  PROVE  /\ g \in FdTables
         /\ Cardinality(FdsOf(f, o)) \in Nat /\ Cardinality(RowOf(r, o)) \in Nat
         /\ Cardinality(FdsOf(g, o)) = Cardinality(FdsOf(f, o)) + Cardinality(RowOf(r, o))
<1> DEFINE mine == RowOf(r, o)
           its == {<<p, x>> : x \in mine}
<1>1. /\ g \in FdTables
      /\ \A y \in Proc \X Fds : g[y[1]][y[2]] = IF y[1] = p THEN r[y[2]] ELSE f[y[1]][y[2]]
  BY DEF FdTables, FdRows, Put
<1>2. FdsOf(g, o) = FdsOf(f, o) \cup its
  <2>1. o # None /\ p \in Proc
    BY DEF Sizes, Put
  <2> QED BY <1>1, <2>1 DEF FdsOf, RowOf, NoFds
<1>3. FdsOf(f, o) \cap its = {}
  <2>1. o # None
    BY DEF Sizes
  <2> QED BY <2>1 DEF FdsOf, RowOf, NoFds
<1>4. mine \in SUBSET Fds /\ FdsOf(f, o) \in SUBSET (Proc \X Fds)
  BY DEF FdsOf, RowOf
<1>5. IsFiniteSet(mine) /\ IsFiniteSet(FdsOf(f, o))
  BY <1>4, TablesFinite, FS_Subset
<1>6. [x \in mine |-> <<p, x>>] \in Bijection(mine, its)
  <2>1. [x \in mine |-> <<p, x>>] \in [mine -> its]
    OBVIOUS
  <2>2. \A t \in its : \E x \in mine : [j \in mine |-> <<p, j>>][x] = t
    OBVIOUS
  <2>3. \A x, y \in mine : [k \in mine |-> <<p, k>>][x] = [k \in mine |-> <<p, k>>][y] => x = y
    OBVIOUS
  <2> QED BY <2>1, <2>2, <2>3 DEF Bijection, Injection, Surjection, IsInjective
<1>7. IsFiniteSet(its) /\ Cardinality(its) = Cardinality(mine)
  BY <1>5, <1>6, FS_Bijection DEF ExistsBijection
<1> HIDE DEF its, mine
<1>8. Cardinality(FdsOf(g, o)) = Cardinality(FdsOf(f, o)) + Cardinality(its) - Cardinality({})
  <2> DEFINE F == FdsOf(f, o)
  <2>1. IsFiniteSet(F) /\ IsFiniteSet(its) /\ FdsOf(g, o) = F \cup its /\ F \cap its = {}
    BY <1>2, <1>3, <1>5, <1>7
  <2> HIDE DEF F
  <2>2. Cardinality(F \cup its) = Cardinality(F) + Cardinality(its) - Cardinality(F \cap its)
    BY <2>1, FS_Union
  <2> QED BY <2>1, <2>2 DEF F
<1>9. Cardinality(FdsOf(f, o)) \in Nat /\ Cardinality(mine) \in Nat /\ Cardinality({}) = 0
  BY <1>5, FS_CardinalityType, FS_EmptySet
<1> QED BY <1>1, <1>7, <1>8, <1>9 DEF mine

(* p loses all its descriptors. *)
LEMMA FdClear ==
  ASSUME Sizes, NEW f \in FdTables, NEW p \in Proc, NEW o \in Ofts,
         NEW g, g = [f EXCEPT ![p] = [x \in Fds |-> None]]
  PROVE  /\ g \in FdTables
         /\ Cardinality(FdsOf(g, o)) \in Nat /\ Cardinality(RowOf(f[p], o)) \in Nat
         /\ Cardinality(FdsOf(f, o)) = Cardinality(FdsOf(g, o)) + Cardinality(RowOf(f[p], o))
<1>1. g \in FdTables /\ f[p] \in FdRows /\ NoFds(g, p)
  BY DEF FdTables, FdRows, NoFds
<1>2. f = [g EXCEPT ![p] = f[p]]
  BY DEF FdTables, FdRows
<1>3. Put(g, Proc, FdRows, p, f[p], f)
  BY <1>1, <1>2 DEF Put, FdTables
<1>4. Cardinality(FdsOf(f, o)) = Cardinality(FdsOf(g, o)) + Cardinality(RowOf(f[p], o))
      /\ Cardinality(FdsOf(g, o)) \in Nat /\ Cardinality(RowOf(f[p], o)) \in Nat
  BY <1>1, <1>3, FdRow
<1> QED BY <1>1, <1>4
-----------------------------------------------------------------------------
(* fs is right for current directories cw and a table of: its counts are those of the
   users and no minode is locked. *)
Counted(fs, cw, of) ==
  /\ FsOk(fs)
  /\ \A i \in Ino : Refs(fs)[i] = Users(cw, of, i) /\ Locks(fs)[i] = 1

(* iput() of what nobody has leaves minodes in order, too. *)
LEMMA ReleaseOk ==
  ASSUME Sizes, NEW fs, FsOk(fs), NEW i \in Ino
  PROVE  FsOk(Release(fs, i))
<1> DEFINE g == Lock(fs, i)
           m0 == g.mem[i]
           m == Given(m0)
<1>1. Moves(fs, g, i, 0, -1) /\ Refs(fs) \in [Ino -> Nat]
  BY LockMoves, OneMinode
<1>2. FsOk(g) /\ Refs(g)[i] = Refs(fs)[i]
  BY <1>1 DEF Moves
<1> HIDE DEF g
<1>3. CASE Refs(fs)[i] > 0
  BY <1>3, ReleaseMoves DEF Moves
<1>4. CASE Refs(fs)[i] = 0
  <2>1. m0 \in Mem /\ g.mem[i].ref = 0 /\ g.disk[i] \in InodeType
        /\ g.mem \in [Ino -> Mem] /\ g.disk \in [Ino -> InodeType]
    BY <1>2, <1>4, OneMinode
  <2>2. Iput(g, i) = With(g, i, m, g.disk[i])
    <3>1. ~ WriteBack(g.mem[i]) /\ [g.disk EXCEPT ![i] = g.disk[i]] = g.disk
      BY <2>1 DEF WriteBack
    <3> QED BY <3>1 DEF Iput, With
  <2>3. m = [NotLoaded EXCEPT !.lock = m0.lock + 1]
    BY <2>1 DEF Given, Unlocked
  <2>4. NotLoaded \in Mem /\ NotLoaded.ref = 0 /\ m0.lock + 1 \in Int
    BY <2>1 DEF NotLoaded, Mem, Unset, InodeType, Sizes
  <2> HIDE DEF m, m0
  <2>5. m \in Mem /\ m.ref = 0 /\ m.lock = m0.lock + 1
    BY <2>3, <2>4 DEF Mem
  <2>6. Sound(m, g.disk[i])
    BY <2>3, <2>5 DEF Sound
  <2> QED BY <1>2, <2>1, <2>2, <2>5, <2>6, WithOk DEF Release, g
<1> QED BY <1>1, <1>3, <1>4

(* The table while myclose() has been called for entries below n. *)
Partly(p, S, n) ==
  [o \in Ofts |-> IF o < n /\ After(p, S, o) = 0 THEN NotOpen ELSE oft[o]]

Last1(p, S, o) == oft[o].ref > 0 /\ After(p, S, o) = 0
Turn(p, S, n, fs) == IF Last1(p, S, n - 1) THEN Release(fs, oft[n - 1].ino) ELSE fs

OftOk(p, S) ==
  oft \in [Ofts -> OftType] /\ \A o \in Ofts : Last1(p, S, o) => oft[o].ino \in Ino

(* What FsClosed defines by recursion. *)
LEMMA FsClosedValue ==
  ASSUME Sizes, FsOk(Now), NEW p, NEW S, OftOk(p, S)
  PROVE  \E f : /\ FsClosed(p, S) = f[NOFT] /\ f[0] = Now
                /\ \A n \in 1..NOFT : f[n] = Turn(p, S, n, f[n - 1])
<1> DEFINE V == {fs \in FsType : FsOk(fs)}
           step == [z \in (1..NOFT) \X V |-> Turn(p, S, z[1], z[2])]
           Eq(f) == f = [n \in 0..NOFT |-> IF n = 0 THEN Now
                          ELSE IF Last1(p, S, n - 1) THEN Release(f[n - 1], oft[n - 1].ino) ELSE f[n - 1]]
<1>1. NOFT \in Nat /\ Now \in V
  BY DEF Sizes, FsOk
<1>2. \A n \in 1..NOFT : n - 1 \in Ofts
  BY <1>1 DEF Ofts
<1>3. \A n \in 1..NOFT, fs \in V : Turn(p, S, n, fs) \in V
  <2>1. TAKE n \in 1..NOFT, fs \in V
  <2>2. Last1(p, S, n - 1) => oft[n - 1].ino \in Ino
    BY <1>2 DEF OftOk
  <2>3. Last1(p, S, n - 1) => FsOk(Release(fs, oft[n - 1].ino))
    BY <2>2, ReleaseOk
  <2> QED BY <2>3 DEF Turn, FsOk
<1> HIDE DEF V
<1>4. step \in [(1..NOFT) \X V -> V]
  BY <1>3
<1> HIDE DEF step
<1>0. Recursion(NOFT, V, Now, step)
  BY <1>1, <1>4 DEF Recursion
<1>5. PICK f \in [0..NOFT -> V] : f[0] = Now /\ \A n \in 1..NOFT : f[n] = step[<<n, f[n - 1]>>]
  BY <1>0, IntervalRecursion
<1>6. \A n \in 1..NOFT : f[n] = Turn(p, S, n, f[n - 1])
  <2>1. TAKE n \in 1..NOFT
  <2>2. f[n - 1] \in V
    BY <1>1
  <2>3. step[<<n, f[n - 1]>>] = Turn(p, S, n, f[n - 1])
    BY <2>2 DEF step
  <2> QED BY <1>5, <2>3
<1>7. f = [n \in 0..NOFT |-> f[n]]
  BY <1>5
<1>8. Eq(f)
  BY <1>1, <1>5, <1>6, <1>7 DEF Turn
<1> DEFINE u == CHOOSE g : Eq(g)
<1>9. FsClosed(p, S) = u[NOFT]
  BY Zenon DEF FsClosed, Last1
<1>10. Eq(u)
  BY <1>8, Zenon
<1> HIDE DEF u
<1>11. u[0] = Now /\ \A n \in 1..NOFT : u[n] = Turn(p, S, n, u[n - 1])
  BY <1>1, <1>10 DEF Turn
<1> QED BY <1>9, <1>11, Zenon

(* What becomes of an entry. *)
ClosedEntry(p, S, o, e) ==
  /\ e.ref = After(p, S, o)
  /\ After(p, S, o) > 0 => e.ino = oft[o].ino /\ e.write = oft[o].write
  /\ After(p, S, o) = 0 => e = NotOpen

(* myclose() of descriptors gives back the minodes of the entries that lose their last
   one. *)
LEMMA FsClosedCounted ==
  ASSUME Sizes, Counted(Now, cwd, oft), NEW p, NEW S, OftOk(p, S),
         \A o \in Ofts : After(p, S, o) \in Nat /\ After(p, S, o) <= oft[o].ref
  PROVE  LET g == FsClosed(p, S)
         IN  /\ Counted(g, cwd, OftClosed(p, S)) /\ Shapes(g) = Shapes(Now)
             /\ OftClosed(p, S) \in [Ofts -> OftType]
             /\ \A o \in Ofts : ClosedEntry(p, S, o, OftClosed(p, S)[o])
<1>1. PICK f : /\ FsClosed(p, S) = f[NOFT] /\ f[0] = Now
               /\ \A n \in 1..NOFT : f[n] = Turn(p, S, n, f[n - 1])
  BY FsClosedValue DEF Counted
<1>2. NOFT \in Nat /\ NotOpen \in OftType /\ NotOpen.ref = 0
  BY DEF Sizes, NotOpen, OftType
<1>3. \A n : Partly(p, S, n) \in [Ofts -> OftType]
  BY <1>2 DEF Partly, OftOk
<1> DEFINE T == {n \in 0..NOFT : Counted(f[n], cwd, Partly(p, S, n)) /\ Shapes(f[n]) = Shapes(Now)}
<1>4. 0 \in T
  <2>1. \A o \in Ofts : o \in Nat /\ ~ (o < 0)
    BY TablesFinite
  <2>2. Partly(p, S, 0) = oft
    BY <2>1 DEF Partly, OftOk
  <2> QED BY <1>1, <1>2, <2>2
<1>5. ASSUME NEW n \in 0..(NOFT - 1), n \in T PROVE n + 1 \in T
  <2>1. n \in Ofts /\ n + 1 \in 1..NOFT /\ (n + 1) - 1 = n /\ n + 1 \in 0..NOFT
    BY <1>2 DEF Ofts
  <2> DEFINE g == f[n]
             h == f[n + 1]
             of == Partly(p, S, n)
             e == IF After(p, S, n) = 0 THEN NotOpen ELSE oft[n]
             i == oft[n].ino
  <2>2. h = IF Last1(p, S, n) THEN Release(g, i) ELSE g
    BY <1>1, <2>1 DEF Turn
  <2>3. Counted(g, cwd, of) /\ Shapes(g) = Shapes(Now)
    BY <1>5
  <2>4. Partly(p, S, n + 1) = [of EXCEPT ![n] = e] /\ of[n] = oft[n] /\ of \in [Ofts -> OftType]
    <3>1. \A o \in Ofts : o \in Nat /\ (o < n + 1 <=> o < n \/ o = n) /\ ~ (n < n)
      BY <2>1, TablesFinite
    <3>2. \A o \in Ofts : Partly(p, S, n + 1)[o] = IF o = n THEN e ELSE of[o]
      BY <3>1 DEF Partly
    <3>3. of[n] = oft[n] /\ of \in [Ofts -> OftType]
      BY <1>3, <2>1, <3>1 DEF Partly
    <3> QED BY <1>3, <3>2, <3>3
  <2>5. e \in OftType /\ (e.ref > 0 => e = oft[n])
    BY <1>2, <2>1 DEF OftOk
  <2> HIDE DEF of, e, g, h
  <2> HIDE DEF i
  <2>6. \A j : Users(cwd, Partly(p, S, n + 1), j)
               = Users(cwd, of, j) - (IF oft[n].ref > 0 /\ i = j THEN 1 ELSE 0)
                                   + (IF e.ref > 0 /\ e.ino = j THEN 1 ELSE 0)
    <3>1. TAKE j
    <3>2. Put(of, Ofts, OftType, n, e, Partly(p, S, n + 1))
      BY <2>1, <2>4, <2>5 DEF Put
    <3> QED BY <2>4, <3>2, UsersOft DEF i
  <2>7. \A j : Users(cwd, of, j) \in Nat
    BY UsersType
  <2>8. CASE Last1(p, S, n)
    <3>1. e = NotOpen /\ oft[n].ref > 0 /\ i \in Ino /\ ~ (e.ref > 0)
      BY <1>2, <2>1, <2>8 DEF Last1, e, OftOk, i
    <3>2. Users(cwd, of, i) > 0
      BY <2>4, <2>1, <3>1, SomeUser DEF i
    <3>3. Moves(g, h, i, -1, 0) /\ Shapes(h) = Shapes(g)
      BY <2>2, <2>3, <2>8, <3>1, <3>2, ReleaseMoves DEF Counted
    <3>4. \A j \in Ino : Users(cwd, Partly(p, S, n + 1), j) = Users(cwd, of, j) - IF j = i THEN 1 ELSE 0
      BY <2>6, <2>7, <3>1
    <3>5. Counted(h, cwd, Partly(p, S, n + 1))
      BY <2>3, <2>7, <3>3, <3>4 DEF Counted, Moves
    <3> QED BY <2>1, <2>3, <3>3, <3>5 DEF h
  <2>9. CASE ~ Last1(p, S, n)
    <3>1. h = g
      BY <2>2, <2>9
    <3>2. e = oft[n] \/ (~ (oft[n].ref > 0) /\ ~ (e.ref > 0))
      BY <1>2, <2>9 DEF Last1, e
    <3>3. \A j \in Ino : Users(cwd, Partly(p, S, n + 1), j) = Users(cwd, of, j)
      BY <2>6, <2>7, <3>2 DEF i
    <3> QED BY <2>1, <2>3, <3>1, <3>3 DEF h, Counted
  <2> QED BY <2>8, <2>9
<1> HIDE DEF T
<1>6. NOFT \in T
  <2>1. \A n \in 0..(NOFT - 1) : n \in T => n + 1 \in T
    BY <1>5
  <2>2. \A n \in 0..NOFT : n \in T
    BY <1>2, <1>4, <2>1, IntervalInduction
  <2> QED BY <1>2, <2>2
<1>7. Counted(f[NOFT], cwd, Partly(p, S, NOFT)) /\ Shapes(f[NOFT]) = Shapes(Now)
  BY <1>6 DEF T
<1> DEFINE closed == OftClosed(p, S)
           part == Partly(p, S, NOFT)
<1>8. ASSUME NEW o \in Ofts
      PROVE  /\ closed[o] \in OftType /\ ClosedEntry(p, S, o, closed[o])
             /\ part[o].ref > 0 <=> closed[o].ref > 0
             /\ closed[o].ref > 0 => part[o].ino = closed[o].ino
  <2>1. o < NOFT /\ oft[o] \in OftType
    BY <1>2 DEF Ofts, OftOk
  <2>2. closed[o] = IF After(p, S, o) <= 0 THEN NotOpen ELSE [oft[o] EXCEPT !.ref = After(p, S, o)]
    BY DEF OftClosed
  <2>3. part[o] = IF After(p, S, o) = 0 THEN NotOpen ELSE oft[o]
    BY <2>1 DEF Partly
  <2>4. oft[o].ref \in Nat /\ After(p, S, o) \in Nat /\ After(p, S, o) <= oft[o].ref
    BY <2>1 DEF OftType
  <2> HIDE DEF closed, part
  <2> QED BY <1>2, <2>1, <2>2, <2>3, <2>4 DEF OftType, ClosedEntry
<1>9. closed \in [Ofts -> OftType]
  <2>1. closed = [o \in Ofts |-> closed[o]]
    BY DEF OftClosed
  <2> HIDE DEF closed
  <2> QED BY <1>8, <2>1
<1>10. \A i : Users(cwd, part, i) = Users(cwd, closed, i)
  <2>1. TAKE i
  <2>2. {o \in Ofts : part[o].ref > 0 /\ part[o].ino = i} = {o \in Ofts : closed[o].ref > 0 /\ closed[o].ino = i}
    BY <1>8
  <2> QED BY <2>2 DEF Users
<1> QED BY <1>1, <1>7, <1>8, <1>9, <1>10 DEF Counted
-----------------------------------------------------------------------------
(* The tree: directories D with a row of names each, link counts of the rest, and the
   inodes in use. *)
Row == [Entries -> Ino \cup {0}]
Named(D, rows, i) == {h \in D \X Name : rows[h[1]][h[2]] = i}

DirOk(D, rows, d) ==
  /\ rows[d]["."] = d
  /\ IF d = Root THEN rows[d][".."] = Root /\ Named(D, rows, d) = {}
     ELSE \E n \in Name : Named(D, rows, d) = {<<rows[d][".."], n>>}

(* A set that has the root and what is named in its directories has all directories. *)
Closed(D, rows, T) == Root \in T /\ \A d \in T \cap D, n \in Name : rows[d][n] \in T \cup {0}
Rooted(D, rows) == \A T \in SUBSET Ino : Closed(D, rows, T) => D \subseteq T

CountOk(D, rows, lk, im, i) ==
  Named(D, rows, i) # {} =>
    i \in im /\ (i \notin D => lk[i] = Cardinality(Named(D, rows, i)))

TreeOk(D, rows, lk, im) ==
  /\ D \subseteq im /\ im \subseteq Ino /\ rows \in [D -> Row] /\ Root \in D
  /\ \A d \in D : DirOk(D, rows, d)
  /\ \A i \in Ino : CountOk(D, rows, lk, im, i)
  /\ Rooted(D, rows)

LEMMA TreeFacts ==
  ASSUME Sizes, NEW D, NEW rows, NEW lk, NEW im, TreeOk(D, rows, lk, im)
  PROVE  /\ D \subseteq Ino /\ im \subseteq Ino /\ D \subseteq im /\ Root \in D
         /\ rows \in [D -> Row] /\ Name \subseteq Entries /\ "." \in Entries /\ ".." \in Entries
         /\ \A d \in D, n \in Entries : rows[d][n] \in Ino \cup {0}
         /\ \A d \in D : rows[d][".."] \in D /\ rows[d]["."] = d
         /\ 0 \notin Ino
         /\ \A i : IsFiniteSet(Named(D, rows, i))
<1>1. /\ D \subseteq Ino /\ im \subseteq Ino /\ D \subseteq im /\ Root \in D
      /\ rows \in [D -> Row] /\ Name \subseteq Entries /\ "." \in Entries /\ ".." \in Entries
      /\ 0 \notin Ino
  BY DEF TreeOk, Entries, Sizes
<1>2. \A d \in D, n \in Entries : rows[d][n] \in Ino \cup {0}
  BY <1>1 DEF Row
<1>3. \A d \in D : rows[d][".."] \in D /\ rows[d]["."] = d
  <2>1. TAKE d \in D
  <2>2. DirOk(D, rows, d)
    BY DEF TreeOk
  <2>3. CASE d = Root
    BY <1>1, <2>2, <2>3 DEF DirOk
  <2>4. CASE d # Root
    <3>1. PICK n \in Name : Named(D, rows, d) = {<<rows[d][".."], n>>}
      BY <2>2, <2>4 DEF DirOk
    <3>2. <<rows[d][".."], n>> \in D \X Name
      BY <3>1 DEF Named
    <3> QED BY <2>2, <3>2 DEF DirOk
  <2> QED BY <2>3, <2>4
<1>4. \A i : IsFiniteSet(Named(D, rows, i))
  <2>1. TAKE i
  <2>2. IsFiniteSet(D)
    BY <1>1, FS_Subset DEF Sizes
  <2>3. IsFiniteSet(D \X Name)
    BY <2>2, FS_Product DEF Sizes
  <2>4. Named(D, rows, i) \in SUBSET (D \X Name)
    BY DEF Named
  <2> QED BY <2>3, <2>4, FS_Subset
<1> QED BY <1>1, <1>2, <1>3, <1>4

(* Only the name n of d is different, and is j. *)
Renames(D, rows, d, n, j, g) ==
  /\ g \in [D -> Row] /\ d \in D /\ n \in Name
  /\ \A e \in D, m \in Entries : g[e][m] = IF e = d /\ m = n THEN j ELSE rows[e][m]

NameIs(D, rows, d, n, j, g) ==
  /\ \A i : Named(D, g, i) \ {<<d, n>>} = Named(D, rows, i) \ {<<d, n>>}
  /\ \A i : <<d, n>> \in Named(D, g, i) <=> i = j
  /\ \A e \in D : g[e]["."] = rows[e]["."] /\ g[e][".."] = rows[e][".."]

LEMMA RenamedNames ==
  ASSUME Sizes, NEW D, NEW rows, NEW d, NEW n, NEW j, NEW g, Renames(D, rows, d, n, j, g)
  PROVE  NameIs(D, rows, d, n, j, g)
<1>1. \A e \in D, m \in Name : g[e][m] = IF e = d /\ m = n THEN j ELSE rows[e][m]
  BY DEF Renames, Entries
<1>2. d \in D /\ n \in Name
  BY DEF Renames
<1>3. \A i : Named(D, g, i) \ {<<d, n>>} = Named(D, rows, i) \ {<<d, n>>}
  BY <1>1, <1>2 DEF Named
<1>4. \A i : <<d, n>> \in Named(D, g, i) <=> i = j
  BY <1>1, <1>2 DEF Named
<1>5. "." \in Entries /\ ".." \in Entries /\ n # "." /\ n # ".."
  BY <1>2 DEF Entries, Sizes
<1>6. \A e \in D : g[e]["."] = rows[e]["."] /\ g[e][".."] = rows[e][".."]
  BY <1>5 DEF Renames
<1> QED BY <1>3, <1>4, <1>6 DEF NameIs

(* A file gets a name, be it the first or another one. *)
LEMMA TreeNames ==
  ASSUME Sizes, NEW D, NEW rows, NEW lk, NEW im, TreeOk(D, rows, lk, im),
         NEW d, NEW n, NEW i \in Ino \ D, rows[d][n] = 0,
         NEW g, Renames(D, rows, d, n, i, g),
         NEW lk2, lk2[i] = Cardinality(Named(D, rows, i)) + 1, \A j \in Ino \ {i} : lk2[j] = lk[j]
  PROVE  /\ TreeOk(D, g, lk2, im \cup {i})
         /\ \A j \in Ino : Named(D, rows, j) \subseteq Named(D, g, j)
<1>a. NameIs(D, rows, d, n, i, g)
  BY RenamedNames, Zenon
<1>0. /\ \A j : Named(D, g, j) \ {<<d, n>>} = Named(D, rows, j) \ {<<d, n>>}
      /\ \A j : <<d, n>> \in Named(D, g, j) <=> j = i
      /\ \A e \in D : g[e]["."] = rows[e]["."] /\ g[e][".."] = rows[e][".."]
  BY <1>a, Zenon DEF NameIs
<1>1. /\ D \subseteq Ino /\ im \subseteq Ino /\ D \subseteq im /\ Root \in D /\ rows \in [D -> Row]
      /\ 0 \notin Ino /\ \A k : IsFiniteSet(Named(D, rows, k))
  BY TreeFacts
<1>2. d \in D /\ n \in Name /\ g \in [D -> Row] /\ Name \subseteq Entries
  BY DEF Renames, Entries
<1>3. \A j : <<d, n>> \in Named(D, rows, j) <=> j = 0
  BY <1>2 DEF Named
<1>4. \A j \in Ino \ {i} : Named(D, g, j) = Named(D, rows, j)
  <2>1. TAKE j \in Ino \ {i}
  <2>2. <<d, n>> \notin Named(D, g, j) /\ <<d, n>> \notin Named(D, rows, j)
    BY <1>1, <1>3, <1>0
  <2>3. Named(D, g, j) \ {<<d, n>>} = Named(D, rows, j) \ {<<d, n>>}
    BY <1>0
  <2> QED BY <2>2, <2>3
<1>5. Named(D, g, i) = Named(D, rows, i) \cup {<<d, n>>} /\ <<d, n>> \notin Named(D, rows, i)
  <2>1. <<d, n>> \in Named(D, g, i) /\ <<d, n>> \notin Named(D, rows, i)
    BY <1>1, <1>3, <1>0
  <2>2. Named(D, g, i) \ {<<d, n>>} = Named(D, rows, i) \ {<<d, n>>}
    BY <1>0
  <2> QED BY <2>1, <2>2
<1>6. Cardinality(Named(D, g, i)) = lk2[i]
  BY <1>1, <1>5, FS_AddElement
<1>7. \A e \in D : DirOk(D, g, e)
  <2>1. TAKE e \in D
  <2>2. DirOk(D, rows, e) /\ e \in Ino \ {i}
    BY <1>1 DEF TreeOk
  <2>3. Named(D, g, e) = Named(D, rows, e) /\ g[e]["."] = rows[e]["."] /\ g[e][".."] = rows[e][".."]
    BY <1>4, <2>2, <1>0
  <2> QED BY <2>2, <2>3 DEF DirOk
<1>8. ASSUME NEW j \in Ino PROVE CountOk(D, g, lk2, im \cup {i}, j)
  <2>1. CountOk(D, rows, lk, im, j)
    BY DEF TreeOk
  <2>2. CASE j = i
    BY <1>6, <2>2 DEF CountOk
  <2>3. CASE j # i
    BY <1>4, <2>1, <2>3 DEF CountOk
  <2> QED BY <2>2, <2>3
<1>9. Rooted(D, g)
  <2>1. SUFFICES ASSUME NEW T \in SUBSET Ino, Closed(D, g, T) PROVE D \subseteq T
    BY DEF Rooted
  <2>2. \A e \in D, m \in Name : rows[e][m] = g[e][m] \/ rows[e][m] = 0
    BY <1>2 DEF Renames
  <2>3. Closed(D, rows, T)
    BY <2>1, <2>2 DEF Closed
  <2> QED BY <2>3 DEF TreeOk, Rooted
<1>10. \A j \in Ino : Named(D, rows, j) \subseteq Named(D, g, j)
  BY <1>4, <1>5
<1> QED BY <1>1, <1>2, <1>7, <1>8, <1>9, <1>10 DEF TreeOk

(* The links of all but i, and the names, are the same; and i has one link less, or is
   free. *)
SameLinks(lk, lk2, i) == \A j \in Ino \ {i} : lk2[j] = lk[j]
SameNames(D, rows, E, g, i) == \A j \in Ino \ {i} : Named(E, g, j) = Named(D, rows, j)
OneLess(links, im, links2, im2, i) ==
  \/ im2 = im /\ links2 = links - 1
  \/ im2 = im \ {i} /\ links <= 1

(* A file loses a name; with the last one its inode is free. *)
LEMMA TreeUnnames ==
  ASSUME Sizes, NEW D, NEW rows, NEW lk, NEW im, TreeOk(D, rows, lk, im),
         NEW d, NEW n, NEW i \in Ino \ D, rows[d][n] = i,
         NEW g, Renames(D, rows, d, n, 0, g),
         NEW lk2, SameLinks(lk, lk2, i), NEW im2, OneLess(lk[i], im, lk2[i], im2, i)
  PROVE  TreeOk(D, g, lk2, im2) /\ SameNames(D, rows, D, g, i)
<1>b. /\ \A j \in Ino \ {i} : lk2[j] = lk[j]
      /\ \/ im2 = im /\ lk2[i] = lk[i] - 1
         \/ im2 = im \ {i} /\ lk[i] <= 1
  BY DEF SameLinks, OneLess
<1>a. NameIs(D, rows, d, n, 0, g)
  BY RenamedNames, Zenon
<1>0. /\ \A j : Named(D, g, j) \ {<<d, n>>} = Named(D, rows, j) \ {<<d, n>>}
      /\ \A j : <<d, n>> \in Named(D, g, j) <=> j = 0
      /\ \A e \in D : g[e]["."] = rows[e]["."] /\ g[e][".."] = rows[e][".."]
  BY <1>a, Zenon DEF NameIs
<1>1. /\ D \subseteq Ino /\ im \subseteq Ino /\ D \subseteq im /\ Root \in D /\ rows \in [D -> Row]
      /\ 0 \notin Ino /\ \A k : IsFiniteSet(Named(D, rows, k))
  BY TreeFacts
<1>2. d \in D /\ n \in Name /\ g \in [D -> Row] /\ Name \subseteq Entries
  BY DEF Renames, Entries
<1>3. \A j : <<d, n>> \in Named(D, rows, j) <=> j = i
  BY <1>2 DEF Named
<1>4. \A j \in Ino \ {i} : Named(D, g, j) = Named(D, rows, j)
  <2>1. TAKE j \in Ino \ {i}
  <2>2. <<d, n>> \notin Named(D, g, j) /\ <<d, n>> \notin Named(D, rows, j)
    BY <1>1, <1>3, <1>0
  <2>3. Named(D, g, j) \ {<<d, n>>} = Named(D, rows, j) \ {<<d, n>>}
    BY <1>0
  <2> QED BY <2>2, <2>3
<1>5. Named(D, g, i) = Named(D, rows, i) \ {<<d, n>>} /\ <<d, n>> \in Named(D, rows, i)
  <2>1. <<d, n>> \notin Named(D, g, i) /\ <<d, n>> \in Named(D, rows, i)
    BY <1>1, <1>3, <1>0
  <2>2. Named(D, g, i) \ {<<d, n>>} = Named(D, rows, i) \ {<<d, n>>}
    BY <1>0
  <2> QED BY <2>1, <2>2
<1>6. lk[i] = Cardinality(Named(D, rows, i)) /\ i \in im
  <2>1. CountOk(D, rows, lk, im, i)
    BY DEF TreeOk
  <2> QED BY <1>5, <2>1 DEF CountOk
<1>7. /\ IsFiniteSet(Named(D, g, i)) /\ Cardinality(Named(D, g, i)) \in Nat
      /\ Cardinality(Named(D, g, i)) = Cardinality(Named(D, rows, i)) - 1
      /\ Cardinality(Named(D, rows, i)) \in Nat
      /\ Cardinality(Named(D, g, i)) = 0 <=> Named(D, g, i) = {}
  <2> DEFINE A == Named(D, rows, i)
             B == Named(D, g, i)
             x == <<d, n>>
  <2>1. IsFiniteSet(A) /\ B = A \ {x} /\ x \in A
    BY <1>1, <1>5
  <2> HIDE DEF A, B, x
  <2>2. IsFiniteSet(B) /\ Cardinality(B) = Cardinality(A) - 1
    BY <2>1, FS_RemoveElement
  <2>3. Cardinality(A) \in Nat /\ Cardinality(B) \in Nat /\ (Cardinality(B) = 0 <=> B = {})
    BY <2>1, <2>2, FS_CardinalityType, FS_EmptySet
  <2> QED BY <2>2, <2>3 DEF A, B
<1>8. \A e \in D : DirOk(D, g, e)
  <2>1. TAKE e \in D
  <2>2. DirOk(D, rows, e) /\ e \in Ino \ {i}
    BY <1>1 DEF TreeOk
  <2>3. Named(D, g, e) = Named(D, rows, e) /\ g[e]["."] = rows[e]["."] /\ g[e][".."] = rows[e][".."]
    BY <1>4, <2>2, <1>0
  <2> QED BY <2>2, <2>3 DEF DirOk
<1>9. im2 \subseteq im /\ im \ {i} \subseteq im2
  BY <1>b
<1>10. ASSUME NEW j \in Ino PROVE CountOk(D, g, lk2, im2, j)
  <2>1. CountOk(D, rows, lk, im, j)
    BY DEF TreeOk
  <2>2. CASE j = i /\ im2 = im /\ lk2[i] = lk[i] - 1
    BY <1>6, <1>7, <2>2 DEF CountOk
  <2>3. CASE j = i /\ im2 = im \ {i} /\ lk[i] <= 1
    <3>1. Named(D, g, i) = {}
      BY <1>6, <1>7, <2>3
    <3> QED BY <2>3, <3>1 DEF CountOk
  <2>4. CASE j # i
    <3>1. Named(D, g, j) = Named(D, rows, j) /\ lk2[j] = lk[j]
      BY <1>b, <1>4, <2>4
    <3> QED BY <1>9, <2>1, <2>4, <3>1 DEF CountOk
  <2> QED BY <1>b, <2>2, <2>3, <2>4
<1>11. Rooted(D, g)
  <2>1. SUFFICES ASSUME NEW T \in SUBSET Ino, Closed(D, g, T) PROVE D \subseteq T
    BY DEF Rooted
  <2>2. \A e \in D, m \in Name : rows[e][m] = g[e][m] \/ rows[e][m] = i
    BY <1>2 DEF Renames
  <2>3. Closed(D, rows, T \cup {i}) /\ T \cup {i} \in SUBSET Ino
    BY <2>1, <2>2 DEF Closed
  <2>4. D \subseteq T \cup {i}
    BY <2>3 DEF TreeOk, Rooted
  <2> QED BY <2>4
<1>12. D \subseteq im2 /\ im2 \subseteq Ino
  BY <1>1, <1>9
<1> QED BY <1>1, <1>2, <1>4, <1>8, <1>10, <1>11, <1>12 DEF TreeOk, SameNames

(* A directory is made: i, in d, with the name n. *)
Grows(D, rows, d, n, i, g) ==
  /\ g \in [D \cup {i} -> Row] /\ d \in D /\ n \in Name
  /\ \A e \in D, m \in Entries : g[e][m] = IF e = d /\ m = n THEN i ELSE rows[e][m]
  /\ \A m \in Entries : g[i][m] = IF m = "." THEN i ELSE IF m = ".." THEN d ELSE 0

LEMMA TreeGrows ==
  ASSUME Sizes, NEW D, NEW rows, NEW lk, NEW im, TreeOk(D, rows, lk, im),
         NEW d, NEW n, NEW i \in Ino \ im, rows[d][n] = 0,
         NEW g, Grows(D, rows, d, n, i, g),
         NEW lk2, SameLinks(lk, lk2, i)
  PROVE  TreeOk(D \cup {i}, g, lk2, im \cup {i}) /\ SameNames(D, rows, D \cup {i}, g, i)
<1> DEFINE E == D \cup {i}
<1>1. /\ D \subseteq Ino /\ im \subseteq Ino /\ D \subseteq im /\ Root \in D /\ rows \in [D -> Row]
      /\ 0 \notin Ino /\ Name \subseteq Entries /\ "." \in Entries /\ ".." \in Entries
  BY TreeFacts
<1>2. d \in D /\ n \in Name /\ g \in [E -> Row] /\ "." \notin Name /\ ".." \notin Name
  BY DEF Grows, Sizes
<1>3. \A e \in D, m \in Name : g[e][m] = IF e = d /\ m = n THEN i ELSE rows[e][m]
  BY <1>1 DEF Grows
<1>4. \A m \in Name : g[i][m] = 0
  BY <1>1, <1>2 DEF Grows
<1>5. \A e \in D : g[e]["."] = rows[e]["."] /\ g[e][".."] = rows[e][".."]
  BY <1>1, <1>2 DEF Grows
<1>6. g[i]["."] = i /\ g[i][".."] = d
  BY <1>1 DEF Grows
<1>7. \A j \in Ino \ {i} : Named(E, g, j) = Named(D, rows, j)
  <2>1. TAKE j \in Ino \ {i}
  <2>2. ASSUME NEW e \in E, NEW m \in Name
        PROVE  g[e][m] = j <=> e \in D /\ rows[e][m] = j
    <3>1. CASE e = i
      BY <1>1, <1>4, <3>1
    <3>2. CASE e \in D
      BY <1>1, <1>3, <3>2
    <3> QED BY <3>1, <3>2
  <2> QED BY <2>2 DEF Named
<1>8. Named(D, rows, i) = {} /\ i \notin D
  <2>1. CountOk(D, rows, lk, im, i)
    BY DEF TreeOk
  <2> QED BY <1>1, <2>1 DEF CountOk
<1>9. Named(E, g, i) = {<<d, n>>}
  <2>1. ASSUME NEW e \in E, NEW m \in Name
        PROVE  g[e][m] = i <=> e = d /\ m = n
    <3>1. CASE e = i
      BY <1>1, <1>2, <1>4, <1>8, <3>1
    <3>2. CASE e \in D
      <4>1. <<e, m>> \notin Named(D, rows, i)
        BY <1>8
      <4>2. rows[e][m] # i
        BY <3>2, <4>1 DEF Named
      <4> QED BY <1>3, <3>2, <4>2
    <3> QED BY <3>1, <3>2
  <2>2. <<d, n>> \in E \X Name
    BY <1>2
  <2> QED BY <2>1, <2>2 DEF Named
<1>10. \A e \in E : DirOk(E, g, e)
  <2>1. TAKE e \in E
  <2>2. CASE e \in D
    <3>1. DirOk(D, rows, e) /\ e \in Ino \ {i}
      BY <1>1, <1>8, <2>2 DEF TreeOk
    <3>2. Named(E, g, e) = Named(D, rows, e) /\ g[e]["."] = rows[e]["."] /\ g[e][".."] = rows[e][".."]
      BY <1>5, <1>7, <2>2, <3>1
    <3> HIDE DEF E
    <3> QED BY <3>1, <3>2 DEF DirOk
  <2>3. CASE e = i
    <3>1. i # Root /\ n \in Name
      BY <1>1, <1>2, <1>8
    <3> HIDE DEF E
    <3> QED BY <1>6, <1>9, <2>3, <3>1 DEF DirOk
  <2> QED BY <2>2, <2>3
<1>11. ASSUME NEW j \in Ino PROVE CountOk(E, g, lk2, im \cup {i}, j)
  <2>1. CountOk(D, rows, lk, im, j)
    BY DEF TreeOk
  <2>2. CASE j = i
    BY <2>2 DEF CountOk
  <2>3. CASE j # i
    <3>1. Named(E, g, j) = Named(D, rows, j) /\ lk2[j] = lk[j] /\ (j \in E <=> j \in D)
      BY <1>7, <2>3 DEF SameLinks
    <3> HIDE DEF E
    <3> QED BY <2>1, <3>1 DEF CountOk
  <2> QED BY <2>2, <2>3
<1>12. Rooted(E, g)
  <2>1. SUFFICES ASSUME NEW T \in SUBSET Ino, Closed(E, g, T) PROVE E \subseteq T
    BY DEF Rooted
  <2>2. \A e \in D, m \in Name : rows[e][m] = g[e][m] \/ rows[e][m] = 0
    <3>1. TAKE e \in D, m \in Name
    <3> QED BY <1>3
  <2>3. Closed(D, rows, T)
    BY <2>1, <2>2 DEF Closed
  <2>4. D \subseteq T
    BY <2>3 DEF TreeOk, Rooted
  <2>5. g[d][n] = i
    BY <1>2, <1>3
  <2>6. i \in T
    BY <1>1, <1>2, <2>1, <2>4, <2>5 DEF Closed
  <2> QED BY <2>4, <2>6
<1>13. E \subseteq im \cup {i} /\ im \cup {i} \subseteq Ino /\ Root \in E
  BY <1>1
<1> QED BY <1>2, <1>7, <1>10, <1>11, <1>12, <1>13 DEF TreeOk, SameNames

(* An empty directory goes: i, which is named n in d. *)
Shrinks(D, rows, d, n, i, g) ==
  /\ g \in [D \ {i} -> Row] /\ d \in D /\ n \in Name
  /\ \A e \in D \ {i}, m \in Entries : g[e][m] = IF e = d /\ m = n THEN 0 ELSE rows[e][m]

LEMMA TreeShrinks ==
  ASSUME Sizes, NEW D, NEW rows, NEW lk, NEW im, TreeOk(D, rows, lk, im),
         NEW d, NEW n, NEW i \in D \ {Root}, rows[d][n] = i, \A m \in Name : rows[i][m] = 0,
         NEW g, Shrinks(D, rows, d, n, i, g),
         NEW lk2, SameLinks(lk, lk2, i)
  PROVE  TreeOk(D \ {i}, g, lk2, im \ {i}) /\ SameNames(D, rows, D \ {i}, g, i)
<1> DEFINE E == D \ {i}
<1>1. /\ D \subseteq Ino /\ im \subseteq Ino /\ D \subseteq im /\ Root \in D /\ rows \in [D -> Row]
      /\ 0 \notin Ino /\ Name \subseteq Entries /\ "." \in Entries /\ ".." \in Entries
  BY TreeFacts
<1>2. d \in D /\ n \in Name /\ g \in [E -> Row] /\ "." \notin Name /\ ".." \notin Name
  BY DEF Shrinks, Sizes
<1>3. d # i
  BY <1>1, <1>2
<1>4. \A e \in E, m \in Name : g[e][m] = IF e = d /\ m = n THEN 0 ELSE rows[e][m]
  BY <1>1 DEF Shrinks
<1>5. \A e \in E : g[e]["."] = rows[e]["."] /\ g[e][".."] = rows[e][".."]
  BY <1>1, <1>2 DEF Shrinks
<1>6. \A j \in Ino \ {i} : Named(E, g, j) = Named(D, rows, j)
  <2>1. TAKE j \in Ino \ {i}
  <2>2. ASSUME NEW e \in D, NEW m \in Name
        PROVE  rows[e][m] = j <=> e \in E /\ g[e][m] = j
    <3>1. CASE e = i
      BY <1>1, <3>1
    <3>2. CASE e # i
      BY <1>1, <1>4, <3>2
    <3> QED BY <3>1, <3>2
  <2> QED BY <2>2 DEF Named
<1>7. Named(D, rows, i) = {<<d, n>>}
  <2>1. DirOk(D, rows, i) /\ <<d, n>> \in Named(D, rows, i)
    BY <1>2 DEF TreeOk, Named
  <2> QED BY <2>1 DEF DirOk
<1>8. Named(E, g, i) = {}
  <2>1. ASSUME NEW e \in E, NEW m \in Name PROVE g[e][m] # i
    <3>1. CASE e = d /\ m = n
      BY <1>1, <1>4, <3>1
    <3>2. CASE ~ (e = d /\ m = n)
      <4>1. <<e, m>> \notin Named(D, rows, i)
        BY <1>7, <3>2
      <4>2. rows[e][m] # i
        BY <4>1 DEF Named
      <4> QED BY <1>4, <3>2, <4>2
    <3> QED BY <3>1, <3>2
  <2> QED BY <2>1 DEF Named
<1>9. \A e \in E : DirOk(E, g, e)
  <2>1. TAKE e \in E
  <2>2. DirOk(D, rows, e) /\ e \in Ino \ {i}
    BY <1>1 DEF TreeOk
  <2>3. Named(E, g, e) = Named(D, rows, e) /\ g[e]["."] = rows[e]["."] /\ g[e][".."] = rows[e][".."]
    BY <1>5, <1>6, <2>2
  <2> HIDE DEF E
  <2> QED BY <2>2, <2>3 DEF DirOk
<1>10. ASSUME NEW j \in Ino PROVE CountOk(E, g, lk2, im \ {i}, j)
  <2>1. CountOk(D, rows, lk, im, j)
    BY DEF TreeOk
  <2>2. CASE j = i
    BY <1>8, <2>2 DEF CountOk
  <2>3. CASE j # i
    <3>1. Named(E, g, j) = Named(D, rows, j) /\ lk2[j] = lk[j] /\ (j \in E <=> j \in D)
      BY <1>6, <2>3 DEF SameLinks
    <3> HIDE DEF E
    <3> QED BY <2>1, <2>3, <3>1 DEF CountOk
  <2> QED BY <2>2, <2>3
<1>11. Rooted(E, g)
  <2>1. SUFFICES ASSUME NEW T \in SUBSET Ino, Closed(E, g, T) PROVE E \subseteq T
    BY DEF Rooted
  <2>2. ASSUME NEW e \in D, NEW m \in Name
        PROVE  rows[e][m] \in {0, i} \/ (e \in E /\ rows[e][m] = g[e][m])
    <3>1. CASE e = i
      BY <3>1
    <3>2. CASE e # i
      BY <1>4, <3>2
    <3> QED BY <3>1, <3>2
  <2>3. Closed(D, rows, T \cup {i}) /\ T \cup {i} \in SUBSET Ino
    BY <1>1, <2>1, <2>2 DEF Closed
  <2>4. D \subseteq T \cup {i}
    BY <2>3 DEF TreeOk, Rooted
  <2> QED BY <2>4
<1>12. E \subseteq im \ {i} /\ im \ {i} \subseteq Ino /\ Root \in E
  BY <1>1
<1> QED BY <1>2, <1>6, <1>9, <1>10, <1>11, <1>12 DEF TreeOk, SameNames

(* An inode that is allocated for nothing. *)
LEMMA TreeAllocates ==
  ASSUME Sizes, NEW D, NEW rows, NEW lk, NEW im, TreeOk(D, rows, lk, im),
         NEW im2, im \subseteq im2, im2 \subseteq Ino
  PROVE  TreeOk(D, rows, lk, im2)
<1>1. \A i \in Ino : CountOk(D, rows, lk, im2, i)
  BY DEF TreeOk, CountOk
<1> QED BY <1>1 DEF TreeOk
-----------------------------------------------------------------------------
(* The disk as the calls see it: shapes sh, directory blocks dr, bitmaps im and bm. *)
DirsOf(sh) == {i \in Ino : sh[i].type = Dir}
At(sh, d) == CHOOSE b \in sh[d].blocks : TRUE
RowsOf(sh, dr) == [d \in DirsOf(sh) |-> dr[At(sh, d)]]
LinksOf(sh) == [i \in Ino |-> sh[i].links]
NamesIn(sh, dr, i) == Named(DirsOf(sh), RowsOf(sh, dr), i)

BlocksOk(sh, bm) ==
  /\ bm \subseteq Block
  /\ \A i \in Ino : /\ sh[i].blocks \subseteq bm
                    /\ sh[i].type = Dir => \E b \in Block : sh[i].blocks = {b}
  /\ \A i, j \in Ino : i # j => sh[i].blocks \cap sh[j].blocks = {}

DiskOk(sh, dr, im, bm) ==
  /\ sh \in [Ino -> InodeType] /\ dr \in [Block -> Row]
  /\ BlocksOk(sh, bm)
  /\ TreeOk(DirsOf(sh), RowsOf(sh, dr), LinksOf(sh), im)

LEMMA DiskFacts ==
  ASSUME Sizes, NEW sh, NEW dr, NEW im, NEW bm, DiskOk(sh, dr, im, bm)
  PROVE  /\ \A d \in DirsOf(sh) :
              /\ d \in Ino /\ sh[d].blocks = {At(sh, d)} /\ At(sh, d) \in bm /\ At(sh, d) \in Block
              /\ RowsOf(sh, dr)[d] = dr[At(sh, d)]
         /\ \A d, e \in DirsOf(sh) : d # e => At(sh, d) # At(sh, e)
         /\ \A i \in Ino : sh[i] \in InodeType /\ (i \notin DirsOf(sh) <=> sh[i].type = File)
<1>1. ASSUME NEW d \in DirsOf(sh)
      PROVE  /\ d \in Ino /\ sh[d].blocks = {At(sh, d)} /\ At(sh, d) \in bm /\ At(sh, d) \in Block
             /\ RowsOf(sh, dr)[d] = dr[At(sh, d)]
  <2>1. d \in Ino /\ sh[d].type = Dir
    BY DEF DirsOf
  <2>2. PICK b : sh[d].blocks = {b}
    BY <2>1 DEF DiskOk, BlocksOk
  <2>3. At(sh, d) = b
    BY <2>2 DEF At
  <2>4. b \in bm /\ b \in Block
    BY <2>1, <2>2 DEF DiskOk, BlocksOk
  <2> QED BY <2>1, <2>2, <2>3, <2>4 DEF RowsOf
<1>2. ASSUME NEW d \in DirsOf(sh), NEW e \in DirsOf(sh), d # e PROVE At(sh, d) # At(sh, e)
  <2>1. d \in Ino /\ e \in Ino /\ sh[d].blocks = {At(sh, d)} /\ sh[e].blocks = {At(sh, e)}
    BY <1>1
  <2>2. sh[d].blocks \cap sh[e].blocks = {}
    BY <1>2, <2>1 DEF DiskOk, BlocksOk
  <2> QED BY <2>1, <2>2
<1>3. \A i \in Ino : sh[i] \in InodeType /\ (i \notin DirsOf(sh) <=> sh[i].type = File)
  BY DEF DirsOf, DiskOk, InodeType, File, Dir
<1> QED BY <1>1, <1>2, <1>3

(* Of a step: only i is different, its blocks are its own or were free; and a row's
   name is j. *)
Alters(sh, sh2, i) == sh2 \in [Ino -> InodeType] /\ i \in Ino /\ \A j \in Ino \ {i} : sh2[j] = sh[j]
Reblocks(sh, bm, i, B, bm2) ==
  /\ B \subseteq bm2 /\ bm2 \subseteq Block
  /\ B \cap bm \subseteq sh[i].blocks /\ bm \ sh[i].blocks \subseteq bm2
Puts(dr, b, n, j, dr2) == dr2 = [dr EXCEPT ![b][n] = j]

LEMMA BlocksAltered ==
  ASSUME NEW sh, NEW sh2, NEW i, NEW bm, NEW bm2, BlocksOk(sh, bm), Alters(sh, sh2, i),
         Reblocks(sh, bm, i, sh2[i].blocks, bm2), sh2[i].type = Dir => \E b : sh2[i].blocks = {b}
  PROVE  BlocksOk(sh2, bm2)
<1>1. i \in Ino /\ \A j \in Ino \ {i} : sh2[j] = sh[j] /\ sh[j].blocks \cap sh[i].blocks = {}
  BY DEF Alters, BlocksOk
<1>2. \A j \in Ino \ {i} : sh2[j].blocks \subseteq bm2 /\ sh2[j].blocks \cap sh2[i].blocks = {}
  <2>1. TAKE j \in Ino \ {i}
  <2>2. sh2[j].blocks = sh[j].blocks /\ sh[j].blocks \subseteq bm /\ sh[j].blocks \cap sh[i].blocks = {}
    BY <1>1 DEF BlocksOk
  <2> QED BY <2>2 DEF Reblocks
<1>3. \A j \in Ino : sh2[j].blocks \subseteq bm2 /\ (sh2[j].type = Dir => \E b : sh2[j].blocks = {b})
  <2>1. TAKE j \in Ino
  <2>2. CASE j = i
    BY <2>2 DEF Reblocks
  <2>3. CASE j # i
    BY <1>1, <1>2, <2>3 DEF BlocksOk
  <2> QED BY <2>2, <2>3
<1>4. \A j, k \in Ino : j # k => sh2[j].blocks \cap sh2[k].blocks = {}
  <2>1. TAKE j, k \in Ino
  <2>2. SUFFICES ASSUME j # k PROVE sh2[j].blocks \cap sh2[k].blocks = {}
    OBVIOUS
  <2>3. CASE j = i
    BY <1>2, <2>2, <2>3
  <2>4. CASE k = i
    BY <1>2, <2>2, <2>4
  <2>5. CASE j # i /\ k # i
    <3>1. sh2[j] = sh[j] /\ sh2[k] = sh[k]
      BY <1>1, <2>5
    <3> QED BY <2>2, <3>1 DEF BlocksOk
  <2> QED BY <2>3, <2>4, <2>5
<1> QED BY <1>3, <1>4 DEF BlocksOk, Reblocks

(* A file that remains one leaves the directories where they are. *)
LEMMA FileAltered ==
  ASSUME NEW sh, NEW sh2, NEW i, Alters(sh, sh2, i), i \notin DirsOf(sh), i \notin DirsOf(sh2)
  PROVE  /\ DirsOf(sh2) = DirsOf(sh)
         /\ \A dr : RowsOf(sh2, dr) = RowsOf(sh, dr)
         /\ \A j \in Ino \ {i} : LinksOf(sh2)[j] = LinksOf(sh)[j]
         /\ LinksOf(sh)[i] = sh[i].links /\ LinksOf(sh2)[i] = sh2[i].links
<1>1. i \in Ino /\ \A j \in Ino \ {i} : sh2[j] = sh[j]
  BY DEF Alters
<1>2. DirsOf(sh2) = DirsOf(sh)
  BY <1>1 DEF DirsOf
<1>3. \A d \in DirsOf(sh) : At(sh2, d) = At(sh, d)
  <2>1. TAKE d \in DirsOf(sh)
  <2>2. sh2[d] = sh[d]
    BY <1>1 DEF DirsOf
  <2> QED BY <2>2 DEF At
<1>4. \A dr : RowsOf(sh2, dr) = RowsOf(sh, dr)
  BY <1>2, <1>3 DEF RowsOf
<1>5. /\ \A j \in Ino \ {i} : LinksOf(sh2)[j] = LinksOf(sh)[j]
      /\ LinksOf(sh)[i] = sh[i].links /\ LinksOf(sh2)[i] = sh2[i].links
  BY <1>1 DEF LinksOf
<1> QED BY <1>2, <1>4, <1>5

(* A name written into a directory's block. *)
LEMMA NamePut ==
  ASSUME Sizes, NEW sh, NEW dr, NEW im, NEW bm, DiskOk(sh, dr, im, bm),
         NEW d \in DirsOf(sh), NEW n \in Name, NEW j \in Ino \cup {0},
         NEW dr2, Puts(dr, At(sh, d), n, j, dr2)
  PROVE  /\ dr2 \in [Block -> Row]
         /\ Renames(DirsOf(sh), RowsOf(sh, dr), d, n, j, RowsOf(sh, dr2))
<1>1. /\ \A e \in DirsOf(sh) : At(sh, e) \in Block
      /\ \A e \in DirsOf(sh) : e # d => At(sh, e) # At(sh, d)
  BY DiskFacts
<1>2. dr \in [Block -> Row] /\ n \in Entries
  BY DEF DiskOk, Entries
<1>3. dr2 \in [Block -> Row]
  BY <1>1, <1>2 DEF Puts, Row
<1>4. \A b \in Block, m \in Entries : dr2[b][m] = IF b = At(sh, d) /\ m = n THEN j ELSE dr[b][m]
  BY <1>1, <1>2 DEF Puts, Row
<1>5. \A e \in DirsOf(sh), m \in Entries :
        RowsOf(sh, dr2)[e][m] = IF e = d /\ m = n THEN j ELSE RowsOf(sh, dr)[e][m]
  <2>1. TAKE e \in DirsOf(sh), m \in Entries
  <2>2. RowsOf(sh, dr2)[e] = dr2[At(sh, e)] /\ RowsOf(sh, dr)[e] = dr[At(sh, e)]
    BY DEF RowsOf
  <2>3. At(sh, e) \in Block /\ (e # d => At(sh, e) # At(sh, d))
    BY <1>1
  <2> QED BY <1>4, <2>2, <2>3
<1>6. RowsOf(sh, dr2) \in [DirsOf(sh) -> Row]
  BY <1>1, <1>3 DEF RowsOf
<1> QED BY <1>3, <1>5, <1>6 DEF Renames

(* Of a step: nothing happens to what is not in X. *)
Kept(sh, dr, sh2, dr2, X) ==
  \A j \in Ino \ X : /\ j \in DirsOf(sh) <=> j \in DirsOf(sh2)
                     /\ NamesIn(sh, dr, j) # {} => NamesIn(sh2, dr2, j) # {}

(* The blocks of a file become others. *)
LEMMA DiskBlocks ==
  ASSUME Sizes, NEW sh, NEW dr, NEW im, NEW bm, DiskOk(sh, dr, im, bm),
         NEW sh2, NEW i, Alters(sh, sh2, i), i \notin DirsOf(sh), i \notin DirsOf(sh2),
         sh2[i].links = sh[i].links, NEW bm2, Reblocks(sh, bm, i, sh2[i].blocks, bm2)
  PROVE  DiskOk(sh2, dr, im, bm2) /\ Kept(sh, dr, sh2, dr, {})
<1>1. /\ DirsOf(sh2) = DirsOf(sh) /\ RowsOf(sh2, dr) = RowsOf(sh, dr)
      /\ \A j \in Ino \ {i} : LinksOf(sh2)[j] = LinksOf(sh)[j]
      /\ LinksOf(sh)[i] = sh[i].links /\ LinksOf(sh2)[i] = sh2[i].links
  BY FileAltered
<1>2. LinksOf(sh2) = LinksOf(sh)
  <2>1. LinksOf(sh2) = [j \in Ino |-> LinksOf(sh2)[j]] /\ LinksOf(sh) = [j \in Ino |-> LinksOf(sh)[j]]
    BY DEF LinksOf
  <2>2. \A j \in Ino : LinksOf(sh2)[j] = LinksOf(sh)[j]
    BY <1>1
  <2> QED BY <2>1, <2>2, Zenon
<1>3. sh2[i].type # Dir
  BY DEF DirsOf, Alters
<1>4. BlocksOk(sh2, bm2)
  BY <1>3, BlocksAltered DEF DiskOk
<1>5. Kept(sh, dr, sh2, dr, {})
  BY <1>1 DEF Kept, NamesIn
<1> QED BY <1>1, <1>2, <1>4, <1>5 DEF DiskOk, Alters

(* A file gets a name. *)
LEMMA DiskNames ==
  ASSUME Sizes, NEW sh, NEW dr, NEW im, NEW bm, DiskOk(sh, dr, im, bm),
         NEW sh2, NEW i, Alters(sh, sh2, i), i \notin DirsOf(sh), i \notin DirsOf(sh2),
         sh2[i].links = Cardinality(NamesIn(sh, dr, i)) + 1, sh2[i].blocks \subseteq sh[i].blocks,
         NEW d \in DirsOf(sh), NEW n \in Name, RowsOf(sh, dr)[d][n] = 0,
         NEW dr2, Puts(dr, At(sh, d), n, i, dr2)
  PROVE  /\ DiskOk(sh2, dr2, im \cup {i}, bm) /\ Kept(sh, dr, sh2, dr2, {})
         /\ NamesIn(sh2, dr2, i) # {}
<1> DEFINE D == DirsOf(sh)
           rows == RowsOf(sh, dr)
           g == RowsOf(sh, dr2)
           lk == LinksOf(sh)
           lk2 == LinksOf(sh2)
<1>1. /\ DirsOf(sh2) = D /\ RowsOf(sh2, dr2) = g
      /\ \A j \in Ino \ {i} : lk2[j] = lk[j]
      /\ lk2[i] = sh2[i].links
  BY FileAltered
<1>2. i \in Ino /\ sh2[i].type # Dir
  BY DEF DirsOf, Alters
<1>3. dr2 \in [Block -> Row] /\ Renames(D, rows, d, n, i, g)
  BY <1>2, NamePut
<1>4. TreeOk(D, rows, lk, im)
  BY DEF DiskOk
<1>5. lk2[i] = Cardinality(Named(D, rows, i)) + 1
  BY <1>1 DEF NamesIn
<1>6. Reblocks(sh, bm, i, sh2[i].blocks, bm)
  BY <1>2 DEF Reblocks, DiskOk, BlocksOk
<1>7. BlocksOk(sh2, bm)
  BY <1>2, <1>6, BlocksAltered DEF DiskOk
<1>8. <<d, n>> \in Named(D, g, i)
  <2>1. NameIs(D, rows, d, n, i, g)
    BY <1>3, RenamedNames, Zenon
  <2> QED BY <2>1 DEF NameIs
<1> HIDE DEF D, rows, g, lk, lk2
<1>9. TreeOk(D, g, lk2, im \cup {i}) /\ \A j \in Ino : Named(D, rows, j) \subseteq Named(D, g, j)
  <2>1. i \in Ino \ D /\ rows[d][n] = 0
    BY <1>2 DEF D, rows
  <2> QED BY <1>1, <1>3, <1>4, <1>5, <2>1, TreeNames
<1>10. Kept(sh, dr, sh2, dr2, {})
  <2>1. \A j \in Ino : Named(D, rows, j) # {} => Named(D, g, j) # {}
    BY <1>9
  <2>2. \A j \in Ino : NamesIn(sh, dr, j) = Named(D, rows, j) /\ NamesIn(sh2, dr2, j) = Named(D, g, j)
    BY <1>1 DEF NamesIn, D, rows
  <2> QED BY <1>1, <2>1, <2>2 DEF Kept, D
<1>11. NamesIn(sh2, dr2, i) # {}
  BY <1>1, <1>8 DEF NamesIn
<1> QED BY <1>1, <1>3, <1>7, <1>9, <1>10, <1>11 DEF DiskOk, Alters, lk2

(* A file loses a name. *)
LEMMA DiskUnnames ==
  ASSUME Sizes, NEW sh, NEW dr, NEW im, NEW bm, DiskOk(sh, dr, im, bm),
         NEW sh2, NEW i, Alters(sh, sh2, i), i \notin DirsOf(sh), i \notin DirsOf(sh2),
         sh2[i].blocks \subseteq sh[i].blocks,
         NEW im2, OneLess(sh[i].links, im, sh2[i].links, im2, i),
         NEW d \in DirsOf(sh), NEW n \in Name, RowsOf(sh, dr)[d][n] = i,
         NEW dr2, Puts(dr, At(sh, d), n, 0, dr2)
  PROVE  DiskOk(sh2, dr2, im2, bm) /\ Kept(sh, dr, sh2, dr2, {i})
<1> DEFINE D == DirsOf(sh)
           rows == RowsOf(sh, dr)
           g == RowsOf(sh, dr2)
           lk == LinksOf(sh)
           lk2 == LinksOf(sh2)
<1>1. /\ DirsOf(sh2) = D /\ RowsOf(sh2, dr2) = g
      /\ \A j \in Ino \ {i} : lk2[j] = lk[j]
      /\ lk[i] = sh[i].links /\ lk2[i] = sh2[i].links
  BY FileAltered
<1>2. i \in Ino /\ sh2[i].type # Dir
  BY DEF DirsOf, Alters
<1>3. dr2 \in [Block -> Row] /\ Renames(D, rows, d, n, 0, g)
  BY NamePut
<1>4. TreeOk(D, rows, lk, im)
  BY DEF DiskOk
<1>5. Reblocks(sh, bm, i, sh2[i].blocks, bm)
  BY <1>2 DEF Reblocks, DiskOk, BlocksOk
<1>6. BlocksOk(sh2, bm)
  BY <1>2, <1>5, BlocksAltered DEF DiskOk
<1> HIDE DEF D, rows, g, lk, lk2
<1>7. TreeOk(D, g, lk2, im2) /\ SameNames(D, rows, D, g, i)
  <2>1. i \in Ino \ D /\ rows[d][n] = i
    BY <1>2 DEF D, rows
  <2>2. OneLess(lk[i], im, lk2[i], im2, i) /\ SameLinks(lk, lk2, i)
    BY <1>1 DEF SameLinks
  <2> QED BY <1>3, <1>4, <2>1, <2>2, TreeUnnames
<1>8. Kept(sh, dr, sh2, dr2, {i})
  <2>1. \A j \in Ino : NamesIn(sh, dr, j) = Named(D, rows, j) /\ NamesIn(sh2, dr2, j) = Named(D, g, j)
    BY <1>1 DEF NamesIn, D, rows
  <2> QED BY <1>1, <1>7, <2>1 DEF Kept, D, SameNames
<1> QED BY <1>1, <1>3, <1>6, <1>7, <1>8 DEF DiskOk, Alters, lk2

(* A directory is made, in the block z. *)
FirstNames(dr, z, i, d, dr1) ==
  dr1 = [dr EXCEPT ![z] = [NoNames EXCEPT !["."] = i, ![".."] = d]]

LEMMA DiskGrows ==
  ASSUME Sizes, NEW sh, NEW dr, NEW im, NEW bm, DiskOk(sh, dr, im, bm),
         NEW i \in Ino \ im, NEW z \in Block \ bm,
         NEW sh2, Alters(sh, sh2, i), sh2[i].type = Dir, sh2[i].blocks = {z},
         NEW d \in DirsOf(sh), NEW n \in Name, RowsOf(sh, dr)[d][n] = 0,
         NEW dr1, FirstNames(dr, z, i, d, dr1),
         NEW dr2, Puts(dr1, At(sh, d), n, i, dr2)
  PROVE  DiskOk(sh2, dr2, im \cup {i}, bm \cup {z}) /\ Kept(sh, dr, sh2, dr2, {i})
<1> DEFINE D == DirsOf(sh)
           rows == RowsOf(sh, dr)
           g == RowsOf(sh2, dr2)
           lk == LinksOf(sh)
           lk2 == LinksOf(sh2)
<1>0. /\ \A e \in D : e \in Ino /\ At(sh, e) \in bm /\ At(sh, e) \in Block /\ rows[e] = dr[At(sh, e)]
      /\ \A e, f \in D : e # f => At(sh, e) # At(sh, f)
  BY DiskFacts
<1>1. TreeOk(D, rows, lk, im) /\ dr \in [Block -> Row]
  BY DEF DiskOk
<1>2. D \subseteq im /\ "." \in Entries /\ ".." \in Entries /\ n \in Entries /\ "." # n /\ ".." # n
  BY <1>1 DEF TreeOk, Entries, Sizes
<1>3. DirsOf(sh2) = D \cup {i}
  BY DEF DirsOf, Alters
<1>4. (\A e \in D : At(sh2, e) = At(sh, e)) /\ At(sh2, i) = z
  <2>1. \A e \in D : sh2[e] = sh[e]
    BY <1>0, <1>2 DEF Alters
  <2> QED BY <2>1 DEF At
<1>5. dr1 \in [Block -> Row]
  BY <1>0, <1>1 DEF Row, NoNames, FirstNames
<1>6. \A b \in Block, m \in Entries :
        dr1[b][m] = IF b = z THEN IF m = "." THEN i ELSE IF m = ".." THEN d ELSE 0 ELSE dr[b][m]
  BY <1>1, <1>2 DEF Row, NoNames, FirstNames
<1>7. dr2 \in [Block -> Row]
  BY <1>0, <1>5 DEF Puts, Row
<1>8. \A b \in Block, m \in Entries :
        dr2[b][m] = IF b = At(sh, d) /\ m = n THEN i ELSE dr1[b][m]
  BY <1>0, <1>2, <1>5 DEF Puts, Row
<1>9. \A e \in D, m \in Entries : g[e][m] = IF e = d /\ m = n THEN i ELSE rows[e][m]
  <2>1. TAKE e \in D, m \in Entries
  <2>2. g[e] = dr2[At(sh, e)]
    BY <1>3, <1>4 DEF RowsOf
  <2>3. At(sh, e) \in Block /\ At(sh, e) # z /\ (e # d => At(sh, e) # At(sh, d))
    BY <1>0
  <2> HIDE DEF D, rows, g
  <2>4. rows[e] = dr[At(sh, e)]
    BY <1>0
  <2> QED BY <1>6, <1>8, <2>2, <2>3, <2>4
<1>10. \A m \in Entries : g[i][m] = IF m = "." THEN i ELSE IF m = ".." THEN d ELSE 0
  <2>1. TAKE m \in Entries
  <2>2. g[i] = dr2[z] /\ z # At(sh, d)
    BY <1>0, <1>3, <1>4 DEF RowsOf
  <2> HIDE DEF g, D, rows, lk, lk2
  <2>3. dr2[z][m] = dr1[z][m]
    <3>1. z \in Block /\ ~ (z = At(sh, d) /\ m = n)
      BY <2>2
    <3> QED BY <1>8, <3>1
  <2>4. dr1[z][m] = IF m = "." THEN i ELSE IF m = ".." THEN d ELSE 0
    BY <1>6
  <2> QED BY <2>2, <2>3, <2>4
<1>11. g \in [D \cup {i} -> Row]
  <2>1. \A e \in D \cup {i} : At(sh2, e) \in Block
    BY <1>0, <1>4
  <2> QED BY <1>3, <1>7, <2>1 DEF RowsOf
<1>12. SameLinks(lk, lk2, i)
  BY DEF LinksOf, Alters, SameLinks
<1>13. BlocksOk(sh2, bm \cup {z})
  <2>1. Reblocks(sh, bm, i, sh2[i].blocks, bm \cup {z}) /\ \E b : sh2[i].blocks = {b}
    BY DEF Reblocks, DiskOk, BlocksOk
  <2> QED BY <2>1, BlocksAltered DEF DiskOk
<1>14. Grows(D, rows, d, n, i, g)
  BY <1>9, <1>10, <1>11 DEF Grows
<1> HIDE DEF D, rows, g, lk, lk2
<1>15. TreeOk(D \cup {i}, g, lk2, im \cup {i}) /\ SameNames(D, rows, D \cup {i}, g, i)
  <2>1. rows[d][n] = 0
    BY DEF rows
  <2> QED BY <1>1, <1>12, <1>14, <2>1, TreeGrows
<1>16. Kept(sh, dr, sh2, dr2, {i})
  <2>1. \A j \in Ino : NamesIn(sh, dr, j) = Named(D, rows, j) /\ NamesIn(sh2, dr2, j) = Named(D \cup {i}, g, j)
    BY <1>3 DEF NamesIn, D, rows, g
  <2>2. \A j \in Ino \ {i} : j \in DirsOf(sh) <=> j \in DirsOf(sh2)
    BY <1>3 DEF D
  <2> QED BY <1>15, <2>1, <2>2 DEF Kept, SameNames
<1> QED BY <1>3, <1>7, <1>13, <1>15, <1>16 DEF DiskOk, Alters, lk2, g

(* An empty directory is removed. *)
Clears(dr, B, dr1) == dr1 = [x \in Block |-> IF x \in B THEN NoNames ELSE dr[x]]

LEMMA DiskShrinks ==
  ASSUME Sizes, NEW sh, NEW dr, NEW im, NEW bm, DiskOk(sh, dr, im, bm),
         NEW i \in DirsOf(sh) \ {Root}, \A m \in Name : RowsOf(sh, dr)[i][m] = 0,
         NEW sh2, Alters(sh, sh2, i), sh2[i].type = File, sh2[i].blocks = {},
         NEW d \in DirsOf(sh), NEW n \in Name, RowsOf(sh, dr)[d][n] = i,
         NEW dr1, Clears(dr, sh[i].blocks, dr1),
         NEW dr2, Puts(dr1, At(sh, d), n, 0, dr2)
  PROVE  DiskOk(sh2, dr2, im \ {i}, bm \ sh[i].blocks) /\ Kept(sh, dr, sh2, dr2, {i})
<1> DEFINE D == DirsOf(sh)
           rows == RowsOf(sh, dr)
           g == RowsOf(sh2, dr2)
           lk == LinksOf(sh)
           lk2 == LinksOf(sh2)
<1>0. /\ \A e \in D : /\ e \in Ino /\ At(sh, e) \in bm /\ At(sh, e) \in Block /\ rows[e] = dr[At(sh, e)]
                      /\ sh[e].blocks = {At(sh, e)}
      /\ \A e, f \in D : e # f => At(sh, e) # At(sh, f)
  BY DiskFacts
<1>1. TreeOk(D, rows, lk, im) /\ dr \in [Block -> Row] /\ 0 \notin Ino /\ i \in Ino
  BY <1>0 DEF DiskOk, Sizes
<1>2. n \in Entries /\ d # i
  BY <1>1 DEF Entries
<1>3. DirsOf(sh2) = D \ {i}
  BY DEF DirsOf, Alters, File, Dir
<1>4. \A e \in D \ {i} : At(sh2, e) = At(sh, e)
  <2>1. \A e \in D \ {i} : sh2[e] = sh[e]
    BY <1>0 DEF Alters
  <2> QED BY <2>1 DEF At
<1>5. dr1 \in [Block -> Row]
  BY <1>1 DEF Row, NoNames, Clears
<1>6. \A b \in Block : b # At(sh, i) => dr1[b] = dr[b]
  BY <1>0 DEF Clears
<1>7. dr2 \in [Block -> Row]
  BY <1>0, <1>5 DEF Puts, Row
<1>8. \A b \in Block, m \in Entries :
        dr2[b][m] = IF b = At(sh, d) /\ m = n THEN 0 ELSE dr1[b][m]
  BY <1>0, <1>2, <1>5 DEF Puts, Row
<1>9. \A e \in D \ {i}, m \in Entries : g[e][m] = IF e = d /\ m = n THEN 0 ELSE rows[e][m]
  <2>1. TAKE e \in D \ {i}, m \in Entries
  <2>2. g[e] = dr2[At(sh, e)]
    BY <1>3, <1>4 DEF RowsOf
  <2>3. At(sh, e) \in Block /\ At(sh, e) # At(sh, i) /\ (e # d => At(sh, e) # At(sh, d))
    BY <1>0
  <2> HIDE DEF D, rows, g
  <2>4. rows[e] = dr[At(sh, e)]
    BY <1>0
  <2> QED BY <1>6, <1>8, <2>2, <2>3, <2>4
<1>10. g \in [D \ {i} -> Row]
  <2>1. \A e \in D \ {i} : At(sh2, e) \in Block
    BY <1>0, <1>4
  <2> QED BY <1>3, <1>7, <2>1 DEF RowsOf
<1>11. SameLinks(lk, lk2, i)
  BY DEF LinksOf, Alters, SameLinks
<1>12. BlocksOk(sh2, bm \ sh[i].blocks)
  <2>1. Reblocks(sh, bm, i, sh2[i].blocks, bm \ sh[i].blocks) /\ sh2[i].type # Dir
    BY DEF Reblocks, DiskOk, BlocksOk, File, Dir
  <2> QED BY <2>1, BlocksAltered DEF DiskOk
<1>13. Shrinks(D, rows, d, n, i, g)
  BY <1>9, <1>10 DEF Shrinks
<1> HIDE DEF D, rows, g, lk, lk2
<1>14. TreeOk(D \ {i}, g, lk2, im \ {i}) /\ SameNames(D, rows, D \ {i}, g, i)
  <2>1. rows[d][n] = i /\ i \in D \ {Root} /\ \A m \in Name : rows[i][m] = 0
    BY DEF rows, D
  <2> QED BY <1>1, <1>11, <1>13, <2>1, TreeShrinks
<1>15. Kept(sh, dr, sh2, dr2, {i})
  <2>1. \A j \in Ino : NamesIn(sh, dr, j) = Named(D, rows, j) /\ NamesIn(sh2, dr2, j) = Named(D \ {i}, g, j)
    BY <1>3 DEF NamesIn, D, rows, g
  <2>2. \A j \in Ino \ {i} : j \in DirsOf(sh) <=> j \in DirsOf(sh2)
    BY <1>3 DEF D
  <2> QED BY <1>14, <2>1, <2>2 DEF Kept, SameNames
<1> QED BY <1>3, <1>7, <1>12, <1>14, <1>15 DEF DiskOk, Alters, lk2, g

(* mymkdir() without a block or an inode: what there is of them is lost. *)
LEMMA DiskAllocates ==
  ASSUME Sizes, NEW sh, NEW dr, NEW im, NEW bm, DiskOk(sh, dr, im, bm),
         NEW im2, im \subseteq im2, im2 \subseteq Ino, NEW bm2, bm \subseteq bm2, bm2 \subseteq Block
  PROVE  DiskOk(sh, dr, im2, bm2)
<1>1. BlocksOk(sh, bm2)
  BY DEF DiskOk, BlocksOk
<1>2. TreeOk(DirsOf(sh), RowsOf(sh, dr), LinksOf(sh), im2)
  BY TreeAllocates DEF DiskOk
<1> QED BY <1>1, <1>2 DEF DiskOk
-----------------------------------------------------------------------------
(* The inductive invariant: tables and descriptors; what processes use; and that all
   counts and the disk are right.  An entry that open() with an unknown flag has left has
   no descriptor and no inode. *)
Gone(e) == e.ref > 0 /\ e.ino = 0
Descriptors(f, o, e) == Cardinality(FdsOf(f, o)) + IF Gone(e) THEN 1 ELSE 0

Alone(of) ==
  \A o \in Ofts : of[o].write /\ ~ Gone(of[o]) =>
    {u \in Ofts : of[u].ref > 0 /\ of[u].ino = of[o].ino} = {o}

TablesOk(cw, of, f) ==
  /\ cw \in CwdType /\ of \in [Ofts -> OftType] /\ f \in FdTables
  /\ \A p \in Proc : cw[p] = None => NoFds(f, p)
  /\ \A o \in Ofts : /\ of[o].ref = Descriptors(f, o, of[o])
                     /\ of[o].ref = 0 => of[o] = NotOpen
                     /\ Gone(of[o]) => of[o].ref = 1
  /\ Alone(of)

PlacesOk(sh, dr, cw, of) ==
  /\ \A p \in Proc : cw[p] # None => cw[p] \in DirsOf(sh)
  /\ \A o \in Ofts : of[o].ref > 0 /\ ~ Gone(of[o]) =>
       /\ of[o].ino \in DirsOf(sh) \/ NamesIn(sh, dr, of[o].ino) # {}
       /\ of[o].write => of[o].ino \notin DirsOf(sh)

Sh == Shapes(Now)
Ds == DirsOf(Sh)
Rs == RowsOf(Sh, dir)

FilesInv ==
  /\ Counted(Now, cwd, oft)
  /\ TablesOk(cwd, oft, fd)
  /\ DiskOk(Sh, dir, imap, bmap)
  /\ PlacesOk(Sh, dir, cwd, oft)

(* What the operators of Files are of it. *)
LEMMA InodeFacts ==
  ASSUME Sizes, FilesInv, NEW i \in Ino
  PROVE  /\ Inode(i) = Seen(Now, i) /\ Inode(i) \in InodeType /\ Sh[i] = Shape(Inode(i))
         /\ IsDir(i) <=> i \in Ds
         /\ Inode(i).blocks = Sh[i].blocks
         /\ ~ IsDir(i) => Inode(i).type = File /\ Inode(i).links = Sh[i].links /\ Sh[i].type = File
<1>1. Inode(i) = Seen(Now, i)
  BY DEF Inode, Seen, Now
<1>2. Inode(i) \in InodeType /\ Sh[i] = Shape(Inode(i))
  BY <1>1, OneMinode DEF FilesInv, Counted, Sh
<1>3. IsDir(i) <=> i \in Ds
  BY <1>2 DEF IsDir, Ds, DirsOf, Shape
<1>4. Inode(i).blocks = Sh[i].blocks
  BY <1>2 DEF Shape
<1>5. ~ IsDir(i) => Inode(i).type = File /\ Inode(i).links = Sh[i].links /\ Sh[i].type = File
  BY <1>2 DEF IsDir, Shape, InodeType
<1> QED BY <1>1, <1>2, <1>3, <1>4, <1>5

LEMMA SearchFacts ==
  ASSUME Sizes, FilesInv, NEW d \in Ds
  PROVE  /\ d \in Ino /\ IsDir(d) /\ d # 0
         /\ \A n : Search(d, n) = Rs[d][n]
         /\ \A dr, n, j : Puts(dr, At(Sh, d), n, j, Renamed(dr, d, n, j))
<1>1. d \in Ino /\ Sh[d].blocks = {At(Sh, d)} /\ Rs[d] = dir[At(Sh, d)]
  BY DiskFacts DEF FilesInv, Ds, Rs
<1>2. Inode(d).blocks = Sh[d].blocks /\ IsDir(d)
  BY <1>1, InodeFacts
<1>3. (CHOOSE b \in Inode(d).blocks : TRUE) = At(Sh, d)
  BY <1>2 DEF At
<1>4. Inode(d).blocks # {}
  BY <1>1, <1>2
<1>5. \A n : Search(d, n) = Rs[d][n]
  BY <1>1, <1>3, <1>4 DEF Search
<1>6. \A dr, n, j : Puts(dr, At(Sh, d), n, j, Renamed(dr, d, n, j))
  BY <1>3 DEF Puts, Renamed
<1>7. d # 0
  BY <1>1 DEF Sizes
<1> QED BY <1>1, <1>2, <1>5, <1>6, <1>7

(* Paths lead to directories and to what has a name, one step after the other. *)
Places == {i \in Ino \cup {0} : i = 0 \/ i \in Ds \/ NamesIn(Sh, dir, i) # {}}
Go(i, n) == IF i # 0 /\ IsDir(i) THEN Search(i, n) ELSE 0
Start(p, path) == IF path.abs THEN Root ELSE cwd[p]
Paths == [abs : BOOLEAN, names : Seq(Entries)]

LEMMA GoPlaces ==
  ASSUME Sizes, FilesInv, NEW i \in Places, NEW n \in Entries
  PROVE  /\ Go(i, n) \in Places
         /\ Go(i, n) # 0 => i \in Ds /\ Go(i, n) = Rs[i][n] /\ Go(i, n) \in Ino
         /\ i # 0 /\ IsDir(i) => i \in Ds /\ Go(i, n) = Rs[i][n]
<1>1. CASE i \in Ds
  <2>1. Go(i, n) = Rs[i][n] /\ IsDir(i) /\ i # 0
    BY <1>1, SearchFacts DEF Go
  <2>2. TreeOk(Ds, Rs, LinksOf(Sh), imap)
    BY DEF FilesInv, DiskOk, Ds, Rs
  <2>3. Rs[i][n] \in Ino \cup {0} /\ Rs[i]["."] = i /\ Rs[i][".."] \in Ds
    BY <1>1, <2>2, TreeFacts
  <2>4. CASE n \in Name
    <3>1. <<i, n>> \in NamesIn(Sh, dir, Rs[i][n])
      BY <1>1, <2>4 DEF NamesIn, Named, Ds, Rs
    <3> QED BY <1>1, <2>1, <2>3, <3>1 DEF Places
  <2>5. CASE n \in {".", ".."}
    BY <1>1, <2>1, <2>3, <2>5 DEF Places
  <2> QED BY <2>4, <2>5 DEF Entries
<1>2. CASE i \notin Ds
  <2>1. i = 0 \/ ~ IsDir(i)
    BY <1>2, InodeFacts DEF Places
  <2>2. Go(i, n) = 0
    BY <2>1 DEF Go
  <2> QED BY <2>1, <2>2 DEF Places
<1> QED BY <1>1, <1>2

Walk(p, path, f) ==
  /\ f \in [0..Len(path.names) -> Places]
  /\ f[0] = Start(p, path) /\ f[Len(path.names)] = Getino(p, path)
  /\ \A k \in 1..Len(path.names) : f[k] = Go(f[k - 1], path.names[k])

LEMMA GetinoWalks ==
  ASSUME Sizes, FilesInv, NEW p \in Proc, Alive(p), NEW path \in Paths
  PROVE  \E f : Walk(p, path, f)
<1> DEFINE N == Len(path.names)
           step == [z \in (1..N) \X Places |-> Go(z[2], path.names[z[1]])]
           Eq(f) == f = [k \in 0..N |->
                           IF k = 0 THEN IF path.abs THEN Root ELSE cwd[p]
                           ELSE IF f[k - 1] # 0 /\ IsDir(f[k - 1])
                                THEN Search(f[k - 1], path.names[k]) ELSE 0]
<1>1. N \in Nat /\ \A k \in 1..N : path.names[k] \in Entries
  BY DEF Paths
<1>2. Start(p, path) \in Places
  <2>1. cwd[p] \in Ds
    BY DEF FilesInv, PlacesOk, Alive, Ds
  <2>2. Root \in Ds
    BY DEF FilesInv, DiskOk, TreeOk, Ds
  <2> QED BY <2>1, <2>2, SearchFacts DEF Start, Places
<1>3. step \in [(1..N) \X Places -> Places]
  <2>1. \A k \in 1..N, i \in Places : Go(i, path.names[k]) \in Places
    BY <1>1, GoPlaces
  <2> HIDE DEF N
  <2> QED BY <2>1
<1> HIDE DEF step
<1>4. Recursion(N, Places, Start(p, path), step)
  BY <1>1, <1>2, <1>3 DEF Recursion
<1>5. PICK f \in [0..N -> Places] : f[0] = Start(p, path) /\ \A k \in 1..N : f[k] = step[<<k, f[k - 1]>>]
  BY <1>4, IntervalRecursion
<1>6. \A k \in 1..N : f[k] = Go(f[k - 1], path.names[k])
  <2>1. TAKE k \in 1..N
  <2>2. f[k - 1] \in Places
    BY <1>1
  <2>3. step[<<k, f[k - 1]>>] = Go(f[k - 1], path.names[k])
    BY <2>2 DEF step
  <2> QED BY <1>5, <2>3
<1>7. f = [k \in 0..N |-> f[k]]
  BY <1>5
<1> DEFINE At0 == IF path.abs THEN Root ELSE cwd[p]
           Body(g, k) == IF k = 0 THEN At0
                         ELSE IF g[k - 1] # 0 /\ IsDir(g[k - 1]) THEN Search(g[k - 1], path.names[k]) ELSE 0
<1>a. Start(p, path) = At0 /\ \A g, k : Body(g, k) = IF k = 0 THEN At0 ELSE Go(g[k - 1], path.names[k])
  BY DEF Go, Start
<1>b. \A g : Eq(g) <=> g = [k \in 0..N |-> Body(g, k)]
  BY Zenon
<1> HIDE DEF At0, Body
<1>8. Eq(f)
  <2>1. \A k \in 0..N : f[k] = Body(f, k)
    <3>1. TAKE k \in 0..N
    <3>2. CASE k = 0
      BY <1>a, <1>5, <3>2
    <3>3. CASE k # 0
      <4>1. k \in 1..N
        BY <1>1, <3>3
      <4> QED BY <1>a, <1>6, <3>3, <4>1
    <3> QED BY <3>2, <3>3
  <2>2. f = [k \in 0..N |-> Body(f, k)]
    BY <1>7, <2>1
  <2> QED BY <1>b, <2>2, Zenon
<1> DEFINE u == CHOOSE g : Eq(g)
<1>9. Getino(p, path) = u[N]
  BY Zenon DEF Getino
<1>10. Eq(u)
  BY <1>8, Zenon
<1> HIDE DEF u
<1>11. u[0] = Start(p, path) /\ \A k \in 1..N : u[k] = Go(u[k - 1], path.names[k])
  <2>1. u = [k \in 0..N |-> Body(u, k)]
    BY <1>b, <1>10, Zenon
  <2>2. \A k \in 1..N : k \in 0..N /\ k # 0
    BY <1>1
  <2> HIDE DEF N
  <2>3. \A k \in 0..N : u[k] = Body(u, k)
    BY <2>1
  <2>4. 0 \in 0..N
    BY <1>1
  <2> QED BY <1>a, <2>2, <2>3, <2>4
<1>12. \A k \in 0..N : u[k] = f[k]
  <2> DEFINE T == {k \in 0..N : u[k] = f[k]}
  <2>1. 0 \in T
    BY <1>1, <1>5, <1>11
  <2>2. ASSUME NEW k \in 0..(N - 1), k \in T PROVE k + 1 \in T
    <3>1. k + 1 \in 1..N /\ k + 1 \in 0..N /\ (k + 1) - 1 = k
      BY <1>1
    <3> QED BY <1>6, <1>11, <2>2, <3>1
  <2> HIDE DEF T
  <2>3. \A k \in 0..N : k \in T
    BY <1>1, <2>1, <2>2, IntervalInduction
  <2> QED BY <2>3 DEF T
<1>13. f[N] = Getino(p, path)
  BY <1>1, <1>9, <1>12
<1> QED BY <1>5, <1>6, <1>13 DEF Walk

LEMMA GetinoPlace ==
  ASSUME Sizes, FilesInv, NEW p \in Proc, Alive(p), NEW path \in Paths
  PROVE  Getino(p, path) \in Places
<1>1. PICK f : Walk(p, path, f)
  BY GetinoWalks
<1>2. Len(path.names) \in 0..Len(path.names)
  BY DEF Paths
<1> QED BY <1>1, <1>2 DEF Walk

(* The last step of a path is from its parent. *)
LEMMA GetinoSteps ==
  ASSUME Sizes, FilesInv, NEW p \in Proc, Alive(p), NEW path \in Paths, path.names # <<>>
  PROVE  /\ Parent(path) \in Paths /\ Base(path) \in Entries
         /\ Getino(p, path) = Go(Getino(p, Parent(path)), Base(path))
<1> DEFINE s == path.names
           N == Len(s)
           up == Parent(path)
<1>1. N \in Nat /\ N > 0 /\ s \in Seq(Entries)
  BY DEF Paths
<1>2. up = [abs |-> path.abs, names |-> SubSeq(s, 1, N - 1)] /\ path.abs \in BOOLEAN
  <2>1. path = [abs |-> path.abs, names |-> path.names] /\ path.abs \in BOOLEAN
    BY DEF Paths
  <2>2. Front(s) = SubSeq(s, 1, N - 1)
    BY DEF Front
  <2>3. up = [path EXCEPT !.names = Front(s)]
    BY DEF Parent
  <2> QED BY <2>1, <2>2, <2>3
<1> DEFINE t == SubSeq(s, 1, N - 1)
<1>3. t \in Seq(Entries) /\ Len(t) = N - 1 /\ \A k \in 1..(N - 1) : t[k] = s[k]
  BY <1>1
<1> HIDE DEF t
<1>4. up \in Paths /\ up.names = t /\ Start(p, up) = Start(p, path)
  BY <1>2, <1>3 DEF Paths, Start, t
<1>5. Base(path) = s[N] /\ s[N] \in Entries
  BY <1>1 DEF Base, Last
<1> HIDE DEF up
<1>6. PICK f : Walk(p, path, f)
  BY GetinoWalks
<1>7. PICK g : Walk(p, up, g)
  BY <1>4, GetinoWalks
<1>8. /\ f[0] = Start(p, path) /\ f[N] = Getino(p, path) /\ \A k \in 1..N : f[k] = Go(f[k - 1], s[k])
      /\ g[0] = Start(p, path) /\ g[N - 1] = Getino(p, up)
      /\ \A k \in 1..(N - 1) : g[k] = Go(g[k - 1], s[k])
  BY <1>3, <1>4, <1>6, <1>7 DEF Walk
<1>9. \A k \in 0..(N - 1) : f[k] = g[k]
  <2> DEFINE T == {k \in 0..(N - 1) : f[k] = g[k]}
  <2>0. N - 1 \in Nat
    BY <1>1
  <2>1. 0 \in T
    BY <1>8, <2>0
  <2>2. ASSUME NEW k \in 0..((N - 1) - 1), k \in T PROVE k + 1 \in T
    <3>1. k + 1 \in 1..(N - 1) /\ k + 1 \in 0..(N - 1) /\ k + 1 \in 1..N /\ (k + 1) - 1 = k
      BY <2>0
    <3> QED BY <1>8, <2>2, <3>1
  <2> HIDE DEF T
  <2>3. \A k \in 0..(N - 1) : k \in T
    BY <2>0, <2>1, <2>2, IntervalInduction
  <2> QED BY <2>3 DEF T
<1>10. N \in 1..N /\ N - 1 \in 0..(N - 1)
  BY <1>1
<1>11. f[N] = Go(g[N - 1], s[N])
  BY <1>8, <1>9, <1>10
<1> QED BY <1>4, <1>5, <1>8, <1>11 DEF up

(* What a path with a name at its end leads to: i, which has the name n in d. *)
LEMMA NamePathLeads ==
  ASSUME Sizes, FilesInv, NEW p \in Proc, Alive(p), NEW path \in NamePath
  PROVE  LET i == Getino(p, path)
             d == Getino(p, Parent(path))
             n == Base(path)
         IN  /\ i \in Places /\ d \in Places /\ n \in Entries
             /\ i # 0 => d \in Ds /\ Rs[d][n] = i /\ i \in Ino
             /\ d # 0 /\ IsDir(d) => d \in Ds /\ i = Rs[d][n]
             /\ d \in Ds /\ i \notin Ds => n \in Name
             /\ 0 \notin Ds
<1>1. path \in Paths /\ path.names # <<>>
  BY DEF NamePath, Sizes, Paths
<1>2. /\ Parent(path) \in Paths /\ Base(path) \in Entries
      /\ Getino(p, path) = Go(Getino(p, Parent(path)), Base(path))
  BY <1>1, GetinoSteps
<1>3. Getino(p, path) \in Places /\ Getino(p, Parent(path)) \in Places
  BY <1>1, <1>2, GetinoPlace
<1> DEFINE i == Getino(p, path)
           d == Getino(p, Parent(path))
           n == Base(path)
<1>4. d \in Places /\ n \in Entries /\ i = Go(d, n)
  BY <1>2, <1>3
<1> HIDE DEF i, d, n
<1>5. /\ i # 0 => d \in Ds /\ i = Rs[d][n] /\ i \in Ino
      /\ d # 0 /\ IsDir(d) => d \in Ds /\ i = Rs[d][n]
  BY <1>4, GoPlaces
<1>6. 0 \notin Ds
  BY DEF Sizes, Ds, DirsOf
<1>7. ASSUME d \in Ds, n \notin Name PROVE i \in Ds
  <2>1. TreeOk(Ds, Rs, LinksOf(Sh), imap)
    BY DEF FilesInv, DiskOk, Ds, Rs
  <2>2. Rs[d]["."] = d /\ Rs[d][".."] \in Ds
    BY <1>7, <2>1, TreeFacts DEF TreeOk, DirOk
  <2>3. n = "." \/ n = ".."
    BY <1>4, <1>7 DEF Entries
  <2>4. d # 0 /\ IsDir(d)
    BY <1>7, SearchFacts
  <2>5. i = Rs[d][n]
    BY <1>5, <2>4
  <2>6. CASE n = "."
    BY <1>7, <2>2, <2>5, <2>6
  <2>7. CASE n = ".."
    BY <2>2, <2>5, <2>7
  <2> QED BY <2>3, <2>6, <2>7
<1> QED BY <1>3, <1>4, <1>5, <1>6, <1>7 DEF i, d, n
-----------------------------------------------------------------------------
(* Every step keeps the invariant.  First what it comes to. *)
LEMMA StepIs ==
  ASSUME Sizes, NEW fs, Becomes(fs), Counted(fs, cwd', oft'), TablesOk(cwd', oft', fd'),
         DiskOk(Shapes(fs), dir', imap', bmap'), PlacesOk(Shapes(fs), dir', cwd', oft')
  PROVE  FilesInv'
<1>1. Now' = fs
  BY DEF Becomes, Now, Counted, FsOk, FsType
<1> QED BY <1>1 DEF FilesInv, Sh

Idle(cw, of, X) ==
  (\A p \in Proc : cw[p] \notin X) /\ (\A o \in Ofts : of[o].ref > 0 => of[o].ino \notin X)

LEMMA NobodyIdle ==
  ASSUME Sizes, NEW cw, NEW of
  PROVE  Idle(cw, of, {}) /\ \A i : Users(cw, of, i) = 0 => Idle(cw, of, {i})
<1>1. Idle(cw, of, {})
  BY DEF Idle
<1>2. ASSUME NEW i, Users(cw, of, i) = 0 PROVE Idle(cw, of, {i})
  <2>1. /\ \A p \in Proc : cw[p] # i
        /\ \A o \in Ofts : of[o].ref > 0 => of[o].ino # i
    BY <1>2, UsersType
  <2> QED BY <2>1 DEF Idle
<1> QED BY <1>1, <1>2

LEMMA PlacesKept ==
  ASSUME Sizes, NEW sh, NEW dr, NEW cw, NEW of, NEW f, PlacesOk(sh, dr, cw, of), TablesOk(cw, of, f),
         NEW sh2, NEW dr2, NEW X, Kept(sh, dr, sh2, dr2, X), Idle(cw, of, X)
  PROVE  PlacesOk(sh2, dr2, cw, of)
<1>1. \A p \in Proc : cw[p] # None => cw[p] \in DirsOf(sh2)
  <2>1. TAKE p \in Proc
  <2>2. cw[p] # None => cw[p] \in Ino \ X /\ cw[p] \in DirsOf(sh)
    BY DEF TablesOk, CwdType, Idle, PlacesOk
  <2> QED BY <2>2 DEF Kept
<1>2. ASSUME NEW o \in Ofts, of[o].ref > 0, ~ Gone(of[o])
      PROVE  /\ of[o].ino \in DirsOf(sh2) \/ NamesIn(sh2, dr2, of[o].ino) # {}
             /\ of[o].write => of[o].ino \notin DirsOf(sh2)
  <2>1. of[o].ino \in Ino \ X
    BY <1>2 DEF TablesOk, Idle, OftType, Gone
  <2>2. /\ of[o].ino \in DirsOf(sh) \/ NamesIn(sh, dr, of[o].ino) # {}
        /\ of[o].write => of[o].ino \notin DirsOf(sh)
    BY <1>2 DEF PlacesOk
  <2> QED BY <2>1, <2>2 DEF Kept
<1> QED BY <1>1, <1>2 DEF PlacesOk

(* The counts stay, too. *)
Still(fs, g) == FsOk(g) /\ \A j \in Ino : Refs(g)[j] = Refs(fs)[j] /\ Locks(g)[j] = Locks(fs)[j]

LEMMA CountedStill ==
  ASSUME NEW fs, NEW g, NEW cw, NEW of, Counted(fs, cw, of), Still(fs, g)
  PROVE  Counted(g, cw, of)
BY DEF Counted, Still

LEMMA StillStill ==
  ASSUME NEW fs, NEW g, NEW h, Still(fs, g), Still(g, h)
  PROVE  Still(fs, h)
BY DEF Still

LEMMA MovesStill ==
  ASSUME NEW fs, FsOk(fs), NEW g, NEW i, Moves(fs, g, i, 0, 0)
  PROVE  Still(fs, g)
<1>1. Refs(fs) \in [Ino -> Nat] /\ Locks(fs) \in [Ino -> Int]
  BY DEF FsOk, FsType, Mem, Refs, Locks
<1> QED BY <1>1 DEF Moves, Still

(* Taken, used and put back. *)
LEMMA UsedStill ==
  ASSUME Sizes, NEW fs, FsOk(fs), NEW i \in Ino, NEW f, NEW g, Moves(fs, f, i, 1, -1), Still(f, g)
  PROVE  /\ Refs(g)[i] > 0
         /\ Still(fs, Iput(g, i)) /\ Shapes(Iput(g, i)) = Shapes(g)
         /\ \A j \in Ino \ {i} : Seen(Iput(g, i), j) = Seen(g, j)
<1>1. Refs(fs) \in [Ino -> Nat] /\ Locks(fs) \in [Ino -> Int]
  BY OneMinode
<1>2. Refs(g)[i] = Refs(fs)[i] + 1 /\ FsOk(g)
  BY DEF Moves, Still
<1>3. Refs(g)[i] > 0
  BY <1>1, <1>2
<1>4. /\ Moves(g, Iput(g, i), i, -1, 1) /\ Shapes(Iput(g, i)) = Shapes(g)
      /\ \A j \in Ino \ {i} : Seen(Iput(g, i), j) = Seen(g, j)
  BY <1>2, <1>3, IputMoves
<1> DEFINE h == Iput(g, i)
<1> HIDE DEF h
<1>5. Still(fs, h)
  BY <1>1, <1>4 DEF Moves, Still, h
<1> QED BY <1>3, <1>4, <1>5 DEF h

(* mycreat() and mymkdir() of inode i *)
LEMMA NewInodeStill ==
  ASSUME Sizes, NEW fs, FsOk(fs), NEW i \in Ino, NEW rec \in InodeType
  PROVE  LET g == NewInode(fs, i, rec)
         IN  /\ Still(fs, g) /\ Shapes(g) = [Shapes(fs) EXCEPT ![i] = Shape(rec)]
             /\ \A j \in Ino \ {i} : Seen(g, j) = Seen(fs, j)
<1> DEFINE f == Iget(fs, i)
           s == Set(f, i, rec)
<1>1. Moves(fs, f, i, 1, -1) /\ Shapes(f) = Shapes(fs) /\ \A j \in Ino : Seen(f, j) = Seen(fs, j)
  BY IgetMoves
<1>2. FsOk(f) /\ Refs(f)[i] > 0
  BY <1>1, OneMinode DEF Moves
<1> HIDE DEF f
<1>3. /\ Moves(f, s, i, 0, 0) /\ Shapes(s) = [Shapes(f) EXCEPT ![i] = Shape(rec)]
      /\ \A j \in Ino : Seen(s, j) = IF j = i THEN rec ELSE Seen(f, j)
  BY <1>2, SetMoves
<1> HIDE DEF s
<1>4. Still(f, s)
  BY <1>2, <1>3, MovesStill
<1>5. /\ Still(fs, Iput(s, i)) /\ Shapes(Iput(s, i)) = Shapes(s)
      /\ \A j \in Ino \ {i} : Seen(Iput(s, i), j) = Seen(s, j)
  BY <1>1, <1>4, UsedStill
<1> QED BY <1>1, <1>3, <1>5 DEF NewInode, f, s

(* ocreat() and kcreat() *)
LEMMA CreatStill ==
  ASSUME Sizes, NEW fs, FsOk(fs), NEW d \in Ino, NEW i \in Ino
  PROVE  LET g == Iput(Mycreat(Iget(fs, d), i), d)
         IN  Still(fs, g) /\ Shapes(g) = [Shapes(fs) EXCEPT ![i] = Fresh(File, 1, {})]
<1> DEFINE f == Iget(fs, d)
           c == Mycreat(f, i)
<1>1. Moves(fs, f, d, 1, -1) /\ Shapes(f) = Shapes(fs) /\ FsOk(f)
  BY IgetMoves DEF Moves
<1> HIDE DEF f
<1>2. Fresh(File, 1, {}) \in InodeType /\ Shape(Fresh(File, 1, {})) = Fresh(File, 1, {})
  BY DEF Fresh, InodeType, Shape, Sizes
<1>3. Still(f, c) /\ Shapes(c) = [Shapes(f) EXCEPT ![i] = Fresh(File, 1, {})]
  BY <1>1, <1>2, NewInodeStill DEF Mycreat
<1> HIDE DEF c
<1>4. Still(fs, Iput(c, d)) /\ Shapes(Iput(c, d)) = Shapes(c)
  BY <1>1, <1>3, UsedStill
<1> QED BY <1>1, <1>3, <1>4 DEF f, c
-----------------------------------------------------------------------------
(* One lemma per call. *)
LEMMA NowCounted ==
  ASSUME FilesInv
  PROVE  FsOk(Now) /\ Counted(Now, cwd, oft) /\ \A i \in Ino : Refs(Now)[i] = Users(cwd, oft, i)
BY DEF FilesInv, Counted

LEMMA StatStep ==
  ASSUME Sizes, FilesInv, NEW p \in Proc, Alive(p), NEW path \in Path, Stat(p, path) \/ Touch(p, path)
  PROVE  FilesInv'
<1>1. PICK i : i = Getino(p, path)
  OBVIOUS
<1>2. i \in Ino
  BY <1>1, GetinoPlace DEF Stat, Touch, Places, Sizes, Paths
<1>3. FsOk(Now)
  BY NowCounted
<1>4. PICK f : f = Iget(Now, i)
  OBVIOUS
<1>5. Moves(Now, f, i, 1, -1) /\ Shapes(f) = Shapes(Now)
  BY <1>2, <1>3, <1>4, IgetMoves
<1>6. FsOk(f) /\ Refs(f)[i] > 0
  BY <1>2, <1>3, <1>5, OneMinode DEF Moves
<1>7. PICK g : /\ g = f \/ g = Dirtied(f, i)
               /\ Becomes(Iput(g, i))
  BY <1>1, <1>4 DEF Stat, Touch
<1>8. Still(f, g) /\ Shapes(g) = Shapes(f)
  <2>1. CASE g = f
    BY <1>6, <2>1 DEF Still
  <2>2. CASE g = Dirtied(f, i)
    BY <1>2, <1>6, <2>2, DirtiedMoves, MovesStill
  <2> QED BY <1>7, <2>1, <2>2
<1>9. PICK h : h = Iput(g, i)
  OBVIOUS
<1>10. Still(Now, h) /\ Shapes(h) = Shapes(Now)
  BY <1>2, <1>3, <1>5, <1>8, <1>9, UsedStill
<1>11. Counted(h, cwd, oft)
  BY <1>10, CountedStill, NowCounted
<1>12. imap' = imap /\ bmap' = bmap /\ dir' = dir /\ oft' = oft /\ fd' = fd /\ cwd' = cwd
  BY DEF Stat, Touch
<1>13. /\ Counted(h, cwd', oft') /\ TablesOk(cwd', oft', fd')
       /\ DiskOk(Shapes(h), dir', imap', bmap') /\ PlacesOk(Shapes(h), dir', cwd', oft')
  BY <1>10, <1>11, <1>12 DEF FilesInv, Sh
<1> QED BY <1>7, <1>9, <1>13, StepIs

LEMMA SyncStep ==
  ASSUME Sizes, FilesInv, Sync
  PROVE  FilesInv'
<1>1. PICK g : g = [mem |-> minode', disk |-> inode']
  OBVIOUS
<1>2. Now.mem = minode /\ Now.disk = inode /\ g.mem = minode' /\ g.disk = inode' /\ Becomes(g)
  BY <1>1 DEF Now, Becomes
<1>3. /\ minode \in [Ino -> Mem] /\ inode \in [Ino -> InodeType]
      /\ \A i \in Ino : Sound(minode[i], inode[i])
  BY <1>2, NowCounted DEF FsOk, FsType
<1> DEFINE out == {i \in Ino : minode[i].ref > 0 /\ minode[i].dirty}
<1>4. /\ inode' = [i \in Ino |-> IF i \in out THEN minode[i].inode ELSE inode[i]]
      /\ minode' = [i \in Ino |-> IF i \in out THEN [minode[i] EXCEPT !.dirty = FALSE] ELSE minode[i]]
  BY DEF Sync
<1>5. ASSUME NEW i \in Ino
      PROVE  /\ minode'[i] \in Mem /\ inode'[i] \in InodeType /\ Sound(minode'[i], inode'[i])
             /\ minode'[i].ref = minode[i].ref /\ minode'[i].lock = minode[i].lock
             /\ Seen(g, i) = Seen(Now, i)
  <2>0. minode[i] \in Mem /\ inode[i] \in InodeType /\ Sound(minode[i], inode[i])
    BY <1>3
  <2>1. CASE i \in out
    <3>1. minode'[i] = [minode[i] EXCEPT !.dirty = FALSE] /\ inode'[i] = minode[i].inode
      BY <1>4, <2>1
    <3>2. /\ minode'[i] \in Mem /\ inode'[i] \in InodeType /\ minode'[i].ref = minode[i].ref
          /\ minode'[i].lock = minode[i].lock /\ minode'[i].inode = minode[i].inode
      BY <2>0, <3>1 DEF Mem
    <3>3. minode[i].ref > 0 /\ minode[i].ref # 0
      BY <2>0, <2>1 DEF Mem
    <3>4. Sound(minode'[i], inode'[i])
      BY <3>1, <3>2, <3>3 DEF Sound
    <3>5. Seen(g, i) = Seen(Now, i)
      BY <1>2, <3>2, <3>3 DEF Seen
    <3> QED BY <3>2, <3>4, <3>5
  <2>2. CASE i \notin out
    <3>1. minode'[i] = minode[i] /\ inode'[i] = inode[i]
      BY <1>4, <2>2
    <3> QED BY <1>2, <2>0, <3>1 DEF Seen
  <2> QED BY <2>1, <2>2
<1>6. FsOk(g)
  <2>1. minode' = [i \in Ino |-> minode'[i]] /\ inode' = [i \in Ino |-> inode'[i]]
    BY <1>4
  <2>2. minode' \in [Ino -> Mem] /\ inode' \in [Ino -> InodeType]
    BY <1>5, <2>1
  <2> QED BY <1>1, <1>2, <1>5, <2>2 DEF FsOk, FsType
<1>7. Shapes(g) = Shapes(Now)
  BY <1>5 DEF Shapes
<1>8. Still(Now, g)
  BY <1>2, <1>5, <1>6 DEF Still, Refs, Locks
<1>9. Counted(g, cwd, oft)
  BY <1>8, CountedStill, NowCounted
<1>10. imap' = imap /\ bmap' = bmap /\ dir' = dir /\ oft' = oft /\ fd' = fd /\ cwd' = cwd
  BY DEF Sync
<1>11. /\ Counted(g, cwd', oft') /\ TablesOk(cwd', oft', fd')
       /\ DiskOk(Shapes(g), dir', imap', bmap') /\ PlacesOk(Shapes(g), dir', cwd', oft')
  BY <1>7, <1>9, <1>10 DEF FilesInv, Sh
<1> QED BY <1>2, <1>11, StepIs

(* An entry that has a descriptor is open. *)
LEMMA DescriptorOpen ==
  ASSUME Sizes, NEW cw, NEW of, NEW f, TablesOk(cw, of, f), NEW p \in Proc, NEW x \in Fds,
         NEW o \in Ofts, f[p][x] = o
  PROVE  of[o].ref > 0 /\ ~ Gone(of[o])
<1>1. IsFiniteSet(FdsOf(f, o))
  <2>1. FdsOf(f, o) \in SUBSET (Proc \X Fds)
    BY DEF FdsOf
  <2> QED BY <2>1, TablesFinite, FS_Subset
<1>2. FdsOf(f, o) # {}
  <2>1. <<p, x>> \in FdsOf(f, o)
    BY DEF FdsOf
  <2> QED BY <2>1
<1>3. Cardinality(FdsOf(f, o)) \in Nat /\ Cardinality(FdsOf(f, o)) # 0
  BY <1>1, <1>2, FS_CardinalityType, FS_EmptySet
<1>4. of[o].ref = Descriptors(f, o, of[o]) /\ (Gone(of[o]) => of[o].ref = 1)
  BY DEF TablesOk
<1> QED BY <1>3, <1>4 DEF Descriptors

LEMMA WriteStep ==
  ASSUME Sizes, FilesInv, NEW p \in Proc, NEW x \in Held(p), Write(p, x)
  PROVE  FilesInv'
<1>1. PICK o : o = fd[p][x]
  OBVIOUS
<1>2. PICK i : i = oft[o].ino
  OBVIOUS
<1>3. o \in Ofts /\ oft[o].write
  BY <1>1 DEF Write, Held, FilesInv, TablesOk, FdTables, FdRows
<1>4. oft[o].ref > 0 /\ i \in Ino /\ i \notin Ds
  <2>1. TablesOk(cwd, oft, fd) /\ x \in Fds
    BY DEF FilesInv, Held
  <2>2. oft[o].ref > 0 /\ ~ Gone(oft[o])
    BY <1>1, <1>3, <2>1, DescriptorOpen
  <2>3. oft[o].ino \in Ino
    BY <1>3, <2>1, <2>2 DEF TablesOk, OftType, Gone
  <2> QED BY <1>2, <1>3, <2>2, <2>3 DEF FilesInv, PlacesOk, Ds
<1>5. FsOk(Now) /\ Refs(Now)[i] > 0
  <2>1. Users(cwd, oft, i) > 0
    BY <1>2, <1>3, <1>4, SomeUser
  <2> QED BY <1>4, <2>1, NowCounted
<1>6. PICK r : r = Inode(i)
  OBVIOUS
<1>7. r \in InodeType /\ r.type = File /\ r.links = Sh[i].links /\ r.blocks = Sh[i].blocks
  BY <1>4, <1>6, InodeFacts
<1>8. imap' = imap /\ dir' = dir /\ oft' = oft /\ fd' = fd /\ cwd' = cwd
  BY DEF Write
<1>9. CASE Becomes(Dirtied(Now, i)) /\ bmap' = bmap
  <2>1. PICK g : g = Dirtied(Now, i)
    OBVIOUS
  <2>2. Still(Now, g) /\ Shapes(g) = Shapes(Now)
    BY <1>4, <1>5, <2>1, DirtiedMoves, MovesStill
  <2>3. Counted(g, cwd, oft)
    BY <2>2, CountedStill, NowCounted
  <2>4. /\ Counted(g, cwd', oft') /\ TablesOk(cwd', oft', fd')
        /\ DiskOk(Shapes(g), dir', imap', bmap') /\ PlacesOk(Shapes(g), dir', cwd', oft')
    BY <1>8, <1>9, <2>2, <2>3 DEF FilesInv, Sh
  <2> QED BY <1>9, <2>1, <2>4, StepIs
<1>10. CASE /\ Zalloc # 0 /\ bmap' = bmap \cup {Zalloc}
            /\ Becomes(Set(Now, i, [r EXCEPT !.blocks = @ \cup {Zalloc}]))
  <2>1. PICK z : z = Zalloc
    OBVIOUS
  <2>2. z \in Block \ bmap
    <3>1. Block \ bmap \subseteq Nat
      BY DEF Sizes
    <3> QED BY <1>10, <2>1, <3>1, MinOfNats DEF Zalloc, Lowest
  <2>3. PICK rec : rec = [r EXCEPT !.blocks = @ \cup {z}]
    OBVIOUS
  <2>4. PICK g : g = Set(Now, i, rec)
    OBVIOUS
  <2>5. /\ rec \in InodeType /\ Shape(rec).type = File /\ Shape(rec).links = Sh[i].links
        /\ Shape(rec).blocks = Sh[i].blocks \cup {z} /\ Shape(rec) \in InodeType
    <3>1. rec \in InodeType /\ rec.type = File /\ rec.links = r.links /\ rec.blocks = r.blocks \cup {z}
      BY <1>7, <2>2, <2>3 DEF InodeType
    <3> QED BY <1>7, <3>1, ShapeType DEF Shape
  <2>6. Moves(Now, g, i, 0, 0) /\ Shapes(g) = [Sh EXCEPT ![i] = Shape(rec)]
    BY <1>4, <1>5, <2>4, <2>5, SetMoves DEF Sh
  <2>7. Still(Now, g)
    BY <1>5, <2>6, MovesStill
  <2>8. Counted(g, cwd, oft)
    BY <2>7, CountedStill, NowCounted
  <2> DEFINE s == Shapes(g)
  <2>9. Alters(Sh, s, i) /\ s[i] = Shape(rec)
    BY <1>4, <2>5, <2>6 DEF Alters, FilesInv, DiskOk
  <2>10. i \notin DirsOf(s)
    BY <2>5, <2>9 DEF DirsOf, File, Dir
  <2>11. Reblocks(Sh, bmap, i, s[i].blocks, bmap')
    <3>1. bmap \subseteq Block /\ Sh[i].blocks \subseteq bmap
      BY <1>4 DEF FilesInv, DiskOk, BlocksOk
    <3> QED BY <1>10, <2>1, <2>2, <2>5, <2>9, <3>1 DEF Reblocks
  <2> HIDE DEF s
  <2>12. DiskOk(s, dir, imap, bmap') /\ Kept(Sh, dir, s, dir, {})
    <3>1. DiskOk(Sh, dir, imap, bmap) /\ s[i].links = Sh[i].links
      BY <2>5, <2>9 DEF FilesInv
    <3>2. PICK bm2 : bm2 = bmap'
      OBVIOUS
    <3> QED BY <1>4, <2>9, <2>10, <2>11, <3>1, <3>2, DiskBlocks DEF Ds
  <2>13. PlacesOk(s, dir, cwd, oft)
    BY <2>12, PlacesKept, NobodyIdle DEF FilesInv
  <2>14. /\ Counted(g, cwd', oft') /\ TablesOk(cwd', oft', fd')
         /\ DiskOk(Shapes(g), dir', imap', bmap') /\ PlacesOk(Shapes(g), dir', cwd', oft')
    BY <1>8, <2>8, <2>12, <2>13 DEF FilesInv, s
  <2>15. Becomes(g)
    BY <1>10, <2>1, <2>3, <2>4
  <2> QED BY <2>14, <2>15, StepIs
<1> QED BY <1>1, <1>2, <1>6, <1>9, <1>10 DEF Write

LEMMA ChdirStep ==
  ASSUME Sizes, FilesInv, NEW p \in Proc, Alive(p), NEW path \in Path, Chdir(p, path)
  PROVE  FilesInv'
<1>1. PICK i : i = Getino(p, path)
  OBVIOUS
<1>2. PICK c : c = cwd[p]
  OBVIOUS
<1>3. i \in Ino /\ IsDir(i) /\ i # c /\ i \in Ds
  <2>1. i \in Ino /\ IsDir(i) /\ i # c
    BY <1>1, <1>2, GetinoPlace DEF Chdir, Places, Sizes, Paths
  <2> QED BY <2>1, InodeFacts
<1>4. c \in Ino /\ cwd \in CwdType /\ p \in Proc
  BY <1>2 DEF FilesInv, TablesOk, CwdType, Alive
<1>5. FsOk(Now) /\ Refs(Now)[c] > 0 /\ Refs(Now) \in [Ino -> Nat] /\ Locks(Now) \in [Ino -> Int]
  <2>1. Users(cwd, oft, c) > 0
    BY <1>2, SomeUser
  <2>2. FsOk(Now)
    BY NowCounted
  <2> QED BY <1>4, <2>1, <2>2, NowCounted, OneMinode
<1>6. PICK f : f = Iget(Now, i)
  OBVIOUS
<1>7. PICK g : g = Release(f, c)
  OBVIOUS
<1>8. PICK h : h = Unlock(g, i)
  OBVIOUS
<1>9. Moves(Now, f, i, 1, -1) /\ Shapes(f) = Shapes(Now)
  BY <1>3, <1>5, <1>6, IgetMoves
<1>10. FsOk(f) /\ Refs(f)[c] > 0
  BY <1>3, <1>4, <1>5, <1>9 DEF Moves
<1>11. Moves(f, g, c, -1, 0) /\ Shapes(g) = Shapes(f)
  BY <1>4, <1>7, <1>10, ReleaseMoves
<1>12. Moves(g, h, i, 0, 1) /\ Shapes(h) = Shapes(g)
  BY <1>3, <1>8, <1>11, LockMoves DEF Moves
<1>13. PICK cw : cw = cwd'
  OBVIOUS
<1>14. cw = [cwd EXCEPT ![p] = i]
  BY <1>1, <1>13 DEF Chdir
<1>15. cw \in CwdType /\ \A j : Users(cw, oft, j) = Users(cwd, oft, j) - (IF c = j THEN 1 ELSE 0)
                                                                    + (IF i = j THEN 1 ELSE 0)
  <2>1. Put(cwd, Proc, Ino \cup {None}, p, i, cw)
    BY <1>3, <1>4, <1>14 DEF Put, CwdType
  <2>2. cw \in CwdType
    BY <1>3, <1>4, <1>14 DEF CwdType
  <2>3. \A j : Users(cw, oft, j) = Users(cwd, oft, j) - (IF c = j THEN 1 ELSE 0)
                                                     + (IF i = j THEN 1 ELSE 0)
    <3>1. TAKE j
    <3> QED BY <1>2, <2>1, UsersCwd
  <2> QED BY <2>2, <2>3
<1>16. Counted(h, cw, oft)
  <2>1. ASSUME NEW j \in Ino PROVE Refs(h)[j] = Users(cw, oft, j) /\ Locks(h)[j] = 1
    <3>1. /\ Refs(f)[j] = Refs(Now)[j] + IF j = i THEN 1 ELSE 0
          /\ Refs(g)[j] = Refs(f)[j] + IF j = c THEN -1 ELSE 0
          /\ Refs(h)[j] = Refs(g)[j] + IF j = i THEN 0 ELSE 0
      BY <1>9, <1>11, <1>12 DEF Moves
    <3>2. /\ Locks(f)[j] = Locks(Now)[j] + IF j = i THEN -1 ELSE 0
          /\ Locks(g)[j] = Locks(f)[j] + IF j = c THEN 0 ELSE 0
          /\ Locks(h)[j] = Locks(g)[j] + IF j = i THEN 1 ELSE 0
      BY <1>9, <1>11, <1>12 DEF Moves
    <3>3. Refs(Now)[j] = Users(cwd, oft, j) /\ Locks(Now)[j] = 1 /\ Refs(Now)[j] \in Nat
      BY <1>5 DEF FilesInv, Counted
    <3>4. Users(cw, oft, j) = Users(cwd, oft, j) - (IF c = j THEN 1 ELSE 0) + (IF i = j THEN 1 ELSE 0)
      BY <1>15
    <3> QED BY <3>1, <3>2, <3>3, <3>4
  <2> QED BY <1>12, <2>1 DEF Counted, Moves
<1>17. imap' = imap /\ bmap' = bmap /\ dir' = dir /\ oft' = oft /\ fd' = fd
  BY DEF Chdir
<1>18. \A q \in Proc : cw[q] = IF q = p THEN i ELSE cwd[q]
  BY <1>4, <1>14 DEF CwdType
<1>19. TablesOk(cw, oft, fd)
  <2>1. i # None
    BY <1>3 DEF Sizes
  <2> QED BY <1>15, <1>18, <2>1 DEF FilesInv, TablesOk
<1>20. PlacesOk(Shapes(h), dir, cw, oft)
  BY <1>3, <1>9, <1>11, <1>12, <1>18 DEF FilesInv, PlacesOk, Sh, Ds
<1>21. Becomes(h)
  BY <1>1, <1>2, <1>6, <1>7, <1>8 DEF Chdir
<1>22. /\ Counted(h, cwd', oft') /\ TablesOk(cwd', oft', fd')
       /\ DiskOk(Shapes(h), dir', imap', bmap') /\ PlacesOk(Shapes(h), dir', cwd', oft')
  BY <1>9, <1>11, <1>12, <1>13, <1>16, <1>17, <1>19, <1>20 DEF FilesInv, Sh
<1> QED BY <1>21, <1>22, StepIs

(* An inode that is free has no name. *)
LEMMA FreeInode ==
  ASSUME Sizes, FilesInv
  PROVE  /\ Ialloc # 0 => Ialloc \in Ino \ imap
         /\ \A i \in Ino \ imap : i \notin Ds /\ NamesIn(Sh, dir, i) = {}
         /\ \A i \in Ino \ Ds : NamesIn(Sh, dir, i) # {} =>
              i \in imap /\ Sh[i].links = Cardinality(NamesIn(Sh, dir, i))
<1>1. Ialloc # 0 => Ialloc \in Ino \ imap
  <2>1. Ino \ imap \subseteq Nat
    BY DEF Sizes
  <2> QED BY <2>1, MinOfNats DEF Ialloc, Lowest
<1>2. TreeOk(Ds, Rs, LinksOf(Sh), imap)
  BY DEF FilesInv, DiskOk, Ds, Rs
<1>3. \A i \in Ino : CountOk(Ds, Rs, LinksOf(Sh), imap, i)
  BY <1>2 DEF TreeOk
<1>4. \A i \in Ino : NamesIn(Sh, dir, i) = Named(Ds, Rs, i) /\ LinksOf(Sh)[i] = Sh[i].links
  BY DEF NamesIn, Ds, Rs, LinksOf
<1>5. \A i \in Ino \ imap : i \notin Ds /\ NamesIn(Sh, dir, i) = {}
  BY <1>2, <1>3, <1>4 DEF CountOk, TreeOk
<1>6. \A i \in Ino \ Ds : NamesIn(Sh, dir, i) # {} =>
        i \in imap /\ Sh[i].links = Cardinality(NamesIn(Sh, dir, i))
  BY <1>3, <1>4 DEF CountOk
<1> QED BY <1>1, <1>5, <1>6

(* ocreat() and kcreat() of i, named n in d. *)
LEMMA Created ==
  ASSUME Sizes, FilesInv, NEW d \in Ds, NEW n \in Name, Rs[d][n] = 0, NEW i \in Ino \ imap,
         NEW dr, dr = Renamed(dir, d, n, i), NEW g, g = Iput(Mycreat(Iget(Now, d), i), d)
  PROVE  /\ Counted(g, cwd, oft) /\ DiskOk(Shapes(g), dr, imap \cup {i}, bmap)
         /\ PlacesOk(Shapes(g), dr, cwd, oft)
         /\ NamesIn(Shapes(g), dr, i) # {} /\ i \notin DirsOf(Shapes(g))
<1>1. d \in Ino /\ Puts(dir, At(Sh, d), n, i, dr)
  BY SearchFacts
<1>2. FsOk(Now) /\ Counted(Now, cwd, oft) /\ DiskOk(Sh, dir, imap, bmap)
  BY NowCounted DEF FilesInv
<1> DEFINE s == Shapes(g)
<1>3. Still(Now, g) /\ s = [Sh EXCEPT ![i] = Fresh(File, 1, {})]
  BY <1>1, <1>2, CreatStill DEF Sh
<1> HIDE DEF s
<1>4. Counted(g, cwd, oft)
  BY <1>2, <1>3, CountedStill
<1>5. i \notin DirsOf(Sh) /\ NamesIn(Sh, dir, i) = {}
  BY FreeInode DEF Ds
<1>6. Alters(Sh, s, i) /\ s[i] = Fresh(File, 1, {})
  BY <1>2, <1>3 DEF Alters, DiskOk, Fresh, InodeType, Sizes
<1>7. /\ i \notin DirsOf(s) /\ s[i].blocks \subseteq Sh[i].blocks
      /\ s[i].links = Cardinality(NamesIn(Sh, dir, i)) + 1
  <2>1. s[i].type = File /\ s[i].links = 1 /\ s[i].blocks = {}
    BY <1>6 DEF Fresh
  <2> QED BY <1>5, <2>1, FS_EmptySet DEF DirsOf, File, Dir
<1>8. /\ DiskOk(s, dr, imap \cup {i}, bmap) /\ Kept(Sh, dir, s, dr, {})
      /\ NamesIn(s, dr, i) # {}
  BY <1>1, <1>2, <1>5, <1>6, <1>7, DiskNames DEF Ds, Rs
<1>9. PlacesOk(s, dr, cwd, oft)
  BY <1>8, PlacesKept, NobodyIdle DEF FilesInv
<1> QED BY <1>4, <1>7, <1>8, <1>9 DEF s

LEMMA CreatStep ==
  ASSUME Sizes, FilesInv, NEW p \in Proc, Alive(p), NEW path \in NamePath, Creat(p, path)
  PROVE  FilesInv'
<1>1. PICK d : d = Getino(p, Parent(path))
  OBVIOUS
<1>2. PICK n : n = Base(path)
  OBVIOUS
<1>3. PICK i : i = Ialloc
  OBVIOUS
<1>4. d # 0 /\ IsDir(d) /\ Search(d, n) = 0 /\ i # 0
  BY <1>1, <1>2, <1>3 DEF Creat
<1>5. d \in Ds /\ n \in Name
  <2>1. d \in Ds /\ Getino(p, path) = Rs[d][n] /\ 0 \notin Ds
    BY <1>1, <1>2, <1>4, NamePathLeads
  <2>2. Rs[d][n] = 0
    BY <1>4, <2>1, SearchFacts
  <2> QED BY <1>1, <1>2, <2>1, <2>2, NamePathLeads
<1>6. Rs[d][n] = 0 /\ i \in Ino \ imap
  BY <1>3, <1>4, <1>5, SearchFacts, FreeInode
<1>7. PICK dr : dr = Renamed(dir, d, n, i)
  OBVIOUS
<1>8. PICK g : g = Iput(Mycreat(Iget(Now, d), i), d)
  OBVIOUS
<1>9. /\ Counted(g, cwd, oft) /\ DiskOk(Shapes(g), dr, imap \cup {i}, bmap)
      /\ PlacesOk(Shapes(g), dr, cwd, oft)
  BY <1>5, <1>6, <1>7, <1>8, Created
<1>10. /\ Becomes(g) /\ imap' = imap \cup {i} /\ dir' = dr
       /\ bmap' = bmap /\ oft' = oft /\ fd' = fd /\ cwd' = cwd
  BY <1>1, <1>2, <1>3, <1>7, <1>8 DEF Creat
<1>11. /\ Counted(g, cwd', oft') /\ TablesOk(cwd', oft', fd')
       /\ DiskOk(Shapes(g), dir', imap', bmap') /\ PlacesOk(Shapes(g), dir', cwd', oft')
  BY <1>9, <1>10 DEF FilesInv
<1> QED BY <1>10, <1>11, StepIs

(* The end of mymkdir(): the parent d is linked once more, and put back. *)
LEMMA MkdirEnds ==
  ASSUME Sizes, FilesInv, NEW d \in Ds, Inode(d).links < MaxLinks,
         NEW f, f = Iget(Now, d), NEW g, Still(f, g), Shapes(g)[d].type = Dir, Seen(g, d) = Seen(f, d),
         NEW h, h = Iput(Relinked(g, d, 1), d)
  PROVE  Still(Now, h) /\ Shapes(h) = Shapes(g)
<1>1. d \in Ino /\ FsOk(Now) /\ Inode(d) = Seen(Now, d) /\ Inode(d) \in InodeType
  BY SearchFacts, InodeFacts, NowCounted
<1>2. Moves(Now, f, d, 1, -1) /\ Seen(f, d) = Seen(Now, d) /\ FsOk(g)
  BY <1>1, IgetMoves DEF Still
<1>3. Refs(g)[d] > 0
  BY <1>1, <1>2, UsedStill
<1>4. Seen(g, d).links + 1 \in 0..MaxLinks
  <2>1. Inode(d).links \in 0..MaxLinks /\ MaxLinks \in Nat
    BY <1>1 DEF InodeType, Sizes
  <2> QED BY <1>1, <1>2, <2>1
<1>5. PICK k : k = Relinked(g, d, 1)
  OBVIOUS
<1>6. Moves(g, k, d, 0, 0) /\ Shapes(k) = Shapes(g)
  BY <1>1, <1>2, <1>3, <1>4, <1>5, RelinkedMoves
<1>7. Still(f, k)
  BY <1>2, <1>6, MovesStill, StillStill
<1> QED BY <1>1, <1>2, <1>5, <1>6, <1>7, UsedStill

LEMMA MkdirStep ==
  ASSUME Sizes, FilesInv, NEW p \in Proc, Alive(p), NEW path \in NamePath, Mkdir(p, path)
  PROVE  FilesInv'
<1>1. PICK d : d = Getino(p, Parent(path))
  OBVIOUS
<1>2. PICK n : n = Base(path)
  OBVIOUS
<1>3. PICK i : i = Ialloc
  OBVIOUS
<1>4. PICK z : z = Zalloc
  OBVIOUS
<1>5. PICK f : f = Iget(Now, d)
  OBVIOUS
<1>6. d \in Ds /\ (Rs[d][n] = 0 => n \in Name) /\ d \in Ino /\ Inode(d).links < MaxLinks
  <2>1. d # 0 /\ IsDir(d) /\ Inode(d).links < MaxLinks
    BY <1>1 DEF Mkdir
  <2>2. d \in Ds /\ (Rs[d][n] = 0 => n \in Name)
    BY <1>1, <1>2, <2>1, NamePathLeads
  <2> QED BY <2>1, <2>2, SearchFacts
<1>7. Search(d, n) = Rs[d][n] /\ \A dr, j : Puts(dr, At(Sh, d), n, j, Renamed(dr, d, n, j))
  BY <1>6, SearchFacts
<1>8. (i # 0 => i \in Ino \ imap) /\ (z # 0 => z \in Block \ bmap)
  <2>1. Block \ bmap \subseteq Nat
    BY DEF Sizes
  <2> QED BY <1>3, <1>4, <2>1, FreeInode, MinOfNats DEF Zalloc, Lowest
<1>9. /\ FsOk(Now) /\ Counted(Now, cwd, oft) /\ DiskOk(Sh, dir, imap, bmap)
      /\ PlacesOk(Sh, dir, cwd, oft) /\ TablesOk(cwd, oft, fd)
      /\ imap \subseteq Ino /\ bmap \subseteq Block
  BY NowCounted DEF FilesInv, DiskOk, TreeOk, BlocksOk
<1>10. Moves(Now, f, d, 1, -1) /\ Shapes(f) = Sh /\ FsOk(f)
  BY <1>5, <1>6, <1>9, IgetMoves DEF Moves, Sh
<1>11. Sh[d].type = Dir
  BY <1>6 DEF Ds, DirsOf
<1>12. oft' = oft /\ fd' = fd /\ cwd' = cwd
  BY DEF Mkdir
<1>13. CASE /\ imap \subseteq imap' /\ imap' \subseteq Ino /\ bmap \subseteq bmap' /\ bmap' \subseteq Block
            /\ dir' = dir /\ Becomes(Iput(Relinked(f, d, 1), d))
  <2>1. PICK h : h = Iput(Relinked(f, d, 1), d)
    OBVIOUS
  <2>2. Still(f, f)
    BY <1>10 DEF Still
  <2>3. Still(Now, h) /\ Shapes(h) = Sh
    BY <1>5, <1>6, <1>10, <1>11, <2>1, <2>2, MkdirEnds
  <2>4. Counted(h, cwd, oft)
    BY <1>9, <2>3, CountedStill
  <2>5. PICK im, bm : im = imap' /\ bm = bmap'
    OBVIOUS
  <2>6. DiskOk(Sh, dir, im, bm)
    BY <1>9, <1>13, <2>5, DiskAllocates
  <2>7. /\ Counted(h, cwd', oft') /\ TablesOk(cwd', oft', fd')
        /\ DiskOk(Shapes(h), dir', imap', bmap') /\ PlacesOk(Shapes(h), dir', cwd', oft')
    BY <1>9, <1>12, <1>13, <2>3, <2>4, <2>5, <2>6
  <2> QED BY <1>13, <2>1, <2>7, StepIs
<1> DEFINE row == [dir EXCEPT ![z] = [NoNames EXCEPT !["."] = i, ![".."] = d]]
<1>14. CASE /\ Search(d, n) = 0 /\ i # 0 /\ z # 0
            /\ imap' = imap \cup {i} /\ bmap' = bmap \cup {z}
            /\ dir' = Renamed(row, d, n, i)
            /\ Becomes(Iput(Relinked(NewInode(f, i, Fresh(Dir, 2, {z})), d, 1), d))
  <2>1. PICK rec : rec = Fresh(Dir, 2, {z})
    OBVIOUS
  <2>2. PICK g : g = NewInode(f, i, rec)
    OBVIOUS
  <2>3. PICK h : h = Iput(Relinked(g, d, 1), d)
    OBVIOUS
  <2>4. i \in Ino \ imap /\ z \in Block \ bmap /\ i \in Ino
    BY <1>8, <1>14
  <2>5. i # d
    BY <1>6, <2>4, FreeInode
  <2>6. rec \in InodeType /\ Shape(rec).type = Dir /\ Shape(rec).blocks = {z} /\ Shape(rec) \in InodeType
    <3>1. rec \in InodeType /\ rec.type = Dir /\ rec.blocks = {z}
      BY <2>1, <2>4 DEF Fresh, InodeType, Sizes
    <3> QED BY <3>1, ShapeType DEF Shape
  <2>7. /\ Still(f, g) /\ Shapes(g) = [Sh EXCEPT ![i] = Shape(rec)]
        /\ Seen(g, d) = Seen(f, d)
    BY <1>6, <1>10, <2>2, <2>4, <2>5, <2>6, NewInodeStill
  <2>8. Shapes(g)[d].type = Dir
    BY <1>6, <1>9, <1>11, <2>5, <2>7 DEF DiskOk
  <2>9. Still(Now, h) /\ Shapes(h) = Shapes(g)
    BY <1>5, <1>6, <2>3, <2>7, <2>8, MkdirEnds
  <2>10. Counted(h, cwd, oft)
    BY <1>9, <2>9, CountedStill
  <2> DEFINE s == Shapes(h)
  <2>11. Alters(Sh, s, i) /\ s[i].type = Dir /\ s[i].blocks = {z}
    BY <1>9, <2>4, <2>6, <2>7, <2>9 DEF Alters, DiskOk
  <2> HIDE DEF s
  <2>12. PICK dr1 : dr1 = row
    OBVIOUS
  <2>13. PICK dr2 : dr2 = dir'
    OBVIOUS
  <2>14. Puts(dr1, At(Sh, d), n, i, dr2)
    BY <1>7, <1>14, <2>12, <2>13
  <2>15. DiskOk(s, dr2, imap \cup {i}, bmap \cup {z}) /\ Kept(Sh, dir, s, dr2, {i})
    <3>1. d \in DirsOf(Sh) /\ RowsOf(Sh, dir)[d][n] = 0 /\ n \in Name
      BY <1>6, <1>7, <1>14 DEF Ds, Rs
    <3>2. FirstNames(dir, z, i, d, dr1)
      BY <2>12 DEF FirstNames
    <3> HIDE DEF row
    <3> QED BY <1>6, <1>9, <2>4, <2>11, <2>14, <3>1, <3>2, DiskGrows
  <2>16. Idle(cwd, oft, {i})
    <3>1. i \notin Ds /\ NamesIn(Sh, dir, i) = {}
      BY <2>4, FreeInode
    <3>2. i # None /\ i # 0
      BY <2>4 DEF Sizes
    <3> QED BY <1>9, <3>1, <3>2 DEF Idle, PlacesOk, Ds, Gone
  <2>17. PlacesOk(s, dr2, cwd, oft)
    BY <1>9, <2>15, <2>16, PlacesKept
  <2>18. /\ Counted(h, cwd', oft') /\ TablesOk(cwd', oft', fd')
         /\ DiskOk(Shapes(h), dir', imap', bmap') /\ PlacesOk(Shapes(h), dir', cwd', oft')
    BY <1>9, <1>12, <1>14, <2>10, <2>13, <2>15, <2>17 DEF s
  <2>19. Becomes(h)
    BY <1>14, <2>1, <2>2, <2>3
  <2> QED BY <2>18, <2>19, StepIs
<1>15. \/ /\ Becomes(Iput(Relinked(f, d, 1), d))
          /\ imap' = imap /\ bmap' = bmap /\ dir' = dir
       \/ /\ i = 0 \/ z = 0
          /\ imap' = imap \cup ({i} \ {0}) /\ bmap' = bmap \cup ({z} \ {0})
          /\ Becomes(Iput(Relinked(f, d, 1), d))
          /\ dir' = dir
       \/ /\ Search(d, n) = 0 /\ i # 0 /\ z # 0
          /\ imap' = imap \cup {i} /\ bmap' = bmap \cup {z}
          /\ dir' = Renamed(row, d, n, i)
          /\ Becomes(Iput(Relinked(NewInode(f, i, Fresh(Dir, 2, {z})), d, 1), d))
  BY <1>1, <1>2, <1>3, <1>4, <1>5 DEF Mkdir
<1> QED BY <1>8, <1>9, <1>13, <1>14, <1>15

(* Two minodes are taken and the first is put back. *)
LEMMA FirstReturned ==
  ASSUME Sizes, NEW fs, FsOk(fs), NEW i \in Ino, NEW d \in Ino,
         NEW f, f = Iget(Iget(fs, i), d), NEW g, Still(f, g), NEW h, h = Iput(g, i)
  PROVE  /\ FsOk(f) /\ Refs(f)[i] > 0 /\ Refs(f)[d] > 0 /\ Shapes(f) = Shapes(fs)
         /\ \A j \in Ino : Seen(f, j) = Seen(fs, j)
         /\ Moves(fs, h, d, 1, -1) /\ Shapes(h) = Shapes(g)
         /\ \A j \in Ino \ {i} : Seen(h, j) = Seen(g, j)
<1>1. PICK e : e = Iget(fs, i)
  OBVIOUS
<1>2. Moves(fs, e, i, 1, -1) /\ Shapes(e) = Shapes(fs) /\ \A j \in Ino : Seen(e, j) = Seen(fs, j)
  BY <1>1, IgetMoves
<1>3. Moves(e, f, d, 1, -1) /\ Shapes(f) = Shapes(e) /\ \A j \in Ino : Seen(f, j) = Seen(e, j)
  BY <1>1, <1>2, IgetMoves DEF Moves
<1>4. Refs(fs) \in [Ino -> Nat] /\ Locks(fs) \in [Ino -> Int]
  BY OneMinode
<1>5. \A j \in Ino : /\ Refs(f)[j] = Refs(fs)[j] + (IF j = i THEN 1 ELSE 0) + (IF j = d THEN 1 ELSE 0)
                     /\ Locks(f)[j] = Locks(fs)[j] + (IF j = i THEN -1 ELSE 0) + (IF j = d THEN -1 ELSE 0)
  BY <1>2, <1>3 DEF Moves
<1>6. FsOk(f) /\ Refs(f)[i] > 0 /\ Refs(f)[d] > 0
  BY <1>3, <1>4, <1>5 DEF Moves
<1>7. FsOk(g) /\ Refs(g)[i] > 0
  BY <1>6 DEF Still
<1>8. Moves(g, h, i, -1, 1) /\ Shapes(h) = Shapes(g) /\ \A j \in Ino \ {i} : Seen(h, j) = Seen(g, j)
  BY <1>7, IputMoves
<1>9. Moves(fs, h, d, 1, -1)
  <2>1. ASSUME NEW j \in Ino
        PROVE  /\ Refs(h)[j] = Refs(fs)[j] + IF j = d THEN 1 ELSE 0
               /\ Locks(h)[j] = Locks(fs)[j] + IF j = d THEN -1 ELSE 0
    <3>1. /\ Refs(h)[j] = Refs(f)[j] + IF j = i THEN -1 ELSE 0
          /\ Locks(h)[j] = Locks(f)[j] + IF j = i THEN 1 ELSE 0
      BY <1>8 DEF Moves, Still
    <3> QED BY <1>4, <1>5, <3>1
  <2> QED BY <1>8, <2>1 DEF Moves
<1> QED BY <1>2, <1>3, <1>6, <1>8, <1>9

LEMMA RmdirStep ==
  ASSUME Sizes, FilesInv, NEW p \in Proc, Alive(p), NEW path \in NamePath, Rmdir(p, path)
  PROVE  FilesInv'
<1>1. PICK i : i = Getino(p, path)
  OBVIOUS
<1>2. PICK d : d = Search(i, "..")
  OBVIOUS
<1>3. PICK n : n = Base(path)
  OBVIOUS
<1>4. /\ i # 0 /\ IsDir(i) /\ i # Root /\ minode[i].ref = 0 /\ IsEmpty(i) /\ Inode(d).links > 0
      /\ n \in Name
  BY <1>1, <1>2, <1>3 DEF Rmdir, Unused, Spared, Sizes
<1>5. /\ FsOk(Now) /\ Counted(Now, cwd, oft) /\ DiskOk(Sh, dir, imap, bmap)
      /\ PlacesOk(Sh, dir, cwd, oft) /\ TablesOk(cwd, oft, fd) /\ TreeOk(Ds, Rs, LinksOf(Sh), imap)
  BY NowCounted DEF FilesInv, DiskOk, Ds, Rs
<1>6. i \in Ds /\ i \in Ino /\ n \in Name
  <2>1. i \in Ino /\ n \in Name
    BY <1>1, <1>4, NamePathLeads
  <2> QED BY <1>4, <2>1, InodeFacts
<1>7. d = Rs[i][".."] /\ d \in Ds /\ \A m \in Name : Rs[i][m] = 0
  <2>1. \A m : Search(i, m) = Rs[i][m]
    BY <1>6, SearchFacts
  <2>2. Rs[i][".."] \in Ds
    BY <1>5, <1>6, TreeFacts
  <2> QED BY <1>2, <1>4, <2>1, <2>2 DEF IsEmpty
<1>8. Rs[d][n] = i
  <2>1. PICK e : e = Getino(p, Parent(path))
    OBVIOUS
  <2>2. e \in Ds /\ Rs[e][n] = i
    BY <1>1, <1>3, <1>4, <2>1, NamePathLeads
  <2>3. <<e, n>> \in Named(Ds, Rs, i)
    BY <1>6, <2>2 DEF Named
  <2>4. DirOk(Ds, Rs, i)
    BY <1>5, <1>6 DEF TreeOk
  <2>5. PICK m \in Name : Named(Ds, Rs, i) = {<<d, m>>}
    BY <1>4, <1>7, <2>4 DEF DirOk
  <2> QED BY <2>2, <2>3, <2>5
<1>9. i # d /\ d \in Ino
  <2>1. Rs[i][n] = 0 /\ 0 \notin Ino
    BY <1>6, <1>7 DEF Sizes
  <2> QED BY <1>6, <1>7, <1>8, <2>1, SearchFacts
<1>10. Refs(Now)[i] = 0 /\ Idle(cwd, oft, {i})
  <2>1. Refs(Now)[i] = 0
    BY <1>4, <1>6 DEF Refs, Now
  <2> QED BY <1>6, <2>1, NowCounted, NobodyIdle
<1>11. PICK f0 : f0 = Iget(Iget(Now, i), d)
  OBVIOUS
<1>12. PICK f : f = Iput(f0, i)
  OBVIOUS
<1>13. PICK g : g = Relinked(f, d, -1)
  OBVIOUS
<1>14. PICK h : h = Dirtied(g, d)
  OBVIOUS
<1>15. PICK k : k = Iput(h, d)
  OBVIOUS
<1>16. PICK l : l = Forgotten(k, i)
  OBVIOUS
<1>17. FsOk(f0) /\ Shapes(f0) = Sh /\ \A j \in Ino : Seen(f0, j) = Seen(Now, j)
  <2>1. PICK e : e = Iget(Now, i)
    OBVIOUS
  <2>2. FsOk(e) /\ Shapes(e) = Sh /\ \A j \in Ino : Seen(e, j) = Seen(Now, j)
    BY <1>5, <1>6, <2>1, IgetMoves DEF Moves, Sh
  <2> QED BY <1>9, <1>11, <2>1, <2>2, IgetMoves DEF Moves
<1>18. Moves(Now, f, d, 1, -1) /\ Shapes(f) = Sh /\ Seen(f, d) = Seen(Now, d) /\ FsOk(f)
  <2>1. Still(f0, f0)
    BY <1>17 DEF Still
  <2>2. /\ Moves(Now, f, d, 1, -1) /\ Shapes(f) = Shapes(f0)
        /\ \A j \in Ino \ {i} : Seen(f, j) = Seen(f0, j)
    BY <1>5, <1>6, <1>9, <1>11, <1>12, <2>1, FirstReturned
  <2> QED BY <1>9, <1>17, <2>2 DEF Moves
<1>19. Refs(f)[d] > 0
  <2>1. Refs(Now)[d] \in Nat /\ Refs(f)[d] = Refs(Now)[d] + 1
    BY <1>5, <1>9, <1>18, OneMinode DEF Moves
  <2> QED BY <2>1
<1>20. Moves(f, g, d, 0, 0) /\ Shapes(g) = Sh
  <2>1. Seen(f, d) = Inode(d) /\ Inode(d) \in InodeType
    BY <1>9, <1>18, InodeFacts
  <2>2. Seen(f, d).links + (-1) \in 0..MaxLinks /\ Shapes(f)[d].type = Dir
    BY <1>4, <1>7, <1>18, <2>1 DEF InodeType, Ds, DirsOf, Sizes
  <2> QED BY <1>9, <1>13, <1>18, <1>19, <2>2, RelinkedMoves
<1>21. Still(f, g) /\ FsOk(g) /\ Refs(g)[d] > 0
  <2>1. Still(f, g)
    BY <1>18, <1>20, MovesStill
  <2> QED BY <1>9, <1>19, <2>1 DEF Still
<1>22. Still(f, h) /\ Shapes(h) = Sh
  <2>1. Moves(g, h, d, 0, 0) /\ Shapes(h) = Shapes(g)
    BY <1>9, <1>14, <1>21, DirtiedMoves
  <2> QED BY <1>20, <1>21, <2>1, MovesStill, StillStill
<1>23. Still(Now, k) /\ Shapes(k) = Sh
  BY <1>5, <1>9, <1>15, <1>18, <1>22, UsedStill
<1>24. Still(Now, l) /\ Shapes(l) = [Sh EXCEPT ![i] = Unset]
  <2>1. FsOk(k) /\ Refs(k)[i] = 0
    BY <1>6, <1>10, <1>23 DEF Still
  <2>2. Moves(k, l, i, 0, 0) /\ Shapes(l) = [Shapes(k) EXCEPT ![i] = Unset]
    BY <1>6, <1>16, <2>1, ForgottenMoves
  <2> QED BY <1>23, <2>1, <2>2, MovesStill, StillStill
<1> DEFINE s == Shapes(l)
<1>25. Alters(Sh, s, i) /\ s[i].type = File /\ s[i].blocks = {}
  BY <1>5, <1>6, <1>24 DEF Alters, DiskOk, Unset, InodeType, Sizes
<1> HIDE DEF s
<1>26. PICK dr1 : dr1 = [x \in Block |-> IF x \in Inode(i).blocks THEN NoNames ELSE dir[x]]
  OBVIOUS
<1>27. Inode(i).blocks = Sh[i].blocks
  BY <1>6, InodeFacts
<1>28. PICK dr2 : dr2 = dir'
  OBVIOUS
<1>29. dr2 = Renamed(dr1, d, n, 0)
  BY <1>1, <1>2, <1>3, <1>26, <1>28 DEF Rmdir
<1>30. Clears(dir, Sh[i].blocks, dr1) /\ Puts(dr1, At(Sh, d), n, 0, dr2)
  BY <1>7, <1>26, <1>27, <1>29, SearchFacts DEF Clears
<1>31. /\ DiskOk(s, dr2, imap \ {i}, bmap \ Sh[i].blocks) /\ Kept(Sh, dir, s, dr2, {i})
  <2>1. /\ i \in DirsOf(Sh) \ {Root} /\ d \in DirsOf(Sh) /\ RowsOf(Sh, dir)[d][n] = i
        /\ \A m \in Name : RowsOf(Sh, dir)[i][m] = 0
    BY <1>4, <1>6, <1>7, <1>8 DEF Ds, Rs
  <2> QED BY <1>5, <1>6, <1>25, <1>30, <2>1, DiskShrinks
<1>32. PlacesOk(s, dr2, cwd, oft)
  BY <1>5, <1>10, <1>31, PlacesKept
<1>33. Counted(l, cwd, oft)
  BY <1>5, <1>24, CountedStill
<1>34. /\ Becomes(l) /\ imap' = imap \ {i} /\ bmap' = bmap \ Sh[i].blocks
       /\ oft' = oft /\ fd' = fd /\ cwd' = cwd
  BY <1>1, <1>2, <1>11, <1>12, <1>13, <1>14, <1>15, <1>16, <1>27 DEF Rmdir
<1>35. /\ Counted(l, cwd', oft') /\ TablesOk(cwd', oft', fd')
       /\ DiskOk(Shapes(l), dir', imap', bmap') /\ PlacesOk(Shapes(l), dir', cwd', oft')
  BY <1>5, <1>28, <1>31, <1>32, <1>33, <1>34 DEF s
<1> QED BY <1>34, <1>35, StepIs

LEMMA LinkStep ==
  ASSUME Sizes, FilesInv, NEW p \in Proc, Alive(p), NEW old \in Path, NEW new \in NamePath, Link(p, old, new)
  PROVE  FilesInv'
<1>1. PICK i : i = Getino(p, old)
  OBVIOUS
<1>2. PICK d : d = Getino(p, Parent(new))
  OBVIOUS
<1>3. PICK n : n = Base(new)
  OBVIOUS
<1>4. /\ i # 0 /\ ~ IsDir(i) /\ Getino(p, new) = 0 /\ d # 0 /\ IsDir(d)
      /\ Inode(i).links < MaxLinks
  BY <1>1, <1>2 DEF Link
<1>5. d \in Ds /\ n \in Name /\ d \in Ino /\ Rs[d][n] = 0
  <2>1. d \in Ds /\ Rs[d][n] = 0 /\ n \in Name
    BY <1>2, <1>3, <1>4, NamePathLeads
  <2> QED BY <2>1, SearchFacts
<1>6. i \in Ino /\ i \notin Ds /\ i \notin DirsOf(Sh) /\ NamesIn(Sh, dir, i) # {} /\ i # d
  <2>1. i \in Ino /\ (i \in Ds \/ NamesIn(Sh, dir, i) # {})
    BY <1>1, <1>4, GetinoPlace DEF Places, Sizes, Paths
  <2>2. i \notin Ds
    BY <1>4, <2>1, InodeFacts
  <2> QED BY <1>5, <2>1, <2>2 DEF Ds
<1>7. i \in imap /\ Sh[i].links = Cardinality(NamesIn(Sh, dir, i))
  BY <1>6, FreeInode
<1>8. Inode(i) = Seen(Now, i) /\ Inode(i).type = File /\ Inode(i).links = Sh[i].links /\ Sh[i].type = File
      /\ Inode(i) \in InodeType
  BY <1>4, <1>6, InodeFacts
<1>9. /\ FsOk(Now) /\ Counted(Now, cwd, oft) /\ DiskOk(Sh, dir, imap, bmap)
      /\ PlacesOk(Sh, dir, cwd, oft) /\ TablesOk(cwd, oft, fd) /\ Sh \in [Ino -> InodeType]
  BY NowCounted DEF FilesInv, DiskOk
<1>10. PICK f : f = Iget(Iget(Now, i), d)
  OBVIOUS
<1>11. PICK g : g = Dirtied(Relinked(f, i, 1), i)
  OBVIOUS
<1>12. PICK h : h = Iput(g, i)
  OBVIOUS
<1>13. PICK k : k = Iput(h, d)
  OBVIOUS
<1>14. /\ FsOk(f) /\ Refs(f)[i] > 0 /\ Shapes(f) = Sh /\ Seen(f, i) = Seen(Now, i)
  <2>1. PICK e : e = Iget(Now, i)
    OBVIOUS
  <2>2. /\ FsOk(e) /\ Shapes(e) = Sh /\ Seen(e, i) = Seen(Now, i)
        /\ Refs(e)[i] = Refs(Now)[i] + 1
    BY <1>6, <1>9, <2>1, IgetMoves DEF Moves, Sh
  <2>3. /\ FsOk(f) /\ Shapes(f) = Sh /\ Seen(f, i) = Seen(Now, i) /\ Refs(f)[i] = Refs(e)[i] + 0
    BY <1>5, <1>6, <1>10, <2>1, <2>2, IgetMoves DEF Moves
  <2>4. Refs(Now)[i] \in Nat
    BY <1>6, <1>9, OneMinode
  <2> QED BY <2>2, <2>3, <2>4
<1>15. /\ Moves(f, g, i, 0, 0) /\ Shapes(g) = [Sh EXCEPT ![i].links = @ + 1]
  <2>1. Seen(f, i).links + 1 \in 0..MaxLinks /\ Seen(f, i).type = File
    BY <1>4, <1>8, <1>14 DEF InodeType, Sizes
  <2> QED BY <1>6, <1>11, <1>14, <2>1, LinkedMoves
<1>16. Still(f, g)
  BY <1>14, <1>15, MovesStill
<1>17. Moves(Now, h, d, 1, -1) /\ Shapes(h) = Shapes(g)
  BY <1>5, <1>6, <1>9, <1>10, <1>12, <1>16, FirstReturned
<1>18. Still(Now, k) /\ Shapes(k) = Shapes(g)
  <2>1. Still(h, h)
    BY <1>17 DEF Moves, Still
  <2> QED BY <1>5, <1>9, <1>13, <1>17, <2>1, UsedStill
<1> DEFINE s == Shapes(k)
<1>19. /\ Alters(Sh, s, i) /\ s[i].type = File /\ s[i].blocks = Sh[i].blocks
       /\ s[i].links = Cardinality(NamesIn(Sh, dir, i)) + 1
  <2>1. Sh[i].links + 1 \in 0..MaxLinks /\ Sh[i] \in InodeType
    BY <1>4, <1>6, <1>8, <1>9 DEF InodeType, Sizes
  <2>2. PICK r : r = [Sh[i] EXCEPT !.links = @ + 1]
    OBVIOUS
  <2>3. /\ r \in InodeType /\ r.type = File /\ r.blocks = Sh[i].blocks /\ r.links = Sh[i].links + 1
    BY <1>8, <2>1, <2>2 DEF InodeType
  <2>4. s = [Sh EXCEPT ![i] = r]
    BY <1>15, <1>18, <2>2
  <2> QED BY <1>6, <1>7, <1>9, <2>3, <2>4 DEF Alters
<1> HIDE DEF s
<1>20. PICK dr : dr = dir'
  OBVIOUS
<1>21. Puts(dir, At(Sh, d), n, i, dr)
  <2>1. dr = Renamed(dir, d, n, i)
    BY <1>1, <1>2, <1>3, <1>20 DEF Link
  <2> QED BY <1>5, <2>1, SearchFacts
<1>22. DiskOk(s, dr, imap \cup {i}, bmap) /\ Kept(Sh, dir, s, dr, {})
  <2>1. i \notin DirsOf(s) /\ s[i].blocks \subseteq Sh[i].blocks
    BY <1>19 DEF DirsOf, File, Dir
  <2>2. d \in DirsOf(Sh) /\ RowsOf(Sh, dir)[d][n] = 0
    BY <1>5 DEF Ds, Rs
  <2> QED BY <1>5, <1>6, <1>9, <1>19, <1>21, <2>1, <2>2, DiskNames
<1>23. imap \cup {i} = imap
  BY <1>7
<1>24. PlacesOk(s, dr, cwd, oft)
  BY <1>9, <1>22, PlacesKept, NobodyIdle
<1>25. Counted(k, cwd, oft)
  BY <1>9, <1>18, CountedStill
<1>26. /\ Becomes(k) /\ imap' = imap /\ bmap' = bmap /\ oft' = oft /\ fd' = fd /\ cwd' = cwd
  <2>1. Becomes(k)
    BY <1>1, <1>2, <1>10, <1>11, <1>12, <1>13 DEF Link, Linked
  <2> QED BY <2>1 DEF Link
<1>27. /\ Counted(k, cwd', oft') /\ TablesOk(cwd', oft', fd')
       /\ DiskOk(Shapes(k), dir', imap', bmap') /\ PlacesOk(Shapes(k), dir', cwd', oft')
  BY <1>9, <1>20, <1>22, <1>23, <1>24, <1>25, <1>26 DEF s
<1> QED BY <1>26, <1>27, StepIs

LEMMA NoUsers ==
  ASSUME Sizes, NEW cw, NEW of, NEW i, Idle(cw, of, {i}), i # Root
  PROVE  Users(cw, of, i) = 0
<1>1. {p \in Proc : cw[p] = i} = {} /\ {o \in Ofts : of[o].ref > 0 /\ of[o].ino = i} = {}
  BY DEF Idle
<1>2. Cardinality({}) = 0
  BY FS_EmptySet
<1>3. Users(cw, of, i) = Cardinality({}) + Cardinality({}) + 0
  BY <1>1, Zenon DEF Users
<1> QED BY <1>2, <1>3

LEMMA UnlinkStep ==
  ASSUME Sizes, FilesInv, NEW p \in Proc, Alive(p), NEW path \in NamePath, Unlink(p, path)
  PROVE  FilesInv'
<1>1. PICK i : i = Getino(p, path)
  OBVIOUS
<1>2. PICK d : d = Getino(p, Parent(path))
  OBVIOUS
<1>3. PICK n : n = Base(path)
  OBVIOUS
<1>4. i # 0 /\ ~ IsDir(i) /\ ~ IsOpen(i)
  BY <1>1 DEF Unlink, Spared, Sizes
<1>5. d \in Ds /\ n \in Name /\ d \in Ino /\ Rs[d][n] = i /\ i \in Ino
  <2>1. d \in Ds /\ Rs[d][n] = i /\ i \in Ino
    BY <1>1, <1>2, <1>3, <1>4, NamePathLeads
  <2>2. i \notin Ds
    BY <1>4, <2>1, InodeFacts
  <2>3. n \in Name
    BY <1>1, <1>2, <1>3, <2>1, <2>2, NamePathLeads
  <2> QED BY <2>1, <2>3, SearchFacts
<1>6. i \notin Ds /\ i \notin DirsOf(Sh) /\ i # d
  BY <1>4, <1>5, InodeFacts DEF Ds
<1>7. /\ FsOk(Now) /\ Counted(Now, cwd, oft) /\ DiskOk(Sh, dir, imap, bmap)
      /\ PlacesOk(Sh, dir, cwd, oft) /\ TablesOk(cwd, oft, fd) /\ Sh \in [Ino -> InodeType]
  BY NowCounted DEF FilesInv, DiskOk
<1>8. Inode(i) = Seen(Now, i) /\ Inode(i).type = File /\ Inode(i).links = Sh[i].links /\ Sh[i].type = File
      /\ Inode(i) \in InodeType
  BY <1>4, <1>5, InodeFacts
<1>9. Idle(cwd, oft, {i}) /\ Refs(Now)[i] = 0
  <2>1. Root \in Ds
    BY <1>7 DEF DiskOk, TreeOk, Ds
  <2>2. i # None
    BY <1>5 DEF Sizes
  <2>3. Idle(cwd, oft, {i})
    BY <1>4, <1>6, <1>7, <2>2 DEF Idle, IsOpen, PlacesOk, Ds
  <2>4. Users(cwd, oft, i) = 0
    BY <1>6, <2>1, <2>3, NoUsers
  <2> QED BY <1>5, <2>3, <2>4, NowCounted
<1>10. PICK e : e = Iget(Now, i)
  OBVIOUS
<1>11. PICK f0 : f0 = Iget(e, d)
  OBVIOUS
<1>12. PICK f1 : f1 = Dirtied(f0, d)
  OBVIOUS
<1>13. PICK f : f = Iput(f1, d)
  OBVIOUS
<1>14. /\ Moves(Now, e, i, 1, -1) /\ Shapes(e) = Sh /\ Seen(e, i) = Seen(Now, i) /\ FsOk(e)
       /\ Refs(e)[i] = 1
  <2>1. /\ Moves(Now, e, i, 1, -1) /\ Shapes(e) = Sh /\ Seen(e, i) = Seen(Now, i)
    BY <1>5, <1>7, <1>10, IgetMoves DEF Sh
  <2> QED BY <1>5, <1>9, <2>1 DEF Moves
<1>15. /\ Moves(e, f0, d, 1, -1) /\ Shapes(f0) = Sh /\ Seen(f0, i) = Seen(Now, i) /\ FsOk(f0)
       /\ Refs(f0)[d] > 0
  <2>1. /\ Moves(e, f0, d, 1, -1) /\ Shapes(f0) = Shapes(e) /\ Seen(f0, i) = Seen(e, i)
    BY <1>5, <1>11, <1>14, IgetMoves
  <2>2. Refs(e)[d] \in Nat
    BY <1>5, <1>14, OneMinode
  <2> QED BY <1>5, <1>14, <2>1, <2>2 DEF Moves
<1>16. Still(f0, f1) /\ Shapes(f1) = Sh /\ Seen(f1, i) = Seen(Now, i)
  BY <1>5, <1>12, <1>15, DirtiedMoves, MovesStill
<1>17. Still(e, f) /\ Shapes(f) = Sh /\ Seen(f, i) = Seen(Now, i)
  BY <1>5, <1>6, <1>13, <1>14, <1>15, <1>16, UsedStill
<1>18. FsOk(f) /\ Refs(f)[i] = 1 /\ Refs(f)[i] > 0
  BY <1>5, <1>14, <1>17 DEF Still
<1>19. PICK dr : dr = dir'
  OBVIOUS
<1>20. Puts(dir, At(Sh, d), n, 0, dr)
  <2>1. dr = Renamed(dir, d, n, 0)
    BY <1>1, <1>2, <1>3, <1>19 DEF Unlink
  <2> QED BY <1>5, <2>1, SearchFacts
<1>21. ASSUME NEW k, Becomes(k), Still(Now, k), Alters(Sh, Shapes(k), i), Shapes(k)[i].type = File,
              Shapes(k)[i].blocks \subseteq Sh[i].blocks,
              OneLess(Sh[i].links, imap, Shapes(k)[i].links, imap', i)
       PROVE  FilesInv'
  <2>1. PICK s : s = Shapes(k)
    OBVIOUS
  <2>2. PICK im : im = imap'
    OBVIOUS
  <2>3. i \notin DirsOf(s)
    BY <1>21, <2>1 DEF DirsOf, File, Dir
  <2>4. d \in DirsOf(Sh) /\ RowsOf(Sh, dir)[d][n] = i
    BY <1>5 DEF Ds, Rs
  <2>5. DiskOk(s, dr, im, bmap) /\ Kept(Sh, dir, s, dr, {i})
    BY <1>5, <1>6, <1>7, <1>20, <1>21, <2>1, <2>2, <2>3, <2>4, DiskUnnames
  <2>6. PlacesOk(s, dr, cwd, oft)
    BY <1>7, <1>9, <2>5, PlacesKept
  <2>7. Counted(k, cwd, oft)
    BY <1>7, <1>21, CountedStill
  <2>8. bmap' = bmap /\ oft' = oft /\ fd' = fd /\ cwd' = cwd
    BY DEF Unlink
  <2>9. /\ Counted(k, cwd', oft') /\ TablesOk(cwd', oft', fd')
        /\ DiskOk(Shapes(k), dir', imap', bmap') /\ PlacesOk(Shapes(k), dir', cwd', oft')
    BY <1>7, <1>19, <2>1, <2>2, <2>5, <2>6, <2>7, <2>8
  <2> QED BY <1>21, <2>9, StepIs
<1>22. CASE /\ Inode(i).links > 1 /\ imap' = imap
            /\ Becomes(Iput(Dirtied(Relinked(f, i, -1), i), i))
  <2>1. PICK g : g = Dirtied(Relinked(f, i, -1), i)
    OBVIOUS
  <2>2. PICK k : k = Iput(g, i)
    OBVIOUS
  <2>3. Seen(f, i).links + (-1) \in 0..MaxLinks /\ Seen(f, i).type = File
    BY <1>8, <1>17, <1>22 DEF InodeType, Sizes
  <2>4. Moves(f, g, i, 0, 0) /\ Shapes(g) = [Sh EXCEPT ![i].links = @ + (-1)]
    BY <1>5, <1>17, <1>18, <2>1, <2>3, LinkedMoves
  <2>5. Still(e, g)
    BY <1>17, <1>18, <2>4, MovesStill, StillStill
  <2>6. Still(Now, k) /\ Shapes(k) = Shapes(g)
    BY <1>5, <1>7, <1>14, <2>2, <2>5, UsedStill
  <2>7. PICK r : r = [Sh[i] EXCEPT !.links = @ + (-1)]
    OBVIOUS
  <2>8. r \in InodeType /\ r.type = File /\ r.blocks = Sh[i].blocks /\ r.links = Sh[i].links - 1
    <3>1. Sh[i] \in InodeType /\ Sh[i].links + (-1) \in 0..MaxLinks
      BY <1>5, <1>7, <1>8, <1>17, <2>3
    <3> QED BY <1>8, <2>7, <3>1 DEF InodeType
  <2>9. Shapes(k) = [Sh EXCEPT ![i] = r]
    BY <2>4, <2>6, <2>7
  <2>10. Alters(Sh, Shapes(k), i) /\ Shapes(k)[i] = r
    BY <1>5, <1>7, <2>8, <2>9 DEF Alters
  <2>11. OneLess(Sh[i].links, imap, Shapes(k)[i].links, imap', i)
    BY <1>22, <2>8, <2>10 DEF OneLess
  <2>12. Becomes(k)
    BY <1>22, <2>1, <2>2
  <2> QED BY <1>21, <2>6, <2>8, <2>10, <2>11, <2>12
<1>23. CASE /\ Inode(i).links <= 1 /\ imap' = imap \ {i}
            /\ Becomes(Forgotten(Iput(Relinked(f, i, -1), i), i))
  <2>1. PICK k : k = Forgotten(Iput(Relinked(f, i, -1), i), i)
    OBVIOUS
  <2>2. Moves(f, k, i, -1, 1) /\ Shapes(k) = [Sh EXCEPT ![i] = Unset]
    BY <1>5, <1>17, <1>18, <2>1, UnlinkedMoves
  <2>3. Still(Now, k)
    <3>1. Refs(Now) \in [Ino -> Nat] /\ Locks(Now) \in [Ino -> Int]
      BY <1>5, <1>7, OneMinode
    <3> QED BY <1>14, <1>17, <2>2, <3>1 DEF Moves, Still
  <2>4. Alters(Sh, Shapes(k), i) /\ Shapes(k)[i] = Unset
    BY <1>5, <1>7, <2>2 DEF Alters, Unset, InodeType, Sizes
  <2>5. OneLess(Sh[i].links, imap, Shapes(k)[i].links, imap', i)
    BY <1>8, <1>23 DEF OneLess
  <2>6. Unset.type = File /\ Unset.blocks = {}
    BY DEF Unset
  <2> QED BY <1>21, <1>23, <2>1, <2>3, <2>4, <2>5, <2>6
<1>24. \/ /\ Inode(i).links > 1 /\ imap' = imap
          /\ Becomes(Iput(Dirtied(Relinked(f, i, -1), i), i))
       \/ /\ Inode(i).links <= 1 /\ imap' = imap \ {i}
          /\ Becomes(Forgotten(Iput(Relinked(f, i, -1), i), i))
  BY <1>1, <1>2, <1>10, <1>11, <1>12, <1>13 DEF Unlink
<1> QED BY <1>22, <1>23, <1>24

(* truncate(), if open() is to do that. *)
LEMMA TruncatedMoves ==
  ASSUME Sizes, NEW fs, FsOk(fs), NEW i \in Ino, Refs(fs)[i] > 0,
         NEW flag, NEW cut, cut = CutBlocks(fs, i, flag), NEW g, g = Truncated(fs, i, cut)
  PROVE  /\ Moves(fs, g, i, 0, 0)
         /\ cut = {} => Shapes(g) = Shapes(fs)
         /\ cut # {} => /\ flag \in Truncates /\ cut = Shapes(fs)[i].blocks
                        /\ Shapes(g) = [Shapes(fs) EXCEPT ![i].blocks = {}]
<1>1. CASE cut = {}
  <2>1. g = fs
    BY <1>1 DEF Truncated
  <2>2. Refs(fs) \in [Ino -> Nat] /\ Locks(fs) \in [Ino -> Int]
    BY OneMinode
  <2> QED BY <1>1, <2>1, <2>2 DEF Moves
<1>2. CASE cut # {}
  <2>1. flag \in Truncates /\ cut = fs.mem[i].inode.blocks
    BY <1>2 DEF CutBlocks
  <2>2. fs.mem[i].inode \in InodeType /\ Shapes(fs)[i] = Shape(fs.mem[i].inode)
    BY OneMinode DEF Seen, Mem
  <2>3. PICK rec : rec = [fs.mem[i].inode EXCEPT !.blocks = {}]
    OBVIOUS
  <2>4. rec \in InodeType /\ Shape(rec) = [Shapes(fs)[i] EXCEPT !.blocks = {}]
    BY <2>2, <2>3 DEF InodeType, Shape
  <2>5. g = Set(fs, i, rec)
    BY <1>2, <2>3 DEF Truncated
  <2>6. Moves(fs, g, i, 0, 0) /\ Shapes(g) = [Shapes(fs) EXCEPT ![i] = Shape(rec)]
    BY <2>4, <2>5, SetMoves
  <2>7. cut = Shapes(fs)[i].blocks
    BY <2>1, <2>2 DEF Shape
  <2> QED BY <1>2, <2>1, <2>4, <2>6, <2>7
<1> QED BY <1>1, <1>2

LEMMA TruncatedKeeps ==
  ASSUME Sizes, NEW fs, FsOk(fs), NEW i \in Ino, Refs(fs)[i] > 0,
         NEW flag, NEW cut, cut = CutBlocks(fs, i, flag), NEW g, g = Truncated(fs, i, cut),
         NEW dr, NEW im, NEW bm, DiskOk(Shapes(fs), dr, im, bm),
         i \in DirsOf(Shapes(fs)) => flag = "RD"
  PROVE  /\ Moves(fs, g, i, 0, 0) /\ DiskOk(Shapes(g), dr, im, bm \ cut)
         /\ Kept(Shapes(fs), dr, Shapes(g), dr, {})
<1>1. PICK sh : sh = Shapes(fs)
  OBVIOUS
<1>2. PICK s : s = Shapes(g)
  OBVIOUS
<1>3. Moves(fs, g, i, 0, 0)
  BY TruncatedMoves
<1>4. CASE cut = {}
  <2>1. s = sh
    BY <1>1, <1>2, <1>4 DEF Truncated
  <2>3. bm \ cut = bm
    BY <1>4
  <2>2. Kept(sh, dr, sh, dr, {})
    BY DEF Kept
  <2> QED BY <1>1, <1>2, <1>3, <2>1, <2>2, <2>3
<1>5. CASE cut # {}
  <2>1. flag \in Truncates /\ cut = sh[i].blocks /\ s = [sh EXCEPT ![i].blocks = {}]
    BY <1>1, <1>2, <1>5, TruncatedMoves
  <2>2. i \notin DirsOf(sh)
    <3>1. "RD" \notin Truncates
      BY Zenon DEF Truncates
    <3> QED BY <1>1, <2>1, <3>1
  <2>3. DiskOk(sh, dr, im, bm)
    BY <1>1
  <2>4. Alters(sh, s, i) /\ s[i] = [sh[i] EXCEPT !.blocks = {}]
    BY <2>1, <2>3 DEF Alters, DiskOk, InodeType
  <2>5. i \notin DirsOf(s) /\ s[i].links = sh[i].links /\ s[i].blocks = {}
    BY <2>2, <2>3, <2>4 DEF DirsOf, DiskOk, InodeType
  <2>6. PICK bm2 : bm2 = bm \ cut
    OBVIOUS
  <2>7. Reblocks(sh, bm, i, s[i].blocks, bm2)
    BY <2>1, <2>3, <2>5, <2>6 DEF Reblocks, DiskOk, BlocksOk
  <2>8. DiskOk(s, dr, im, bm2) /\ Kept(sh, dr, s, dr, {})
    BY <2>2, <2>3, <2>4, <2>5, <2>7, DiskBlocks
  <2> QED BY <1>1, <1>2, <1>3, <2>6, <2>8
<1> QED BY <1>4, <1>5

(* A table with a new entry, and a descriptor of it. *)
Opens(p, i, write, o, x, of, f, of2, f2) ==
  /\ o \in Ofts /\ of[o].ref = 0 /\ x \in Fds /\ f[p][x] = None
  /\ of2 = [of EXCEPT ![o] = [ref |-> 1, write |-> write, ino |-> i]]
  /\ f2 = [f EXCEPT ![p][x] = o]

LEMMA OpensOk ==
  ASSUME Sizes, NEW cw, NEW of, NEW f, TablesOk(cw, of, f), NEW p \in Proc, cw[p] # None,
         NEW i \in Ino, NEW write \in BOOLEAN, NEW o, NEW x, NEW of2, NEW f2,
         Opens(p, i, write, o, x, of, f, of2, f2),
         \A u \in Ofts : of[u].ref > 0 /\ of[u].ino = i => ~ write /\ ~ of[u].write
  PROVE  /\ TablesOk(cw, of2, f2)
         /\ \A j : Users(cw, of2, j) = Users(cw, of, j) + IF j = i THEN 1 ELSE 0
         /\ \A u \in Ofts \ {o} : of2[u] = of[u]
         /\ of2[o] = [ref |-> 1, write |-> write, ino |-> i]
<1>1. cw \in CwdType /\ of \in [Ofts -> OftType] /\ f \in FdTables
  BY DEF TablesOk
<1>2. PICK e : e = [ref |-> 1, write |-> write, ino |-> i]
  OBVIOUS
<1>3. e \in OftType /\ o \in Ofts /\ of[o].ref = 0 /\ x \in Fds /\ f[p][x] = None
  BY <1>2 DEF Opens, OftType
<1>4. /\ of2 \in [Ofts -> OftType] /\ of2[o] = e /\ \A u \in Ofts \ {o} : of2[u] = of[u]
      /\ of2 = [of EXCEPT ![o] = e]
  BY <1>1, <1>2, <1>3 DEF Opens
<1>5. Put(of, Ofts, OftType, o, e, of2)
  BY <1>1, <1>3, <1>4 DEF Put
<1>6. ASSUME NEW j PROVE Users(cw, of2, j) = Users(cw, of, j) + IF j = i THEN 1 ELSE 0
  <2>1. Users(cw, of2, j) = Users(cw, of, j) - (IF of[o].ref > 0 /\ of[o].ino = j THEN 1 ELSE 0)
                               + (IF e.ref > 0 /\ e.ino = j THEN 1 ELSE 0)
    BY <1>5, UsersOft
  <2>2. Users(cw, of, j) \in Nat
    BY UsersType
  <2> QED BY <1>2, <1>3, <2>1, <2>2
<1>12. PutFd(f, p, x, o, f2)
  BY <1>1, <1>3 DEF Opens, PutFd
<1>7. f2 \in FdTables
  BY <1>12, FdSet
<1>8. ASSUME NEW u \in Ofts
      PROVE  /\ of2[u].ref = Descriptors(f2, u, of2[u])
             /\ of2[u].ref = 0 => of2[u] = NotOpen
             /\ Gone(of2[u]) => of2[u].ref = 1
  <2>1. /\ Cardinality(FdsOf(f, u)) \in Nat
        /\ Cardinality(FdsOf(f2, u)) = Cardinality(FdsOf(f, u)) - (IF f[p][x] = u THEN 1 ELSE 0)
                                                               + (IF o = u THEN 1 ELSE 0)
    BY <1>12, FdSet
  <2>2. None # u
    BY DEF Sizes
  <2>3. /\ of[u].ref = Descriptors(f, u, of[u]) /\ (of[u].ref = 0 => of[u] = NotOpen)
        /\ Gone(of[u]) => of[u].ref = 1
    BY DEF TablesOk
  <2>4. CASE u = o
    <3>1. of2[u].ref = 1 /\ ~ Gone(of2[u]) /\ ~ Gone(of[u])
      BY <1>2, <1>3, <1>4, <2>4 DEF Gone, Sizes
    <3> QED BY <1>3, <2>1, <2>2, <2>3, <2>4, <3>1 DEF Descriptors
  <2>5. CASE u # o
    BY <1>3, <1>4, <2>1, <2>2, <2>3, <2>5 DEF Descriptors
  <2> QED BY <2>4, <2>5
<1>9. ASSUME NEW q \in Proc, cw[q] = None PROVE NoFds(f2, q)
  <2>1. q # p /\ NoFds(f, q)
    BY <1>9 DEF TablesOk
  <2> QED BY <1>1, <2>1 DEF Opens, NoFds, FdTables, FdRows
<1>10. Alone(of2)
  <2> SUFFICES ASSUME NEW u \in Ofts, of2[u].write, ~ Gone(of2[u])
               PROVE  {v \in Ofts : of2[v].ref > 0 /\ of2[v].ino = of2[u].ino} = {u}
    BY DEF Alone
  <2>1. CASE u = o
    <3>1. write /\ of2[u].ino = i /\ of2[u].ref = 1
      BY <1>2, <1>4, <2>1
    <3>2. \A v \in Ofts \ {o} : ~ (of2[v].ref > 0 /\ of2[v].ino = i)
      BY <1>4, <3>1
    <3> QED BY <2>1, <3>1, <3>2
  <2>2. CASE u # o
    <3>1. of2[u] = of[u] /\ {v \in Ofts : of[v].ref > 0 /\ of[v].ino = of[u].ino} = {u}
      BY <1>4, <2>2 DEF TablesOk, Alone
    <3>2. of[u].ref > 0 /\ of[u].ino # i
      BY <3>1
    <3>3. \A v \in Ofts : of2[v].ref > 0 /\ of2[v].ino = of[u].ino
                            <=> of[v].ref > 0 /\ of[v].ino = of[u].ino
      BY <1>2, <1>3, <1>4, <3>2
    <3> QED BY <3>1, <3>3
  <2> QED BY <2>1, <2>2
<1>11. TablesOk(cw, of2, f2)
  BY <1>1, <1>4, <1>7, <1>8, <1>9, <1>10 DEF TablesOk
<1> QED BY <1>2, <1>4, <1>6, <1>11

(* The entry that is left by an unknown flag. *)
LEMMA LeftOk ==
  ASSUME Sizes, NEW cw, NEW of, NEW f, TablesOk(cw, of, f), NEW o \in Ofts, of[o].ref = 0,
         NEW of2, of2 = [of EXCEPT ![o] = Left]
  PROVE  /\ TablesOk(cw, of2, f)
         /\ \A j \in Ino : Users(cw, of2, j) = Users(cw, of, j)
         /\ \A sh, dr : PlacesOk(sh, dr, cw, of) => PlacesOk(sh, dr, cw, of2)
<1>1. cw \in CwdType /\ of \in [Ofts -> OftType] /\ f \in FdTables
  BY DEF TablesOk
<1>2. Left \in OftType /\ Left.ref = 1 /\ Left.ino = 0 /\ Gone(Left)
  BY DEF Left, OftType, Gone
<1>3. /\ of2 \in [Ofts -> OftType] /\ of2[o] = Left /\ \A u \in Ofts \ {o} : of2[u] = of[u]
      /\ Put(of, Ofts, OftType, o, Left, of2)
  BY <1>1, <1>2 DEF Put
<1>4. ASSUME NEW j \in Ino PROVE Users(cw, of2, j) = Users(cw, of, j)
  <2>1. Users(cw, of2, j) = Users(cw, of, j) - (IF of[o].ref > 0 /\ of[o].ino = j THEN 1 ELSE 0)
                               + (IF Left.ref > 0 /\ Left.ino = j THEN 1 ELSE 0)
    BY <1>3, UsersOft
  <2>2. Users(cw, of, j) \in Nat /\ j # 0
    BY UsersType DEF Sizes
  <2> QED BY <1>2, <2>1, <2>2
<1>5. ASSUME NEW u \in Ofts
      PROVE  /\ of2[u].ref = Descriptors(f, u, of2[u])
             /\ of2[u].ref = 0 => of2[u] = NotOpen
             /\ Gone(of2[u]) => of2[u].ref = 1
  <2>1. /\ of[u].ref = Descriptors(f, u, of[u]) /\ (of[u].ref = 0 => of[u] = NotOpen)
        /\ Gone(of[u]) => of[u].ref = 1
    BY DEF TablesOk
  <2>2. CASE u = o
    <3>1. ~ Gone(of[o])
      BY DEF Gone
    <3>2. Cardinality(FdsOf(f, u)) + 0 = 0
      BY <2>1, <2>2, <3>1 DEF Descriptors
    <3>3. Cardinality(FdsOf(f, u)) \in Nat
      <4>1. FdsOf(f, u) \in SUBSET (Proc \X Fds)
        BY DEF FdsOf
      <4> QED BY <4>1, TablesFinite, FS_Subset, FS_CardinalityType
    <3> QED BY <1>2, <1>3, <2>2, <3>2, <3>3 DEF Descriptors
  <2>3. CASE u # o
    BY <1>3, <2>1, <2>3
  <2> QED BY <2>2, <2>3
<1>6. Alone(of2)
  <2> SUFFICES ASSUME NEW u \in Ofts, of2[u].write, ~ Gone(of2[u])
               PROVE  {v \in Ofts : of2[v].ref > 0 /\ of2[v].ino = of2[u].ino} = {u}
    BY DEF Alone
  <2>1. u # o /\ of2[u] = of[u]
    BY <1>2, <1>3
  <2>2. {v \in Ofts : of[v].ref > 0 /\ of[v].ino = of[u].ino} = {u}
    BY <2>1 DEF TablesOk, Alone
  <2>3. of[u].ref > 0 /\ of[u].ino # 0
    BY <2>1, <2>2 DEF Gone
  <2>4. \A v \in Ofts : of2[v].ref > 0 /\ of2[v].ino = of2[u].ino
                          <=> of[v].ref > 0 /\ of[v].ino = of[u].ino
    BY <1>2, <1>3, <2>1, <2>3
  <2> QED BY <2>2, <2>4
<1>7. TablesOk(cw, of2, f)
  BY <1>1, <1>3, <1>5, <1>6 DEF TablesOk
<1>8. \A sh, dr : PlacesOk(sh, dr, cw, of) => PlacesOk(sh, dr, cw, of2)
  BY <1>2, <1>3 DEF PlacesOk
<1> QED BY <1>4, <1>7, <1>8

(* myopen() of i, in the state fs, which is right for the tables. *)
MayGet(fs, dr, im, i, flag) ==
  /\ Counted(fs, cwd, oft) /\ DiskOk(Shapes(fs), dr, im, bmap) /\ PlacesOk(Shapes(fs), dr, cwd, oft)
  /\ i \in Ino /\ (i \in DirsOf(Shapes(fs)) \/ NamesIn(Shapes(fs), dr, i) # {})
  /\ i \in DirsOf(Shapes(fs)) => flag = "RD"

LEMMA OpenKeeps ==
  ASSUME Sizes, FilesInv, NEW p \in Proc, Alive(p), NEW fs, NEW i, NEW flag, NEW dr, dr = dir',
         NEW im, im = imap', MayGet(fs, dr, im, i, flag), cwd' = cwd, OpenInode(p, fs, i, flag)
  PROVE  FilesInv'
<1>1. /\ FsOk(fs) /\ Counted(fs, cwd, oft) /\ DiskOk(Shapes(fs), dr, im, bmap)
      /\ PlacesOk(Shapes(fs), dr, cwd, oft) /\ i \in Ino
      /\ i \in DirsOf(Shapes(fs)) => flag = "RD"
      /\ TablesOk(cwd, oft, fd)
  BY DEF MayGet, Counted, FilesInv
<1>2. PICK e : e = Iget(fs, i)
  OBVIOUS
<1>3. /\ Moves(fs, e, i, 1, -1) /\ Shapes(e) = Shapes(fs) /\ FsOk(e) /\ Refs(e)[i] > 0
  <2>1. Moves(fs, e, i, 1, -1) /\ Shapes(e) = Shapes(fs)
    BY <1>1, <1>2, IgetMoves
  <2>2. Refs(fs)[i] \in Nat
    BY <1>1, OneMinode
  <2> QED BY <1>1, <2>1, <2>2 DEF Moves
<1>4. PICK cut : cut = CutBlocks(e, i, flag)
  OBVIOUS
<1>5. PICK g : g = Truncated(e, i, cut)
  OBVIOUS
<1>6. PICK s : s = Shapes(g)
  OBVIOUS
<1>7. Moves(e, g, i, 0, 0) /\ DiskOk(s, dr, im, bmap \ cut) /\ Kept(Shapes(fs), dr, s, dr, {})
  BY <1>1, <1>3, <1>4, <1>5, <1>6, TruncatedKeeps
<1>8. Still(e, g) /\ FsOk(g) /\ Refs(g)[i] > 0
  BY <1>1, <1>3, <1>7, MovesStill DEF Still
<1>9. PlacesOk(s, dr, cwd, oft)
  BY <1>1, <1>7, NobodyIdle, PlacesKept
<1>10. CASE Becomes(Iput(e, i)) /\ bmap' = bmap /\ oft' = oft /\ fd' = fd
  <2>1. PICK h : h = Iput(e, i)
    OBVIOUS
  <2>2. Still(e, e)
    BY <1>3 DEF Still
  <2>3. Still(fs, h) /\ Shapes(h) = Shapes(fs)
    BY <1>1, <1>3, <2>1, <2>2, UsedStill
  <2>4. Counted(h, cwd, oft)
    BY <1>1, <2>3, CountedStill
  <2>5. /\ Counted(h, cwd', oft') /\ TablesOk(cwd', oft', fd')
        /\ DiskOk(Shapes(h), dir', imap', bmap') /\ PlacesOk(Shapes(h), dir', cwd', oft')
    BY <1>1, <1>10, <2>3, <2>4
  <2> QED BY <1>10, <2>1, <2>5, StepIs
<1>11. CASE Becomes(Iput(g, i)) /\ bmap' = bmap \ cut /\ oft' = oft /\ fd' = fd
  <2>1. PICK h : h = Iput(g, i)
    OBVIOUS
  <2>2. Still(fs, h) /\ Shapes(h) = s
    BY <1>1, <1>3, <1>6, <1>8, <2>1, UsedStill
  <2>3. Counted(h, cwd, oft)
    BY <1>1, <2>2, CountedStill
  <2>4. /\ Counted(h, cwd', oft') /\ TablesOk(cwd', oft', fd')
        /\ DiskOk(Shapes(h), dir', imap', bmap') /\ PlacesOk(Shapes(h), dir', cwd', oft')
    BY <1>1, <1>7, <1>9, <1>11, <2>2, <2>3
  <2> QED BY <1>11, <2>1, <2>4, StepIs
<1>12. CASE /\ MayOpen(i, flag) /\ FreeOfts # {} /\ FreeFds(p) # {} /\ bmap' = bmap \ cut
            /\ oft' = [oft EXCEPT ![Min(FreeOfts)] = [ref |-> 1, write |-> flag # "RD", ino |-> i]]
            /\ fd' = [fd EXCEPT ![p][Min(FreeFds(p))] = Min(FreeOfts)]
            /\ Becomes(Unlock(Dirtied(g, i), i))
  <2>1. PICK o : o = Min(FreeOfts)
    OBVIOUS
  <2>2. PICK x : x = Min(FreeFds(p))
    OBVIOUS
  <2>3. PICK write : write = (flag # "RD")
    OBVIOUS
  <2>4. write \in BOOLEAN
    BY <2>3
  <2>5. o \in Ofts /\ oft[o].ref = 0 /\ x \in Fds /\ fd[p][x] = None
    <3>1. FreeOfts \subseteq Nat /\ FreeFds(p) \subseteq Nat
      BY TablesFinite DEF FreeOfts, FreeFds
    <3>2. o \in FreeOfts /\ x \in FreeFds(p)
      BY <1>12, <2>1, <2>2, <3>1, MinOfNats
    <3> QED BY <3>2 DEF FreeOfts, FreeFds, Held
  <2>6. PICK of2 : of2 = oft'
    OBVIOUS
  <2>7. PICK f2 : f2 = fd'
    OBVIOUS
  <2>8. Opens(p, i, write, o, x, oft, fd, of2, f2)
    BY <1>12, <2>1, <2>2, <2>3, <2>5, <2>6, <2>7 DEF Opens
  <2>9. \A u \in Ofts : oft[u].ref > 0 /\ oft[u].ino = i => ~ write /\ ~ oft[u].write
    BY <1>12, <2>3 DEF MayOpen, Compatible
  <2>10. /\ TablesOk(cwd, of2, f2)
         /\ \A j : Users(cwd, of2, j) = Users(cwd, oft, j) + IF j = i THEN 1 ELSE 0
         /\ \A u \in Ofts \ {o} : of2[u] = oft[u]
         /\ of2[o] = [ref |-> 1, write |-> write, ino |-> i]
    <3>1. cwd[p] # None
      BY DEF Alive
    <3> QED BY <1>1, <2>4, <2>8, <2>9, <3>1, OpensOk
  <2>11. PICK g1 : g1 = Dirtied(g, i)
    OBVIOUS
  <2>12. Moves(g, g1, i, 0, 0) /\ Shapes(g1) = s /\ FsOk(g1)
    BY <1>1, <1>6, <1>8, <2>11, DirtiedMoves DEF Moves
  <2>13. PICK h : h = Unlock(g1, i)
    OBVIOUS
  <2>14. Moves(g1, h, i, 0, 1) /\ Shapes(h) = s /\ FsOk(h)
    BY <1>1, <2>12, <2>13, LockMoves DEF Moves
  <2>15. Counted(h, cwd, of2)
    <3>1. ASSUME NEW j \in Ino PROVE Refs(h)[j] = Users(cwd, of2, j) /\ Locks(h)[j] = 1
      <4>1. Refs(fs)[j] = Users(cwd, oft, j) /\ Locks(fs)[j] = 1 /\ Refs(fs)[j] \in Nat
        BY <1>1, OneMinode DEF Counted
      <4>2. /\ Refs(h)[j] = Refs(fs)[j] + IF j = i THEN 1 ELSE 0
            /\ Locks(h)[j] = Locks(fs)[j]
        BY <1>1, <1>3, <1>8, <2>12, <2>14, <4>1 DEF Moves, Still
      <4> QED BY <2>10, <4>1, <4>2
    <3> QED BY <2>14, <3>1 DEF Counted
  <2>16. PlacesOk(s, dr, cwd, of2)
    <3>1. i \in DirsOf(s) \/ NamesIn(s, dr, i) # {}
      BY <1>7, <1>1 DEF Kept, MayGet
    <3>2. write => i \notin DirsOf(s)
      BY <1>1, <1>7, <2>3 DEF Kept
    <3> QED BY <1>9, <2>10, <3>1, <3>2 DEF PlacesOk
  <2>17. /\ Counted(h, cwd', oft') /\ TablesOk(cwd', oft', fd')
         /\ DiskOk(Shapes(h), dir', imap', bmap') /\ PlacesOk(Shapes(h), dir', cwd', oft')
    BY <1>7, <1>12, <2>6, <2>7, <2>10, <2>14, <2>15, <2>16
  <2>18. Becomes(h)
    BY <1>12, <2>11, <2>13
  <2> QED BY <2>17, <2>18, StepIs
<1>13. CASE /\ Becomes(Iput(e, i)) /\ bmap' = bmap /\ fd' = fd /\ FreeOfts # {}
            /\ oft' = [oft EXCEPT ![Min(FreeOfts)] = Left]
  <2>1. PICK h : h = Iput(e, i)
    OBVIOUS
  <2>2. Still(e, e)
    BY <1>3 DEF Still
  <2>3. Still(fs, h) /\ Shapes(h) = Shapes(fs)
    BY <1>1, <1>3, <2>1, <2>2, UsedStill
  <2>4. Counted(h, cwd, oft)
    BY <1>1, <2>3, CountedStill
  <2>5. PICK o : o = Min(FreeOfts)
    OBVIOUS
  <2>6. o \in Ofts /\ oft[o].ref = 0
    <3>1. FreeOfts \subseteq Nat
      BY TablesFinite DEF FreeOfts
    <3> QED BY <1>13, <2>5, <3>1, MinOfNats DEF FreeOfts
  <2>7. PICK of2 : of2 = oft'
    OBVIOUS
  <2>8. of2 = [oft EXCEPT ![o] = Left]
    BY <1>13, <2>5, <2>7
  <2>9. /\ TablesOk(cwd, of2, fd) /\ PlacesOk(Shapes(fs), dr, cwd, of2)
        /\ \A j \in Ino : Users(cwd, of2, j) = Users(cwd, oft, j)
    BY <1>1, <2>6, <2>8, LeftOk
  <2>10. Counted(h, cwd, of2)
    BY <2>4, <2>9 DEF Counted
  <2>11. /\ Counted(h, cwd', oft') /\ TablesOk(cwd', oft', fd')
         /\ DiskOk(Shapes(h), dir', imap', bmap') /\ PlacesOk(Shapes(h), dir', cwd', oft')
    BY <1>1, <1>13, <2>3, <2>7, <2>9, <2>10
  <2> QED BY <1>13, <2>1, <2>11, StepIs
<1> QED BY <1>2, <1>4, <1>5, <1>10, <1>11, <1>12, <1>13 DEF OpenInode

LEMMA OpenOldStep ==
  ASSUME Sizes, FilesInv, NEW p \in Proc, Alive(p), NEW path \in Path, NEW flag, OpenOld(p, path, flag)
  PROVE  FilesInv'
<1>1. PICK i : i = Getino(p, path)
  OBVIOUS
<1>2. PICK fs : fs = Now
  OBVIOUS
<1>3. PICK dr : dr = dir'
  OBVIOUS
<1>4. PICK im : im = imap'
  OBVIOUS
<1>5. /\ i # 0 /\ (IsDir(i) => flag = "RD") /\ OpenInode(p, fs, i, flag)
      /\ im = imap /\ dr = dir /\ cwd' = cwd
  BY <1>1, <1>2, <1>3, <1>4 DEF OpenOld
<1>6. i \in Ino /\ (i \in Ds \/ NamesIn(Sh, dir, i) # {})
  <2>1. path \in Paths
    BY DEF Sizes, Paths
  <2> QED BY <1>1, <1>5, <2>1, GetinoPlace DEF Places
<1>7. MayGet(fs, dr, im, i, flag)
  BY <1>2, <1>5, <1>6, InodeFacts DEF MayGet, FilesInv, Sh, Ds
<1> QED BY <1>3, <1>4, <1>5, <1>7, OpenKeeps

LEMMA OpenNewStep ==
  ASSUME Sizes, FilesInv, NEW p \in Proc, Alive(p), NEW path \in NamePath, NEW flag,
         OpenNew(p, path, flag)
  PROVE  FilesInv'
<1>1. PICK d : d = Getino(p, Parent(path))
  OBVIOUS
<1>2. PICK n : n = Base(path)
  OBVIOUS
<1>3. PICK i : i = Ialloc
  OBVIOUS
<1>4. PICK dr : dr = dir'
  OBVIOUS
<1>5. PICK im : im = imap'
  OBVIOUS
<1>6. PICK g : g = Iput(Mycreat(Iget(Now, d), i), d)
  OBVIOUS
<1>7. /\ Getino(p, path) = 0 /\ d # 0 /\ IsDir(d) /\ i # 0 /\ cwd' = cwd
      /\ im = imap \cup {i} /\ dr = Renamed(dir, d, n, i) /\ OpenInode(p, g, i, flag)
  BY <1>1, <1>2, <1>3, <1>4, <1>5, <1>6 DEF OpenNew
<1>8. d \in Ds /\ n \in Name /\ Rs[d][n] = 0 /\ i \in Ino \ imap
  <2>1. d \in Ds /\ Rs[d][n] = 0 /\ n \in Name
    BY <1>1, <1>2, <1>7, NamePathLeads
  <2> QED BY <1>3, <1>7, <2>1, FreeInode
<1>9. /\ Counted(g, cwd, oft) /\ DiskOk(Shapes(g), dr, im, bmap)
      /\ PlacesOk(Shapes(g), dr, cwd, oft)
      /\ NamesIn(Shapes(g), dr, i) # {} /\ i \notin DirsOf(Shapes(g))
  BY <1>6, <1>7, <1>8, Created
<1>10. MayGet(g, dr, im, i, flag)
  BY <1>8, <1>9 DEF MayGet
<1> QED BY <1>4, <1>5, <1>7, <1>10, OpenKeeps

(* Descriptors go: f2 is fd without those in S of p. *)
Drops(p, S, f2) ==
  /\ f2 \in FdTables
  /\ \A q \in Proc : cwd[q] = None => NoFds(f2, q)
  /\ \A o \in Ofts : /\ Cardinality(FdsOf(f2, o)) \in Nat
                     /\ Cardinality({x \in S : fd[p][x] = o}) \in Nat
                     /\ Cardinality(FdsOf(fd, o)) =
                          Cardinality(FdsOf(f2, o)) + Cardinality({x \in S : fd[p][x] = o})

LEMMA ClosedTables ==
  ASSUME Sizes, FilesInv, NEW p, NEW S, NEW f2, Drops(p, S, f2),
         NEW of2, of2 = OftClosed(p, S), NEW g, g = FsClosed(p, S)
  PROVE  /\ Counted(g, cwd, of2) /\ Shapes(g) = Sh
         /\ TablesOk(cwd, of2, f2) /\ PlacesOk(Sh, dir, cwd, of2)
<1>1. TablesOk(cwd, oft, fd) /\ Counted(Now, cwd, oft) /\ PlacesOk(Sh, dir, cwd, oft)
  BY DEF FilesInv
<1>3. ASSUME NEW o \in Ofts
      PROVE  /\ After(p, S, o) \in Nat /\ After(p, S, o) <= oft[o].ref
             /\ After(p, S, o) = Descriptors(f2, o, oft[o])
             /\ Gone(oft[o]) => After(p, S, o) = 1
  <2>1. oft[o].ref = Descriptors(fd, o, oft[o]) /\ (Gone(oft[o]) => oft[o].ref = 1)
    BY <1>1 DEF TablesOk
  <2>2. PICK c : c = Cardinality({x \in S : fd[p][x] = o})
    OBVIOUS
  <2>3. /\ c \in Nat /\ Cardinality(FdsOf(f2, o)) \in Nat
        /\ Cardinality(FdsOf(fd, o)) = Cardinality(FdsOf(f2, o)) + c
    BY <2>2, Zenon DEF Drops
  <2>4. After(p, S, o) = oft[o].ref - c
    BY <2>2, Zenon DEF After
  <2> QED BY <2>1, <2>3, <2>4 DEF Descriptors
<1>2. OftOk(p, S)
  <2>1. \A o \in Ofts : Last1(p, S, o) => oft[o].ino \in Ino
    BY <1>1, <1>3 DEF Last1, TablesOk, OftType, Gone
  <2> QED BY <1>1, <2>1 DEF OftOk, TablesOk
<1>4. /\ Counted(g, cwd, of2) /\ Shapes(g) = Sh /\ of2 \in [Ofts -> OftType]
      /\ \A o \in Ofts : ClosedEntry(p, S, o, of2[o])
  BY <1>1, <1>2, <1>3, FsClosedCounted DEF Sh
<1>5. ~ NotOpen.write /\ NotOpen.ref = 0
  BY DEF NotOpen
<1>6. ASSUME NEW o \in Ofts, of2[o].ref > 0
      PROVE  /\ of2[o].ino = oft[o].ino /\ of2[o].write = oft[o].write /\ oft[o].ref > 0
  <2>1. After(p, S, o) > 0 /\ oft[o].ref \in Nat
    BY <1>1, <1>4, <1>6 DEF ClosedEntry, TablesOk, OftType
  <2> QED BY <1>3, <1>4, <2>1 DEF ClosedEntry
<1>7. ASSUME NEW o \in Ofts
      PROVE  /\ of2[o].ref = Descriptors(f2, o, of2[o]) /\ of2[o].ref \in Nat
             /\ of2[o].ref = 0 => of2[o] = NotOpen
             /\ Gone(of2[o]) => of2[o].ref = 1
             /\ Gone(of2[o]) <=> Gone(oft[o])
  <2>1. of2[o].ref = After(p, S, o) /\ (of2[o].ref = 0 => of2[o] = NotOpen)
    BY <1>3, <1>4 DEF ClosedEntry
  <2>2. Gone(of2[o]) <=> Gone(oft[o])
    BY <1>3, <1>6, <2>1 DEF Gone
  <2> QED BY <1>3, <2>1, <2>2 DEF Descriptors
<1>8. Alone(of2)
  <2> SUFFICES ASSUME NEW o \in Ofts, of2[o].write, ~ Gone(of2[o])
               PROVE  {u \in Ofts : of2[u].ref > 0 /\ of2[u].ino = of2[o].ino} = {o}
    BY DEF Alone
  <2>1. of2[o].ref > 0
    BY <1>5, <1>7
  <2>2. {u \in Ofts : oft[u].ref > 0 /\ oft[u].ino = oft[o].ino} = {o}
    BY <1>1, <1>6, <1>7, <2>1 DEF TablesOk, Alone
  <2> QED BY <1>6, <2>1, <2>2
<1>9. TablesOk(cwd, of2, f2)
  BY <1>1, <1>4, <1>7, <1>8 DEF TablesOk, Drops
<1>10. PlacesOk(Sh, dir, cwd, of2)
  BY <1>1, <1>6, <1>7 DEF PlacesOk
<1> QED BY <1>4, <1>9, <1>10

LEMMA CloseStep ==
  ASSUME Sizes, FilesInv, NEW p \in Proc, NEW x \in Held(p), Close(p, x)
  PROVE  FilesInv'
<1>1. fd \in FdTables /\ x \in Fds /\ None \notin Ofts
  BY DEF FilesInv, TablesOk, Held, Sizes
<1>2. PICK f2 : f2 = fd'
  OBVIOUS
<1>3. PICK of2 : of2 = OftClosed(p, {x})
  OBVIOUS
<1>4. PICK g : g = FsClosed(p, {x})
  OBVIOUS
<1>5. PutFd(fd, p, x, None, f2)
  BY <1>1, <1>2 DEF PutFd, Close
<1>6. ASSUME NEW o \in Ofts
      PROVE  /\ Cardinality(FdsOf(f2, o)) \in Nat
             /\ Cardinality({y \in {x} : fd[p][y] = o}) \in Nat
             /\ Cardinality(FdsOf(fd, o)) =
                  Cardinality(FdsOf(f2, o)) + Cardinality({y \in {x} : fd[p][y] = o})
  <2>1. /\ Cardinality(FdsOf(fd, o)) \in Nat /\ Cardinality(FdsOf(f2, o)) \in Nat
        /\ Cardinality(FdsOf(f2, o)) = Cardinality(FdsOf(fd, o)) - (IF fd[p][x] = o THEN 1 ELSE 0)
                                                                + (IF None = o THEN 1 ELSE 0)
    BY <1>5, FdSet
  <2>2. Cardinality({}) = 0 /\ Cardinality({x}) = 1
    BY FS_EmptySet, FS_Singleton
  <2>3. PICK c : c = Cardinality({y \in {x} : fd[p][y] = o})
    OBVIOUS
  <2>4. {y \in {x} : fd[p][y] = o} = IF fd[p][x] = o THEN {x} ELSE {}
    OBVIOUS
  <2>5. c = IF fd[p][x] = o THEN 1 ELSE 0
    BY <2>2, <2>3, <2>4
  <2>6. None # o
    BY <1>1
  <2>7. /\ c \in Nat
        /\ Cardinality(FdsOf(fd, o)) = Cardinality(FdsOf(f2, o)) + c
    BY <2>1, <2>5, <2>6
  <2> QED BY <2>1, <2>3, <2>7, Zenon
<1>7. ASSUME NEW q \in Proc, cwd[q] = None PROVE NoFds(f2, q)
  <2>1. NoFds(fd, q)
    BY <1>7 DEF FilesInv, TablesOk
  <2> QED BY <1>1, <1>5, <2>1 DEF PutFd, NoFds, FdTables, FdRows
<1>8. Drops(p, {x}, f2)
  <2>1. f2 \in FdTables
    BY <1>5, FdSet
  <2> QED BY <1>6, <1>7, <2>1 DEF Drops
<1>9. /\ Counted(g, cwd, of2) /\ Shapes(g) = Sh
      /\ TablesOk(cwd, of2, f2) /\ PlacesOk(Sh, dir, cwd, of2)
  BY <1>3, <1>4, <1>8, ClosedTables
<1>10. /\ Becomes(g) /\ oft' = of2 /\ imap' = imap /\ bmap' = bmap /\ dir' = dir /\ cwd' = cwd
  BY <1>3, <1>4 DEF Close
<1>11. /\ Counted(g, cwd', oft') /\ TablesOk(cwd', oft', fd')
       /\ DiskOk(Shapes(g), dir', imap', bmap') /\ PlacesOk(Shapes(g), dir', cwd', oft')
  BY <1>2, <1>9, <1>10 DEF FilesInv
<1> QED BY <1>10, <1>11, StepIs

(* Entries that only have other counts of descriptors. *)
SameEntries(of, of2) ==
  /\ of2 \in [Ofts -> OftType]
  /\ \A o \in Ofts : /\ of2[o].ino = of[o].ino /\ of2[o].write = of[o].write
                     /\ of2[o].ref > 0 <=> of[o].ref > 0

LEMMA SameUsers ==
  ASSUME NEW of, NEW of2, SameEntries(of, of2)
  PROVE  /\ \A cw, i : Users(cw, of2, i) = Users(cw, of, i)
         /\ Alone(of) => Alone(of2)
         /\ \A fs, cw : Counted(fs, cw, of) => Counted(fs, cw, of2)
         /\ \A sh, dr, cw : PlacesOk(sh, dr, cw, of) => PlacesOk(sh, dr, cw, of2)
<1>1. \A i : {o \in Ofts : of2[o].ref > 0 /\ of2[o].ino = i}
               = {o \in Ofts : of[o].ref > 0 /\ of[o].ino = i}
  BY DEF SameEntries
<1>2. \A cw, i : Users(cw, of2, i) = Users(cw, of, i)
  BY <1>1, Zenon DEF Users
<1>3. Alone(of) => Alone(of2)
  <2>1. \A o \in Ofts : Gone(of2[o]) <=> Gone(of[o])
    BY DEF SameEntries, Gone
  <2> QED BY <1>1, <2>1, Zenon DEF Alone, SameEntries
<1>4. \A fs, cw : Counted(fs, cw, of) => Counted(fs, cw, of2)
  BY <1>2, Zenon DEF Counted
<1>5. \A sh, dr, cw : PlacesOk(sh, dr, cw, of) => PlacesOk(sh, dr, cw, of2)
  BY DEF SameEntries, PlacesOk, Gone
<1> QED BY <1>2, <1>3, <1>4, <1>5

(* One more descriptor of an entry. *)
Shares(p, y, o, cw, of, f, of2, f2) ==
  /\ p \in Proc /\ cw[p] # None /\ y \in Fds /\ f[p][y] = None
  /\ o \in Ofts /\ of[o].ref > 0 /\ ~ Gone(of[o])
  /\ of2 = [of EXCEPT ![o].ref = @ + 1] /\ f2 = [f EXCEPT ![p][y] = o]

LEMMA SharesOk ==
  ASSUME Sizes, NEW cw, NEW of, NEW f, TablesOk(cw, of, f), NEW p, NEW y, NEW o, NEW of2, NEW f2,
         Shares(p, y, o, cw, of, f, of2, f2)
  PROVE  TablesOk(cw, of2, f2) /\ SameEntries(of, of2)
<1>1. of \in [Ofts -> OftType] /\ f \in FdTables /\ cw \in CwdType
  BY DEF TablesOk
<1>2. /\ of2 \in [Ofts -> OftType] /\ of2[o] = [of[o] EXCEPT !.ref = @ + 1]
      /\ \A u \in Ofts \ {o} : of2[u] = of[u]
  BY <1>1 DEF Shares, OftType
<1>3. /\ of[o] \in OftType /\ of2[o].ref = of[o].ref + 1 /\ of2[o].write = of[o].write
      /\ of2[o].ino = of[o].ino /\ of[o].ref > 0
  BY <1>1, <1>2 DEF Shares, OftType
<1>4. SameEntries(of, of2)
  <2>1. \A u \in Ofts : /\ of2[u].ino = of[u].ino /\ of2[u].write = of[u].write
                        /\ of2[u].ref > 0 <=> of[u].ref > 0
    BY <1>2, <1>3 DEF OftType
  <2> QED BY <1>2, <2>1 DEF SameEntries
<1>5. PutFd(f, p, y, o, f2)
  BY <1>1 DEF Shares, PutFd
<1>6. f2 \in FdTables
  BY <1>5, FdSet
<1>7. ASSUME NEW u \in Ofts
      PROVE  /\ of2[u].ref = Descriptors(f2, u, of2[u])
             /\ of2[u].ref = 0 => of2[u] = NotOpen
             /\ Gone(of2[u]) => of2[u].ref = 1
  <2>1. /\ Cardinality(FdsOf(f, u)) \in Nat
        /\ Cardinality(FdsOf(f2, u)) = Cardinality(FdsOf(f, u)) - (IF f[p][y] = u THEN 1 ELSE 0)
                                                               + (IF o = u THEN 1 ELSE 0)
    BY <1>5, FdSet
  <2>2. None # u /\ f[p][y] = None
    BY DEF Sizes, Shares
  <2>3. /\ of[u].ref = Descriptors(f, u, of[u]) /\ (of[u].ref = 0 => of[u] = NotOpen)
        /\ Gone(of[u]) => of[u].ref = 1
    BY DEF TablesOk
  <2>5. CASE u = o
    <3>1. ~ Gone(of[u]) /\ ~ Gone(of2[u])
      BY <1>3, <2>5 DEF Gone, Shares
    <3>2. of2[u].ref = Cardinality(FdsOf(f2, u))
      BY <1>3, <2>1, <2>2, <2>3, <2>5, <3>1 DEF Descriptors
    <3> QED BY <1>2, <1>3, <2>1, <2>3, <2>5, <3>1, <3>2 DEF OftType, Descriptors
  <2>6. CASE u # o
    BY <1>2, <2>1, <2>2, <2>3, <2>6 DEF Descriptors
  <2> QED BY <2>5, <2>6
<1>8. ASSUME NEW q \in Proc, cw[q] = None PROVE NoFds(f2, q)
  <2>1. q # p /\ NoFds(f, q)
    BY <1>8 DEF TablesOk, Shares
  <2> QED BY <1>1, <2>1 DEF Shares, NoFds, FdTables, FdRows
<1>9. Alone(of2)
  BY <1>4, SameUsers DEF TablesOk
<1>10. TablesOk(cw, of2, f2)
  BY <1>1, <1>2, <1>6, <1>7, <1>8, <1>9 DEF TablesOk
<1> QED BY <1>4, <1>10

LEMMA DupStep ==
  ASSUME Sizes, FilesInv, NEW p \in Proc, Alive(p), NEW x \in Held(p), Dup(p, x)
  PROVE  FilesInv'
<1>1. TablesOk(cwd, oft, fd) /\ fd \in FdTables
  BY DEF FilesInv, TablesOk
<1>2. PICK o : o = fd[p][x]
  OBVIOUS
<1>3. PICK y : y = Min(FreeFds(p))
  OBVIOUS
<1>4. y \in Fds /\ fd[p][y] = None
  <2>1. FreeFds(p) \subseteq Nat /\ FreeFds(p) # {}
    BY TablesFinite DEF FreeFds, Dup
  <2>2. y \in FreeFds(p)
    BY <1>3, <2>1, MinOfNats
  <2> QED BY <2>2 DEF FreeFds, Held
<1>5. o \in Ofts /\ oft[o].ref > 0 /\ ~ Gone(oft[o])
  BY <1>1, <1>2, DescriptorOpen DEF FilesInv, Held, FdTables, FdRows
<1>6. PICK f2 : f2 = fd'
  OBVIOUS
<1>7. PICK of2 : of2 = oft'
  OBVIOUS
<1>8. Shares(p, y, o, cwd, oft, fd, of2, f2)
  BY <1>2, <1>3, <1>4, <1>5, <1>6, <1>7 DEF Shares, Dup, Alive
<1>9. TablesOk(cwd, of2, f2) /\ SameEntries(oft, of2)
  BY <1>1, <1>8, SharesOk
<1>10. PICK g : g = Now
  OBVIOUS
<1>11. Counted(g, cwd, of2) /\ PlacesOk(Sh, dir, cwd, of2)
  BY <1>9, <1>10, SameUsers DEF FilesInv
<1>12. /\ Becomes(g) /\ imap' = imap /\ bmap' = bmap /\ dir' = dir /\ cwd' = cwd
  BY <1>10 DEF Dup, Becomes, Now
<1>13. /\ Counted(g, cwd', oft') /\ TablesOk(cwd', oft', fd')
       /\ DiskOk(Shapes(g), dir', imap', bmap') /\ PlacesOk(Shapes(g), dir', cwd', oft')
  BY <1>6, <1>7, <1>9, <1>10, <1>11, <1>12 DEF FilesInv, Sh
<1> QED BY <1>12, <1>13, StepIs

LEMMA Dup2Step ==
  ASSUME Sizes, FilesInv, NEW p \in Proc, Alive(p), NEW x \in Held(p), NEW z \in Fds, Dup2(p, x, z)
  PROVE  FilesInv'
<1>1. TablesOk(cwd, oft, fd) /\ fd \in FdTables /\ None \notin Ofts
  BY DEF FilesInv, TablesOk, Sizes
<1>2. PICK o : o = fd[p][x]
  OBVIOUS
<1>3. x \in Fds /\ x # z /\ o \in Ofts
  BY <1>1, <1>2 DEF Held, Dup2, FdTables, FdRows
<1>4. PICK S : S = {z} \cap Held(p)
  OBVIOUS
<1>5. PICK f1 : f1 = [fd EXCEPT ![p][z] = None]
  OBVIOUS
<1>6. PICK of1 : of1 = OftClosed(p, S)
  OBVIOUS
<1>7. PICK g : g = FsClosed(p, S)
  OBVIOUS
<1>8. PutFd(fd, p, z, None, f1)
  BY <1>1, <1>5 DEF PutFd
<1>9. ASSUME NEW u \in Ofts
      PROVE  /\ Cardinality(FdsOf(f1, u)) \in Nat
             /\ Cardinality({y \in S : fd[p][y] = u}) \in Nat
             /\ Cardinality(FdsOf(fd, u)) =
                  Cardinality(FdsOf(f1, u)) + Cardinality({y \in S : fd[p][y] = u})
  <2>1. /\ Cardinality(FdsOf(fd, u)) \in Nat /\ Cardinality(FdsOf(f1, u)) \in Nat
        /\ Cardinality(FdsOf(f1, u)) = Cardinality(FdsOf(fd, u)) - (IF fd[p][z] = u THEN 1 ELSE 0)
                                                                + (IF None = u THEN 1 ELSE 0)
    BY <1>8, FdSet
  <2>2. Cardinality({}) = 0 /\ Cardinality({z}) = 1
    BY FS_EmptySet, FS_Singleton
  <2>3. PICK c : c = Cardinality({y \in S : fd[p][y] = u})
    OBVIOUS
  <2>4. {y \in S : fd[p][y] = u} = IF fd[p][z] = u THEN {z} ELSE {}
    BY <1>1, <1>4 DEF Held
  <2>5. c = IF fd[p][z] = u THEN 1 ELSE 0
    BY <2>2, <2>3, <2>4
  <2>6. None # u
    BY <1>1
  <2>7. /\ c \in Nat
        /\ Cardinality(FdsOf(fd, u)) = Cardinality(FdsOf(f1, u)) + c
    BY <2>1, <2>5, <2>6
  <2> QED BY <2>1, <2>3, <2>7, Zenon
<1>10. ASSUME NEW q \in Proc, cwd[q] = None PROVE NoFds(f1, q)
  <2>1. NoFds(fd, q)
    BY <1>1, <1>10 DEF TablesOk
  <2> QED BY <1>1, <1>5, <2>1 DEF NoFds, FdTables, FdRows
<1>11. f1 \in FdTables
  BY <1>8, FdSet
<1>12. Drops(p, S, f1)
  BY <1>9, <1>10, <1>11 DEF Drops
<1>13. /\ Counted(g, cwd, of1) /\ Shapes(g) = Sh
       /\ TablesOk(cwd, of1, f1) /\ PlacesOk(Sh, dir, cwd, of1)
  BY <1>6, <1>7, <1>12, ClosedTables
<1>14. f1[p][z] = None /\ f1[p][x] = o
  BY <1>1, <1>2, <1>3, <1>5 DEF FdTables, FdRows
<1>15. of1[o].ref > 0 /\ ~ Gone(of1[o])
  BY <1>3, <1>13, <1>14, DescriptorOpen
<1>16. PICK f2 : f2 = fd'
  OBVIOUS
<1>17. PICK of2 : of2 = oft'
  OBVIOUS
<1>18. f2 = [f1 EXCEPT ![p][z] = o]
  <2>1. f2 = [fd EXCEPT ![p][z] = o]
    BY <1>2, <1>16 DEF Dup2
  <2> QED BY <1>1, <1>5, <2>1 DEF FdTables, FdRows
<1>19. Shares(p, z, o, cwd, of1, f1, of2, f2)
  BY <1>2, <1>3, <1>4, <1>6, <1>14, <1>15, <1>17, <1>18 DEF Shares, Dup2, Alive
<1>20. TablesOk(cwd, of2, f2) /\ SameEntries(of1, of2)
  BY <1>13, <1>19, SharesOk
<1>21. Counted(g, cwd, of2) /\ PlacesOk(Sh, dir, cwd, of2)
  BY <1>13, <1>20, SameUsers
<1>22. /\ Becomes(g) /\ imap' = imap /\ bmap' = bmap /\ dir' = dir /\ cwd' = cwd
  BY <1>4, <1>7 DEF Dup2
<1>23. /\ Counted(g, cwd', oft') /\ TablesOk(cwd', oft', fd')
       /\ DiskOk(Shapes(g), dir', imap', bmap') /\ PlacesOk(Shapes(g), dir', cwd', oft')
  BY <1>13, <1>16, <1>17, <1>20, <1>21, <1>22 DEF FilesInv
<1> QED BY <1>22, <1>23, StepIs

(* refCount++, of a minode in use *)
LEMMA SharedMoves ==
  ASSUME Sizes, NEW fs, FsOk(fs), NEW i \in Ino, Refs(fs)[i] > 0,
         NEW g, g = [fs EXCEPT !.mem[i].ref = @ + 1]
  PROVE  Moves(fs, g, i, 1, 0) /\ Shapes(g) = Shapes(fs)
<1>1. PICK m : m = [fs.mem[i] EXCEPT !.ref = @ + 1]
  OBVIOUS
<1>2. PICK r : r = fs.disk[i]
  OBVIOUS
<1>3. /\ fs.mem[i] \in Mem /\ r \in InodeType /\ Sound(fs.mem[i], r)
      /\ fs.mem \in [Ino -> Mem] /\ fs.disk \in [Ino -> InodeType]
      /\ fs = [mem |-> fs.mem, disk |-> fs.disk]
      /\ Refs(fs)[i] = fs.mem[i].ref /\ Locks(fs)[i] = fs.mem[i].lock
      /\ Shapes(fs)[i] = Shape(Seen(fs, i)) /\ Seen(fs, i) = fs.mem[i].inode
  BY <1>2, OneMinode DEF Seen
<1>4. /\ m \in Mem /\ m.ref = fs.mem[i].ref + 1 /\ m.ref > 0 /\ m.lock = fs.mem[i].lock
      /\ m.dirty = fs.mem[i].dirty /\ m.inode = fs.mem[i].inode
  BY <1>1, <1>3 DEF Mem
<1>5. Sound(m, r)
  BY <1>3, <1>4 DEF Sound
<1>6. g = With(fs, i, m, r)
  <2>1. g = [mem |-> [fs.mem EXCEPT ![i] = m], disk |-> fs.disk]
    BY <1>1, <1>3
  <2>2. fs.disk = [fs.disk EXCEPT ![i] = r]
    BY <1>2, <1>3
  <2> QED BY <2>1, <2>2, Zenon DEF With
<1>7. Moves(fs, With(fs, i, m, r), i, m.ref - Refs(fs)[i], m.lock - Locks(fs)[i])
  <2>1. m \in Mem /\ r \in InodeType
    BY <1>3, <1>4
  <2> QED BY <1>5, <2>1, WithMoves
<1>8. m.ref - Refs(fs)[i] = 1 /\ m.lock - Locks(fs)[i] = 0
  BY <1>3, <1>4 DEF Mem
<1>9. Shapes(With(fs, i, m, r)) = Shapes(fs)
  <2>1. m \in Mem /\ r \in InodeType
    BY <1>3, <1>4
  <2>2. Shape(IF m.ref > 0 THEN m.inode ELSE r) = Shapes(fs)[i]
    BY <1>3, <1>4
  <2> QED BY <1>5, <2>1, <2>2, WithShape
<1>10. Moves(fs, g, i, 1, 0)
  BY <1>6, <1>7, <1>8
<1>11. Shapes(g) = Shapes(fs)
  BY <1>6, <1>9
<1> QED BY <1>10, <1>11

(* The entries and the descriptors when q, which has none, gets p's. *)
Forked(p, q, of2, f2) ==
  p \in Proc /\ q \in Proc /\ cwd[q] = None /\ of2 = OftShared(p) /\ f2 = [fd EXCEPT ![q] = fd[p]]

LEMMA SharedRow ==
  ASSUME Sizes, FilesInv, NEW p, NEW q, NEW of2, NEW f2, Forked(p, q, of2, f2)
  PROVE  /\ f2 \in FdTables /\ SameEntries(oft, of2)
         /\ \A o \in Ofts : /\ of2[o].ref = Descriptors(f2, o, of2[o])
                            /\ of2[o].ref = 0 => of2[o] = NotOpen
                            /\ Gone(of2[o]) => of2[o].ref = 1
<1>1. TablesOk(cwd, oft, fd) /\ fd \in FdTables /\ oft \in [Ofts -> OftType] /\ NoFds(fd, q)
      /\ p \in Proc /\ q \in Proc /\ f2 = [fd EXCEPT ![q] = fd[p]] /\ of2 = OftShared(p)
  BY DEF FilesInv, TablesOk, Forked
<1>2. Put(fd, Proc, FdRows, q, fd[p], f2)
  BY <1>1 DEF Put, FdTables
<1>3. f2 \in FdTables
  BY <1>1 DEF FdTables
<1>4. ASSUME NEW o \in Ofts
      PROVE  /\ of2[o] \in OftType /\ of2[o].ref = Descriptors(f2, o, of2[o])
             /\ of2[o].ino = oft[o].ino /\ of2[o].write = oft[o].write
             /\ of2[o].ref > 0 <=> oft[o].ref > 0
             /\ of2[o].ref = 0 => of2[o] = NotOpen
             /\ Gone(of2[o]) => of2[o].ref = 1
  <2>1. PICK c : c = Cardinality(RowOf(fd[p], o))
    OBVIOUS
  <2>2. /\ c \in Nat /\ Cardinality(FdsOf(fd, o)) \in Nat
        /\ Cardinality(FdsOf(f2, o)) = Cardinality(FdsOf(fd, o)) + c
    BY <1>1, <1>2, <2>1, FdRow
  <2>3. of2[o] = [oft[o] EXCEPT !.ref = @ + c]
    BY <1>1, <2>1, Zenon DEF OftShared, RowOf
  <2>4. /\ oft[o] \in OftType /\ oft[o].ref = Descriptors(fd, o, oft[o])
        /\ oft[o].ref = 0 => oft[o] = NotOpen
        /\ Gone(oft[o]) => oft[o].ref = 1
    BY <1>1 DEF TablesOk
  <2>5. oft[o].ref = 0 \/ Gone(oft[o]) => c = 0
    <3>1. oft[o].ref = 0 \/ Gone(oft[o]) => \A x \in Fds : fd[p][x] # o
      BY <1>1, DescriptorOpen
    <3>2. oft[o].ref = 0 \/ Gone(oft[o]) => RowOf(fd[p], o) = {}
      BY <3>1 DEF RowOf
    <3> QED BY <2>1, <3>2, FS_EmptySet
  <2>6. /\ of2[o] \in OftType /\ of2[o].ref = oft[o].ref + c
        /\ of2[o].ino = oft[o].ino /\ of2[o].write = oft[o].write
    BY <2>2, <2>3, <2>4 DEF OftType
  <2>7. c = 0 => of2[o] = oft[o]
    BY <2>3, <2>4 DEF OftType
  <2>8. /\ oft[o].ref \in Nat /\ (of2[o].ref > 0 <=> oft[o].ref > 0)
        /\ Gone(of2[o]) <=> Gone(oft[o])
    BY <2>2, <2>4, <2>5, <2>6 DEF OftType, Gone
  <2>9. of2[o].ref = 0 => of2[o] = NotOpen
    BY <2>2, <2>4, <2>5, <2>6, <2>7, <2>8
  <2>10. of2[o].ref = Descriptors(f2, o, of2[o])
    BY <2>2, <2>4, <2>6, <2>8 DEF Descriptors
  <2>11. Gone(of2[o]) => of2[o].ref = 1
    BY <2>4, <2>5, <2>7, <2>8
  <2> QED BY <2>6, <2>8, <2>9, <2>10, <2>11
<1>5. of2 \in [Ofts -> OftType]
  <2>1. of2 = [o \in Ofts |-> of2[o]]
    BY <1>1 DEF OftShared
  <2> QED BY <1>4, <2>1
<1> QED BY <1>3, <1>4, <1>5 DEF SameEntries

LEMMA ForkStep ==
  ASSUME Sizes, FilesInv, NEW p \in Proc, Alive(p), NEW q \in Proc, Fork(p, q)
  PROVE  FilesInv'
<1>1. PICK c : c = cwd[p]
  OBVIOUS
<1>2. /\ TablesOk(cwd, oft, fd) /\ Counted(Now, cwd, oft) /\ PlacesOk(Sh, dir, cwd, oft)
      /\ cwd \in CwdType /\ cwd[q] = None /\ c \in Ino /\ c \in DirsOf(Sh)
  BY <1>1 DEF FilesInv, TablesOk, Fork, Alive, PlacesOk, CwdType
<1>3. PICK of2 : of2 = oft'
  OBVIOUS
<1>4. PICK f2 : f2 = fd'
  OBVIOUS
<1>5. PICK cw2 : cw2 = cwd'
  OBVIOUS
<1>6. PICK g : g = [Now EXCEPT !.mem[c].ref = @ + 1]
  OBVIOUS
<1>7. /\ of2 = OftShared(p) /\ f2 = [fd EXCEPT ![q] = fd[p]] /\ cw2 = [cwd EXCEPT ![q] = c]
      /\ imap' = imap /\ bmap' = bmap /\ dir' = dir
  BY <1>1, <1>3, <1>4, <1>5 DEF Fork
<1>8. Becomes(g)
  BY <1>1, <1>6 DEF Becomes, Now, Fork, CwdShared
<1>9. Refs(Now)[c] > 0
  <2>1. Users(cwd, oft, c) > 0
    BY <1>1, SomeUser
  <2> QED BY <1>2, <2>1, NowCounted
<1>10. Moves(Now, g, c, 1, 0) /\ Shapes(g) = Sh
  BY <1>2, <1>6, <1>9, NowCounted, SharedMoves DEF Sh
<1>11. /\ f2 \in FdTables /\ SameEntries(oft, of2)
       /\ \A o \in Ofts : /\ of2[o].ref = Descriptors(f2, o, of2[o])
                          /\ of2[o].ref = 0 => of2[o] = NotOpen
                          /\ Gone(of2[o]) => of2[o].ref = 1
  <2>1. Forked(p, q, of2, f2)
    BY <1>2, <1>7, Zenon DEF Forked
  <2> QED BY <2>1, SharedRow
<1>12. Put(cwd, Proc, Ino \cup {None}, q, c, cw2)
  BY <1>2, <1>7 DEF Put, CwdType
<1>13. Counted(g, cw2, of2)
  <2>1. ASSUME NEW j \in Ino PROVE Refs(g)[j] = Users(cw2, of2, j) /\ Locks(g)[j] = 1
    <3>1. /\ Refs(Now)[j] = Users(cwd, of2, j) /\ Locks(Now)[j] = 1 /\ Refs(Now)[j] \in Nat
      BY <1>2, <1>11, SameUsers, OneMinode DEF Counted
    <3>2. /\ Users(cw2, of2, j) = Users(cwd, of2, j) - (IF cwd[q] = j THEN 1 ELSE 0)
                                                     + (IF c = j THEN 1 ELSE 0)
      BY <1>12, UsersCwd
    <3>3. cwd[q] # j
      BY <1>2 DEF Sizes
    <3> QED BY <1>10, <3>1, <3>2, <3>3 DEF Moves
  <2> QED BY <1>10, <2>1 DEF Counted, Moves
<1>14. TablesOk(cw2, of2, f2)
  <2>1. ASSUME NEW r \in Proc, cw2[r] = None PROVE NoFds(f2, r)
    <3>1. r # q /\ cwd[r] = None
      BY <1>2, <1>7, <2>1 DEF CwdType, Sizes
    <3>2. NoFds(fd, r)
      BY <1>2, <3>1 DEF TablesOk
    <3> QED BY <1>2, <1>7, <3>1, <3>2 DEF NoFds, TablesOk, FdTables
  <2>2. Alone(of2) /\ of2 \in [Ofts -> OftType]
    BY <1>2, <1>11, SameUsers DEF TablesOk, SameEntries
  <2>3. cw2 \in CwdType
    BY <1>2, <1>7 DEF CwdType
  <2> QED BY <1>11, <2>1, <2>2, <2>3 DEF TablesOk
<1>15. PlacesOk(Sh, dir, cw2, of2)
  <2>1. PlacesOk(Sh, dir, cwd, of2)
    BY <1>2, <1>11, SameUsers
  <2> QED BY <1>2, <1>7, <2>1 DEF PlacesOk, CwdType
<1>16. /\ Counted(g, cwd', oft') /\ TablesOk(cwd', oft', fd')
       /\ DiskOk(Shapes(g), dir', imap', bmap') /\ PlacesOk(Shapes(g), dir', cwd', oft')
  BY <1>3, <1>4, <1>5, <1>7, <1>10, <1>13, <1>14, <1>15 DEF FilesInv
<1> QED BY <1>8, <1>16, StepIs

LEMMA ExitStep ==
  ASSUME Sizes, FilesInv, NEW p \in Proc, Alive(p), Exit(p)
  PROVE  FilesInv'
<1>1. PICK c : c = cwd[p]
  OBVIOUS
<1>2. /\ TablesOk(cwd, oft, fd) /\ cwd \in CwdType /\ fd \in FdTables /\ c \in Ino
  BY <1>1 DEF FilesInv, TablesOk, Alive, CwdType
<1>3. PICK of2 : of2 = OftClosed(p, Fds)
  OBVIOUS
<1>4. PICK g : g = FsClosed(p, Fds)
  OBVIOUS
<1>5. PICK h : h = Release(g, c)
  OBVIOUS
<1>6. PICK f2 : f2 = fd'
  OBVIOUS
<1>7. PICK cw2 : cw2 = cwd'
  OBVIOUS
<1>8. /\ oft' = of2 /\ Becomes(h) /\ f2 = [fd EXCEPT ![p] = [x \in Fds |-> None]]
      /\ cw2 = [cwd EXCEPT ![p] = None] /\ imap' = imap /\ bmap' = bmap /\ dir' = dir
  BY <1>1, <1>3, <1>4, <1>5, <1>6, <1>7 DEF Exit
<1>9. f2 \in FdTables
  BY <1>2, <1>8 DEF FdTables, FdRows
<1>10. ASSUME NEW r \in Proc, cw2[r] = None PROVE NoFds(f2, r)
  <2>1. CASE r = p
    BY <1>2, <1>8, <2>1 DEF NoFds, FdTables
  <2>2. CASE r # p
    <3>1. NoFds(fd, r)
      BY <1>2, <1>8, <1>10, <2>2 DEF TablesOk, CwdType
    <3> QED BY <1>2, <1>8, <2>2, <3>1 DEF NoFds, FdTables
  <2> QED BY <2>1, <2>2
<1>11. Drops(p, Fds, f2)
  <2>1. ASSUME NEW o \in Ofts
        PROVE  /\ Cardinality(FdsOf(f2, o)) \in Nat
               /\ Cardinality({x \in Fds : fd[p][x] = o}) \in Nat
               /\ Cardinality(FdsOf(fd, o)) =
                    Cardinality(FdsOf(f2, o)) + Cardinality({x \in Fds : fd[p][x] = o})
    <3>1. /\ Cardinality(FdsOf(f2, o)) \in Nat /\ Cardinality(RowOf(fd[p], o)) \in Nat
          /\ Cardinality(FdsOf(fd, o)) = Cardinality(FdsOf(f2, o)) + Cardinality(RowOf(fd[p], o))
      BY <1>2, <1>8, FdClear
    <3> QED BY <3>1, Zenon DEF RowOf
  <2>2. ASSUME NEW q \in Proc, cwd[q] = None PROVE NoFds(f2, q)
    <3>1. cw2[q] = None
      BY <1>2, <1>8, <2>2 DEF CwdType
    <3> QED BY <1>10, <3>1
  <2> QED BY <1>9, <2>1, <2>2 DEF Drops
<1>12. /\ Counted(g, cwd, of2) /\ Shapes(g) = Sh
       /\ TablesOk(cwd, of2, f2) /\ PlacesOk(Sh, dir, cwd, of2)
  BY <1>3, <1>4, <1>11, ClosedTables
<1>13. FsOk(g) /\ Refs(g)[c] > 0
  <2>1. Users(cwd, of2, c) > 0
    BY <1>1, SomeUser
  <2> QED BY <1>2, <1>12, <2>1 DEF Counted
<1>14. Moves(g, h, c, -1, 0) /\ Shapes(h) = Sh
  BY <1>2, <1>5, <1>12, <1>13, ReleaseMoves
<1>15. Put(cwd, Proc, Ino \cup {None}, p, None, cw2)
  BY <1>2, <1>8 DEF Put, CwdType
<1>16. Counted(h, cw2, of2)
  <2>1. ASSUME NEW j \in Ino PROVE Refs(h)[j] = Users(cw2, of2, j) /\ Locks(h)[j] = 1
    <3>1. Refs(g)[j] = Users(cwd, of2, j) /\ Locks(g)[j] = 1 /\ Refs(g)[j] \in Nat
      BY <1>12, <1>13, OneMinode DEF Counted
    <3>2. Users(cw2, of2, j) = Users(cwd, of2, j) - (IF cwd[p] = j THEN 1 ELSE 0)
                                                  + (IF None = j THEN 1 ELSE 0)
      BY <1>15, UsersCwd
    <3>3. None # j
      BY DEF Sizes
    <3> QED BY <1>1, <1>14, <3>1, <3>2, <3>3 DEF Moves
  <2> QED BY <1>14, <2>1 DEF Counted, Moves
<1>17. TablesOk(cw2, of2, f2)
  <2>1. cw2 \in CwdType
    BY <1>2, <1>8 DEF CwdType
  <2> QED BY <1>10, <1>12, <2>1 DEF TablesOk
<1>18. PlacesOk(Sh, dir, cw2, of2)
  BY <1>2, <1>8, <1>12 DEF PlacesOk, CwdType
<1>19. /\ Counted(h, cwd', oft') /\ TablesOk(cwd', oft', fd')
       /\ DiskOk(Shapes(h), dir', imap', bmap') /\ PlacesOk(Shapes(h), dir', cwd', oft')
  BY <1>6, <1>7, <1>8, <1>14, <1>16, <1>17, <1>18 DEF FilesInv
<1> QED BY <1>8, <1>19, StepIs
-----------------------------------------------------------------------------
(* At the start the root directory is all there is. *)
LEMMA InitTree ==
  ASSUME Sizes, NEW sh, NEW dr, NEW b \in Block,
         \A i \in Ino : sh[i] = IF i = Root THEN [type |-> Dir, links |-> 0, blocks |-> {b}] ELSE Unset,
         dr = [[x \in Block |-> NoNames] EXCEPT ![b] = [NoNames EXCEPT !["."] = Root, ![".."] = Root]]
  PROVE  TreeOk(DirsOf(sh), RowsOf(sh, dr), LinksOf(sh), {Root})
<1> DEFINE D == DirsOf(sh)
           R == RowsOf(sh, dr)
<1>1. D = {Root}
  <2>1. Root \in Ino /\ Unset.type # Dir
    BY DEF Unset, File, Dir, Sizes
  <2>2. \A i \in Ino : sh[i].type = Dir <=> i = Root
    BY <2>1
  <2> QED BY <2>1, <2>2 DEF DirsOf
<1>2. sh[Root].blocks = {b} /\ Root \in Ino
  BY DEF Sizes
<1>3. At(sh, Root) = b
  BY <1>2 DEF At
<1>4. R = [d \in {Root} |-> dr[b]]
  BY <1>1, <1>3 DEF RowsOf
<1>5. dr[b] = [NoNames EXCEPT !["."] = Root, ![".."] = Root]
  OBVIOUS
<1>6. /\ dr[b] \in Row /\ dr[b]["."] = Root /\ dr[b][".."] = Root
      /\ \A n \in Name : dr[b][n] = 0
  BY <1>2, <1>5 DEF Row, NoNames, Entries, Sizes
<1>7. R \in [D -> Row] /\ R[Root] = dr[b]
  BY <1>1, <1>4, <1>6
<1> HIDE DEF R, D
<1>8. ASSUME NEW i \in Ino PROVE Named(D, R, i) = {}
  <2>1. i # 0
    BY DEF Sizes
  <2>2. \A h \in D \X Name : R[h[1]][h[2]] = 0
    <3>1. TAKE h \in D \X Name
    <3>2. h[1] = Root /\ h[2] \in Name
      BY <1>1
    <3>3. R[h[1]] = dr[b]
      BY <1>7, <3>2
    <3> QED BY <1>6, <3>2, <3>3
  <2> QED BY <2>1, <2>2 DEF Named
<1>9. \A d \in D : DirOk(D, R, d)
  BY <1>1, <1>2, <1>6, <1>7, <1>8 DEF DirOk
<1>10. \A i \in Ino : CountOk(D, R, LinksOf(sh), {Root}, i)
  BY <1>8 DEF CountOk
<1>11. Rooted(D, R)
  BY <1>1 DEF Rooted, Closed
<1>12. TreeOk(D, R, LinksOf(sh), {Root})
  BY <1>1, <1>2, <1>7, <1>9, <1>10, <1>11 DEF TreeOk
<1> QED BY <1>12 DEF D, R

LEMMA InitOk ==
  ASSUME Sizes, Init
  PROVE  FilesInv
<1>1. PICK b : b = Min(Block)
  OBVIOUS
<1>2. b \in Block /\ Root \in Ino /\ None \notin Ino /\ None \notin Ofts
  <2>1. Block \subseteq Nat /\ Block # {}
    BY DEF Sizes
  <2>2. Min(Block) \in Block
    BY <2>1, MinOfNats
  <2> QED BY <1>1, <2>2 DEF Sizes
<1>3. PICK root : root = [type |-> Dir, links |-> 2, blocks |-> {b}]
  OBVIOUS
<1>4. /\ inode = [[i \in Ino |-> Unset] EXCEPT ![Root] = root]
      /\ imap = {Root} /\ bmap = {b}
      /\ dir = [[x \in Block |-> NoNames] EXCEPT ![b] =
                 [NoNames EXCEPT !["."] = Root, ![".."] = Root]]
      /\ minode = [[i \in Ino |-> NotLoaded] EXCEPT ![Root] =
                    [NotLoaded EXCEPT !.ref = 2, !.inode = root]]
      /\ oft = [o \in Ofts |-> NotOpen]
      /\ fd = [p \in Proc |-> [x \in Fds |-> None]]
      /\ cwd = [[p \in Proc |-> None] EXCEPT ![P1] = Root]
  BY <1>1, <1>3 DEF Init
<1>5. root \in InodeType /\ Unset \in InodeType
  BY <1>2, <1>3 DEF InodeType, Unset, Sizes
<1>6. /\ NotLoaded \in Mem /\ NotLoaded.ref = 0 /\ NotLoaded.lock = 1
      /\ NotLoaded = [NotLoaded EXCEPT !.lock = NotLoaded.lock]
  <2>1. NotLoaded = [ref |-> 0, lock |-> 1, dirty |-> FALSE, inode |-> Unset]
    BY Zenon DEF NotLoaded
  <2>2. NotLoaded.lock = 1
    BY <2>1
  <2>3. [NotLoaded EXCEPT !.lock = 1] = NotLoaded
    <3>1. PICK m : m = [NotLoaded EXCEPT !.lock = 1]
      OBVIOUS
    <3>2. m = [ref |-> 0, lock |-> 1, dirty |-> FALSE, inode |-> Unset]
      BY <2>1, <3>1
    <3> QED BY <2>1, <3>1, <3>2, Zenon
  <2> QED BY <1>5, <2>1, <2>2, <2>3 DEF Mem
<1>7. PICK m : m = [NotLoaded EXCEPT !.ref = 2, !.inode = root]
  OBVIOUS
<1>8. m \in Mem /\ m.ref = 2 /\ m.lock = 1 /\ m.inode = root
  <2>1. NotLoaded = [ref |-> 0, lock |-> 1, dirty |-> FALSE, inode |-> Unset]
    BY Zenon DEF NotLoaded
  <2>2. m = [ref |-> 2, lock |-> 1, dirty |-> FALSE, inode |-> root]
    BY <1>7, <2>1
  <2> QED BY <1>5, <2>2 DEF Mem
<1>9. /\ \A i \in Ino : minode[i] = IF i = Root THEN m ELSE NotLoaded
      /\ \A i \in Ino : inode[i] = IF i = Root THEN root ELSE Unset
      /\ minode \in [Ino -> Mem] /\ inode \in [Ino -> InodeType]
  BY <1>4, <1>5, <1>6, <1>7, <1>8
<1>10. FsOk(Now)
  <2>1. Now.mem = minode /\ Now.disk = inode /\ Now \in FsType
    BY <1>9 DEF Now, FsType
  <2>2. ASSUME NEW i \in Ino PROVE Sound(minode[i], inode[i])
    <3>1. CASE i = Root
      BY <1>8, <1>9, <3>1 DEF Sound
    <3>2. CASE i # Root
      BY <1>6, <1>9, <3>2 DEF Sound
    <3> QED BY <3>1, <3>2
  <2> QED BY <2>1, <2>2 DEF FsOk
<1>11. ASSUME NEW i \in Ino PROVE Refs(Now)[i] = Users(cwd, oft, i) /\ Locks(Now)[i] = 1
  <2>1. Refs(Now)[i] = (IF i = Root THEN 2 ELSE 0) /\ Locks(Now)[i] = 1
    BY <1>6, <1>8, <1>9 DEF Refs, Locks, Now
  <2>2. {o \in Ofts : oft[o].ref > 0 /\ oft[o].ino = i} = {}
    BY <1>4 DEF NotOpen
  <2>3. {p \in Proc : cwd[p] = i} = IF i = Root THEN {P1} ELSE {}
    BY <1>2, <1>4 DEF Sizes
  <2>4. Cardinality({}) = 0 /\ Cardinality({P1}) = 1
    BY FS_EmptySet, FS_Singleton
  <2>5. CASE i = Root
    <3>1. Users(cwd, oft, i) = Cardinality({P1}) + Cardinality({}) + 1
      BY <2>2, <2>3, <2>5, Zenon DEF Users
    <3> QED BY <2>1, <2>4, <2>5, <3>1
  <2>6. CASE i # Root
    <3>1. Users(cwd, oft, i) = Cardinality({}) + Cardinality({}) + 0
      BY <2>2, <2>3, <2>6, Zenon DEF Users
    <3> QED BY <2>1, <2>4, <2>6, <3>1
  <2> QED BY <2>5, <2>6
<1>12. Counted(Now, cwd, oft)
  BY <1>10, <1>11 DEF Counted
<1>13. TablesOk(cwd, oft, fd)
  <2>1. NotOpen \in OftType /\ NotOpen.ref = 0 /\ ~ NotOpen.write
    BY DEF NotOpen, OftType
  <2>2. /\ cwd \in CwdType /\ oft \in [Ofts -> OftType] /\ fd \in FdTables
        /\ \A p \in Proc : NoFds(fd, p)
    BY <1>2, <1>4, <2>1 DEF CwdType, FdTables, FdRows, NoFds
  <2>3. \A o \in Ofts : oft[o] = NotOpen
    BY <1>4
  <2>4. ASSUME NEW o \in Ofts PROVE Cardinality(FdsOf(fd, o)) = 0
    <3>1. FdsOf(fd, o) = {}
      BY <1>2, <1>4 DEF FdsOf
    <3> QED BY <3>1, FS_EmptySet
  <2>5. Alone(oft)
    BY <2>1, <2>3 DEF Alone
  <2>6. ~ Gone(NotOpen)
    BY <2>1 DEF Gone
  <2> QED BY <2>1, <2>2, <2>3, <2>4, <2>5, <2>6 DEF TablesOk, Descriptors
<1>14. \A i \in Ino : Sh[i] = IF i = Root THEN [type |-> Dir, links |-> 0, blocks |-> {b}] ELSE Unset
  <2>1. Shape(root) = [type |-> Dir, links |-> 0, blocks |-> {b}]
    BY <1>3 DEF Shape, File, Dir
  <2>2. Shape(Unset) = Unset
    BY DEF Shape, Unset, File, Dir
  <2>3. \A i \in Ino : Seen(Now, i) = IF i = Root THEN root ELSE Unset
    BY <1>6, <1>8, <1>9 DEF Seen, Now
  <2> QED BY <2>1, <2>2, <2>3 DEF Sh, Shapes
<1>15. BlocksOk(Sh, bmap)
  <2>1. Unset.blocks = {} /\ Unset.type # Dir
    BY DEF Unset, File, Dir
  <2> QED BY <1>2, <1>4, <1>14, <2>1 DEF BlocksOk
<1>16. DiskOk(Sh, dir, imap, bmap)
  <2>1. TreeOk(DirsOf(Sh), RowsOf(Sh, dir), LinksOf(Sh), {Root})
    BY <1>2, <1>4, <1>14, InitTree
  <2>2. dir \in [Block -> Row]
    BY <1>2, <1>4 DEF Row, NoNames, Entries
  <2>3. Sh \in [Ino -> InodeType]
    BY <1>10, OneMinode, ShapeType DEF Sh, Shapes
  <2> QED BY <1>4, <1>15, <2>1, <2>2, <2>3 DEF DiskOk
<1>17. PlacesOk(Sh, dir, cwd, oft)
  <2>1. Root \in DirsOf(Sh)
    BY <1>2, <1>14 DEF DirsOf
  <2> QED BY <1>4, <2>1 DEF PlacesOk, NotOpen
<1> QED BY <1>12, <1>13, <1>16, <1>17 DEF FilesInv

(* Every call keeps it. *)
LEMMA NextOk ==
  ASSUME Sizes, FilesInv, [Next]_vars
  PROVE  FilesInv'
<1>1. CASE UNCHANGED vars
  BY <1>1 DEF vars, FilesInv, Counted, TablesOk, DiskOk, PlacesOk, Now, Sh
<1>2. CASE Next
  <2>1. PICK p \in Proc : Call(p)
    BY <1>2 DEF Next
  <2>2. Alive(p)
    BY <2>1 DEF Call
  <2>3. CASE Exit(p)
    BY <2>2, <2>3, ExitStep
  <2>4. CASE Sync
    BY <2>4, SyncStep
  <2>5. CASE \E q \in Proc : Fork(p, q)
    BY <2>2, <2>5, ForkStep
  <2>6. ASSUME NEW x \in Held(p), OnDescriptor(p, x) PROVE FilesInv'
    BY <2>2, <2>6, CloseStep, DupStep, WriteStep, Dup2Step DEF OnDescriptor
  <2>7. ASSUME NEW path \in Path, OnPath(p, path) PROVE FilesInv'
    BY <2>2, <2>7, ChdirStep, StatStep, OpenOldStep DEF OnPath
  <2>8. ASSUME NEW path \in NamePath, OnName(p, path) PROVE FilesInv'
    BY <2>2, <2>8, CreatStep, MkdirStep, RmdirStep, UnlinkStep, OpenNewStep, LinkStep DEF OnName
  <2> QED BY <2>1, <2>3, <2>4, <2>5, <2>6, <2>7, <2>8 DEF Call
<1> QED BY <1>1, <1>2

LEMMA FilesInvariant ==
  ASSUME Sizes PROVE Spec => []FilesInv
BY InitOk, NextOk, PTL DEF Spec
-----------------------------------------------------------------------------
(* The inodes in use are the directories and what has a name in one: paths of as many
   names as there are inodes reach them all. *)
Reached == {W \in SUBSET (Places \ {0}) : Root \in W}
Reaches(f, N) ==
  /\ f \in [0..N -> Reached] /\ f[0] = {Root}
  /\ \A k \in 1..N : f[k] = f[k - 1] \cup Below(f[k - 1])

LEMMA BelowPlaces ==
  ASSUME Sizes, FilesInv
  PROVE  /\ {Root} \in Reached
         /\ \A W \in Reached : W \cup Below(W) \in Reached /\ W \subseteq Ino /\ IsFiniteSet(W)
         /\ \A W \in Reached : \A d \in W \cap Ds, n \in Name : Rs[d][n] \in Below(W) \cup {0}
<1>1. Root \in Ds /\ 0 \notin Ino /\ IsFiniteSet(Ino) /\ Ds \subseteq Ino
  BY DEF FilesInv, DiskOk, TreeOk, Ds, Sizes, DirsOf
<1>2. \A i \in Ino : IsDir(i) <=> i \in Ds
  BY InodeFacts
<1>3. Name \subseteq Entries
  BY DEF Entries
<1>4. \A d \in Ds, n \in Name : Search(d, n) = Rs[d][n] /\ Rs[d][n] \in Places
  <2>1. TAKE d \in Ds, n \in Name
  <2>2. d \in Places /\ d # 0 /\ IsDir(d)
    BY <1>1, <1>2 DEF Places
  <2>3. Go(d, n) \in Places /\ Go(d, n) = Rs[d][n]
    BY <1>3, <2>2, GoPlaces
  <2> QED BY <2>3, SearchFacts
<1>5. {Root} \in Reached
  BY <1>1 DEF Reached, Places
<1>6. ASSUME NEW W \in Reached
      PROVE  /\ W \cup Below(W) \in Reached /\ W \subseteq Ino /\ IsFiniteSet(W)
             /\ \A d \in W \cap Ds, n \in Name : Rs[d][n] \in Below(W) \cup {0}
  <2>1. W \subseteq Ino /\ Root \in W /\ W \subseteq Places \ {0}
    BY DEF Reached, Places
  <2>2. IsFiniteSet(W)
    BY <1>1, <2>1, FS_Subset
  <2>3. {i \in W : IsDir(i)} = W \cap Ds
    BY <1>2, <2>1
  <2>4. Below(W) = {Search(d, n) : d \in W \cap Ds, n \in Name} \ {0}
    BY <2>3 DEF Below
  <2>5. Below(W) \subseteq Places \ {0}
    BY <1>4, <2>4
  <2>6. \A d \in W \cap Ds, n \in Name : Rs[d][n] \in Below(W) \cup {0}
    BY <1>4, <2>4
  <2>7. W \cup Below(W) \in Reached
    BY <2>1, <2>5 DEF Reached
  <2> QED BY <2>1, <2>2, <2>6, <2>7
<1> QED BY <1>5, <1>6

LEMMA InUseReaches ==
  ASSUME Sizes, FilesInv
  PROVE  Cardinality(Ino) \in Nat /\ \E f : Reaches(f, Cardinality(Ino)) /\ InUse = f[Cardinality(Ino)]
<1> DEFINE N == Cardinality(Ino)
           step == [z \in (1..N) \X Reached |-> z[2] \cup Below(z[2])]
           Eq(f) == f = [k \in 0..N |->
                           IF k = 0 THEN {Root}
                           ELSE f[k - 1] \cup Below(f[k - 1])]
<1>1. N \in Nat
  BY FS_CardinalityType DEF Sizes
<1>2. \A W \in Reached : W \cup Below(W) \in Reached
  BY BelowPlaces
<1>3. step \in [(1..N) \X Reached -> Reached]
  <2> HIDE DEF N
  <2> QED BY <1>2
<1> HIDE DEF step
<1>4. Recursion(N, Reached, {Root}, step)
  BY <1>1, <1>3, BelowPlaces DEF Recursion
<1>5. PICK f \in [0..N -> Reached] : f[0] = {Root} /\ \A k \in 1..N : f[k] = step[<<k, f[k - 1]>>]
  BY <1>4, IntervalRecursion
<1>6. \A k \in 1..N : f[k] = f[k - 1] \cup Below(f[k - 1])
  <2>1. TAKE k \in 1..N
  <2>2. f[k - 1] \in Reached
    BY <1>1
  <2>3. step[<<k, f[k - 1]>>] = f[k - 1] \cup Below(f[k - 1])
    BY <2>2 DEF step
  <2> QED BY <1>5, <2>3
<1> DEFINE Body(g, k) == IF k = 0 THEN {Root} ELSE g[k - 1] \cup Below(g[k - 1])
<1>7. \A g : Eq(g) <=> g = [k \in 0..N |-> Body(g, k)]
  BY Zenon
<1> DEFINE u == CHOOSE g : Eq(g)
<1>8. InUse = u[N]
  BY Zenon DEF InUse
<1>9. \A k \in 0..N : k # 0 => k \in 1..N /\ k - 1 \in 0..N
  BY <1>1
<1>10. Eq(f)
  <2>1. \A k \in 0..N : f[k] = Body(f, k)
    BY <1>5, <1>6, <1>9
  <2> HIDE DEF Body, N
  <2>2. f = [k \in 0..N |-> Body(f, k)]
    BY <2>1
  <2> QED BY <1>7, <2>2, Zenon
<1>11. Eq(u)
  BY <1>10, Zenon
<1>12. u = [k \in 0..N |-> Body(u, k)]
  BY <1>7, <1>11, Zenon
<1> HIDE DEF u, Eq
<1>13. \A k \in 0..N : u[k] = Body(u, k)
  <2> HIDE DEF Body, N
  <2> QED BY <1>12
<1>14. u[0] = {Root} /\ \A k \in 1..N : u[k] = u[k - 1] \cup Below(u[k - 1])
  <2>1. 0 \in 0..N /\ \A k \in 1..N : k \in 0..N /\ k # 0
    BY <1>1
  <2> HIDE DEF N
  <2> QED BY <1>13, <2>1
<1>15. \A k \in 0..N : u[k] = f[k]
  <2> DEFINE T == {k \in 0..N : u[k] = f[k]}
  <2>1. 0 \in T
    <3>1. 0 \in 0..N
      BY <1>1
    <3> QED BY <1>5, <1>14, <3>1
  <2>2. ASSUME NEW k \in 0..(N - 1), k \in T PROVE k + 1 \in T
    <3>1. k + 1 \in 1..N /\ k + 1 \in 0..N /\ (k + 1) - 1 = k
      BY <1>1
    <3> QED BY <1>6, <1>14, <2>2, <3>1
  <2> HIDE DEF T
  <2>3. \A k \in 0..N : k \in T
    BY <1>1, <2>1, <2>2, IntervalInduction
  <2> QED BY <2>3 DEF T
<1>16. InUse = f[N]
  BY <1>1, <1>8, <1>15
<1>17. Reaches(f, N)
  BY <1>5, <1>6 DEF Reaches
<1> QED BY <1>1, <1>16, <1>17

(* Each step reaches something new, or nothing ever will. *)
LEMMA ReachesAll ==
  ASSUME Sizes, FilesInv, NEW N, N = Cardinality(Ino), N \in Nat, NEW f, Reaches(f, N)
  PROVE  f[N] \in Reached /\ Below(f[N]) \subseteq f[N]
<1>1. f \in [0..N -> Reached] /\ f[0] = {Root} /\ \A k \in 1..N : f[k] = f[k - 1] \cup Below(f[k - 1])
  BY DEF Reaches
<1> DEFINE T == {k \in 0..N : Cardinality(f[k]) > k \/ Below(f[k]) \subseteq f[k]}
<1>2. \A k \in 0..N : IsFiniteSet(f[k]) /\ f[k] \subseteq Ino /\ Cardinality(f[k]) \in Nat
  <2>1. \A k \in 0..N : IsFiniteSet(f[k]) /\ f[k] \subseteq Ino
    BY <1>1, BelowPlaces
  <2> QED BY <2>1, FS_CardinalityType
<1>3. 0 \in T
  <2>1. Cardinality({Root}) = 1
    BY FS_Singleton
  <2>2. Cardinality(f[0]) > 0
    BY <1>1, <2>1
  <2>3. 0 \in 0..N
    OBVIOUS
  <2> QED BY <2>2, <2>3
<1>4. ASSUME NEW k \in 0..(N - 1), k \in T PROVE k + 1 \in T
  <2>1. k + 1 \in 1..N /\ k + 1 \in 0..N /\ (k + 1) - 1 = k /\ k \in 0..N /\ k \in Nat
    OBVIOUS
  <2>2. f[k + 1] = f[k] \cup Below(f[k])
    BY <1>1, <2>1
  <2>3. CASE Below(f[k]) \subseteq f[k]
    <3>1. f[k + 1] = f[k]
      BY <2>2, <2>3
    <3> QED BY <2>1, <2>3, <3>1
  <2>4. CASE ~ (Below(f[k]) \subseteq f[k])
    <3>1. f[k + 1] # f[k] /\ f[k] \in SUBSET f[k + 1]
      BY <2>2, <2>4
    <3>2. Cardinality(f[k]) <= Cardinality(f[k + 1]) /\ Cardinality(f[k]) # Cardinality(f[k + 1])
      BY <1>2, <2>1, <3>1, FS_Subset
    <3>3. Cardinality(f[k]) > k
      BY <1>4, <2>4
    <3>4. Cardinality(f[k]) \in Nat /\ Cardinality(f[k + 1]) \in Nat
      BY <1>2, <2>1
    <3>5. Cardinality(f[k + 1]) > k + 1
      BY <2>1, <3>2, <3>3, <3>4
    <3> QED BY <2>1, <3>5
  <2> QED BY <2>3, <2>4
<1> HIDE DEF T
<1>5. N \in T /\ N \in 0..N
  BY <1>3, <1>4, IntervalInduction
<1>6. Cardinality(f[N]) <= N
  BY <1>2, <1>5, FS_Subset DEF Sizes
<1>7. Cardinality(f[N]) \in Nat
  BY <1>2, <1>5
<1> QED BY <1>1, <1>5, <1>6, <1>7 DEF T

LEMMA InUseIs ==
  ASSUME Sizes, FilesInv
  PROVE  /\ InUse = Places \ {0} /\ InUse \subseteq Ino /\ Ds \subseteq InUse
         /\ {i \in InUse : IsDir(i)} = Ds
         /\ \A i \in InUse \ Ds : Named(Ds, Rs, i) # {}
         /\ \A i : NamesOf(Ds, i) = Named(Ds, Rs, i)
<1>1. InUse \in Reached /\ Below(InUse) \subseteq InUse
  BY InUseReaches, ReachesAll
<1>2. InUse \subseteq Ino /\ InUse \subseteq Places \ {0} /\ Root \in InUse
  BY <1>1 DEF Reached, Places
<1>3. \A d \in InUse \cap Ds, n \in Name : Rs[d][n] \in InUse \cup {0}
  BY <1>1, BelowPlaces
<1>4. Ds \subseteq InUse
  <2>1. Closed(Ds, Rs, InUse)
    BY <1>2, <1>3 DEF Closed
  <2>2. Rooted(Ds, Rs)
    BY DEF FilesInv, DiskOk, TreeOk, Ds, Rs
  <2> QED BY <1>2, <2>1, <2>2 DEF Rooted
<1>5. \A i : NamesIn(Sh, dir, i) = Named(Ds, Rs, i)
  BY DEF NamesIn, Ds, Rs
<1>6. ASSUME NEW i \in Places \ {0} PROVE i \in InUse
  <2>1. CASE i \in Ds
    BY <1>4, <2>1
  <2>2. CASE i \notin Ds
    <3>1. Named(Ds, Rs, i) # {} /\ i # 0
      BY <1>5, <2>2 DEF Places
    <3>2. PICK h \in Ds \X Name : Rs[h[1]][h[2]] = i
      BY <3>1 DEF Named
    <3>3. h[1] \in InUse \cap Ds /\ h[2] \in Name
      BY <1>4
    <3> QED BY <1>3, <3>1, <3>2, <3>3
  <2> QED BY <2>1, <2>2
<1>7. {i \in InUse : IsDir(i)} = Ds
  BY <1>2, <1>4, InodeFacts
<1>8. \A i \in InUse \ Ds : Named(Ds, Rs, i) # {}
  BY <1>2, <1>5 DEF Places
<1>9. ASSUME NEW i PROVE NamesOf(Ds, i) = Named(Ds, Rs, i)
  <2>1. \A h \in Ds \X Name : Search(h[1], h[2]) = Rs[h[1]][h[2]]
    BY SearchFacts
  <2> QED BY <2>1 DEF NamesOf, Named
<1> QED BY <1>2, <1>4, <1>6, <1>7, <1>8, <1>9
-----------------------------------------------------------------------------
(* At every moment between two calls all that the file system keeps is of its type, and
   a minode that nobody uses is clean and unlocked, as fs/util.c: iget() presumes of the
   one it takes. *)
THEOREM FilesTyped == ASSUME Sizes PROVE Spec => []TypeOK
<1>1. FilesInv => TypeOK
  <2> SUFFICES ASSUME FilesInv PROVE TypeOK
    OBVIOUS
  <2>1. Counted(Now, cwd, oft) /\ FsOk(Now) /\ TablesOk(cwd, oft, fd)
    BY DEF FilesInv, Counted
  <2>2. inode \in [Ino -> InodeType] /\ minode \in [Ino -> Mem]
    BY <2>1 DEF FsOk, FsType, Now
  <2>3. imap \subseteq Ino /\ bmap \subseteq Block /\ dir \in [Block -> Row]
    BY DEF FilesInv, DiskOk, TreeOk, BlocksOk
  <2>4. ASSUME NEW i \in Ino, minode[i].ref = 0 PROVE minode[i] = NotLoaded
    <3>1. minode[i].lock = 1 /\ Sound(minode[i], inode[i])
      BY <2>1 DEF Counted, FsOk, Locks, Now
    <3>2. minode[i] = [NotLoaded EXCEPT !.lock = 1]
      BY <2>4, <3>1 DEF Sound
    <3> QED BY <3>2 DEF NotLoaded
  <2>5. \A i \in Ino :
          /\ minode[i] \in [ref : Nat, lock : Int, dirty : BOOLEAN, inode : InodeType]
          /\ minode[i].ref = 0 => minode[i] = NotLoaded
    BY <2>2, <2>4 DEF Mem
  <2>6. \A o \in Ofts :
          \/ oft[o] = NotOpen
          \/ oft[o] \in [ref : Nat \ {0}, write : BOOLEAN, ino : Ino \cup {0}]
    BY <2>1 DEF TablesOk, OftType
  <2>7. fd \in [Proc -> [Fds -> Ofts \cup {None}]] /\ cwd \in [Proc -> Ino \cup {None}]
    BY <2>1 DEF TablesOk, FdTables, FdRows, CwdType
  <2> QED BY <2>2, <2>3, <2>5, <2>6, <2>7 DEF TypeOK, Row
<1> QED BY <1>1, FilesInvariant, PTL

(* After any sequence of calls by any processes, fork() and exit() among them, a minode's
   refCount is the number of its users and its lock is free; an open file table entry's is
   the number of its descriptors, but for the entries that open() with an unknown flag
   leaves, which count one more than they have; and who has a file open for writing is alone with it
   (fs/util.c: iget() and iput(); fs/open_close.c; kernel/fork.c and kernel/wait.c). *)
THEOREM UsersCounted == ASSUME Sizes PROVE Spec => []UsersExact
<1>1. FilesInv => UsersExact
  <2> SUFFICES ASSUME FilesInv PROVE UsersExact
    OBVIOUS
  <2>1. Counted(Now, cwd, oft) /\ TablesOk(cwd, oft, fd)
    BY DEF FilesInv
  <2>2. ASSUME NEW i \in Ino
        PROVE  /\ minode[i].ref = Cardinality(CwdsAt(i)) + Cardinality(OftsOf(i))
                                    + (IF i = Root THEN 1 ELSE 0)
               /\ minode[i].lock = 1
    <3>1. minode[i].ref = Users(cwd, oft, i) /\ minode[i].lock = 1
      BY <2>1 DEF Counted, Refs, Locks, Now
    <3>2. Users(cwd, oft, i) = Cardinality(CwdsAt(i)) + Cardinality(OftsOf(i))
                                 + (IF i = Root THEN 1 ELSE 0)
      BY Zenon DEF Users, CwdsAt, OftsOf
    <3> QED BY <3>1, <3>2
  <2>3. \A o \in Ofts : oft[o].ref = Cardinality(FdsTo(o)) + (IF Leaked(o) THEN 1 ELSE 0)
    BY <2>1, Zenon DEF TablesOk, Descriptors, Gone, Leaked, FdsOf, FdsTo
  <2>4. RefsExact
    BY <2>2, <2>3 DEF RefsExact
  <2>5. WriterAlone
    BY <2>1 DEF TablesOk, Alone, WriterAlone, OftsOf, Gone, Leaked
  <2> QED BY <2>4, <2>5 DEF UsersExact
<1> QED BY <1>1, FilesInvariant, PTL

(* truncate(), rmdir of an empty directory by its name and the calls that fail half way
   leave no block with two owners and none that is owned and free (fs/alloc_dealloc.c, fs/open_close.c,
   fs/mkdir_creat_rmdir.c). *)
THEOREM BlocksHaveOneOwner == ASSUME Sizes PROVE Spec => []BlocksOwned
<1>1. FilesInv => BlocksOwned
  <2> SUFFICES ASSUME FilesInv PROVE BlocksOwned
    OBVIOUS
  <2>1. BlocksOk(Sh, bmap)
    BY DEF FilesInv, DiskOk
  <2>2. \A i \in InUse : i \in Ino /\ Inode(i).blocks = Sh[i].blocks
    BY InUseIs, InodeFacts
  <2>3. ASSUME NEW i \in InUse, IsDir(i) PROVE Cardinality(Inode(i).blocks) = 1
    <3>1. Sh[i].type = Dir
      BY <2>2, <2>3, InodeFacts DEF Ds, DirsOf
    <3>2. PICK b \in Block : Sh[i].blocks = {b}
      BY <2>1, <2>2, <3>1 DEF BlocksOk
    <3> QED BY <2>2, <3>2, FS_Singleton
  <2>4. ASSUME NEW i \in InUse PROVE Inode(i).blocks \subseteq bmap
    BY <2>1, <2>2 DEF BlocksOk
  <2>5. ASSUME NEW i \in InUse, NEW j \in InUse \ {i}
        PROVE  Inode(i).blocks \cap Inode(j).blocks = {}
    BY <2>1, <2>2 DEF BlocksOk
  <2> QED BY <2>3, <2>4, <2>5 DEF BlocksOwned
<1> QED BY <1>1, FilesInvariant, PTL

(* No change of a link count by klink() or kunlink() (fs/link_unlink.c) is lost by iput(),
   whoever has the file in memory; and no name leads to an inode that is free. *)
THEOREM LinksCounted == ASSUME Sizes PROVE Spec => []NamesCounted
<1>1. FilesInv => NamesCounted
  <2> SUFFICES ASSUME FilesInv, NEW i \in InUse
               PROVE  i \in imap /\ (~ IsDir(i) => Inode(i).links = Cardinality(NamesOf(Ds, i)))
    BY InUseIs DEF NamesCounted
  <2>1. i \in Ino /\ (i \in Ds \/ Named(Ds, Rs, i) # {}) /\ NamesOf(Ds, i) = Named(Ds, Rs, i)
    BY InUseIs
  <2>2. /\ Ds \subseteq imap
        /\ \A j \in Ino : CountOk(Ds, Rs, LinksOf(Sh), imap, j)
    BY DEF FilesInv, DiskOk, TreeOk, Ds, Rs
  <2>3. CountOk(Ds, Rs, LinksOf(Sh), imap, i) /\ LinksOf(Sh)[i] = Sh[i].links
    BY <2>1, <2>2 DEF LinksOf
  <2>4. i \in imap
    BY <2>1, <2>2, <2>3 DEF CountOk
  <2>5. ASSUME ~ IsDir(i) PROVE Inode(i).links = Cardinality(NamesOf(Ds, i))
    <3>1. i \notin Ds /\ Inode(i).links = Sh[i].links
      BY <2>1, <2>5, InodeFacts
    <3> QED BY <2>1, <2>3, <3>1 DEF CountOk
  <2> QED BY <2>4, <2>5
<1> QED BY <1>1, FilesInvariant, PTL

(* The directories stay a tree of which each one's ".." is the directory that names it,
   and nobody's current directory or open file is taken out of it
   (fs/mkdir_creat_rmdir.c, fs/link_unlink.c). *)
THEOREM TreeOfDirectories == ASSUME Sizes PROVE Spec => []DirectoryTree
<1>1. FilesInv => DirectoryTree
  <2> SUFFICES ASSUME FilesInv PROVE DirectoryTree
    OBVIOUS
  <2>1. \A d \in Ds : DirOk(Ds, Rs, d)
    BY DEF FilesInv, DiskOk, TreeOk, Ds, Rs
  <2>2. ASSUME NEW d \in Ds
        PROVE  /\ Search(d, ".") = d
               /\ IF d = Root THEN Search(d, "..") = Root
                  ELSE \E n \in Name : NamesOf(Ds, d) = {<<Search(d, ".."), n>>}
    <3>1. Search(d, ".") = Rs[d]["."] /\ Search(d, "..") = Rs[d][".."]
      BY SearchFacts
    <3>2. NamesOf(Ds, d) = Named(Ds, Rs, d) /\ DirOk(Ds, Rs, d)
      BY <2>1, InUseIs
    <3> QED BY <3>1, <3>2, Zenon DEF DirOk
  <2>3. \A p \in Proc : Alive(p) => cwd[p] \in Ds
    BY DEF FilesInv, PlacesOk, Alive, Ds
  <2>4. ASSUME NEW o \in Ofts, oft[o].ref > 0, ~ Leaked(o) PROVE oft[o].ino \in InUse
    <3>1. oft[o].ino \in Ds \/ NamesIn(Sh, dir, oft[o].ino) # {}
      BY <2>4 DEF FilesInv, PlacesOk, Ds, Gone, Leaked
    <3>2. oft[o].ino \in Ino /\ 0 \notin Ino
      BY <2>4 DEF FilesInv, TablesOk, Sizes, OftType, Leaked
    <3> QED BY <3>1, <3>2, InUseIs DEF Places
  <2>5. {i \in InUse : IsDir(i)} = Ds
    BY InUseIs
  <2> QED BY <2>2, <2>3, <2>4, <2>5, Zenon DEF DirectoryTree
<1> QED BY <1>1, FilesInvariant, PTL
=============================================================================
