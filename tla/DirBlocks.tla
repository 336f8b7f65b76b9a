------------------------------ MODULE DirBlocks ------------------------------
(***************************************************************************)
(* How the names of a directory lie in its blocks (fs/di.c, ksearch(), and *)
(* ls, which reads the blocks itself).  An entry's rec_len reaches to the  *)
(* next one, the last one's to the end of the block; lengths are in words  *)
(* of four bytes.  Files has enter_name() and rm_child() as changes of a   *)
(* function of names, which is what is shown here.                         *)
(***************************************************************************)
EXTENDS Integers, FiniteSets, SequencesExt

CONSTANTS
  Name,         \* names, besides "." and ".."
  Need,         \* name -> the length of its entry at least
  Ino,
  BLKSIZE,      \* the length of a block
  ND,           \* direct blocks of an inode, which are all that a directory has
  Block         \* data blocks of the disk; 0 is the boot block

VARIABLES
  disk,         \* block -> its entries: [name, ino, rec]
  used,         \* the block bitmap
  iblock, size, \* i_block[ ], and i_size in blocks
  held,         \* history, name -> the inode it was entered with, 0 if removed
  lost,         \* history: names that were entered without any room
  overfull      \* a block has been given back when all ND were in use

vars == <<disk, used, iblock, size, held, lost, overfull>>

Length(n) == IF n \in {".", ".."} THEN 3 ELSE Need[n]
Entry(n, i, rec) == [name |-> n, ino |-> i, rec |-> rec]
Slots == 1..ND

\* A directory that mymkdir() has just made.
First == Min(Block)
Init ==
  /\ disk = [b \in {0} \cup Block |->
             IF b = First THEN <<Entry(".", 2, 3), Entry("..", 2, BLKSIZE - 3)>> ELSE <<>>]
  /\ used = {First} /\ iblock = [s \in Slots |-> IF s = 1 THEN First ELSE 0] /\ size = 1
  /\ held = [n \in Name |-> 0] /\ lost = {} /\ overfull = FALSE
-----------------------------------------------------------------------------
\* The slots up to the first that is empty.
InUse == {s \in Slots : \A t \in 1..s : iblock[t] # 0}
Content(s) == disk[iblock[s]]
Names(b) == {b[k].name : k \in DOMAIN b}
Place(b, n) == CHOOSE k \in DOMAIN b : b[k].name = n
SlotsOf(n) == {s \in InUse : n \in Names(Content(s))}

Ksearch(n) ==
  IF SlotsOf(n) = {} THEN 0
  ELSE LET b == Content(Min(SlotsOf(n))) IN b[Place(b, n)].ino

\* What the last entry does not need.
Remain(b) == Last(b).rec - Length(Last(b).name)
Appended(b, n, i) ==
  Append([b EXCEPT ![Len(b)].rec = Length(Last(b).name)], Entry(n, i, Remain(b)))

\* enter_name(): behind the last name of the first block that has room, or into a
\* new one.  It returns 1 in any case: if the disk is full, when the new block is
\* the boot block, and if all slots are in use.
Enter(n, i) ==
  LET room == {s \in InUse : Remain(Content(s)) >= Need[n]}
      next == Cardinality(InUse) + 1
      z == IF Block \ used = {} THEN 0 ELSE Min(Block \ used)
  IN
  /\ Ksearch(n) = 0
  /\ \/ /\ room # {}
        /\ disk' = [disk EXCEPT ![iblock[Min(room)]] = Appended(@, n, i)]
        /\ held' = [held EXCEPT ![n] = i]
        /\ UNCHANGED <<used, iblock, size, lost>>
     \/ /\ room = {} /\ next \in Slots /\ size < ND
        /\ disk' = [disk EXCEPT ![z] = <<Entry(n, i, BLKSIZE)>>]
        /\ iblock' = [iblock EXCEPT ![next] = z] /\ size' = size + 1
        /\ used' = used \cup ({z} \ {0})
        /\ IF z = 0 THEN lost' = lost \cup {n} /\ UNCHANGED held
           ELSE held' = [held EXCEPT ![n] = i] /\ UNCHANGED lost
     \/ /\ room = {} /\ next \notin Slots
        /\ lost' = lost \cup {n}
        /\ UNCHANGED <<disk, used, iblock, size, held>>
  /\ UNCHANGED overfull

\* last_entry(), and the memcpy() over the entry at k.
Lengthened(b, by) == [b EXCEPT ![Len(b)].rec = @ + by]
Without(b, k) ==
  IF k = Len(b) THEN Lengthened(Front(b), b[k].rec)
  ELSE RemoveAt(Lengthened(b, b[k].rec), k)

\* rm_child().  Of a block's only name, the block is given back, and the slots
\* behind it move forward; the last slot keeps what it has.
RmChild(n) ==
  LET s == Min(SlotsOf(n))
      b == Content(s)
      k == Place(b, n)
  IN
  /\ SlotsOf(n) # {}
  /\ held' = [held EXCEPT ![n] = 0]
  /\ \/ /\ b[k].rec = BLKSIZE
        /\ used' = used \ {iblock[s]} /\ size' = size - 1
        /\ iblock' = [t \in Slots |-> IF t < s \/ t = ND THEN iblock[t] ELSE iblock[t + 1]]
        /\ overfull' = (iblock[ND] # 0)
        /\ UNCHANGED disk
     \/ /\ b[k].rec # BLKSIZE
        /\ disk' = [disk EXCEPT ![iblock[s]] = Without(@, k)]
        /\ UNCHANGED <<used, iblock, size, overfull>>
  /\ UNCHANGED lost

\* Other files take blocks and give them back.
Others ==
  /\ LET mine == {iblock[s] : s \in InUse} IN
     \E b \in Block \ mine : used' = IF b \in used THEN used \ {b} ELSE used \cup {b}
  /\ UNCHANGED <<disk, iblock, size, held, lost, overfull>>

\* What a slot that is overfull leads to is not followed.
Next ==
  /\ ~overfull
  /\ \/ \E n \in Name : RmChild(n) \/ \E i \in Ino : Enter(n, i)
     \/ Others
Spec == Init /\ [][Next]_vars
-----------------------------------------------------------------------------
\* Every variable holds a value of its type.
TypeOK ==
  /\ \A b \in {0} \cup Block : \A k \in DOMAIN disk[b] :
       disk[b][k] \in [name : Name \cup {".", ".."}, ino : Ino \cup {2}, rec : 3..BLKSIZE]
  /\ used \subseteq Block /\ iblock \in [Slots -> {0} \cup Block] /\ size \in Slots
  /\ held \in [Name -> Ino \cup {0}] /\ lost \subseteq Name /\ overfull \in BOOLEAN

\* In a block, entries follow each other up to its end, each with room for its name.
Total(b) == FoldSeq(LAMBDA e, n : e.rec + n, 0, b)
Laid(b) ==
  /\ Total(b) = BLKSIZE
  /\ \A k \in DOMAIN b : b[k].rec >= Length(b[k].name)

\* What ls shows of the directory: it reads as many blocks as i_size says, of which
\* an empty slot is the boot block.
Ls == FlattenSeq([s \in 1..size |-> Content(s)])

\* A name is found, and leads to its inode, from when it is entered until it is
\* removed, whatever other names come and go, if there was room for it; and ls
\* shows the names, each once, until one was entered when the disk was full.
\* The blocks are the directory's own.
NamesKept ==
  ~overfull =>
    /\ \A n \in Name : Ksearch(n) = held[n]
    /\ \A s \in InUse : Laid(Content(s)) /\ iblock[s] \in used
    /\ size = Cardinality(InUse) =>
         /\ Names(Ls) = {".", ".."} \cup {n \in Name : held[n] # 0}
         /\ Len(Ls) = Cardinality(Names(Ls))
==============================================================================
