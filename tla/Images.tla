------------------------------- MODULE Images -------------------------------
(***************************************************************************)
(* The user images in memory (fork.c, exec.c, load.c): each process has    *)
(* one megabyte of its own, which fork() copies and exec() loads a file    *)
(* of /bin into, block by block.  load() sleeps in getblock() for every    *)
(* block, and its two buffers are shared by all who load.                  *)
(*                                                                         *)
(* An image has Room places, each for a block of a program file.           *)
(***************************************************************************)
EXTENDS Integers, FiniteSets, SequencesExt

CONSTANTS
  N,            \* process slots 1..N; init is in slot 1
  Program,      \* the files in /bin
  Blocks,       \* program -> its number of blocks
  Place,        \* program -> the inode block that its inode is in, and where
  D,            \* direct blocks of an inode
  Room,         \* places of an image
  None          \* what is not a program

VARIABLES
  image,        \* slot -> what is in its places: <<program, block>>
  text,         \* slot -> the program it should be running, None if it is free
  at,           \* slot -> where it is: user, or the step of load()
  wanted,       \* slot -> the file in exec()
  done,         \* slot -> blocks loaded (count)
  buf1, buf2,   \* the inode block and the indirect block last read
  crossed,      \* history: two processes were in load() at a time
  overrun       \* history: a command line was too long

vars == <<image, text, at, wanted, done, buf1, buf2, crossed, overrun>>
Slot == 1..N
Places == 1..Room
Empty == <<None, 0>>

Init ==
  /\ \E f \in Program :
       /\ text = [p \in Slot |-> IF p = 1 THEN f ELSE None]
       /\ image = [p \in Slot |-> [i \in Places |->
                     IF p = 1 /\ i <= Blocks[f] THEN <<f, i>> ELSE Empty]]
  /\ at = [p \in Slot |-> "user"] /\ wanted = [p \in Slot |-> None]
  /\ done = [p \in Slot |-> 0]
  /\ buf1 = 0 /\ buf2 = None
  /\ crossed = FALSE /\ overrun = FALSE
-----------------------------------------------------------------------------
Runs(p) == text[p] # None /\ at[p] = "user"

\* fork(): the megabyte of the parent, word by word.
Fork(p, c) ==
  /\ Runs(p) /\ text[c] = None
  /\ image' = [image EXCEPT ![c] = image[p]]
  /\ text' = [text EXCEPT ![c] = text[p]]
  /\ UNCHANGED <<at, wanted, done, buf1, buf2, crossed, overrun>>

\* kexit() and kwait(); the image stays in memory.
Exit(p) ==
  /\ Runs(p) /\ p # 1
  /\ text' = [text EXCEPT ![p] = None]
  /\ UNCHANGED <<image, at, wanted, done, buf1, buf2, crossed, overrun>>

\* exec(): the file is looked up in /bin; the block of its inode is in buf1.
\* Without a file of that name exec() returns -1, and nothing has been touched.
Exec(p, f) ==
  /\ Runs(p)
  /\ wanted' = [wanted EXCEPT ![p] = f]
  /\ at' = [at EXCEPT ![p] = "inode"]
  /\ buf1' = Place[f][1] /\ buf2' = None
  /\ crossed' = (crossed \/ \E q \in Slot : at[q] # "user")
  /\ UNCHANGED <<image, text, done, overrun>>

\* ip, which points into buf1: the file whose inode is there now.
Ip(p) == LET here == {f \in Program : Place[f] = <<buf1, Place[wanted[p]][2]>>}
         IN  IF here = {} THEN None ELSE CHOOSE f \in here : TRUE
\* (Mutant: one block more than the file has.)
OneMore(f) == IF f = None THEN 0 ELSE Blocks[f] + 1
Size(f) == IF f = None THEN 0 ELSE Blocks[f]

\* The indirect block is read ahead into buf2.
ReadIndirect(p) ==
  /\ at[p] = "inode"
  /\ buf2' = IF Size(Ip(p)) > D THEN Ip(p) ELSE buf2
  /\ at' = [at EXCEPT ![p] = "direct"] /\ done' = [done EXCEPT ![p] = 0]
  /\ UNCHANGED <<image, text, wanted, buf1, crossed, overrun>>

\* The place that load() fills next.  (Mutant: the addresses are a slot off.)
NextSlot(p) == IF p < N THEN p + 1 ELSE p
Region(p) == p

Loads(p, f) ==
  /\ image' = [image EXCEPT ![Region(p)][done[p] + 1] = <<f, done[p] + 1>>]
  /\ done' = [done EXCEPT ![p] = @ + 1]
  /\ UNCHANGED <<text, at, wanted, buf1, buf2, crossed, overrun>>

LoadDirect(p) ==
  /\ at[p] = "direct" /\ done[p] < Min({D, Size(Ip(p))})
  /\ Loads(p, Ip(p))
\* Whether there is an indirect block is asked of buf1, its contents of buf2.
LoadIndirect(p) ==
  /\ at[p] = "direct" /\ done[p] >= D /\ Size(Ip(p)) > D
  /\ done[p] < Size(buf2) /\ Loads(p, buf2)

\* exec() copies the command line to the last 32 bytes of the image, and what is
\* longer into the next one.
Loaded(p) ==
  /\ at[p] = "direct"
  /\ done[p] >= Min({D, Size(Ip(p))})
  /\ Size(Ip(p)) > D => done[p] >= Size(buf2)
  /\ text' = [text EXCEPT ![p] = wanted[p]]
  /\ at' = [at EXCEPT ![p] = "user"]
  /\ \/ UNCHANGED <<image, overrun>>
     \/ /\ p < N /\ image' = [image EXCEPT ![p + 1][1] = Empty]
        /\ overrun' = TRUE
  /\ UNCHANGED <<wanted, done, buf1, buf2, crossed>>

Next ==
  \E p \in Slot :
    \/ \E c \in Slot : Fork(p, c)
    \/ \E f \in Program : Exec(p, f)
    \/ Exit(p) \/ ReadIndirect(p) \/ LoadDirect(p) \/ LoadIndirect(p) \/ Loaded(p)
Spec == Init /\ [][Next]_vars
-----------------------------------------------------------------------------
\* Every variable holds a value of its type.
TypeOK ==
  /\ image \in [Slot -> [Places -> (Program \X Places) \cup {Empty}]]
  /\ text \in [Slot -> Program \cup {None}] /\ wanted \in [Slot -> Program \cup {None}]
  /\ at \in [Slot -> {"user", "inode", "direct"}] /\ done \in [Slot -> 0..Room]
  /\ buf1 \in Nat /\ buf2 \in Program \cup {None} /\ crossed \in BOOLEAN /\ overrun \in BOOLEAN

\* A process runs the whole program that it has asked for and none of another's,
\* as long as only one loads at a time and no command line is too long.
OwnProgram ==
  ~crossed /\ ~overrun =>
    \A p \in Slot : Runs(p) => \A i \in 1..Blocks[text[p]] : image[p][i] = <<text[p], i>>
=============================================================================
