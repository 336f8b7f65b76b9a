------------------------------ MODULE MCFiles ------------------------------
(***************************************************************************)
(* The file system on small instances, one at a time: of Files, processes  *)
(* that open and share a file, a file that has several names, and a tree   *)
(* of directories; a file's bytes in direct and indirect blocks and in all *)
(* three kinds; mounts; and the names in a directory's blocks.  instance   *)
(* says which; the rest is in its initial state.                           *)
(***************************************************************************)
EXTENDS Files

CONSTANTS
  p1, p2, usr, etc, c1, c2, Foreign,
  Walker, Point, Special, Route, NMOUNT   \* of Mounts
VARIABLES
  instance,
  disk, used, free, size, ptr, theirs, descriptor, got, wild,
  ref, held, over, mtab, where, kept, stale,
  entries, bitmap, iblock, blocks, entered, lost, overfull

Absolute(S) == [abs : {TRUE}, names : S]
Relative(S) == [abs : {FALSE}, names : S]

\* Two names, in the root directory and below the first of them.
Paths ==
  Absolute({<<>>, <<usr>>, <<etc>>, <<usr, usr>>, <<usr, etc>>, <<usr, ".">>})
    \cup Relative({<<etc>>, <<"..">>})

\* The theorems about Files are about this one.
ASSUME SizesHold == Careful => Sizes

\* The instances of Files, which these keep small.
Flat == \A i \in imap \ {Root}, n \in Name : IsDir(i) => Search(i, n) = 0

\* The root directory and one file or subdirectory of it.
OneFile == Flat /\ imap \subseteq {2, 3} /\ bmap \subseteq {1, 2}
OnOneFile(p) ==
  \/ Exit(p) \/ Sync \/ \E q \in Proc : Fork(p, q)
  \/ \E x \in Held(p) : OnDescriptor(p, x)
  \/ \E path \in Absolute({<<>>, <<usr>>}) : OnPath(p, path)
  \/ \E path \in Absolute({<<usr>>}) : OnName(p, path)

\* Files with two names that are open or not, and one process.
OneProcess ==
  Flat /\ cwd[p2] = None /\ Held(p1) \subseteq {0} /\ \A o \in Ofts : ~ Leaked(o)

\* Two inodes besides the root's, in any tree of files and directories; nothing
\* is opened.
NothingOpen == \A o \in Ofts : oft[o].ref = 0

\* Up to five bytes in one direct block and two indirect ones; and three bytes,
\* the third of which needs the doubly indirect block.
Bytes == INSTANCE FileData WITH
  Fd <- {1}, Block <- 10..13, W <- 2, ND <- 1, MaxSize <- 5, Beyond <- FALSE,
  Input <- {<<c2, c1, c1>>}, fd <- descriptor
DeepBytes == INSTANCE FileData WITH
  Fd <- {1}, Block <- 10..14, W <- 1, ND <- 1, MaxSize <- 3, Beyond <- FALSE,
  Input <- {<<c1>>, <<c2, c1>>}, fd <- descriptor

\* A special file with three names, mounted on two directories.
Mounts == INSTANCE Mount WITH
  Proc <- Walker, Dir <- Point, Path <- Route, cwd <- where
Routes == Absolute({<<>>, <<usr>>, <<etc>>, <<usr, etc>>}) \cup Relative({<<"..">>})
ASSUME MountsHold == Mounts!Sizes

\* Four names, of which two or three fit into a block, in a directory of up to two
\* blocks on a disk of three.
Names == INSTANCE DirBlocks WITH
  Name <- {"a", "b", "long", "longer"},
  Need <- [n \in {"a", "b", "long", "longer"} |-> IF n \in {"a", "b"} THEN 3 ELSE 4],
  Ino <- {3}, BLKSIZE <- 10, ND <- 2, Block <- 1..3,
  disk <- entries, used <- bitmap, size <- blocks, held <- entered

bytes == <<disk, used, free, size, ptr, theirs, descriptor, got, wild>>
mounts == <<ref, held, over, mtab, where, kept, stale>>
names == <<entries, bitmap, iblock, blocks, entered, lost, overfull>>
allVars == <<instance, vars, bytes, mounts, names>>

MCInit ==
  /\ instance \in {"open", "linked", "tree", "bytes", "deep bytes", "mounts", "names"}
  /\ instance = "deep bytes" => DeepBytes!Init
  /\ instance # "deep bytes" => Bytes!Init
  /\ Init /\ Mounts!Init /\ Names!Init

FilesNext ==
  \/ instance = "open" /\ (\E p \in Proc : Alive(p) /\ OnOneFile(p)) /\ OneFile'
  \/ instance = "linked" /\ Next /\ OneProcess'
  \/ instance = "tree" /\ fd' = fd /\ Next /\ NothingOpen'

MCNext ==
  \/ FilesNext /\ UNCHANGED <<instance, bytes, mounts, names>>
  \/ instance = "bytes" /\ Bytes!Next /\ UNCHANGED <<instance, vars, mounts, names>>
  \/ instance = "deep bytes" /\ DeepBytes!Next /\ UNCHANGED <<instance, vars, mounts, names>>
  \/ instance = "mounts" /\ Mounts!Next /\ UNCHANGED <<instance, vars, bytes, names>>
  \/ instance = "names" /\ Names!Next /\ UNCHANGED <<instance, vars, bytes, mounts>>
MCSpec == MCInit /\ [][MCNext]_allVars

OnBytes(shallow, deep) ==
  (instance = "bytes" => shallow) /\ (instance = "deep bytes" => deep)
-----------------------------------------------------------------------------
\* A mounted file system: every variable keeps its type; a minode's refCount is
\* the number of its users, until an entry is unmounted that was not mounted;
\* nobody is in a file system that is not mounted, and pwd says where one is.
MountsSound ==
  /\ Mounts!TypeOK /\ Mounts!RefsExact
  /\ Mounts!NobodyStranded /\ Mounts!PwdLeadsThere

\* A file is its bytes in order: FileData implements ByteFile until the disk's own
\* tables are hit; no block is owned twice, or by a file while the bitmap has it
\* free, be its number in the inode or in an indirect block.  And in a directory's
\* blocks a name is found until it is removed, whatever other names come and go.
Contents ==
  /\ OnBytes(Bytes!File!Init, DeepBytes!File!Init)
  /\ [][OnBytes(Bytes!Kept, DeepBytes!Kept)]_allVars
  /\ []OnBytes(Bytes!TypeOK /\ Bytes!BlocksAccounted, DeepBytes!TypeOK /\ DeepBytes!BlocksAccounted)
  /\ [](Names!TypeOK /\ Names!NamesKept)

\* krmdir() removes a directory only if it is empty.
OnlyEmptyRemoved == [][EmptyIfRemoved]_allVars
=============================================================================
