------------------------------ MODULE AtomicDisk ------------------------------
(***************************************************************************)
(* What the file system expects of getblock() and putblock(): some time    *)
(* between call and return a whole block is read or written at once.       *)
(***************************************************************************)
CONSTANTS Proc, Block, Data, NoData

VARIABLES
  content,      \* the blocks of the disk
  stage,        \* of each process's call: "idle", "asked" or "done"
  request,      \* of each process: a block, and the data if it is to be written
  result        \* of each process: what it has read

vars == <<content, stage, request, result>>

Init ==
  /\ content \in [Block -> Data]
  /\ stage = [p \in Proc |-> "idle"]
  /\ request \in [Proc -> [block : Block, data : Data \cup {NoData}]]
  /\ result = [p \in Proc |-> NoData]

Ask(p, r) ==
  /\ stage[p] = "idle"
  /\ stage' = [stage EXCEPT ![p] = "asked"]
  /\ request' = [request EXCEPT ![p] = r]
  /\ UNCHANGED <<content, result>>

Do(p) ==
  /\ stage[p] = "asked"
  /\ stage' = [stage EXCEPT ![p] = "done"]
  /\ LET r == request[p] IN
     \/ /\ r.data = NoData
        /\ result' = [result EXCEPT ![p] = content[r.block]]
        /\ UNCHANGED content
     \/ /\ r.data # NoData
        /\ content' = [content EXCEPT ![r.block] = r.data]
        /\ UNCHANGED result
  /\ UNCHANGED request

Return(p) ==
  /\ stage[p] = "done"
  /\ stage' = [stage EXCEPT ![p] = "idle"]
  /\ result' = [result EXCEPT ![p] = NoData]
  /\ UNCHANGED <<content, request>>

Next ==
  \E p \in Proc :
    \/ Do(p) \/ Return(p)
    \/ \E r \in [block : Block, data : Data \cup {NoData}] : Ask(p, r)

Spec == Init /\ [][Next]_vars
===============================================================================
