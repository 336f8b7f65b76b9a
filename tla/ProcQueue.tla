------------------------------ MODULE ProcQueue ------------------------------
(***************************************************************************)
(* The PROC lists of kernel/queue.c: readyQueue, sleepList, the semaphore  *)
(* queues.  A list chained through PROC.next is a sequence of pids; the    *)
(* priorities are passed as a function of the pid.                         *)
(***************************************************************************)
EXTENDS Integers, SequencesExt

\* The null list pointer, the list of one PROC, *queue, and the list behind the first PROC.
Nil == <<>>
Single(p) == <<p>>
First(q) == Head(q)
Rest(q) == Tail(q)

\* The place at which enqueue() links p in: in front of the first PROC whose
\* priority is lower than p's, or at the end.  Equal priorities stay FIFO.
\* (Mutants: ahead of its equals; always last.)
AheadOfEquals(q, pri, p) ==
  Min({k \in 1..(Len(q) + 1) : k = Len(q) + 1 \/ pri[p] >= pri[q[k]]})
AlwaysLast(q, pri, p) == Len(q) + 1
InsertPos(q, pri, p) ==
  Min({k \in 1..(Len(q) + 1) : k = Len(q) + 1 \/ pri[p] > pri[q[k]]})

\* enqueue(&q, p)
Enqueue(q, pri, p) == InsertAt(q, InsertPos(q, pri, p), p)

\* putproc(p): to the end of the free list.
PutLast(q, p) == Append(q, p)

\* (Mutant: nothing is unlinked.)
UnlinkedNothing(q, p) == q
\* outSleep(p) and the unlinking half of wV(p): take p out, wherever it is.
Unlinked(q, p) == RemoveFirst(q, p)

\* No PROC is linked twice.
NoDup(q) == \A i, j \in 1..Len(q) : q[i] = q[j] => i = j

\* The head always has the highest priority.
SortedBy(q, pri) == \A i, j \in 1..Len(q) : i <= j => pri[q[i]] >= pri[q[j]]
=============================================================================
