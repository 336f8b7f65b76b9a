------------------------------ MODULE ListFacts -------------------------------
(***************************************************************************)
(* Lemmas that the other proofs rest on: what Min returns, which           *)
(* FiniteSetsExt defines with CHOOSE; induction and recursion along an     *)
(* interval; and what the list operators of ProcQueue return, for lists of *)
(* any length: the members before and after, no PROC twice, and the        *)
(* priority order.                                                         *)
(***************************************************************************)
EXTENDS ProcQueue, SequenceTheorems, WellFoundedInduction, TLAPS

(* A well-founded relation that contains < on the naturals. *)
LEMMA NatRelation ==
  \E R : IsWellFoundedOn(R, Nat) /\ \A x, y \in Nat : y < x => <<y, x>> \in R
<1>1. IsWellFoundedOn(OpToRel(<, Nat), Nat)
  BY NatLessThanWellFounded
<1>2. \A x, y \in Nat : y < x => <<y, x>> \in OpToRel(<, Nat)
  BY DEF OpToRel
<1> QED BY <1>1, <1>2, Zenon

(* Min, the library's CHOOSE, is defined on every set of naturals. *)
LEMMA MinOfNats ==
  ASSUME NEW S, S \subseteq Nat, S # {}
  PROVE  Min(S) \in S /\ \A k \in S : Min(S) <= k
<1>1. PICK R : IsWellFoundedOn(R, Nat) /\ \A x, y \in Nat : y < x => <<y, x>> \in R
  BY NatRelation
<1>2. PICK m \in S : \A y \in S : ~ (<<y, m>> \in R)
  BY <1>1, WFMin
<1>3. \A y \in S : m <= y
  <2>1. TAKE y \in S
  <2>2. m \in Nat /\ y \in Nat
    OBVIOUS
  <2>3. ~ (y < m)
    BY <1>1, <1>2, <2>2, Zenon
  <2> QED BY <2>2, <2>3
<1> QED BY <1>3 DEF Min

(* A set with 0 in it, and with each number the next one, has all of them. *)
LEMMA IntervalInduction ==
  ASSUME NEW n \in Nat, NEW S, 0 \in S, \A k \in 0..(n - 1) : k \in S => k + 1 \in S
  PROVE  \A k \in 0..n : k \in S
<1> DEFINE T == (0..n) \ S
<1> SUFFICES ASSUME T # {} PROVE FALSE
  OBVIOUS
<1>1. T \subseteq Nat
  OBVIOUS
<1>2. Min(T) \in T /\ \A k \in T : Min(T) <= k
  BY <1>1, MinOfNats
<1> DEFINE m == Min(T)
<1> HIDE DEF m
<1>3. m \in 0..n /\ m \notin S /\ m # 0
  BY <1>2 DEF m
<1>4. m - 1 \in 0..(n - 1) /\ m - 1 \in 0..n /\ m - 1 < m /\ (m - 1) + 1 = m
  BY <1>3
<1>5. m - 1 \in S
  BY <1>2, <1>4 DEF m
<1> QED BY <1>3, <1>4, <1>5

(* A function that begins with b and goes on by step exists. *)
Recursion(n, V, b, step) == n \in Nat /\ b \in V /\ step \in [(1..n) \X V -> V]

LEMMA IntervalRecursion ==
  ASSUME NEW n, NEW V, NEW b, NEW step, Recursion(n, V, b, step)
  PROVE  \E f \in [0..n -> V] : f[0] = b /\ \A i \in 1..n : f[i] = step[<<i, f[i - 1]>>]
<1> DEFINE Part(k, f) == f[0] = b /\ \A i \in 1..k : f[i] = step[<<i, f[i - 1]>>]
           S == {k \in 0..n : \E f \in [0..k -> V] : Part(k, f)}
<1>0. n \in Nat /\ b \in V /\ step \in [(1..n) \X V -> V]
  BY DEF Recursion
<1>1. 0 \in S
  <2>1. [i \in 0..0 |-> b] \in [0..0 -> V] /\ Part(0, [i \in 0..0 |-> b])
    BY <1>0
  <2> HIDE DEF Part
  <2>2. \E f \in [0..0 -> V] : Part(0, f)
    BY <2>1, Zenon
  <2> QED BY <1>0, <2>2
<1>2. ASSUME NEW k \in 0..(n - 1), k \in S PROVE k + 1 \in S
  <2>1. PICK f \in [0..k -> V] : Part(k, f)
    BY <1>2
  <2> DEFINE v == step[<<k + 1, f[k]>>]
             g == [i \in 0..(k + 1) |-> IF i = k + 1 THEN v ELSE f[i]]
  <2>2. k + 1 \in 1..n /\ f[k] \in V /\ k + 1 \in 0..n
    BY <1>0, <2>1
  <2>3. <<k + 1, f[k]>> \in (1..n) \X V
    BY <2>2
  <2>4. v \in V
    BY <1>0, <2>3
  <2> HIDE DEF v
  <2>5. g \in [0..(k + 1) -> V] /\ g[k + 1] = v /\ \A i \in 0..k : g[i] = f[i]
    BY <2>1, <2>4
  <2> HIDE DEF g
  <2>6. ASSUME NEW i \in 1..(k + 1) PROVE g[i] = step[<<i, g[i - 1]>>]
    <3>1. CASE i = k + 1
      <4>1. i - 1 = k /\ k \in 0..k
        BY <3>1
      <4> QED BY <2>5, <3>1, <4>1 DEF v
    <3>2. CASE i # k + 1
      <4>1. i \in 1..k /\ i \in 0..k /\ i - 1 \in 0..k
        BY <3>2
      <4> QED BY <2>1, <2>5, <4>1
    <3> QED BY <3>1, <3>2
  <2>7. g[0] = b
    BY <2>1, <2>5
  <2> QED BY <2>2, <2>5, <2>6, <2>7
<1> HIDE DEF S
<1>3. n \in S
  BY <1>0, <1>1, <1>2, IntervalInduction
<1> QED BY <1>3 DEF S
-----------------------------------------------------------------------------
(* Lists *)

(* InsertAt, element by element. *)
LEMMA InsertAtFacts ==
  ASSUME NEW T, NEW q \in Seq(T), NEW k \in 1..(Len(q) + 1), NEW e \in T
  PROVE  /\ InsertAt(q, k, e) \in Seq(T)
         /\ Len(InsertAt(q, k, e)) = Len(q) + 1
         /\ \A i \in 1..(Len(q) + 1) :
              InsertAt(q, k, e)[i] = IF i < k THEN q[i] ELSE IF i = k THEN e ELSE q[i - 1]
<1> DEFINE a == SubSeq(q, 1, k - 1)
           b == SubSeq(q, k, Len(q))
<1>1. Len(q) \in Nat /\ \A i \in 1..Len(q) : q[i] \in T
  BY ElementOfSeq, LenProperties
<1>2. a \in Seq(T) /\ Len(a) = k - 1 /\ \A i \in 1..(k - 1) : a[i] = q[i]
  BY <1>1, SubSeqProperties
<1>3. /\ b \in Seq(T) /\ Len(b) = Len(q) - k + 1
      /\ \A i \in 1..(Len(q) - k + 1) : b[i] = q[k + i - 1]
  BY <1>1, SubSeqProperties
<1>4. <<e>> \in Seq(T) /\ Len(<<e>>) = 1 /\ <<e>>[1] = e
  OBVIOUS
<1> HIDE DEF a, b
<1> DEFINE c == a \o <<e>>
<1>5. c \in Seq(T) /\ Len(c) = k /\ \A i \in 1..k : c[i] = IF i < k THEN q[i] ELSE e
  BY <1>1, <1>2, <1>4, ConcatProperties
<1> HIDE DEF c
<1>6. c \o b \in Seq(T) /\ Len(c \o b) = Len(c) + Len(b)
  BY <1>3, <1>5, ConcatProperties
<1>7. \A i \in 1..(k + (Len(q) - k + 1)) : (c \o b)[i] = IF i <= k THEN c[i] ELSE b[i - k]
  BY <1>3, <1>5, ConcatProperties
<1>8. \A i \in 1..(Len(q) + 1) :
        (c \o b)[i] = IF i < k THEN q[i] ELSE IF i = k THEN e ELSE q[i - 1]
  BY <1>1, <1>3, <1>5, <1>7
<1>9. InsertAt(q, k, e) = c \o b
  BY DEF InsertAt, a, b, c
<1>10. Len(c \o b) = Len(q) + 1
  BY <1>1, <1>3, <1>5, <1>6
<1> QED BY <1>6, <1>8, <1>9, <1>10

(* RemoveAt, element by element. *)
LEMMA RemoveAtFacts ==
  ASSUME NEW T, NEW q \in Seq(T), NEW k \in 1..Len(q)
  PROVE  /\ RemoveAt(q, k) \in Seq(T)
         /\ Len(RemoveAt(q, k)) = Len(q) - 1
         /\ \A i \in 1..(Len(q) - 1) :
              RemoveAt(q, k)[i] = IF i < k THEN q[i] ELSE q[i + 1]
<1> DEFINE a == SubSeq(q, 1, k - 1)
           b == SubSeq(q, k + 1, Len(q))
<1>1. Len(q) \in Nat /\ \A i \in 1..Len(q) : q[i] \in T
  BY ElementOfSeq, LenProperties
<1>2. a \in Seq(T) /\ Len(a) = k - 1 /\ \A i \in 1..(k - 1) : a[i] = q[i]
  BY <1>1, SubSeqProperties
<1>3. /\ b \in Seq(T) /\ Len(b) = Len(q) - k
      /\ \A i \in 1..(Len(q) - k) : b[i] = q[k + i]
  BY <1>1, SubSeqProperties
<1> HIDE DEF a, b
<1>4. a \o b \in Seq(T) /\ Len(a \o b) = Len(a) + Len(b)
  BY <1>2, <1>3, ConcatProperties
<1>5. \A i \in 1..((k - 1) + (Len(q) - k)) :
        (a \o b)[i] = IF i <= k - 1 THEN a[i] ELSE b[i - (k - 1)]
  BY <1>2, <1>3, ConcatProperties
<1>6. ASSUME NEW i \in 1..(Len(q) - 1)
      PROVE  (a \o b)[i] = IF i < k THEN q[i] ELSE q[i + 1]
  <2>0. /\ i \in Int /\ k \in Int /\ i \in 1..((k - 1) + (Len(q) - k))
        /\ (i <= k - 1) <=> (i < k)
    BY <1>1
  <2>1. CASE i < k
    <3>1. (a \o b)[i] = a[i]
      BY <1>5, <2>0, <2>1
    <3> QED BY <1>2, <2>0, <2>1, <3>1
  <2>2. CASE ~ (i < k)
    <3>1. (a \o b)[i] = b[i - (k - 1)]
      BY <1>5, <2>0, <2>2
    <3>2. b[i - (k - 1)] = q[k + (i - (k - 1))]
      BY <1>1, <1>3, <2>2
    <3>3. k + (i - (k - 1)) = i + 1
      BY <1>1
    <3> QED BY <2>0, <2>2, <3>1, <3>2, <3>3
  <2> QED BY <2>0, <2>1, <2>2
<1>7. RemoveAt(q, k) = a \o b
  BY DEF RemoveAt, a, b
<1>8. Len(a \o b) = Len(q) - 1
  BY <1>1, <1>2, <1>3, <1>4
<1> QED BY <1>4, <1>6, <1>7, <1>8
-----------------------------------------------------------------------------
(* enqueue() finds a place inside the list or right behind it: everyone ahead
   of the place has at least p's priority, everyone behind it less. *)
LEMMA InsertPosFacts ==
  ASSUME NEW T, NEW q \in Seq(T), NEW pri \in [T -> Int], NEW p \in T
  PROVE  /\ InsertPos(q, pri, p) \in 1..(Len(q) + 1)
         /\ InsertPos(q, pri, p) <= Len(q) => pri[p] > pri[q[InsertPos(q, pri, p)]]
         /\ \A i \in 1..Len(q) : i < InsertPos(q, pri, p) => pri[q[i]] >= pri[p]
<1> DEFINE S == {k \in 1..(Len(q) + 1) : k = Len(q) + 1 \/ pri[p] > pri[q[k]]}
<1>1. Len(q) \in Nat /\ \A i \in 1..Len(q) : q[i] \in T
  BY ElementOfSeq, LenProperties
<1>2. S \subseteq Nat /\ Len(q) + 1 \in S
  BY <1>1
<1>3. Min(S) \in S /\ \A k \in S : Min(S) <= k
  BY <1>2, MinOfNats
<1>4. InsertPos(q, pri, p) = Min(S)
  BY DEF InsertPos
<1>5. \A i \in 1..Len(q) : i < Min(S) => pri[q[i]] >= pri[p]
  <2>1. TAKE i \in 1..Len(q)
  <2>2. HAVE i < Min(S)
  <2>3. i \notin S
    BY <1>2, <1>3, <2>2
  <2>4. pri[p] \in Int /\ pri[q[i]] \in Int
    BY <1>1
  <2> QED BY <1>1, <2>3, <2>4
<1> HIDE DEF S
<1> QED BY <1>1, <1>3, <1>4, <1>5 DEF S

(* The members of a sequence, as Range gives them. *)
LEMMA InRange ==
  ASSUME NEW T, NEW q \in Seq(T)
  PROVE  /\ Range(q) \subseteq T
         /\ \A x : x \in Range(q) <=> \E i \in 1..Len(q) : q[i] = x
BY ElementOfSeq, LenProperties DEF Range

(* enqueue() adds p, keeps the others, links p once and keeps the order. *)
LEMMA EnqueueFacts ==
  ASSUME NEW T, NEW q \in Seq(T), NEW pri \in [T -> Int], NEW p \in T
  PROVE  /\ Enqueue(q, pri, p) \in Seq(T)
         /\ Enqueue(q, pri, p) # Nil
         /\ Range(Enqueue(q, pri, p)) = Range(q) \cup {p}
         /\ NoDup(q) /\ p \notin Range(q) => NoDup(Enqueue(q, pri, p))
         /\ SortedBy(q, pri) => SortedBy(Enqueue(q, pri, p), pri)
<1> DEFINE k == InsertPos(q, pri, p)
           r == InsertAt(q, k, p)
<1>1. /\ Len(q) \in Nat
      /\ \A i \in 1..Len(q) : q[i] \in T
      /\ pri[p] \in Int /\ \A i \in 1..Len(q) : pri[q[i]] \in Int
  BY ElementOfSeq, LenProperties
<1>2. /\ k \in 1..(Len(q) + 1)
      /\ k <= Len(q) => pri[p] > pri[q[k]]
      /\ \A i \in 1..Len(q) : i < k => pri[q[i]] >= pri[p]
  BY InsertPosFacts
<1> HIDE DEF k
<1>3. /\ r \in Seq(T) /\ Len(r) = Len(q) + 1
      /\ \A i \in 1..(Len(q) + 1) :
           r[i] = IF i < k THEN q[i] ELSE IF i = k THEN p ELSE q[i - 1]
  BY <1>2, InsertAtFacts
<1> HIDE DEF r
<1>4. Enqueue(q, pri, p) = r
  BY DEF Enqueue, r, k
<1>5. r # Nil
  BY <1>1, <1>3, EmptySeq DEF Nil
<1>6. Range(r) = Range(q) \cup {p}
  <2>1. ASSUME NEW x \in Range(r) PROVE x \in Range(q) \cup {p}
    <3>1. PICK i \in 1..(Len(q) + 1) : r[i] = x
      BY <1>3, InRange
    <3>2. CASE i < k
      <4>1. i \in 1..Len(q) /\ q[i] = x
        BY <1>1, <1>2, <1>3, <3>1, <3>2
      <4> QED BY <4>1, InRange
    <3>3. CASE i = k
      BY <1>1, <1>2, <1>3, <3>1, <3>3
    <3>4. CASE i > k
      <4>1. i - 1 \in 1..Len(q) /\ q[i - 1] = x
        BY SMTT(40), <1>1, <1>2, <1>3, <3>1, <3>4
      <4> QED BY <4>1, InRange
    <3> QED BY <1>1, <1>2, <3>2, <3>3, <3>4
  <2>2. ASSUME NEW x \in Range(q) PROVE x \in Range(r)
    <3>1. PICK i \in 1..Len(q) : q[i] = x
      BY InRange
    <3>2. CASE i < k
      <4>1. i \in 1..Len(r) /\ r[i] = x
        BY <1>1, <1>2, <1>3, <3>1, <3>2
      <4> QED BY <1>3, <4>1, InRange
    <3>3. CASE i >= k
      <4>1. /\ i + 1 \in 1..(Len(q) + 1) /\ i + 1 - 1 = i
            /\ ~ (i + 1 < k) /\ i + 1 # k
        BY <1>1, <1>2, <3>3
      <4>2. r[i + 1] = q[i + 1 - 1]
        BY SMTT(40), <1>3, <4>1
      <4> QED BY <1>3, <3>1, <4>1, <4>2, InRange
    <3> QED BY <1>1, <1>2, <3>2, <3>3
  <2>3. p \in Range(r)
    BY <1>1, <1>2, <1>3, InRange
  <2> QED BY <2>1, <2>2, <2>3
<1> DEFINE from(i) == IF i < k THEN i ELSE i - 1
<1>7. ASSUME NEW i \in 1..Len(r), i # k
      PROVE  from(i) \in 1..Len(q) /\ r[i] = q[from(i)]
  <2>1. CASE i < k
    BY <1>1, <1>2, <1>3, <1>7, <2>1
  <2>2. CASE i > k
    <3>1. from(i) = i - 1 /\ i - 1 \in 1..Len(q)
      BY <1>1, <1>2, <1>3, <2>2
    <3>2. r[i] = q[i - 1]
      BY <1>1, <1>2, <1>3, <2>2
    <3> QED BY <3>1, <3>2
  <2> QED BY <1>1, <1>2, <1>3, <1>7, <2>1, <2>2
<1>8. ASSUME NEW i \in 1..Len(r), NEW j \in 1..Len(r), i # k, j # k
      PROVE  /\ from(i) = from(j) => i = j
             /\ i <= j => from(i) <= from(j)
  <2>1. i \in Int /\ j \in Int /\ k \in Int
    BY <1>1, <1>2, <1>3
  <2> QED BY <1>8, <2>1
<1>9. k \in 1..Len(r) /\ r[k] = p
  BY <1>1, <1>2, <1>3
<1>10. \A i \in 1..Len(r) : /\ i < k => from(i) < k
                            /\ i > k => from(i) >= k
  BY <1>1, <1>2, <1>3
<1> HIDE DEF from
<1>11. NoDup(q) /\ p \notin Range(q) => NoDup(r)
  <2>1. HAVE NoDup(q) /\ p \notin Range(q)
  <2>2. \A i \in 1..Len(q) : q[i] # p
    BY <2>1, InRange
  <2>3. ASSUME NEW i \in 1..Len(r), NEW j \in 1..Len(r), r[i] = r[j] PROVE i = j
    <3>1. CASE i # k /\ j # k
      BY <1>7, <1>8, <2>1, <2>3, <3>1 DEF NoDup
    <3>2. CASE i = k /\ j # k
      BY <1>7, <1>9, <2>2, <2>3, <3>2
    <3>3. CASE i # k /\ j = k
      BY <1>7, <1>9, <2>2, <2>3, <3>3
    <3> QED BY <3>1, <3>2, <3>3
  <2> QED BY <2>3 DEF NoDup
<1>12. SortedBy(q, pri) => SortedBy(r, pri)
  <2>1. HAVE SortedBy(q, pri)
  <2>2. ASSUME NEW i \in 1..Len(q), k <= i PROVE pri[p] >= pri[q[i]]
    BY <1>1, <1>2, <2>1, <2>2 DEF SortedBy
  <2>3. ASSUME NEW i \in 1..Len(r), NEW j \in 1..Len(r), i <= j
        PROVE  pri[r[i]] >= pri[r[j]]
    <3>1. CASE i # k /\ j # k
      BY <1>7, <1>8, <2>1, <2>3, <3>1 DEF SortedBy
    <3>2. CASE i = k /\ j = k
      BY <1>1, <1>9, <3>2
    <3>3. CASE i = k /\ j # k
      <4>1. k <= from(j) /\ from(j) \in 1..Len(q) /\ r[j] = q[from(j)]
        BY <1>2, <1>3, <1>1, <1>7, <1>10, <2>3, <3>3
      <4> QED BY <1>9, <2>2, <3>3, <4>1
    <3>4. CASE i # k /\ j = k
      <4>1. from(i) < k /\ from(i) \in 1..Len(q) /\ r[i] = q[from(i)]
        BY <1>2, <1>3, <1>1, <1>7, <1>10, <2>3, <3>4
      <4> QED BY <1>2, <1>9, <3>4, <4>1
    <3> QED BY <3>1, <3>2, <3>3, <3>4
  <2> QED BY <2>3 DEF SortedBy
<1> QED BY <1>3, <1>4, <1>5, <1>6, <1>11, <1>12

(* outSleep() takes p out and leaves the others in their order. *)
LEMMA UnlinkedFacts ==
  ASSUME NEW T, NEW q \in Seq(T), NEW p \in T
  PROVE  /\ Unlinked(q, p) \in Seq(T)
         /\ Range(Unlinked(q, p)) \subseteq Range(q)
         /\ NoDup(q) => NoDup(Unlinked(q, p)) /\ Range(Unlinked(q, p)) = Range(q) \ {p}
<1>1. Len(q) \in Nat /\ \A i \in 1..Len(q) : q[i] \in T
  BY ElementOfSeq, LenProperties
<1>2. CASE \E i \in 1..Len(q) : q[i] = p
  <2> DEFINE I == {i \in 1..Len(q) : q[i] = p}
             k == Min(I)
             r == RemoveAt(q, k)
  <2>1. I \subseteq Nat /\ I # {}
    BY <1>1, <1>2
  <2>2. k \in 1..Len(q) /\ q[k] = p
    BY <2>1, MinOfNats
  <2> HIDE DEF k
  <2>3. /\ r \in Seq(T) /\ Len(r) = Len(q) - 1
        /\ \A i \in 1..(Len(q) - 1) : r[i] = IF i < k THEN q[i] ELSE q[i + 1]
    BY <2>2, RemoveAtFacts
  <2> HIDE DEF r
  <2>4. Unlinked(q, p) = r
    BY <1>2, <2>1 DEF Unlinked, RemoveFirst, SelectInSeq, r, k
  <2>5. Range(r) \subseteq Range(q)
    <3>1. ASSUME NEW x \in Range(r) PROVE x \in Range(q)
      <4>1. PICK i \in 1..(Len(q) - 1) : r[i] = x
        BY <2>3, InRange
      <4>2. \E j \in 1..Len(q) : q[j] = x
        BY <1>1, <2>2, <2>3, <4>1
      <4> QED BY <4>2, InRange
    <3> QED BY <3>1
  <2>6. NoDup(q) => NoDup(r) /\ Range(r) = Range(q) \ {p}
    <3>1. HAVE NoDup(q)
    <3>2. ASSUME NEW i \in 1..Len(r), NEW j \in 1..Len(r), r[i] = r[j] PROVE i = j
      BY <1>1, <2>2, <2>3, <3>1, <3>2 DEF NoDup
    <3>3. p \notin Range(r)
      <4>1. ASSUME NEW i \in 1..Len(r) PROVE r[i] # p
        BY <1>1, <2>2, <2>3, <3>1 DEF NoDup
      <4> QED BY <2>3, <4>1, InRange
    <3>4. ASSUME NEW x \in Range(q), x # p PROVE x \in Range(r)
      <4>1. PICK i \in 1..Len(q) : q[i] = x
        BY InRange
      <4>2. i # k
        BY <2>2, <3>4, <4>1
      <4>3. \E j \in 1..Len(r) : r[j] = x
        <5>1. CASE i < k
          BY <1>1, <2>2, <2>3, <4>1, <5>1
        <5>2. CASE i > k
          <6>1. i - 1 \in 1..Len(r) /\ r[i - 1] = x
            BY <1>1, <2>2, <2>3, <4>1, <5>2
          <6> QED BY <6>1
        <5> QED BY <1>1, <2>2, <4>2, <5>1, <5>2
      <4> QED BY <2>3, <4>3, InRange
    <3> QED BY <2>5, <3>2, <3>3, <3>4 DEF NoDup
  <2> QED BY <2>3, <2>4, <2>5, <2>6
<1>3. CASE ~ \E i \in 1..Len(q) : q[i] = p
  <2>1. Unlinked(q, p) = q
    BY <1>3 DEF Unlinked, RemoveFirst
  <2>2. p \notin Range(q)
    BY <1>3, InRange
  <2> QED BY <2>1, <2>2
<1> QED BY <1>2, <1>3

(* dequeue() and the scheduler: the head leaves, and nothing else changes. *)
LEMMA DequeueFacts ==
  ASSUME NEW T, NEW q \in Seq(T), q # Nil
  PROVE  /\ First(q) \in T /\ Rest(q) \in Seq(T)
         /\ Range(q) = {First(q)} \cup Range(Rest(q))
         /\ NoDup(q) => NoDup(Rest(q)) /\ First(q) \notin Range(Rest(q))
<1>1. /\ Len(q) \in Nat \ {0} /\ Head(q) \in T /\ Head(q) = q[1]
      /\ Tail(q) \in Seq(T) /\ Len(Tail(q)) = Len(q) - 1
      /\ \A i \in 1..Len(Tail(q)) : Tail(q)[i] = q[i + 1]
  BY HeadTailProperties, LenProperties, EmptySeq DEF Nil
<1> DEFINE t == Tail(q)
           h == Head(q)
<1> HIDE DEF t, h
<1>2. /\ h = q[1] /\ t \in Seq(T) /\ Len(t) = Len(q) - 1
      /\ \A i \in 1..Len(t) : t[i] = q[i + 1]
  BY <1>1 DEF t, h
<1>3. Range(q) = {h} \cup Range(t)
  <2>1. ASSUME NEW x \in Range(q) PROVE x = h \/ x \in Range(t)
    <3>1. PICK i \in 1..Len(q) : q[i] = x
      BY InRange
    <3>2. i = 1 \/ (i - 1 \in 1..Len(t) /\ t[i - 1] = x)
      BY <1>1, <1>2, <3>1
    <3> QED BY <1>2, <3>1, <3>2, InRange
  <2>2. ASSUME NEW x \in Range(t) PROVE x \in Range(q)
    <3>1. PICK i \in 1..Len(t) : t[i] = x
      BY <1>2, InRange
    <3>2. i + 1 \in 1..Len(q) /\ q[i + 1] = x
      BY <1>1, <1>2, <3>1
    <3> QED BY <3>2, InRange
  <2>3. h \in Range(q)
    BY <1>1, <1>2, InRange
  <2> QED BY <2>1, <2>2, <2>3
<1>4. NoDup(q) => NoDup(t) /\ h \notin Range(t)
  <2>1. HAVE NoDup(q)
  <2>2. ASSUME NEW i \in 1..Len(t), NEW j \in 1..Len(t), t[i] = t[j] PROVE i = j
    BY <1>1, <1>2, <2>1, <2>2 DEF NoDup
  <2>3. ASSUME NEW i \in 1..Len(t) PROVE t[i] # h
    BY <1>1, <1>2, <2>1 DEF NoDup
  <2>4. h \notin Range(t)
    BY <1>2, <2>3, InRange
  <2> QED BY <2>2, <2>4 DEF NoDup
<1> QED BY <1>1, <1>3, <1>4 DEF t, h, First, Rest

(* putproc() adds p at the end of the free list. *)
LEMMA PutLastFacts ==
  ASSUME NEW T, NEW q \in Seq(T), NEW p \in T
  PROVE  /\ PutLast(q, p) \in Seq(T)
         /\ Range(PutLast(q, p)) = Range(q) \cup {p}
         /\ NoDup(q) /\ p \notin Range(q) => NoDup(PutLast(q, p))
<1> DEFINE r == Append(q, p)
<1>1. /\ Len(q) \in Nat /\ r \in Seq(T) /\ Len(r) = Len(q) + 1
      /\ \A i \in 1..Len(q) : r[i] = q[i]
      /\ r[Len(q) + 1] = p
  BY AppendProperties, LenProperties
<1> HIDE DEF r
<1>2. Range(r) = Range(q) \cup {p}
  <2>1. ASSUME NEW x \in Range(r) PROVE x = p \/ x \in Range(q)
    <3>1. PICK i \in 1..Len(r) : r[i] = x
      BY <1>1, InRange
    <3>2. x = p \/ \E j \in 1..Len(q) : q[j] = x
      BY <1>1, <3>1
    <3> QED BY <3>2, InRange
  <2>2. ASSUME NEW x \in Range(q) PROVE x \in Range(r)
    <3>1. PICK i \in 1..Len(q) : q[i] = x
      BY InRange
    <3> QED BY <1>1, <3>1, InRange
  <2>3. p \in Range(r)
    BY <1>1, InRange
  <2> QED BY <2>1, <2>2, <2>3
<1>3. NoDup(q) /\ p \notin Range(q) => NoDup(r)
  <2>1. HAVE NoDup(q) /\ p \notin Range(q)
  <2>2. \A i \in 1..Len(q) : q[i] # p
    BY <2>1, InRange
  <2>3. ASSUME NEW i \in 1..Len(r), NEW j \in 1..Len(r), r[i] = r[j] PROVE i = j
    BY <1>1, <2>1, <2>2, <2>3 DEF NoDup
  <2> QED BY <2>3 DEF NoDup
<1> QED BY <1>1, <1>2, <1>3 DEF r, PutLast

(* The empty list. *)
LEMMA NilFacts ==
  ASSUME NEW T
  PROVE  Nil \in Seq(T) /\ Range(Nil) = {} /\ NoDup(Nil)
<1>1. Nil \in Seq(T) /\ Len(Nil) = 0
  BY EmptySeq DEF Nil
<1>2. \A i \in 1..0 : FALSE
  OBVIOUS
<1>3. Range(Nil) = {}
  BY <1>1, <1>2, InRange
<1> QED BY <1>1, <1>2, <1>3 DEF NoDup

(* The list of one. *)
LEMMA SingletonFacts ==
  ASSUME NEW T, NEW p \in T
  PROVE  Single(p) \in Seq(T) /\ Range(Single(p)) = {p} /\ NoDup(Single(p))
<1>1. <<p>> \in Seq(T) /\ Len(<<p>>) = 1 /\ <<p>>[1] = p
  OBVIOUS
<1>2. \A i \in 1..1 : i = 1
  OBVIOUS
<1>3. ASSUME NEW x PROVE x \in Range(<<p>>) <=> x = p
  <2>1. x \in Range(<<p>>) <=> \E i \in 1..1 : <<p>>[i] = x
    BY <1>1, InRange
  <2> QED BY <1>1, <1>2, <2>1
<1>4. Range(<<p>>) = {p}
  BY <1>3
<1>5. NoDup(<<p>>)
  BY <1>1, <1>2 DEF NoDup
<1> QED BY <1>1, <1>4, <1>5 DEF Single
=============================================================================
