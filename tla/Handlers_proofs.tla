---------------------------- MODULE Handlers_proofs ----------------------------
(***************************************************************************)
(* The drivers whose interrupt handlers keep a queue: input from a serial  *)
(* line and from the keyboard, for any finite set of readers, any          *)
(* characters and a ring of any length, and the timer queue, for any       *)
(* number of processes and nodes and any times, negative ones included.    *)
(***************************************************************************)
EXTENDS Uart, ListFacts, FiniteSetTheorems

CONSTANTS Proc, NNODE, MaxTime

VARIABLES
  keyset, buf, head, tail, data, kpc, ksig, ktyped, kgot, late, kspoilt,
  tq, free, signal, wild

(* The keyboard, with a ring of the same, arbitrary, length. *)
Keys == INSTANCE Keyboard WITH
  KBN <- BUFLEN, Newline <- Enter,
  pc <- kpc, sig <- ksig, typed <- ktyped, got <- kgot, spoilt <- kspoilt

Timer == INSTANCE TimerQueue

Sizes == BUFLEN \in Nat \ {0} /\ IsFiniteSet(Reader)

(* A ring b with the indexes h and t holds what is in ty and not yet in gt: h is as many
   places behind t as that is, and gt is what ty begins with. *)
Holds(b, h, t, ty, gt) ==
  LET n == Len(ty) - Len(gt)
  IN  /\ n \in 0..BUFLEN
      /\ h = (t + n) % BUFLEN
      /\ \A j \in 0..(n - 1) : b[(t + j) % BUFLEN] = ty[Len(gt) + 1 + j]
      /\ \A i \in 1..Len(gt) : gt[i] = ty[i]

(* How many characters are in the serial line's ring. *)
Waiting == Len(typed) - Len(got)

(* Who is blocked is in the queue, once; if there is anybody, the value says how
   many they are. *)
Places ==
  /\ \A p \in Reader : pc[p] = "blocked" <=> p \in Range(queue)
  /\ NoDup(queue)
  /\ IF queue = Nil THEN value >= 0 ELSE value = - Len(queue)

(* The value is what the ring holds less what is promised to those past P(). *)
Counted == value = Waiting - Cardinality(Past) - Len(queue)

Ring == Holds(inbuf, inhead, intail, typed, got)

LineInv == TypeOK /\ Places /\ (~ spoilt => Counted /\ Ring)
-----------------------------------------------------------------------------
LEMMA PlaceValue ==
  ASSUME Sizes, NEW x \in Slots, NEW k \in 0..BUFLEN
  PROVE  /\ (x + k) % BUFLEN = IF x + k < BUFLEN THEN x + k ELSE x + k - BUFLEN
         /\ (x + k) % BUFLEN \in Slots
<1>1. BUFLEN \in Nat \ {0} /\ x + k \in 0..(2 * BUFLEN - 1)
  BY DEF Slots, Sizes
<1>2. CASE x + k < BUFLEN
  BY <1>1, <1>2 DEF Slots
<1>3. CASE x + k >= BUFLEN
  BY <1>1, <1>3 DEF Slots
<1> QED BY <1>1, <1>2, <1>3

(* The next place, seen from the next place and from this one. *)
LEMMA PlaceOfNext ==
  ASSUME Sizes, NEW x \in Slots, NEW k \in 0..(BUFLEN - 1)
  PROVE  /\ (((x + 1) % BUFLEN) + k) % BUFLEN = (x + (k + 1)) % BUFLEN
         /\ (((x + k) % BUFLEN) + 1) % BUFLEN = (x + (k + 1)) % BUFLEN
<1>1. /\ BUFLEN \in Nat \ {0} /\ 1 \in 0..BUFLEN
      /\ k \in 0..BUFLEN /\ k + 1 \in 0..BUFLEN
  BY DEF Sizes
<1> DEFINE y == (x + 1) % BUFLEN
           z == (x + k) % BUFLEN
           w == (x + (k + 1)) % BUFLEN
<1>2. y \in Slots /\ y = IF x + 1 < BUFLEN THEN x + 1 ELSE x + 1 - BUFLEN
  BY <1>1, PlaceValue
<1>3. z \in Slots /\ z = IF x + k < BUFLEN THEN x + k ELSE x + k - BUFLEN
  BY <1>1, PlaceValue
<1>4. w = IF x + (k + 1) < BUFLEN THEN x + (k + 1) ELSE x + (k + 1) - BUFLEN
  BY <1>1, PlaceValue
<1> HIDE DEF y, z, w
<1>5. (y + k) % BUFLEN = IF y + k < BUFLEN THEN y + k ELSE y + k - BUFLEN
  BY <1>1, <1>2, PlaceValue
<1>6. (z + 1) % BUFLEN = IF z + 1 < BUFLEN THEN z + 1 ELSE z + 1 - BUFLEN
  BY <1>1, <1>3, PlaceValue
<1>7. (y + k) % BUFLEN = w
  BY <1>1, <1>2, <1>4, <1>5 DEF Slots
<1>8. (z + 1) % BUFLEN = w
  BY <1>1, <1>3, <1>4, <1>6 DEF Slots
<1> QED BY <1>7, <1>8 DEF y, z, w

(* Different places are different slots. *)
LEMMA PlacesDiffer ==
  ASSUME Sizes, NEW x \in Slots, NEW i \in 0..(BUFLEN - 1), NEW j \in 0..(BUFLEN - 1), i # j
  PROVE  (x + i) % BUFLEN # (x + j) % BUFLEN
<1>1. BUFLEN \in Nat \ {0} /\ i \in 0..BUFLEN /\ j \in 0..BUFLEN
  BY DEF Sizes
<1>2. (x + i) % BUFLEN = IF x + i < BUFLEN THEN x + i ELSE x + i - BUFLEN
  BY <1>1, PlaceValue
<1>3. (x + j) % BUFLEN = IF x + j < BUFLEN THEN x + j ELSE x + j - BUFLEN
  BY <1>1, PlaceValue
<1> QED BY <1>1, <1>2, <1>3 DEF Slots
(* A character is stored where it belongs, if there is room. *)
LEMMA RingStores ==
  ASSUME Sizes, NEW C, NEW D, NEW b \in [Slots -> C], NEW h, NEW t \in Slots,
         NEW ty \in Seq(D), NEW gt \in Seq(C), NEW c \in C \cap D,
         Holds(b, h, t, ty, gt), Len(ty) - Len(gt) < BUFLEN
  PROVE  /\ h \in Slots
         /\ Holds([b EXCEPT ![h] = c], (h + 1) % BUFLEN, t, Append(ty, c), gt)
<1> DEFINE T == Len(ty)
           G == Len(gt)
           n == T - G
           Pl(j) == (t + j) % BUFLEN
           e == Append(ty, c)
           b2 == [b EXCEPT ![h] = c]
<1>1. T \in Nat /\ G \in Nat /\ BUFLEN \in Nat \ {0}
  BY LenProperties DEF Sizes
<1>2. n \in 0..(BUFLEN - 1) /\ n \in 0..BUFLEN
  BY <1>1 DEF Holds
<1>3. h = Pl(n) /\ h \in Slots
  BY <1>1, <1>2, PlaceValue DEF Holds
<1>4. Len(e) = T + 1 /\ e[T + 1] = c /\ \A i \in 1..T : e[i] = ty[i]
  BY <1>1, AppendProperties
<1>5. (h + 1) % BUFLEN = Pl(n + 1)
  BY <1>1, <1>2, <1>3, PlaceOfNext
<1>6. ASSUME NEW j \in 0..n PROVE b2[Pl(j)] = e[G + 1 + j]
  <2>1. CASE j = n
    <3>1. b2[h] = c
      BY <1>3
    <3> QED BY <1>1, <1>3, <1>4, <2>1, <3>1
  <2>2. CASE j # n
    <3>1. j \in 0..(n - 1) /\ j \in 0..(BUFLEN - 1) /\ G + 1 + j \in 1..T /\ j \in 0..BUFLEN
      BY <1>1, <1>2, <2>2
    <3>2. Pl(j) # h /\ Pl(j) \in Slots
      BY <1>1, <1>2, <1>3, <2>2, <3>1, PlacesDiffer, PlaceValue
    <3>3. b[Pl(j)] = ty[G + 1 + j]
      BY <3>1 DEF Holds
    <3> QED BY <1>4, <3>1, <3>2, <3>3
  <2> QED BY <2>1, <2>2
<1>7. \A i \in 1..G : gt[i] = e[i]
  <2>1. TAKE i \in 1..G
  <2>2. i \in 1..T /\ gt[i] = ty[i]
    BY <1>1, <1>2 DEF Holds
  <2> QED BY <1>4, <2>2
<1>8. Len(e) - G = n + 1 /\ n + 1 \in 0..BUFLEN /\ (n + 1) - 1 = n
  BY <1>1, <1>2, <1>4
<1> HIDE DEF n, e, b2
<1>9. Holds(b2, (h + 1) % BUFLEN, t, e, gt)
  BY <1>5, <1>6, <1>7, <1>8 DEF Holds
<1> QED BY <1>3, <1>9 DEF b2, e

(* The oldest character that nobody has taken is at t. *)
LEMMA RingYields ==
  ASSUME Sizes, NEW C, NEW D, NEW b \in [Slots -> C], NEW h, NEW t \in Slots,
         NEW ty \in Seq(D), NEW gt \in Seq(C),
         Holds(b, h, t, ty, gt), Len(ty) - Len(gt) > 0
  PROVE  /\ b[t] = ty[Len(gt) + 1] /\ b[t] \in D
         /\ Holds(b, h, (t + 1) % BUFLEN, ty, Append(gt, b[t]))
<1> DEFINE T == Len(ty)
           G == Len(gt)
           n == T - G
           Pl(j) == (t + j) % BUFLEN
           s == (t + 1) % BUFLEN
           e == Append(gt, b[t])
<1>1. T \in Nat /\ G \in Nat /\ BUFLEN \in Nat \ {0} /\ b[t] \in C
  BY LenProperties DEF Sizes
<1>2. n \in 1..BUFLEN
  BY <1>1 DEF Holds
<1>3. Len(e) = G + 1 /\ e[G + 1] = b[t] /\ \A i \in 1..G : e[i] = gt[i]
  BY <1>1, AppendProperties
<1>4. Pl(0) = t
  <2>1. Pl(0) = IF t + 0 < BUFLEN THEN t + 0 ELSE t + 0 - BUFLEN
    BY <1>1, PlaceValue
  <2> QED BY <1>1, <2>1 DEF Slots
<1>5. \A j \in 0..(n - 1) : (s + j) % BUFLEN = Pl(j + 1)
  <2>1. TAKE j \in 0..(n - 1)
  <2>2. j \in 0..(BUFLEN - 1)
    BY <1>1, <1>2
  <2> QED BY <1>1, <2>2, PlaceOfNext
<1>6. h = (s + (n - 1)) % BUFLEN
  <2>1. n - 1 \in 0..(n - 1) /\ (n - 1) + 1 = n
    BY <1>1, <1>2
  <2> QED BY <1>2, <1>5, <2>1 DEF Holds
<1>7. ASSUME NEW j \in 0..(n - 2) PROVE b[(s + j) % BUFLEN] = ty[G + 2 + j]
  <2>0. n \in Nat /\ G \in Nat
    BY <1>1, <1>2
  <2> HIDE DEF n, G
  <2>1. j + 1 \in 0..(n - 1) /\ j \in 0..(n - 1) /\ G + 1 + (j + 1) = G + 2 + j
    BY <2>0
  <2> USE DEF n, G
  <2>2. b[Pl(j + 1)] = ty[G + 1 + (j + 1)]
    BY <1>2, <2>1 DEF Holds
  <2> QED BY <1>5, <2>1, <2>2
<1>8. b[t] = ty[G + 1]
  <2>1. 0 \in 0..(n - 1) /\ G + 1 + 0 = G + 1
    BY <1>1, <1>2
  <2>2. b[Pl(0)] = ty[G + 1]
    BY <1>2, <2>1 DEF Holds
  <2> QED BY <1>4, <2>2
<1>9. b[t] \in D
  <2>1. G + 1 \in 1..T
    BY <1>1, <1>2
  <2> QED BY <1>8, <2>1, ElementOfSeq
<1>10. ASSUME NEW i \in 1..(G + 1) PROVE e[i] = ty[i]
  <2>1. CASE i \in 1..G
    BY <1>3, <2>1 DEF Holds
  <2>2. CASE i = G + 1
    BY <1>3, <1>8, <2>2
  <2> QED BY <1>1, <2>1, <2>2
<1>11. /\ Len(ty) - Len(e) = n - 1 /\ n - 1 \in 0..BUFLEN /\ (n - 1) - 1 = n - 2
       /\ \A j \in 0..(n - 2) : Len(e) + 1 + j = G + 2 + j
  BY <1>1, <1>2, <1>3
<1> HIDE DEF n, e, s
<1>12. Holds(b, h, s, ty, e)
  BY <1>3, <1>6, <1>7, <1>10, <1>11 DEF Holds
<1> QED BY <1>8, <1>9, <1>12 DEF s, e

LEMMA EmptyRing ==
  ASSUME Sizes, NEW b PROVE Holds(b, 0, 0, <<>>, <<>>) /\ 0 \in Slots
<1>1. Len(<<>>) = 0 /\ 0 \in 0..BUFLEN /\ (0 + 0) % BUFLEN = 0
  BY EmptySeq DEF Sizes
<1> QED BY <1>1 DEF Holds, Slots, Sizes

(* What has been taken is what was typed first. *)
LEMMA HeldPrefix ==
  ASSUME Sizes, NEW C, NEW D, NEW b, NEW h, NEW t, NEW ty \in Seq(D), NEW gt \in Seq(C),
         Holds(b, h, t, ty, gt)
  PROVE  IsPrefix(gt, ty)
<1>1. /\ Len(ty) \in Nat /\ Len(gt) \in Nat /\ Len(gt) <= Len(ty)
      /\ \A i \in 1..Len(gt) : gt[i] = ty[i]
  <2>1. Len(ty) \in Nat /\ Len(gt) \in Nat
    BY LenProperties
  <2> QED BY <2>1 DEF Holds, Sizes
<1>2. SubSeq(gt, 1, Len(gt)) = SubSeq(ty, 1, Len(gt))
  BY <1>1
<1> QED BY <1>1, <1>2 DEF IsPrefix
-----------------------------------------------------------------------------
(* The semaphore's queue. *)

LEMMA QueueGrows ==
  ASSUME NEW q \in Seq(Reader), NEW p \in Reader
  PROVE  /\ Append(q, p) \in Seq(Reader) /\ Append(q, p) # Nil
         /\ Len(q) \in Nat /\ Len(Append(q, p)) = Len(q) + 1
         /\ Range(Append(q, p)) = Range(q) \cup {p}
         /\ NoDup(q) /\ p \notin Range(q) => NoDup(Append(q, p))
<1>1. /\ Append(q, p) \in Seq(Reader) /\ Len(Append(q, p)) = Len(q) + 1 /\ Len(q) \in Nat
  BY AppendProperties, LenProperties
<1>2. Len(Nil) = 0
  BY DEF Nil
<1> QED BY <1>1, <1>2, PutLastFacts DEF PutLast

LEMMA QueueShrinks ==
  ASSUME NEW q \in Seq(Reader), q # Nil, NoDup(q)
  PROVE  /\ Head(q) \in Reader /\ Tail(q) \in Seq(Reader)
         /\ Len(q) \in Nat \ {0} /\ Len(Tail(q)) = Len(q) - 1
         /\ Head(q) \in Range(q) /\ Range(Tail(q)) = Range(q) \ {Head(q)}
         /\ NoDup(Tail(q))
<1>1. q # <<>>
  BY DEF Nil
<1>2. Len(Tail(q)) = Len(q) - 1 /\ Len(q) \in Nat /\ Len(q) # 0
  BY <1>1, HeadTailProperties, LenProperties, EmptySeq
<1> QED BY <1>2, DequeueFacts DEF First, Rest

LEMMA NilIsShort ==
  ASSUME NEW q \in Seq(Reader)
  PROVE  Len(q) \in Nat /\ (q = Nil <=> Len(q) = 0)
BY LenProperties, EmptySeq DEF Nil

LEMMA QueueLoses ==
  ASSUME NEW q \in Seq(Reader), NoDup(q), NEW p \in Range(q)
  PROVE  /\ Unlinked(q, p) \in Seq(Reader) /\ NoDup(Unlinked(q, p))
         /\ Range(Unlinked(q, p)) = Range(q) \ {p}
         /\ Len(q) \in Nat \ {0} /\ Len(Unlinked(q, p)) = Len(q) - 1
<1>1. p \in Reader /\ \E i \in 1..Len(q) : q[i] = p
  BY InRange
<1> DEFINE I == {i \in 1..Len(q) : q[i] = p}
           k == Min(I)
<1>2. Len(q) \in Nat /\ I \subseteq Nat /\ I # {}
  BY <1>1, LenProperties
<1>3. k \in I
  BY <1>2, MinOfNats
<1>4. Unlinked(q, p) = RemoveAt(q, k)
  BY <1>1 DEF Unlinked, RemoveFirst, SelectInSeq
<1> HIDE DEF k
<1>5. Len(RemoveAt(q, k)) = Len(q) - 1
  BY <1>3, RemoveAtFacts
<1> QED BY <1>1, <1>2, <1>3, <1>4, <1>5, UnlinkedFacts

(* Counting those past P(). *)
LEMMA PastCount ==
  ASSUME Sizes, NEW S \in SUBSET Reader, NEW p \in Reader
  PROVE  /\ Cardinality(S) \in Nat
         /\ p \in S => Cardinality(S) > 0 /\ Cardinality(S \ {p}) = Cardinality(S) - 1
         /\ p \notin S => Cardinality(S \cup {p}) = Cardinality(S) + 1
<1>1. IsFiniteSet(S)
  BY FS_Subset DEF Sizes
<1>2. Cardinality(S) \in Nat
  BY <1>1, FS_CardinalityType
<1>3. ASSUME p \in S PROVE Cardinality(S) > 0 /\ Cardinality(S \ {p}) = Cardinality(S) - 1
  <2>1. Cardinality(S \ {p}) = Cardinality(S) - 1
    BY <1>1, <1>3, FS_RemoveElement
  <2>2. Cardinality(S) # 0
    BY <1>1, <1>3, FS_EmptySet
  <2> QED BY <1>2, <2>1, <2>2
<1>4. ASSUME p \notin S PROVE Cardinality(S \cup {p}) = Cardinality(S) + 1
  BY <1>1, <1>4, FS_AddElement
<1> QED BY <1>2, <1>3, <1>4
-----------------------------------------------------------------------------
(* What the types say of the variables that P() and V() change. *)
SemaphoreType ==
  /\ value \in Int /\ queue \in Seq(Reader)
  /\ pc \in [Reader -> {"user", "blocked", "past", "gone"}]

(* P() takes one off the value and lets p past it or blocks it. *)
LEMMA PKeeps ==
  ASSUME Sizes, SemaphoreType, Places, NEW p \in Reader, pc[p] \in {"user", "past"}, P(p, pc)
  PROVE  /\ SemaphoreType' /\ Places'
         /\ value' = value - 1
         /\ \/ Len(queue') = Len(queue) + 1 /\ Past' = Past \ {p}
            \/ queue' = queue /\ Past' = Past \cup {p}
<1> USE DEF SemaphoreType
<1>0. Len(queue) \in Nat /\ (queue = Nil <=> Len(queue) = 0)
  BY NilIsShort
<1>1. CASE value - 1 < 0 /\ queue' = Append(queue, p) /\ pc' = [pc EXCEPT ![p] = "blocked"]
  <2>1. p \notin Range(queue)
    BY DEF Places
  <2>2. /\ queue' \in Seq(Reader) /\ queue' # Nil /\ Len(queue') = Len(queue) + 1
        /\ Range(queue') = Range(queue) \cup {p} /\ NoDup(queue')
    BY <1>1, <2>1, QueueGrows DEF Places
  <2>3. value' = - Len(queue')
    BY <1>0, <1>1, <2>2 DEF P, Places
  <2>4. Places'
    BY <1>1, <2>2, <2>3 DEF Places
  <2>5. Past' = Past \ {p}
    BY <1>1 DEF Past
  <2> QED BY <1>1, <2>2, <2>4, <2>5 DEF P
<1>2. CASE value - 1 >= 0 /\ pc' = [pc EXCEPT ![p] = "past"] /\ UNCHANGED queue
  <2>1. Places'
    BY <1>0, <1>2 DEF P, Places
  <2>2. Past' = Past \cup {p}
    BY <1>2 DEF Past
  <2> QED BY <1>2, <2>1, <2>2 DEF P
<1> QED BY <1>1, <1>2 DEF P

(* V() adds one, and lets the first of the queue past P(), if there is one. *)
LEMMA VKeeps ==
  ASSUME Sizes, SemaphoreType, Places, V(pc)
  PROVE  /\ SemaphoreType' /\ Places'
         /\ value' = value + 1
         /\ \/ /\ Len(queue') = Len(queue) - 1
               /\ \E p \in Reader \ Past : Past' = Past \cup {p}
            \/ queue' = queue /\ Past' = Past
<1> USE DEF SemaphoreType
<1>0. Len(queue) \in Nat /\ (queue = Nil <=> Len(queue) = 0)
  BY NilIsShort
<1>1. CASE /\ value + 1 <= 0 /\ queue' = Tail(queue)
           /\ pc' = [pc EXCEPT ![Head(queue)] = "past"]
  <2>1. queue # Nil /\ value = - Len(queue) /\ NoDup(queue)
    BY <1>1 DEF Places
  <2> DEFINE h == Head(queue)
  <2>2. /\ h \in Reader /\ queue' \in Seq(Reader)
        /\ Len(queue') = Len(queue) - 1 /\ NoDup(queue')
        /\ h \in Range(queue) /\ Range(queue') = Range(queue) \ {h}
    BY <1>1, <2>1, QueueShrinks
  <2>3. pc' = [pc EXCEPT ![h] = "past"] /\ pc[h] = "blocked"
    BY <1>1, <2>2 DEF Places
  <2> HIDE DEF h
  <2>4. Len(queue') \in Nat /\ (queue' = Nil <=> Len(queue') = 0)
    BY <2>2, NilIsShort
  <2>5. IF queue' = Nil THEN value' >= 0 ELSE value' = - Len(queue')
    BY <1>0, <2>1, <2>2, <2>4 DEF V
  <2>6. Places'
    BY <2>2, <2>3, <2>5 DEF Places
  <2>7. Past' = Past \cup {h} /\ h \in Reader \ Past
    BY <2>2, <2>3 DEF Past
  <2> QED BY <2>2, <2>3, <2>6, <2>7 DEF V
<1>2. CASE value + 1 > 0 /\ pc' = pc /\ UNCHANGED queue
  <2>1. Places'
    BY <1>0, <1>2 DEF V, Places
  <2> QED BY <1>2, <2>1 DEF V, Past
<1> QED BY <1>1, <1>2 DEF V, Wakes

(* Whoever is past P() has a character to take; so has the next, if the value is
   positive. *)
LEMMA RoomForPast ==
  ASSUME Sizes, TypeOK, Places, Counted
  PROVE  Waiting \in Nat /\ Waiting >= Cardinality(Past)
<1>1. Len(typed) \in Nat /\ Len(got) \in Nat
  BY LenProperties DEF TypeOK
<1>2. Cardinality(Past) \in Nat
  <2>1. Past \in SUBSET Reader
    BY DEF Past
  <2> QED BY <2>1, FS_Subset, FS_CardinalityType DEF Sizes
<1>3. Len(queue) \in Nat /\ (queue = Nil <=> Len(queue) = 0)
  BY NilIsShort DEF TypeOK
<1> QED BY <1>1, <1>2, <1>3 DEF Counted, Places, Waiting, TypeOK
-----------------------------------------------------------------------------
(* The handler *)

LEMMA StoredRing ==
  ASSUME Sizes, TypeOK, Ring, NEW c \in Char \cup {Enter},
         Stored(c), UNCHANGED got, ~ spoilt'
  PROVE  Ring' /\ Waiting' = Waiting + 1
<1>1. /\ inbuf \in [Slots -> Char \cup {Enter, Old}] /\ intail \in Slots
      /\ typed \in Seq(Char \cup {Enter}) /\ got \in Seq(Char \cup {Enter, Old})
      /\ c \in (Char \cup {Enter, Old}) \cap (Char \cup {Enter})
  BY DEF TypeOK
<1>2. Len(typed) \in Nat /\ Len(got) \in Nat /\ BUFLEN \in Nat
  BY <1>1, LenProperties DEF Sizes
<1>3. Len(typed) - Len(got) < BUFLEN
  <2>1. ~ (Len(typed) - Len(got) >= BUFLEN)
    BY Zenon DEF Stored
  <2> QED BY <1>2, <2>1
<1>4. /\ inhead \in Slots
      /\ Holds([inbuf EXCEPT ![inhead] = c], (inhead + 1) % BUFLEN, intail, Append(typed, c), got)
  <2>1. Holds(inbuf, inhead, intail, typed, got)
    BY DEF Ring
  <2> DEFINE C == Char \cup {Enter, Old}
             D == Char \cup {Enter}
  <2>2. /\ inbuf \in [Slots -> C] /\ intail \in Slots /\ typed \in Seq(D) /\ got \in Seq(C)
        /\ c \in C \cap D
    BY <1>1
  <2> HIDE DEF C, D
  <2> QED BY <1>3, <2>1, <2>2, RingStores
<1>5. /\ inbuf' = [inbuf EXCEPT ![inhead] = c] /\ inhead' = (inhead + 1) % BUFLEN
      /\ typed' = Append(typed, c) /\ intail' = intail /\ got' = got
  BY <1>2, <1>4 DEF Stored, HeadSlot, Slots
<1>6. Waiting' = Waiting + 1
  <2>1. Len(typed') = Len(typed) + 1
    BY <1>1, <1>5, AppendProperties
  <2> QED BY <1>2, <1>5, <2>1 DEF Waiting
<1> QED BY <1>4, <1>5, <1>6 DEF Ring

(* The types of what the handler stores; the bounds of a ring that is overrun, too. *)
LEMMA StoredTypes ==
  ASSUME Sizes, TypeOK, Places, NEW c \in Char \cup {Enter},
         Stored(c), UNCHANGED <<line, got>>, sig' \subseteq Reader
  PROVE  TypeOK' /\ Places'
<1>1. SemaphoreType
  BY DEF TypeOK, SemaphoreType
<1>2. SemaphoreType' /\ Places'
  BY <1>1, VKeeps DEF Stored
<1>3. inhead' \in 0..BUFLEN /\ inbuf' \in [Slots -> Char \cup {Enter, Old}]
  <2>1. CASE inhead \in Slots /\ inbuf' = [inbuf EXCEPT ![HeadSlot] = c]
             /\ inhead' = (inhead + 1) % BUFLEN
    <3>1. inhead' \in Slots
      BY <2>1, PlaceValue DEF Sizes
    <3> QED BY <2>1, <3>1 DEF TypeOK, HeadSlot, Slots, Sizes
  <2>2. CASE inhead' \in Slots /\ UNCHANGED inbuf
    BY <2>2 DEF TypeOK, Slots, Sizes
  <2> QED BY <2>1, <2>2 DEF Stored
<1>4. typed' \in Seq(Char \cup {Enter})
  BY AppendProperties DEF Stored, TypeOK
<1>5. spoilt' \in BOOLEAN /\ intail' = intail
  BY DEF Stored
<1> QED BY <1>2, <1>3, <1>4, <1>5 DEF TypeOK, SemaphoreType

LEMMA StoredKeeps ==
  ASSUME Sizes, LineInv, NEW c \in Char \cup {Enter},
         Stored(c), UNCHANGED <<line, got>>, sig' \subseteq Reader
  PROVE  LineInv'
<1>1. TypeOK /\ Places /\ SemaphoreType
  BY DEF LineInv, TypeOK, SemaphoreType
<1>2. TypeOK' /\ Places'
  BY <1>1, StoredTypes
<1>3. ASSUME ~ spoilt' PROVE Counted' /\ Ring'
  <2>1. ~ spoilt
    BY <1>3, Zenon DEF Stored
  <2>2. Counted /\ Ring
    BY <2>1 DEF LineInv
  <2>3. Ring' /\ Waiting' = Waiting + 1
    BY <1>1, <1>3, <2>2, StoredRing
  <2>4. /\ value' = value + 1
        /\ \/ /\ Len(queue') = Len(queue) - 1
              /\ \E p \in Reader \ Past : Past' = Past \cup {p}
           \/ queue' = queue /\ Past' = Past
    BY <1>1, VKeeps DEF Stored
  <2>5. Waiting \in Int /\ value \in Int /\ Len(queue) \in Nat
    BY <1>1, LenProperties DEF Waiting, TypeOK
  <2>6. Past \in SUBSET Reader
    BY DEF Past
  <2>7. CASE queue' = queue /\ Past' = Past
    <3>1. Cardinality(Past) \in Nat
      BY <2>6, FS_Subset, FS_CardinalityType DEF Sizes
    <3>2. Counted'
      BY <2>2, <2>3, <2>4, <2>5, <2>7, <3>1 DEF Counted
    <3> QED BY <2>3, <3>2
  <2>8. ASSUME NEW p \in Reader \ Past, Past' = Past \cup {p}, Len(queue') = Len(queue) - 1
        PROVE  Counted'
    <3>1. Cardinality(Past) \in Nat /\ Cardinality(Past') = Cardinality(Past) + 1
      BY <2>6, <2>8, PastCount
    <3> QED BY <2>2, <2>3, <2>4, <2>5, <2>8, <3>1 DEF Counted
  <2> QED BY <2>3, <2>4, <2>7, <2>8
<1> QED BY <1>2, <1>3 DEF LineInv
-----------------------------------------------------------------------------
(* Readers *)

(* The reader takes the oldest character that nobody has taken. *)
LEMMA TakenRing ==
  ASSUME Sizes, TypeOK, Ring, Waiting > 0,
         intail' = (intail + 1) % BUFLEN, got' = Append(got, inbuf[intail]),
         UNCHANGED <<inbuf, inhead, typed>>
  PROVE  Ring' /\ Waiting' = Waiting - 1
<1>1. /\ inbuf \in [Slots -> Char \cup {Enter, Old}] /\ intail \in Slots
      /\ typed \in Seq(Char \cup {Enter}) /\ got \in Seq(Char \cup {Enter, Old})
      /\ inbuf[intail] \in Char \cup {Enter, Old}
  BY DEF TypeOK
<1>2. Holds(inbuf, inhead, (intail + 1) % BUFLEN, typed, Append(got, inbuf[intail]))
  BY <1>1, RingYields DEF Ring, Waiting
<1>3. Len(got') = Len(got) + 1 /\ Len(got) \in Nat /\ Len(typed) \in Nat
  BY <1>1, AppendProperties, LenProperties
<1> QED BY <1>2, <1>3 DEF Ring, Waiting

(* P() by a reader who was not past it counts him, and by one who takes his character
   counts that. *)
LEMMA PCounts ==
  ASSUME Sizes, TypeOK, Places, NEW p \in Reader, pc[p] \in {"user", "past"}, P(p, pc)
  PROVE  value' + Cardinality(Past') + Len(queue')
           = value + Cardinality(Past) + Len(queue) - IF p \in Past THEN 1 ELSE 0
<1>1. /\ value' = value - 1
      /\ \/ Len(queue') = Len(queue) + 1 /\ Past' = Past \ {p}
         \/ queue' = queue /\ Past' = Past \cup {p}
  BY PKeeps DEF TypeOK, SemaphoreType
<1>2. value \in Int /\ Len(queue) \in Nat /\ Past \in SUBSET Reader
  BY LenProperties DEF TypeOK, Past
<1>3. /\ Cardinality(Past) \in Nat
      /\ p \in Past => Cardinality(Past \ {p}) = Cardinality(Past) - 1
      /\ p \notin Past => Cardinality(Past \cup {p}) = Cardinality(Past) + 1
  BY <1>2, PastCount
<1>4. CASE p \in Past
  <2>1. Past \cup {p} = Past
    BY <1>4
  <2>2. value' + Cardinality(Past') + Len(queue') = value + Cardinality(Past) + Len(queue) - 1
    <3>1. CASE queue' = queue /\ Past' = Past \cup {p}
      <4>1. Cardinality(Past') = Cardinality(Past)
        BY <1>3, <1>4, <2>1, <3>1
      <4> QED BY <1>1, <1>2, <1>3, <3>1, <4>1
    <3>2. CASE Len(queue') = Len(queue) + 1 /\ Past' = Past \ {p}
      <4>1. Cardinality(Past') = Cardinality(Past) - 1
        BY <1>3, <1>4, <2>1, <3>2
      <4> QED BY <1>1, <1>2, <1>3, <3>2, <4>1
    <3> QED BY <1>1, <3>1, <3>2
  <2> QED BY <1>4, <2>2
<1>5. CASE p \notin Past
  <2>1. Past \ {p} = Past
    BY <1>5
  <2>2. value' + Cardinality(Past') + Len(queue') = value + Cardinality(Past) + Len(queue)
    <3>1. CASE queue' = queue /\ Past' = Past \cup {p}
      <4>1. Cardinality(Past') = Cardinality(Past) + 1
        BY <1>3, <1>5, <2>1, <3>1
      <4> QED BY <1>1, <1>2, <1>3, <3>1, <4>1
    <3>2. CASE Len(queue') = Len(queue) + 1 /\ Past' = Past \ {p}
      <4>1. Cardinality(Past') = Cardinality(Past)
        BY <1>3, <1>5, <2>1, <3>2
      <4> QED BY <1>1, <1>2, <1>3, <3>2, <4>1
    <3> QED BY <1>1, <3>1, <3>2
  <2> QED BY <1>2, <1>3, <1>5, <2>2
<1> QED BY <1>4, <1>5

LEMMA CountedSum ==
  ASSUME Sizes, TypeOK
  PROVE  /\ Counted <=> value + Cardinality(Past) + Len(queue) = Waiting
         /\ Waiting \in Int /\ value \in Int /\ Cardinality(Past) \in Nat /\ Len(queue) \in Nat
<1>1. Waiting \in Int /\ value \in Int /\ Len(queue) \in Nat
  BY LenProperties DEF TypeOK, Waiting
<1>2. Past \in SUBSET Reader
  BY DEF Past
<1>3. Cardinality(Past) \in Nat
  BY <1>2, FS_Subset, FS_CardinalityType DEF Sizes
<1> QED BY <1>1, <1>3 DEF Counted

LEMMA NextCountedSum ==
  ASSUME Sizes, TypeOK'
  PROVE  /\ Counted' <=> value' + Cardinality(Past') + Len(queue') = Waiting'
         /\ Waiting' \in Int /\ value' \in Int /\ Cardinality(Past') \in Nat /\ Len(queue') \in Nat
<1>1. Waiting' \in Int /\ value' \in Int /\ Len(queue') \in Nat
  BY LenProperties DEF TypeOK, Waiting
<1>2. Past' \in SUBSET Reader
  BY DEF Past
<1>3. Cardinality(Past') \in Nat
  BY <1>2, FS_Subset, FS_CardinalityType DEF Sizes
<1> QED BY <1>1, <1>3 DEF Counted

LEMMA ReadKeeps ==
  ASSUME Sizes, LineInv, NEW p \in Reader, NEW wholeLine \in BOOLEAN, Read(p, wholeLine)
  PROVE  LineInv'
<1>1. TypeOK /\ Places /\ SemaphoreType /\ pc[p] = "user" /\ P(p, pc)
  BY DEF LineInv, TypeOK, SemaphoreType, Read
<1>2. SemaphoreType' /\ Places'
  BY <1>1, PKeeps
<1>3. line' \subseteq Reader
  BY <1>1 DEF Read, TypeOK
<1>4. TypeOK'
  BY <1>1, <1>2, <1>3 DEF Read, TypeOK, SemaphoreType, ring
<1>5. UNCHANGED <<inbuf, inhead, intail, typed, got, spoilt>>
  BY DEF Read, ring
<1>6. Waiting' = Waiting /\ (Ring => Ring')
  BY <1>5 DEF Waiting, Ring
<1>7. Counted => Counted'
  <2>1. p \notin Past
    BY <1>1 DEF Past
  <2> QED BY <1>1, <1>4, <1>6, <2>1, PCounts, CountedSum, NextCountedSum
<1> QED BY <1>2, <1>4, <1>5, <1>6, <1>7 DEF LineInv

LEMMA TakeKeeps ==
  ASSUME Sizes, LineInv, NEW p \in Reader, Take(p)
  PROVE  LineInv'
<1>1. TypeOK /\ Places /\ SemaphoreType /\ pc[p] = "past" /\ p \in Past
  BY DEF LineInv, TypeOK, SemaphoreType, Take, Past
<1>2. /\ intail' = (intail + 1) % BUFLEN /\ got' = Append(got, inbuf[intail])
      /\ UNCHANGED <<inbuf, inhead, line, sig, typed, spoilt>>
      /\ \/ P(p, pc)
         \/ pc' = [pc EXCEPT ![p] = "user"] /\ UNCHANGED <<value, queue>>
  BY DEF Take, inchar
<1>3. SemaphoreType' /\ Places'
  <2>1. CASE P(p, pc)
    BY <1>1, <2>1, PKeeps
  <2>2. CASE pc' = [pc EXCEPT ![p] = "user"] /\ UNCHANGED <<value, queue>>
    BY <1>1, <2>2 DEF SemaphoreType, Places
  <2> QED BY <1>2, <2>1, <2>2
<1>4. TypeOK'
  <2>1. intail \in Slots /\ inbuf[intail] \in Char \cup {Enter, Old} /\ 1 \in 0..BUFLEN
    BY <1>1 DEF TypeOK, Sizes
  <2>2. intail' \in Slots
    BY <1>2, <2>1, PlaceValue
  <2>3. got' \in Seq(Char \cup {Enter, Old})
    BY <1>1, <1>2, <2>1, AppendProperties DEF TypeOK
  <2> QED BY <1>1, <1>2, <1>3, <2>2, <2>3 DEF TypeOK, SemaphoreType
<1>5. value' + Cardinality(Past') + Len(queue') = value + Cardinality(Past) + Len(queue) - 1
  <2>1. CASE P(p, pc)
    BY <1>1, <2>1, PCounts
  <2>2. CASE pc' = [pc EXCEPT ![p] = "user"] /\ UNCHANGED <<value, queue>>
    <3>1. Past' = Past \ {p} /\ Past \in SUBSET Reader
      BY <1>1, <2>2 DEF Past, SemaphoreType
    <3>2. Cardinality(Past') = Cardinality(Past) - 1
      BY <1>1, <3>1, PastCount
    <3> QED BY <1>1, <2>2, <3>2, CountedSum
  <2> QED BY <1>2, <2>1, <2>2
<1>6. ASSUME ~ spoilt PROVE Counted' /\ Ring'
  <2>1. Counted /\ Ring
    BY <1>6 DEF LineInv
  <2>2. Waiting > 0
    <3>1. Cardinality(Past) > 0 /\ Cardinality(Past) \in Nat
      <4>1. Past \in SUBSET Reader
        BY DEF Past
      <4> QED BY <1>1, <4>1, PastCount
    <3> QED BY <1>1, <2>1, <3>1, RoomForPast
  <2>3. Ring' /\ Waiting' = Waiting - 1
    BY <1>1, <1>2, <2>1, <2>2, TakenRing
  <2> QED BY <1>1, <1>4, <1>5, <2>1, <2>3, CountedSum, NextCountedSum
<1> QED BY <1>2, <1>3, <1>4, <1>6 DEF LineInv

(* kkill() takes a blocked reader off the queue, and one off the value's debt. *)
LEMMA KillKeeps ==
  ASSUME Sizes, LineInv, NEW p \in Reader, Kill(p)
  PROVE  LineInv'
<1>1. TypeOK /\ Places /\ UNCHANGED <<inbuf, intail, line, typed, got>> /\ sig' = sig \cup {p}
  BY DEF LineInv, Kill
<1>2. CASE UNCHANGED <<inhead, inchar, pc, spoilt>>
  <2>1. TypeOK'
    BY <1>1, <1>2 DEF TypeOK, inchar
  <2>2. Places' /\ Counted' = Counted /\ Ring' = Ring
    BY <1>1, <1>2 DEF Places, Counted, Ring, Waiting, Past, inchar
  <2> QED BY <1>2, <2>1, <2>2 DEF LineInv
<1>3. CASE /\ pc[p] = "blocked" /\ inhead < BUFLEN /\ inhead' = inhead + 1
           /\ value' = value + 1 /\ queue' = Unlinked(queue, p)
           /\ pc' = [pc EXCEPT ![p] = "past"] /\ spoilt' = TRUE
  <2>1. p \in Range(queue) /\ NoDup(queue)
    BY <1>1, <1>3 DEF Places
  <2>2. /\ queue' \in Seq(Reader) /\ NoDup(queue') /\ Range(queue') = Range(queue) \ {p}
        /\ Len(queue) \in Nat \ {0} /\ Len(queue') = Len(queue) - 1
    BY <1>1, <1>3, <2>1, QueueLoses DEF TypeOK
  <2>3. (queue = Nil <=> Len(queue) = 0) /\ (queue' = Nil <=> Len(queue') = 0)
    BY <1>1, <2>2, NilIsShort DEF TypeOK
  <2>4. TypeOK'
    BY <1>1, <1>3, <2>2 DEF TypeOK, Sizes
  <2>5. IF queue' = Nil THEN value' >= 0 ELSE value' = - Len(queue')
    <3>1. queue # Nil /\ value = - Len(queue)
      BY <1>1, <2>2, <2>3 DEF Places
    <3>2. value' = - Len(queue') /\ Len(queue') \in Nat
      BY <1>3, <2>2, <3>1
    <3> QED BY <2>3, <3>2
  <2>6. \A x \in Reader : pc'[x] = "blocked" <=> x \in Range(queue')
    BY <1>1, <1>3, <2>2 DEF Places, TypeOK
  <2> QED BY <1>3, <2>2, <2>4, <2>5, <2>6 DEF LineInv, Places
<1> QED BY <1>2, <1>3 DEF Kill

(* A reader who dies was not blocked; past P(), he leaves his character behind. *)
LEMMA DeathKeeps ==
  ASSUME Sizes, LineInv, NEW p \in Reader, Die(p) \/ DieInKernel(p)
  PROVE  LineInv'
<1>1. /\ TypeOK /\ Places /\ pc[p] \in {"user", "past"}
      /\ pc' = [pc EXCEPT ![p] = "gone"] /\ sig' = sig \ {p}
      /\ UNCHANGED <<inbuf, inhead, intail, value, queue, line, typed, got>>
      /\ spoilt' = TRUE \/ (pc[p] = "user" /\ spoilt' = spoilt)
  BY DEF LineInv, Die, DieInKernel, ring, inchar
<1>2. TypeOK'
  BY <1>1 DEF TypeOK
<1>3. Places'
  BY <1>1 DEF Places, TypeOK
<1>4. ASSUME ~ spoilt' PROVE Counted' /\ Ring'
  <2>1. pc[p] = "user" /\ Counted /\ Ring
    BY <1>1, <1>4 DEF LineInv
  <2>2. Past' = Past
    BY <1>1, <2>1 DEF Past, TypeOK
  <2> QED BY <1>1, <2>1, <2>2 DEF Counted, Ring, Waiting
<1> QED BY <1>2, <1>3, <1>4 DEF LineInv

LEMMA LineInit == Sizes /\ Init => LineInv
<1> SUFFICES ASSUME Sizes, Init PROVE LineInv
  OBVIOUS
<1>1. Nil \in Seq(Reader) /\ Range(Nil) = {} /\ NoDup(Nil) /\ Len(Nil) = 0
  BY NilFacts, EmptySeq DEF Nil
<1>2. /\ typed = <<>> /\ got = <<>> /\ queue = Nil /\ Len(<<>>) = 0 /\ 0 \in Slots
      /\ inhead = 0 /\ intail = 0 /\ value = 0 /\ spoilt = FALSE
  BY EmptySeq DEF Init, Nil, Slots, Sizes
<1>3. TypeOK
  <2>1. /\ <<>> \in Seq(Char \cup {Enter}) /\ <<>> \in Seq(Char \cup {Enter, Old})
    BY EmptySeq
  <2>2. /\ inbuf \in [Slots -> Char \cup {Enter, Old}]
        /\ pc \in [Reader -> {"user", "blocked", "past", "gone"}]
        /\ line \subseteq Reader /\ sig \subseteq Reader
    BY DEF Init
  <2>3. 0 \in 0..BUFLEN
    BY DEF Sizes
  <2> QED BY <1>1, <1>2, <2>1, <2>2, <2>3 DEF TypeOK
<1>4. Places
  BY <1>1, <1>2 DEF Init, Places
<1>5. Counted
  <2>1. Past = {} /\ Cardinality({}) = 0
    BY FS_EmptySet DEF Init, Past
  <2> QED BY <1>1, <1>2, <2>1 DEF Counted, Waiting
<1>6. Ring
  BY <1>2, EmptyRing DEF Ring
<1> QED BY <1>3, <1>4, <1>5, <1>6 DEF LineInv

LEMMA LineInvariant == ASSUME Sizes PROVE Spec => []LineInv
<1>1. Init => LineInv
  BY LineInit
<1>2. LineInv /\ [Next]_vars => LineInv'
  <2> SUFFICES ASSUME LineInv, [Next]_vars PROVE LineInv'
    OBVIOUS
  <2>1. CASE UNCHANGED vars
    BY <2>1 DEF vars, ring, inchar, LineInv, TypeOK, Places, Counted, Ring, Waiting, Past
  <2>2. CASE ControlC
    <3>1. sig' \subseteq Reader /\ Stored(Enter) /\ UNCHANGED <<line, got>>
      BY <2>2 DEF ControlC
    <3> QED BY <3>1, StoredKeeps
  <2>3. ASSUME NEW c \in Char \cup {Enter}, Handler(c) PROVE LineInv'
    <3>1. sig' \subseteq Reader /\ Stored(c) /\ UNCHANGED <<line, got>>
      BY <2>3 DEF Handler, LineInv, TypeOK
    <3> QED BY <3>1, StoredKeeps
  <2>4. ASSUME NEW p \in Reader, NEW wholeLine \in BOOLEAN, Read(p, wholeLine) PROVE LineInv'
    BY <2>4, ReadKeeps
  <2>5. ASSUME NEW p \in Reader, KernelStep(p) \/ DieInKernel(p) \/ Kill(p) PROVE LineInv'
    BY <2>5, TakeKeeps, DeathKeeps, KillKeeps DEF KernelStep
  <2> QED BY <2>1, <2>2, <2>3, <2>4, <2>5 DEF Next
<1> QED BY <1>1, <1>2, PTL DEF Spec

(* Every variable of a serial line (driver/uart.c) keeps its type, the queue of the
   semaphore included, which V() takes the head of and kkill() unlinks somebody from. *)
THEOREM LineTypes == ASSUME Sizes PROVE Spec => []TypeOK
<1>1. LineInv => TypeOK
  BY DEF LineInv
<1> QED BY <1>1, LineInvariant, PTL

(* sgetc() returns what was typed, in order and each character once, although the handler
   may run at any point of it, several read at a time, and nobody but the semaphore
   knows how much is in the ring: P() and V() (driver/pv.c) count exactly what there is. *)
THEOREM LineInOrder == ASSUME Sizes PROVE Spec => []InOrder
<1>1. LineInv => InOrder
  <2> SUFFICES ASSUME LineInv PROVE InOrder
    OBVIOUS
  <2>1. CountsCharacters
    <3>1. queue # <<>> => value = - Len(queue)
      BY DEF LineInv, Places, Nil
    <3>2. ~ spoilt => value = Len(typed) - Len(got) - Cardinality(Past) - Len(queue)
      BY DEF LineInv, Counted, Waiting
    <3> QED BY <3>1, <3>2 DEF LineInv, Places, CountsCharacters
  <2>2. ~ spoilt => IsPrefix(got, typed)
    BY HeldPrefix DEF LineInv, TypeOK, Ring
  <2> QED BY <2>1, <2>2 DEF InOrder, SerialInOrder
<1> QED BY <1>1, LineInvariant, PTL
-----------------------------------------------------------------------------
(* The keyboard *)

(* The marker of what nobody typed is not a character. *)
Marked == Old \notin Char \cup {Enter}

KeyRing == data = Len(ktyped) - Len(kgot) /\ Holds(buf, head, tail, ktyped, kgot)

(* Who is asleep, or on the way there, has seen an empty ring, and every character since
   has come while he was between his look and his sleep. *)
Sleepers ==
  \A p \in Reader : kpc[p] \in {"window", "asleep"} /\ data > 0 => late \/ kspoilt

KeysInv == Keys!TypeOK /\ Sleepers /\ (~ kspoilt => KeyRing)

KeyChar == Char \cup {Enter}
-----------------------------------------------------------------------------
LEMMA SameSlots == Keys!Slots = Slots
BY DEF Keys!Slots, Slots

LEMMA KeyRingTypes ==
  ASSUME Sizes, Keys!TypeOK
  PROVE  /\ buf \in [Slots -> KeyChar \cup {Old}] /\ tail \in Slots /\ head \in 0..BUFLEN
         /\ data \in Nat /\ late \in BOOLEAN /\ kspoilt \in BOOLEAN
         /\ ktyped \in Seq(KeyChar) /\ kgot \in Seq(KeyChar \cup {Old})
         /\ Len(ktyped) \in Nat /\ Len(kgot) \in Nat
         /\ BUFLEN \in Nat \ {0} /\ Slots \subseteq 0..BUFLEN
         /\ kpc \in [Reader -> {"user", "woken", "window", "asleep", "gone"}]
<1>1. /\ ktyped \in Seq(KeyChar) /\ kgot \in Seq(KeyChar \cup {Old})
      /\ buf \in [Slots -> KeyChar \cup {Old}]
  <2>1. Char \cup {Enter, Old} = KeyChar \cup {Old}
    BY DEF KeyChar
  <2> QED BY <2>1, SameSlots DEF Keys!TypeOK, KeyChar
<1>2. Len(ktyped) \in Nat /\ Len(kgot) \in Nat
  BY <1>1, LenProperties
<1> QED BY <1>1, <1>2, SameSlots DEF Keys!TypeOK, Sizes, Slots

(* Woken readers do not sleep. *)
LEMMA WokenReaders ==
  ASSUME Sizes, Keys!TypeOK
  PROVE  /\ Keys!Woken \in [Reader -> {"user", "woken", "window", "asleep", "gone"}]
         /\ \A p \in Reader :
              /\ Keys!Woken[p] # "asleep"
              /\ Keys!Woken[p] = "window" <=> kpc[p] = "window"
BY KeyRingTypes DEF Keys!Woken

(* A character arrives. *)
LEMMA ArrivalRing ==
  ASSUME Sizes, Keys!TypeOK, KeyRing, NEW c \in KeyChar, Keys!Arrives(c),
         UNCHANGED <<tail, kgot>>, ~ kspoilt'
  PROVE  KeyRing'
<1>0. data < BUFLEN
  <2>1. ~ (data >= BUFLEN)
    BY Zenon DEF Keys!Arrives
  <2> QED BY <2>1, KeyRingTypes
<1> DEFINE C == KeyChar \cup {Old}
<1>1. /\ buf \in [Slots -> C] /\ tail \in Slots /\ ktyped \in Seq(KeyChar) /\ kgot \in Seq(C)
      /\ c \in C \cap KeyChar
  BY KeyRingTypes
<1> HIDE DEF C
<1>2. /\ head \in Slots
      /\ Holds([buf EXCEPT ![head] = c], (head + 1) % BUFLEN, tail, Append(ktyped, c), kgot)
  <2>1. Holds(buf, head, tail, ktyped, kgot) /\ Len(ktyped) - Len(kgot) < BUFLEN
    BY <1>0 DEF KeyRing
  <2> QED BY <1>1, <2>1, RingStores
<1>3. /\ buf' = [buf EXCEPT ![head] = c] /\ head' = (head + 1) % BUFLEN
      /\ ktyped' = Append(ktyped, c) /\ data' = data + 1
  BY <1>2, KeyRingTypes DEF Keys!Arrives, Keys!Store, Slots
<1>4. Len(ktyped') = Len(ktyped) + 1
  BY <1>1, <1>3, AppendProperties
<1> QED BY <1>2, <1>3, <1>4, KeyRingTypes DEF KeyRing

LEMMA ArrivalTypes ==
  ASSUME Sizes, Keys!TypeOK, NEW c \in KeyChar, Keys!Arrives(c),
         UNCHANGED <<keyset, tail, kgot>>, ksig' \subseteq Reader,
         kpc' \in [Reader -> {"user", "woken", "window", "asleep", "gone"}]
  PROVE  Keys!TypeOK'
<1>1. /\ buf' \in [Slots -> KeyChar \cup {Old}] /\ head' \in 0..BUFLEN
  <2>1. CASE head \in Slots /\ buf' = [buf EXCEPT ![head] = c] /\ head' = (head + 1) % BUFLEN
    <3>1. 1 \in 0..BUFLEN
      BY KeyRingTypes
    <3>2. head' \in Slots
      BY <2>1, <3>1, PlaceValue
    <3> QED BY <2>1, <3>2, KeyRingTypes
  <2>2. CASE head' \in Slots /\ UNCHANGED buf
    BY <2>2, KeyRingTypes
  <2> QED BY <2>1, <2>2, SameSlots DEF Keys!Arrives, Keys!Store
<1>2. ktyped' \in Seq(KeyChar)
  BY KeyRingTypes, AppendProperties DEF Keys!Arrives
<1>3. data' \in Nat /\ late' \in BOOLEAN /\ kspoilt' \in BOOLEAN
  BY KeyRingTypes DEF Keys!Arrives, Keys!InWindow
<1>4. Char \cup {Enter, Old} = KeyChar \cup {Old}
  BY DEF KeyChar
<1> QED BY <1>1, <1>2, <1>3, <1>4, SameSlots DEF Keys!TypeOK, KeyChar

LEMMA KeyKeeps ==
  ASSUME Sizes, KeysInv, NEW c \in KeyChar, Keys!Arrives(c),
         UNCHANGED <<keyset, tail, kgot>>, ksig' \subseteq Reader,
         kpc' \in [Reader -> {"user", "woken", "window", "asleep", "gone"}],
         \A p \in Reader : kpc'[p] # "asleep" /\ (kpc'[p] = "window" => kpc[p] = "window")
  PROVE  KeysInv'
<1>1. Keys!TypeOK'
  BY ArrivalTypes DEF KeysInv
<1>2. Sleepers'
  <2>1. ASSUME NEW p \in Reader, kpc'[p] \in {"window", "asleep"} PROVE late'
    <3>1. kpc[p] = "window"
      BY <2>1
    <3> QED BY <3>1 DEF Keys!Arrives, Keys!InWindow
  <2> QED BY <2>1 DEF Sleepers
<1>3. ASSUME ~ kspoilt' PROVE KeyRing'
  <2>1. ~ kspoilt
    BY <1>3, Zenon DEF Keys!Arrives
  <2> QED BY <1>3, <2>1, ArrivalRing DEF KeysInv
<1> QED BY <1>1, <1>2, <1>3 DEF KeysInv

(* Two characters arrive, the second one behind the first. *)
LEMMA ArrowKeeps ==
  ASSUME Sizes, KeysInv, NEW c \in Char, Keys!Arrow(c)
  PROVE  KeysInv'
<1>1. /\ head \in Slots /\ buf' = [buf EXCEPT ![head] = c, ![(head + 1) % BUFLEN] = Enter]
      /\ head' = (head + 2) % BUFLEN /\ data' = data + 2
      /\ ktyped' = ktyped \o <<c, Enter>>
      /\ late' = Keys!InWindow /\ kspoilt' = (kspoilt \/ data + 2 > BUFLEN)
      /\ kpc' = Keys!Woken /\ UNCHANGED <<keyset, tail, ksig, kgot>>
  BY SameSlots DEF Keys!Arrow
<1> DEFINE C == KeyChar \cup {Old}
<1>2. /\ Keys!TypeOK /\ BUFLEN \in Nat \ {0}
      /\ buf \in [Slots -> C] /\ tail \in Slots /\ ktyped \in Seq(KeyChar) /\ kgot \in Seq(C)
      /\ c \in C \cap KeyChar /\ Enter \in C \cap KeyChar
      /\ data \in Nat /\ Len(ktyped) \in Nat /\ Len(kgot) \in Nat /\ Slots \subseteq 0..BUFLEN
  BY KeyRingTypes DEF KeysInv, KeyChar
<1>3. ktyped' \in Seq(KeyChar) /\ ktyped' = Append(Append(ktyped, c), Enter)
      /\ Len(ktyped') = Len(ktyped) + 2
  <2>1. ktyped \o <<c, Enter>> = Append(Append(ktyped, c), Enter)
    BY <1>2
  <2>2. Append(ktyped, c) \in Seq(KeyChar) /\ Len(Append(ktyped, c)) = Len(ktyped) + 1
    BY <1>2, AppendProperties
  <2>3. /\ Append(Append(ktyped, c), Enter) \in Seq(KeyChar)
        /\ Len(Append(Append(ktyped, c), Enter)) = Len(ktyped) + 2
    BY <1>2, <2>2, AppendProperties
  <2> QED BY <1>1, <2>1, <2>3
<1> DEFINE b1 == [buf EXCEPT ![head] = c]
           h1 == (head + 1) % BUFLEN
<1>4. b1 \in [Slots -> C] /\ buf' = [b1 EXCEPT ![h1] = Enter] /\ h1 \in Slots
  <2>1. 1 \in 0..BUFLEN
    BY <1>2
  <2>2. h1 \in Slots
    BY <1>1, <2>1, PlaceValue
  <2> QED BY <1>1, <1>2, <2>2
<1>5. head' \in Slots
  BY <1>1, <1>2 DEF Slots
<1>6. Keys!TypeOK'
  <2>1. Char \cup {Enter, Old} = C
    BY DEF KeyChar
  <2>2. buf' \in [Slots -> C]
    BY <1>2, <1>4
  <2>3. late' \in BOOLEAN /\ kspoilt' \in BOOLEAN
    BY <1>1 DEF Keys!InWindow
  <2>4. kpc' \in [Reader -> {"user", "woken", "window", "asleep", "gone"}]
    BY <1>1, <1>2, WokenReaders
  <2> HIDE DEF C
  <2> QED BY <1>1, <1>2, <1>3, <1>5, <2>1, <2>2, <2>3, <2>4, SameSlots
          DEF Keys!TypeOK, KeyChar, KeysInv
<1>7. Sleepers'
  BY <1>1, <1>2, WokenReaders DEF Sleepers, Keys!InWindow
<1>8. ASSUME ~ kspoilt' PROVE KeyRing'
  <2>1. ~ kspoilt /\ ~ (data + 2 > BUFLEN)
    BY <1>1, <1>8, Zenon
  <2>2. KeyRing
    BY <2>1 DEF KeysInv
  <2>3. Len(ktyped) - Len(kgot) < BUFLEN /\ Len(Append(ktyped, c)) - Len(kgot) < BUFLEN
        /\ 1 \in 0..(BUFLEN - 1)
    <3>1. Len(Append(ktyped, c)) = Len(ktyped) + 1
      BY <1>2, AppendProperties
    <3> QED BY <1>2, <2>1, <2>2, <3>1 DEF KeyRing
  <2> HIDE DEF C
  <2>4. Holds(b1, h1, tail, Append(ktyped, c), kgot)
    BY <1>2, <2>2, <2>3, RingStores DEF KeyRing
  <2>5. Append(ktyped, c) \in Seq(KeyChar)
    BY <1>2, AppendProperties
  <2> DEFINE e1 == Append(ktyped, c)
  <2> HIDE DEF b1, h1, e1
  <2>6. Holds(buf', (h1 + 1) % BUFLEN, tail, ktyped', kgot)
    <3>1. /\ b1 \in [Slots -> C] /\ h1 \in Slots /\ e1 \in Seq(KeyChar)
          /\ Holds(b1, h1, tail, e1, kgot) /\ Len(e1) - Len(kgot) < BUFLEN
      BY <1>4, <2>3, <2>4, <2>5 DEF e1
    <3>2. Holds([b1 EXCEPT ![h1] = Enter], (h1 + 1) % BUFLEN, tail, Append(e1, Enter), kgot)
      BY <1>2, <3>1, RingStores
    <3> QED BY <1>3, <1>4, <3>2 DEF e1
  <2>7. (h1 + 1) % BUFLEN = head'
    BY <1>1, <2>3, PlaceOfNext DEF h1
  <2> QED BY <1>1, <1>2, <1>3, <2>2, <2>6, <2>7 DEF KeyRing
<1> QED BY <1>6, <1>7, <1>8 DEF KeysInv

(* kgetc() takes the oldest character. *)
LEMMA TakesKeeps ==
  ASSUME Sizes, Marked, KeysInv, NEW p \in Reader, NEW from \in {"user", "woken"},
         Keys!Take(p, from)
  PROVE  KeysInv'
<1>1. /\ data # 0 /\ tail' = (tail + 1) % BUFLEN /\ data' = data - 1
      /\ kgot' = IF p \in ksig /\ buf[tail] = Old THEN kgot ELSE Append(kgot, buf[tail])
      /\ kpc' = [kpc EXCEPT ![p] = "user"]
      /\ UNCHANGED <<keyset, buf, head, ksig, ktyped, late, kspoilt>>
  BY DEF Keys!Take
<1>2. /\ Keys!TypeOK /\ buf[tail] \in KeyChar \cup {Old} /\ 1 \in 0..BUFLEN
      /\ tail \in Slots /\ data \in Nat /\ Len(ktyped) \in Nat /\ Len(kgot) \in Nat
      /\ kgot \in Seq(KeyChar \cup {Old}) /\ ktyped \in Seq(KeyChar)
      /\ buf \in [Slots -> KeyChar \cup {Old}]
      /\ kpc \in [Reader -> {"user", "woken", "window", "asleep", "gone"}]
  BY KeyRingTypes DEF KeysInv
<1>3. /\ Append(kgot, buf[tail]) \in Seq(KeyChar \cup {Old})
      /\ Len(Append(kgot, buf[tail])) = Len(kgot) + 1
  BY <1>2, AppendProperties
<1>4. Keys!TypeOK'
  <2>1. kgot' \in Seq(KeyChar \cup {Old})
    BY <1>1, <1>2, <1>3
  <2>2. tail' \in Slots
    BY <1>1, <1>2, PlaceValue
  <2>3. kpc' \in [Reader -> {"user", "woken", "window", "asleep", "gone"}]
    BY <1>1, <1>2
  <2>4. Char \cup {Enter, Old} = KeyChar \cup {Old}
    BY DEF KeyChar
  <2>5. data' \in Nat
    BY <1>1, <1>2
  <2> QED BY <1>1, <1>2, <2>1, <2>2, <2>3, <2>4, <2>5, SameSlots DEF Keys!TypeOK
<1>5. Sleepers'
  <2>1. ASSUME NEW x \in Reader, kpc'[x] \in {"window", "asleep"} PROVE late' \/ kspoilt'
    <3>1. kpc[x] \in {"window", "asleep"} /\ data > 0
      BY <1>1, <1>2, <2>1
    <3> QED BY <1>1, <3>1 DEF KeysInv, Sleepers
  <2> QED BY <2>1 DEF Sleepers
<1>6. ASSUME ~ kspoilt PROVE KeyRing'
  <2>1. KeyRing /\ Len(ktyped) - Len(kgot) > 0
    BY <1>1, <1>2, <1>6 DEF KeysInv, KeyRing
  <2> DEFINE C == KeyChar \cup {Old}
  <2>2. buf \in [Slots -> C] /\ kgot \in Seq(C)
    BY <1>2
  <2> HIDE DEF C
  <2>3. /\ buf[tail] \in KeyChar
        /\ Holds(buf, head, (tail + 1) % BUFLEN, ktyped, Append(kgot, buf[tail]))
    BY <1>2, <2>1, <2>2, RingYields DEF KeyRing
  <2>4. kgot' = Append(kgot, buf[tail])
    BY <1>1, <2>3 DEF Marked, KeyChar
  <2> QED BY <1>1, <1>2, <1>3, <2>1, <2>3, <2>4 DEF KeyRing
<1> QED BY <1>1, <1>4, <1>5, <1>6 DEF KeysInv

(* kkill() stores what nobody typed, which spoils the ring. *)
LEMMA PretendKeeps ==
  ASSUME Sizes, KeysInv, Keys!Pretend, UNCHANGED <<keyset, tail, ktyped, kgot, late>>,
         ksig' \subseteq Reader,
         kpc' \in [Reader -> {"user", "woken", "window", "asleep", "gone"}]
  PROVE  KeysInv'
<1>1. /\ head < BUFLEN /\ buf' = [buf EXCEPT ![head] = Old] /\ head' = head + 1
      /\ data' = data + 1 /\ kspoilt' = TRUE
  BY DEF Keys!Pretend
<1>2. /\ head' \in 0..BUFLEN /\ data' \in Nat /\ buf' \in [Slots -> KeyChar \cup {Old}]
  <2>1. /\ head \in 0..BUFLEN /\ data \in Nat /\ BUFLEN \in Nat
        /\ buf \in [Slots -> KeyChar \cup {Old}]
    BY KeyRingTypes DEF KeysInv
  <2>2. buf' \in [Slots -> KeyChar \cup {Old}]
    BY <1>1, <2>1
  <2> QED BY <1>1, <2>1, <2>2
<1>3. Char \cup {Enter, Old} = KeyChar \cup {Old}
  BY DEF KeyChar
<1>4. Keys!TypeOK'
  BY <1>1, <1>2, <1>3, SameSlots DEF KeysInv, Keys!TypeOK
<1> QED BY <1>1, <1>4 DEF KeysInv, Sleepers

(* What leaves the ring alone and puts nobody to sleep beside a character. *)
LEMMA OutsideKeeps ==
  ASSUME Sizes, KeysInv, UNCHANGED <<keyset, buf, head, tail, data, ktyped, kgot, late, kspoilt>>,
         ksig' \subseteq Reader,
         kpc' \in [Reader -> {"user", "woken", "window", "asleep", "gone"}],
         \A p \in Reader : kpc'[p] \in {"window", "asleep"} =>
                             kpc[p] \in {"window", "asleep"} \/ data = 0
  PROVE  KeysInv'
<1>1. Keys!TypeOK'
  BY DEF KeysInv, Keys!TypeOK
<1>2. Sleepers'
  BY KeyRingTypes DEF KeysInv, Sleepers
<1>3. KeyRing' = KeyRing
  BY DEF KeyRing
<1> QED BY <1>1, <1>2, <1>3 DEF KeysInv

LEMMA KeysInit == Sizes /\ Keys!Init => KeysInv
<1> SUFFICES ASSUME Sizes, Keys!Init PROVE KeysInv
  OBVIOUS
<1>1. Holds(buf, 0, 0, <<>>, <<>>) /\ 0 \in Slots
  BY EmptyRing
<1>2. /\ ktyped = <<>> /\ kgot = <<>> /\ head = 0 /\ tail = 0 /\ data = 0
      /\ late = FALSE /\ kspoilt = FALSE /\ ksig = {} /\ keyset \in {1, 2}
      /\ kpc = [p \in Reader |-> "user"] /\ buf = [i \in Slots |-> Old]
  BY SameSlots DEF Keys!Init
<1>3. Keys!TypeOK
  <2>1. <<>> \in Seq(Char \cup {Enter}) /\ <<>> \in Seq(Char \cup {Enter, Old})
    BY EmptySeq
  <2>2. 0 \in 0..BUFLEN
    BY DEF Sizes
  <2> QED BY <1>1, <1>2, <2>1, <2>2, SameSlots DEF Keys!TypeOK
<1>4. KeyRing
  <2>1. Len(<<>>) = 0
    BY EmptySeq
  <2> QED BY <1>1, <1>2, <2>1 DEF KeyRing
<1> QED BY <1>2, <1>3, <1>4 DEF KeysInv, Sleepers

LEMMA KeysStep == ASSUME Sizes, Marked, KeysInv, [Keys!Next]_(Keys!vars) PROVE KeysInv'
<1>0. /\ kpc \in [Reader -> {"user", "woken", "window", "asleep", "gone"}]
      /\ Keys!Woken \in [Reader -> {"user", "woken", "window", "asleep", "gone"}]
      /\ \A p \in Reader :
           /\ Keys!Woken[p] # "asleep"
           /\ Keys!Woken[p] = "window" <=> kpc[p] = "window"
      /\ ksig \subseteq Reader
  BY KeyRingTypes, WokenReaders DEF KeysInv, Keys!TypeOK
<1>1. CASE UNCHANGED Keys!vars
  BY <1>0, <1>1, OutsideKeeps DEF Keys!vars, Keys!ring
<1>2. CASE Keys!ControlC
  <2>1. ksig' \subseteq Reader /\ UNCHANGED <<keyset, tail, kgot>> /\ Keys!ForcedLine
    BY <1>2 DEF Keys!ControlC
  <2>2. CASE /\ Keys!Arrives(Enter)
             /\ kpc' = [p \in Reader |-> IF kpc[p] = "window" THEN "gone" ELSE Keys!Woken[p]]
    <3>1. Enter \in KeyChar
      BY DEF KeyChar
    <3>2. /\ kpc' \in [Reader -> {"user", "woken", "window", "asleep", "gone"}]
          /\ \A p \in Reader : kpc'[p] # "asleep" /\ (kpc'[p] = "window" => kpc[p] = "window")
      BY <1>0, <2>2
    <3> QED BY <2>1, <2>2, <3>1, <3>2, KeyKeeps
  <2>3. CASE /\ kpc' = [p \in Reader |-> IF kpc[p] = "window" THEN "gone" ELSE kpc[p]]
             /\ UNCHANGED <<buf, head, data, ktyped, late, kspoilt>>
    BY <1>0, <2>1, <2>3, OutsideKeeps
  <2> QED BY <2>1, <2>2, <2>3 DEF Keys!ForcedLine
<1>3. ASSUME NEW c \in Char, Keys!Key(c) PROVE KeysInv'
  <2>1. Keys!Arrives(c) /\ kpc' = Keys!Woken /\ UNCHANGED <<keyset, tail, ksig, kgot>>
    BY <1>3 DEF Keys!Key
  <2>2. c \in KeyChar
    BY DEF KeyChar
  <2> QED BY <1>0, <2>1, <2>2, KeyKeeps
<1>4. ASSUME NEW c \in Char, Keys!Arrow(c) PROVE KeysInv'
  BY <1>4, ArrowKeeps
<1>5. CASE Keys!KillOther
  BY <1>0, <1>5, PretendKeeps DEF Keys!KillOther
<1>6. ASSUME NEW p \in Reader, Keys!Read(p) \/ Keys!KernelStep(p) \/ Keys!Kill(p) PROVE KeysInv'
  <2>1. ASSUME NEW from \in {"user", "woken"}, Keys!Take(p, from) PROVE KeysInv'
    BY <2>1, TakesKeeps
  <2>2. ASSUME NEW from \in {"user", "woken"}, Keys!Empty(p, from) PROVE KeysInv'
    BY <1>0, <2>2, OutsideKeeps DEF Keys!Empty, Keys!ring
  <2>3. CASE Keys!Sleep(p) \/ Keys!Die(p)
    BY <1>0, <2>3, OutsideKeeps DEF Keys!Sleep, Keys!Die, Keys!ring
  <2>4. CASE Keys!Kill(p)
    <3>1. ksig' \subseteq Reader /\ UNCHANGED <<keyset, tail, ktyped, kgot, late>>
      BY <1>0, <2>4 DEF Keys!Kill
    <3>2. CASE kpc' = Keys!Woken /\ Keys!Pretend
      BY <1>0, <3>1, <3>2, PretendKeeps
    <3>3. CASE UNCHANGED <<kpc, buf, head, data, kspoilt>>
      BY <1>0, <3>1, <3>3, OutsideKeeps
    <3> QED BY <2>4, <3>2, <3>3 DEF Keys!Kill
  <2> QED BY <1>6, <2>1, <2>2, <2>3, <2>4 DEF Keys!Read, Keys!KernelStep
<1> QED BY <1>1, <1>2, <1>3, <1>4, <1>5, <1>6 DEF Keys!Next, Keys!Interrupt

LEMMA KeysInvariant == ASSUME Sizes, Marked PROVE Keys!Spec => []KeysInv
<1>1. Keys!Init => KeysInv
  BY KeysInit
<1>2. KeysInv /\ [Keys!Next]_(Keys!vars) => KeysInv'
  BY KeysStep
<1> QED BY <1>1, <1>2, PTL DEF Keys!Spec

(* Every variable of the keyboard (driver/kbd.c) keeps its type: the ring's indexes stay in
   it, but for the one that a kill may push to its end. *)
THEOREM KeyTypes == ASSUME Sizes, Marked PROVE Keys!Spec => []Keys!TypeOK
<1>1. KeysInv => Keys!TypeOK
  BY DEF KeysInv
<1> QED BY <1>1, KeysInvariant, PTL

(* kgetc() (driver/kbd.c) returns what was typed, in order and each character once, although
   the handlers run at any point of it and do not all look whether the ring is full. *)
THEOREM KeysInOrder == ASSUME Sizes, Marked PROVE Keys!Spec => []Keys!InOrder
<1>1. KeysInv => Keys!InOrder
  <2> SUFFICES ASSUME KeysInv, ~ kspoilt PROVE IsPrefix(kgot, ktyped)
    BY DEF Keys!InOrder, Keys!IsPrefix, IsPrefix
  <2>1. Holds(buf, head, tail, ktyped, kgot)
    BY DEF KeysInv, KeyRing
  <2> QED BY <2>1, HeldPrefix, KeyRingTypes DEF KeysInv
<1> QED BY <1>1, KeysInvariant, PTL

(* kgetc() sleeps beside a character only if that came between its look and its sleep, when
   interrupts were unmasked (driver/kbd.c): the next character wakes everybody. *)
THEOREM SleepOnEmpty == ASSUME Sizes, Marked PROVE Keys!Spec => []Keys!SleepsOnEmpty
<1>1. KeysInv => Keys!SleepsOnEmpty
  BY DEF KeysInv, Sleepers, Keys!SleepsOnEmpty
<1> QED BY <1>1, KeysInvariant, PTL
-----------------------------------------------------------------------------
(* The timer queue *)

(* A node of the queue; the times are what kitimer() and the handler add up. *)
NodeCount == NNODE \in Nat /\ MaxTime \in Nat
Lists == Seq([time : Int, who : Proc, left : Int])

(* Only the first node of a list may have a negative time. *)
InOrderOfTime(q) == \A i \in 2..Len(q) : q[i].time >= 0
-----------------------------------------------------------------------------
LEMMA NodeFacts ==
  ASSUME NEW q \in Lists
  PROVE  /\ Len(q) \in Nat
         /\ \A i \in 1..Len(q) : q[i].time \in Int /\ q[i].left \in Int /\ q[i].who \in Proc
<1>1. /\ Len(q) \in Nat
      /\ \A i \in 1..Len(q) : q[i] \in [time : Int, who : Proc, left : Int]
  BY LenProperties, ElementOfSeq, Zenon DEF Lists
<1> QED BY <1>1

(* Until, a function that is defined by itself, is what its equation says. *)

LEMMA UntilExists ==
  ASSUME NEW n \in Nat, NEW q
  PROVE  \E u : u = [i \in 0..n |-> IF i = 0 THEN 0 ELSE u[i - 1] + q[i].time]
<1> DEFINE S == {m \in 0..n : \E u : u = [i \in 0..m |-> IF i = 0 THEN 0 ELSE u[i - 1] + q[i].time]}
<1>1. 0 \in S
  <2> DEFINE u == [i \in 0..0 |-> 0]
  <2>1. u = [i \in 0..0 |-> IF i = 0 THEN 0 ELSE u[i - 1] + q[i].time]
    OBVIOUS
  <2>2. \E f : f = [i \in 0..0 |-> IF i = 0 THEN 0 ELSE f[i - 1] + q[i].time]
    BY <2>1, Zenon
  <2> QED BY <2>2
<1>2. ASSUME NEW k \in 0..(n - 1), k \in S PROVE k + 1 \in S
  <2>1. PICK u : u = [i \in 0..k |-> IF i = 0 THEN 0 ELSE u[i - 1] + q[i].time]
    BY <1>2
  <2> DEFINE v == [i \in 0..(k + 1) |-> IF i = k + 1 THEN u[k] + q[k + 1].time ELSE u[i]]
             w == [i \in 0..(k + 1) |-> IF i = 0 THEN 0 ELSE v[i - 1] + q[i].time]
  <2>2. \A i \in 0..k : u[i] = IF i = 0 THEN 0 ELSE u[i - 1] + q[i].time
    BY <2>1
  <2>3. v[k + 1] = u[k] + q[k + 1].time /\ \A i \in 0..k : v[i] = u[i]
    OBVIOUS
  <2>4. \A i \in 0..(k + 1) : v[i] = IF i = 0 THEN 0 ELSE v[i - 1] + q[i].time
    <3> TAKE i \in 0..(k + 1)
    <3>1. CASE i = k + 1
      BY <2>3, <3>1
    <3>2. CASE i # k + 1
      <4>1. i \in 0..k /\ (i # 0 => i - 1 \in 0..k)
        BY <3>2
      <4> QED BY <2>2, <2>3, <4>1
    <3> QED BY <3>1, <3>2
  <2>5. v = w
    BY <2>4
  <2>6. k + 1 \in 0..n
    OBVIOUS
  <2> QED BY <2>5, <2>6
<1> HIDE DEF S
<1>3. \A k \in 0..(n - 1) : k \in S => k + 1 \in S
  BY <1>2
<1>4. n \in S
  BY <1>1, <1>3, IntervalInduction
<1> QED BY <1>4 DEF S

LEMMA UntilValue ==
  ASSUME NEW q \in Lists
  PROVE  /\ Timer!Until(q)[0] = 0
         /\ \A i \in 1..Len(q) : Timer!Until(q)[i] = Timer!Until(q)[i - 1] + q[i].time
         /\ \A i \in 0..Len(q) : Timer!Until(q)[i] \in Int
<1> DEFINE n == Len(q)
           u == Timer!Until(q)
<1>1. n \in Nat /\ \A i \in 1..n : q[i].time \in Int
  BY NodeFacts
<1>2. u = CHOOSE f : f = [i \in 0..n |-> IF i = 0 THEN 0 ELSE f[i - 1] + q[i].time]
  BY Zenon DEF Timer!Until
<1>3. u = [i \in 0..n |-> IF i = 0 THEN 0 ELSE u[i - 1] + q[i].time]
  BY <1>1, <1>2, UntilExists
<1> HIDE DEF n, u
<1>4. u[0] = 0 /\ \A i \in 1..n : u[i] = u[i - 1] + q[i].time
  <2>1. 0 \in 0..n /\ \A i \in 1..n : i \in 0..n /\ i # 0
    BY <1>1
  <2> QED BY <1>3, <2>1
<1> DEFINE S == {k \in 0..n : u[k] \in Int}
<1>5. 0 \in S /\ \A k \in 0..(n - 1) : k \in S => k + 1 \in S
  <2> SUFFICES ASSUME NEW k \in 0..(n - 1), k \in S PROVE k + 1 \in S
    BY <1>1, <1>4
  <2>1. k + 1 \in 1..n /\ (k + 1) - 1 = k
    BY <1>1
  <2> QED BY <1>1, <1>4, <2>1
<1> HIDE DEF S
<1>6. \A k \in 0..n : k \in S
  BY <1>1, <1>5, IntervalInduction
<1> QED BY <1>4, <1>6 DEF S, n, u

(* Later nodes are not due earlier. *)
LEMMA UntilMonotone ==
  ASSUME NEW q \in Lists, InOrderOfTime(q), NEW i \in 1..Len(q), NEW j \in i..Len(q)
  PROVE  Timer!Until(q)[i] <= Timer!Until(q)[j]
<1> DEFINE n == Len(q)
           u == Timer!Until(q)
           S == {k \in 0..n : i <= k => u[i] <= u[k]}
<1>1. /\ n \in Nat /\ \A k \in 1..n : u[k] = u[k - 1] + q[k].time
      /\ \A k \in 0..n : u[k] \in Int
  BY UntilValue, NodeFacts
<1>2. \A k \in 2..n : q[k].time \in Nat
  BY NodeFacts DEF InOrderOfTime
<1> HIDE DEF n, u
<1>3. 0 \in S
  BY <1>1 DEF n
<1>4. ASSUME NEW k \in 0..(n - 1), k \in S PROVE k + 1 \in S
  <2>1. k + 1 \in 1..n /\ (k + 1) - 1 = k /\ k \in 0..n /\ k + 1 \in 0..n
    BY <1>1
  <2>0. u[k + 1] = u[k] + q[k + 1].time /\ u[k] \in Int /\ u[k + 1] \in Int
    BY <1>1, <2>1
  <2>3. i \in Nat /\ i >= 1 /\ k \in Nat /\ i \in 0..n
    BY <1>1 DEF n
  <2>4. CASE i <= k
    <3>1. k + 1 \in 2..n
      BY <1>1, <2>1, <2>3, <2>4
    <3>2. u[k] <= u[k + 1]
      BY <1>2, <2>0, <3>1
    <3> QED BY <1>1, <1>4, <2>0, <2>1, <2>3, <2>4, <3>2
  <2>5. CASE i = k + 1
    BY <2>0, <2>1, <2>5
  <2>6. CASE i > k + 1
    BY <2>1, <2>3, <2>6
  <2> QED BY <2>3, <2>4, <2>5, <2>6
<1> HIDE DEF S
<1>5. \A k \in 0..(n - 1) : k \in S => k + 1 \in S
  BY <1>4
<1>6. \A k \in 0..n : k \in S
  BY <1>1, <1>3, <1>5, IntervalInduction
<1>7. j \in 0..n /\ i <= j
  BY <1>1 DEF n
<1> QED BY <1>6, <1>7 DEF S, n, u
-----------------------------------------------------------------------------
(* The list as kitimer() and the handler leave it. *)

LEMMA SoonerValue ==
  ASSUME NEW q \in Lists, NEW i \in 1..(Len(q) + 1), NEW d \in Int
  PROVE  LET s == Timer!Sooner(q, i, d)
         IN  /\ s \in Lists /\ Len(s) = Len(q)
             /\ \A j \in 1..Len(q) :
                  /\ s[j].time = IF j = i THEN q[j].time - d ELSE q[j].time
                  /\ s[j].left = q[j].left /\ s[j].who = q[j].who
<1> DEFINE N == [time : Int, who : Proc, left : Int]
           n == Len(q)
<1>1. n \in Nat /\ q \in [1..n -> N] /\ q \in Seq(N)
  BY LenProperties DEF Lists
<1>2. CASE i \in 1..n
  <2> DEFINE s == [q EXCEPT ![i].time = @ - d]
  <2>1. Timer!Sooner(q, i, d) = s
    BY <1>2 DEF Timer!Sooner
  <2>2. i <= n
    BY <1>1, <1>2
  <2>3. q[i].time - d \in Int /\ q[i] \in N
    BY <1>1, <1>2, <2>2
  <2>4. s = [q EXCEPT ![i] = [q[i] EXCEPT !.time = q[i].time - d]]
    OBVIOUS
  <2>5. [q[i] EXCEPT !.time = q[i].time - d] \in N
    BY <2>3
  <2>6. s \in [1..n -> N]
    BY <1>1, <2>4, <2>5
  <2>7. s \in Seq(N) /\ Len(s) = n
    BY <1>1, <2>6
  <2>8. \A j \in 1..n : /\ s[j].time = IF j = i THEN q[j].time - d ELSE q[j].time
                        /\ s[j].left = q[j].left /\ s[j].who = q[j].who
    BY <1>1, <2>3, <2>4
  <2> QED BY <2>1, <2>7, <2>8 DEF Lists
<1>3. CASE i \notin 1..n
  <2>1. Timer!Sooner(q, i, d) = q
    BY <1>3 DEF Timer!Sooner
  <2>2. \A j \in 1..n : j # i
    BY <1>3
  <2> QED BY <1>1, <2>1, <2>2 DEF Lists
<1> QED BY <1>2, <1>3

LEMMA InsertValue ==
  ASSUME NEW S, NEW s \in Seq(S), NEW i \in 1..(Len(s) + 1), NEW e \in S
  PROVE  LET r == Timer!InsertAt(s, i, e)
         IN  /\ r \in Seq(S) /\ Len(r) = Len(s) + 1
             /\ r[i] = e
             /\ \A j \in 1..(i - 1) : r[j] = s[j]
             /\ \A j \in i..Len(s) : r[j + 1] = s[j]
<1> DEFINE a == SubSeq(s, 1, i - 1)
           b == SubSeq(s, i, Len(s))
<1>1. Len(s) \in Nat /\ i \in Nat /\ i >= 1 /\ i <= Len(s) + 1
      /\ \A j \in 1..Len(s) : s[j] \in S
  BY LenProperties, ElementOfSeq
<1>2. a \in Seq(S) /\ Len(a) = i - 1 /\ \A j \in 1..(i - 1) : a[j] = s[j]
  BY <1>1
<1>3. b \in Seq(S) /\ Len(b) = Len(s) - i + 1 /\ \A j \in 1..(Len(s) - i + 1) : b[j] = s[i + j - 1]
  BY <1>1
<1>4. <<e>> \in Seq(S) /\ Len(<<e>>) = 1 /\ <<e>>[1] = e
  OBVIOUS
<1> DEFINE c == <<e>>
<1>5. c \in Seq(S) /\ Len(c) = 1 /\ c[1] = e
  BY <1>4
<1>6. Timer!InsertAt(s, i, e) = (a \o c) \o b
  BY DEF Timer!InsertAt
<1> HIDE DEF a, b, c
<1>7. /\ a \o c \in Seq(S) /\ Len(a \o c) = Len(a) + Len(c)
      /\ \A j \in 1..(Len(a) + Len(c)) : (a \o c)[j] = IF j <= Len(a) THEN a[j] ELSE c[j - Len(a)]
  BY <1>2, <1>5, ConcatProperties, Zenon
<1> DEFINE h == a \o c
<1>8. h \in Seq(S) /\ Len(h) = i /\ h[i] = e /\ \A j \in 1..(i - 1) : h[j] = s[j]
  <2>0. Len(a) = i - 1 /\ Len(c) = 1 /\ i \in Nat /\ i >= 1
    BY <1>1, <1>2, <1>5
  <2>1. Len(a) + Len(c) = i /\ i \in 1..i /\ ~ (i <= Len(a)) /\ i - Len(a) = 1
    BY <2>0
  <2>2. h[i] = e
    BY <1>5, <1>7, <2>1
  <2>3. \A j \in 1..(i - 1) : h[j] = s[j]
    <3> TAKE j \in 1..(i - 1)
    <3>1. j \in 1..i /\ j <= Len(a)
      BY <1>1, <1>2
    <3> QED BY <1>2, <1>7, <2>1, <3>1
  <2> QED BY <1>7, <2>1, <2>2, <2>3
<1> HIDE DEF h
<1>9. /\ h \o b \in Seq(S) /\ Len(h \o b) = Len(h) + Len(b)
      /\ \A j \in 1..(Len(h) + Len(b)) : (h \o b)[j] = IF j <= Len(h) THEN h[j] ELSE b[j - Len(h)]
  BY <1>3, <1>8, ConcatProperties, Zenon
<1> DEFINE r == h \o b
<1>10. Len(h) + Len(b) = Len(s) + 1
  BY <1>1, <1>3, <1>8
<1>11. r[i] = e
  BY <1>1, <1>8, <1>9, <1>10
<1>12. \A j \in 1..(i - 1) : r[j] = s[j]
  <2> TAKE j \in 1..(i - 1)
  <2>1. j \in 1..(Len(s) + 1) /\ j <= Len(h)
    BY <1>1, <1>8
  <2> QED BY <1>8, <1>9, <1>10, <2>1
<1>13. \A j \in i..Len(s) : r[j + 1] = s[j]
  <2> TAKE j \in i..Len(s)
  <2>1. /\ j + 1 \in 1..(Len(s) + 1) /\ ~ (j + 1 <= Len(h))
        /\ (j + 1) - Len(h) \in 1..(Len(s) - i + 1)
        /\ i + ((j + 1) - Len(h)) - 1 = j
    BY <1>1, <1>8
  <2> QED BY <1>3, <1>9, <1>10, <2>1
<1> QED BY <1>6, <1>9, <1>10, <1>11, <1>12, <1>13 DEF h
-----------------------------------------------------------------------------
(* The inductive invariant.  That a node has time left does not last by itself: a
   second is taken from the first node that has more than one, on behalf of all
   behind it.  What lasts is that no node is due, by the list, later than it has
   to wait for. *)
Promised(q) ==
  \A i \in 1..Len(q) : q[i].left > 0 /\ Timer!Until(q)[i] <= q[i].left
TimerInv ==
  /\ tq \in Lists /\ InOrderOfTime(tq) /\ Promised(tq)
  /\ free \in 0..NNODE /\ free + Len(tq) = NNODE
  /\ signal \subseteq Proc /\ wild \in BOOLEAN

(* The place of a request: behind all that are due by then. *)
LEMMA PlaceOfTime ==
  ASSUME NEW q \in Lists, NEW t \in Int
  PROVE  /\ Timer!Place(q, t) \in 1..(Len(q) + 1)
         /\ \A j \in 1..(Timer!Place(q, t) - 1) : Timer!Until(q)[j] <= t
         /\ Timer!Place(q, t) <= Len(q) => Timer!Until(q)[Timer!Place(q, t)] > t
<1> DEFINE n == Len(q)
           u == Timer!Until(q)
           after == {i \in 1..n : u[i] > t} \cup {n + 1}
           i == Timer!Min(after)
<1>1. n \in Nat /\ \A k \in 0..n : u[k] \in Int
  BY UntilValue, NodeFacts
<1>2. after \subseteq Nat /\ after # {}
  BY <1>1
<1>3. i \in after /\ \A k \in after : i <= k
  BY <1>2, MinOfNats DEF Timer!Min, Min
<1>4. Timer!Place(q, t) = i
  BY DEF Timer!Place
<1> HIDE DEF n, u, i
<1>5. i \in 1..(n + 1) /\ (i <= n => u[i] > t)
  BY <1>1, <1>3
<1>6. \A j \in 1..(i - 1) : u[j] <= t
  <2> TAKE j \in 1..(i - 1)
  <2>1. j \in 1..n /\ ~ (i <= j) /\ j \in 0..n
    BY <1>1, <1>5
  <2>2. j \notin after
    BY <1>3, <2>1
  <2> QED BY <1>1, <2>1, <2>2
<1> QED BY <1>4, <1>5, <1>6 DEF n, u

LEMMA ItimerKeeps ==
  ASSUME NodeCount, TimerInv, NEW p \in Proc, NEW t \in Int, Timer!Itimer(p, t)
  PROVE  TimerInv'
<1> DEFINE n == Len(tq)
           u == Timer!Until(tq)
           i == Timer!Place(tq, t)
           d == t - u[i - 1]
           node == [time |-> d, who |-> p, left |-> IF t > 0 THEN t ELSE 1]
           s == Timer!Sooner(tq, i, d)
<1>0. tq \in Lists
  BY DEF TimerInv
<1>1. /\ n \in Nat /\ u[0] = 0 /\ \A k \in 0..n : u[k] \in Int
      /\ \A k \in 1..n : u[k] = u[k - 1] + tq[k].time
      /\ \A k \in 1..n : tq[k].time \in Int /\ tq[k].left \in Int
      /\ \A k \in 2..n : tq[k].time >= 0
  BY <1>0, UntilValue, NodeFacts DEF TimerInv, InOrderOfTime
<1>2. i \in 1..(n + 1) /\ (\A j \in 1..(i - 1) : u[j] <= t) /\ (i <= n => u[i] > t)
  BY <1>0, PlaceOfTime
<1>3. tq' = Timer!InsertAt(s, i, node)
  BY DEF Timer!Itimer
<1> HIDE DEF n, u, i
<1>4. i - 1 \in 0..n /\ u[i - 1] \in Int /\ d \in Int /\ (i > 1 => d >= 0)
  <2>1. i - 1 \in 0..n /\ (i > 1 => i - 1 \in 1..(i - 1))
    BY <1>1, <1>2
  <2> QED BY <1>1, <1>2, <2>1
<1>5. i <= n => tq[i].time - d = u[i] - t /\ tq[i].time - d >= 0
  <2> SUFFICES ASSUME i <= n PROVE tq[i].time - d = u[i] - t /\ tq[i].time - d >= 0
    OBVIOUS
  <2>1. i \in 1..n /\ i \in 0..n
    BY <1>2
  <2>2. u[i] = u[i - 1] + tq[i].time /\ u[i] > t /\ u[i] \in Int
    BY <1>1, <1>2, <2>1
  <2> QED BY <1>0, <1>1, <1>4, <2>1, <2>2
<1> HIDE DEF d
<1>6. /\ s \in Lists /\ Len(s) = n
      /\ \A j \in 1..n : /\ s[j].time = IF j = i THEN tq[j].time - d ELSE tq[j].time
                         /\ s[j].left = tq[j].left /\ s[j].who = tq[j].who
  BY <1>0, <1>2, <1>4, SoonerValue DEF n
<1> HIDE DEF s
<1>7. node \in [time : Int, who : Proc, left : Int]
  BY <1>4
<1>8. node.time = d /\ node.left = (IF t > 0 THEN t ELSE 1)
  OBVIOUS
<1> HIDE DEF node
<1> DEFINE r == tq'
           v == Timer!Until(tq)'
<1>9. /\ r \in Lists /\ Len(r) = n + 1 /\ r[i] = node
      /\ \A j \in 1..(i - 1) : r[j] = s[j]
      /\ \A j \in i..n : r[j + 1] = s[j]
  <2> DEFINE N == [time : Int, who : Proc, left : Int]
  <2>1. s \in Seq(N) /\ i \in 1..(Len(s) + 1) /\ node \in N
    BY <1>2, <1>6, <1>7 DEF Lists
  <2> HIDE DEF N
  <2>2. /\ r \in Seq(N) /\ Len(r) = Len(s) + 1 /\ r[i] = node
        /\ \A j \in 1..(i - 1) : r[j] = s[j]
        /\ \A j \in i..Len(s) : r[j + 1] = s[j]
    BY <1>3, <2>1, InsertValue
  <2> QED BY <1>6, <2>2 DEF Lists, N
<1>10. v = Timer!Until(r)
  BY DEF Timer!Until
<1>11. v[0] = 0 /\ \A j \in 1..(n + 1) : v[j] = v[j - 1] + r[j].time
  BY <1>9, <1>10, UntilValue
<1> HIDE DEF r, v
<1> DEFINE S == {j \in 0..(n + 1) : v[j] = IF j < i THEN u[j] ELSE IF j = i THEN t ELSE u[j - 1]}
<1>12. 0 \in S
  BY <1>1, <1>2, <1>11
<1>13. ASSUME NEW k \in 0..n, k \in S PROVE k + 1 \in S
  <2>1. /\ k + 1 \in 1..(n + 1) /\ (k + 1) - 1 = k /\ v[k + 1] = v[k] + r[k + 1].time
        /\ k \in Nat /\ i \in Nat
    BY <1>1, <1>2, <1>11
  <2>2. CASE k + 1 < i
    <3>1. k + 1 \in 1..(i - 1) /\ k + 1 \in 1..n /\ k < i /\ k + 1 # i
      BY <1>1, <1>2, <2>1, <2>2
    <3>2. r[k + 1].time = tq[k + 1].time
      BY <1>6, <1>9, <3>1
    <3>3. u[k + 1] = u[k] + tq[k + 1].time
      BY <1>1, <2>1, <3>1
    <3> QED BY <1>13, <2>1, <2>2, <3>1, <3>2, <3>3
  <2>3. CASE k + 1 = i
    <3>1. v[k] = u[i - 1] /\ r[k + 1].time = d
      BY <1>8, <1>9, <1>13, <2>1, <2>3
    <3> QED BY <1>0, <1>4, <2>1, <2>3, <3>1 DEF d
  <2>4. CASE k = i
    <3>1. k \in i..n /\ k \in 1..n /\ i <= n
      BY <1>2, <2>1, <2>4
    <3>2. r[k + 1].time = tq[i].time - d
      BY <1>6, <1>9, <2>4, <3>1
    <3>3. v[k] = t /\ v[k + 1] = t + (u[i] - t) /\ u[i] \in Int
      BY <1>1, <1>5, <1>13, <2>1, <2>4, <3>1, <3>2
    <3>4. v[k + 1] = u[k]
      BY <1>0, <2>4, <3>3
    <3> QED BY <2>1, <2>4, <3>4
  <2>5. CASE k > i
    <3>1. k \in i..n /\ k \in 1..n /\ k # i /\ ~ (k < i) /\ ~ (k + 1 < i) /\ k + 1 # i
      BY <1>2, <2>1, <2>5
    <3>2. r[k + 1].time = tq[k].time
      BY <1>6, <1>9, <3>1
    <3>3. v[k] = u[k - 1] /\ u[k] = u[k - 1] + tq[k].time
      BY <1>1, <1>13, <3>1
    <3> QED BY <2>1, <3>1, <3>2, <3>3
  <2> QED BY <2>1, <2>2, <2>3, <2>4, <2>5
<1> HIDE DEF S
<1>14. \A k \in 0..((n + 1) - 1) : k \in S => k + 1 \in S
  BY <1>1, <1>13
<1>15. \A k \in 0..(n + 1) : k \in S
  BY <1>1, <1>12, <1>14, IntervalInduction, SMTT(20)
<1>16. ASSUME NEW j \in 1..(n + 1)
       PROVE  r[j].left > 0 /\ v[j] <= r[j].left /\ (j > 1 => r[j].time >= 0)
  <2>0. v[j] = (IF j < i THEN u[j] ELSE IF j = i THEN t ELSE u[j - 1]) /\ j \in Nat /\ i \in Nat
    BY <1>1, <1>2, <1>15 DEF S
  <2>a. \A k \in 1..n : tq[k].left > 0 /\ u[k] <= tq[k].left
    BY DEF TimerInv, Promised, n, u
  <2>1. CASE j < i
    <3>1. j \in 1..(i - 1) /\ j \in 1..n /\ j # i /\ (j > 1 => j \in 2..n)
      BY <1>1, <1>2, <2>0, <2>1
    <3>2. r[j].time = tq[j].time /\ r[j].left = tq[j].left /\ v[j] = u[j]
      BY <1>6, <1>9, <2>0, <2>1, <3>1
    <3> QED BY <1>1, <2>a, <3>1, <3>2
  <2>2. CASE j = i
    BY <1>4, <1>8, <1>9, <2>0, <2>2
  <2>3. CASE j > i
    <3>1. j - 1 \in i..n /\ j - 1 \in 1..n /\ (j - 1) + 1 = j
      BY <1>1, <1>2, <2>0, <2>3
    <3>2. r[j].left = tq[j - 1].left /\ v[j] = u[j - 1]
      BY <1>6, <1>9, <2>0, <2>3, <3>1
    <3>3. r[j].time = s[j - 1].time
      BY <1>9, <3>1
    <3>4. CASE j - 1 = i
      BY <1>5, <1>6, <2>a, <3>1, <3>2, <3>3, <3>4
    <3>5. CASE j - 1 # i
      <4>1. j - 1 \in 2..n /\ s[j - 1].time = tq[j - 1].time
        BY <1>1, <1>2, <1>6, <2>0, <2>3, <3>1, <3>5
      <4> QED BY <1>1, <2>a, <3>1, <3>2, <3>3, <4>1
    <3> QED BY <3>4, <3>5
  <2> QED BY <2>0, <2>1, <2>2, <2>3
<1>17. free' \in 0..NNODE /\ free' + Len(r) = NNODE /\ signal' \subseteq Proc
  <2>1. free \in 0..NNODE /\ free + n = NNODE /\ NNODE \in Nat /\ signal \subseteq Proc
    BY DEF TimerInv, NodeCount, n
  <2>2. free > 0 /\ free' = free - 1 /\ signal' = signal
    BY DEF Timer!Itimer
  <2>3. Len(r) = n + 1
    BY <1>9
  <2>4. free' \in 0..NNODE /\ free' + Len(r) = NNODE
    BY <1>1, <2>1, <2>2, <2>3
  <2> QED BY <2>1, <2>2, <2>4
<1>18. wild' \in BOOLEAN
  <2>1. wild' = wild
    BY DEF Timer!Itimer
  <2> QED BY <2>1 DEF TimerInv
<1>19. InOrderOfTime(r)
  <2>1. \A j \in 2..(n + 1) : j \in 1..(n + 1) /\ j > 1
    BY <1>1
  <2> QED BY <1>9, <1>16, <2>1 DEF InOrderOfTime
<1> QED BY <1>9, <1>16, <1>17, <1>18, <1>19 DEF TimerInv, InOrderOfTime, Promised, r, v

(* How far the handler's loop goes. *)
LEMMA SecondStops ==
  ASSUME NEW q \in Lists
  PROVE  LET n == Timer!Min({i \in 1..Len(q) : q[i].time > 1} \cup {Len(q) + 1})
         IN  n \in 1..(Len(q) + 1) /\ (n <= Len(q) => q[n].time > 1)
<1> DEFINE after == {i \in 1..Len(q) : q[i].time > 1} \cup {Len(q) + 1}
<1>1. Len(q) \in Nat
  BY NodeFacts
<1>2. after \subseteq Nat /\ after # {}
  BY <1>1
<1>3. Timer!Min(after) \in after
  BY <1>2, MinOfNats DEF Timer!Min, Min
<1> QED BY <1>1, <1>3

LEMMA SecondKeeps ==
  ASSUME NodeCount, TimerInv, Timer!Second
  PROVE  TimerInv'
<1> DEFINE n == Len(tq)
           u == Timer!Until(tq)
           x == Timer!Min({i \in 1..Len(tq) : tq[i].time > 1} \cup {Len(tq) + 1})
           s == Timer!Sooner(tq, x, 1)
           rest == SubSeq(s, x, n)
           m == n - x + 1
           r == tq'
           v == Timer!Until(tq)'
<1>0. tq \in Lists /\ InOrderOfTime(tq) /\ tq # <<>>
  BY DEF TimerInv, Timer!Second
<1>1. /\ n \in Nat /\ n >= 1 /\ u[0] = 0 /\ \A k \in 0..n : u[k] \in Int
      /\ \A k \in 1..n : u[k] = u[k - 1] + tq[k].time
      /\ \A k \in 1..n : tq[k].time \in Int /\ tq[k].left \in Int /\ tq[k].who \in Proc
      /\ \A k \in 2..n : tq[k].time >= 0
  <2>1. n >= 1
    BY <1>0, NilIsShort DEF Lists
  <2> QED BY <1>0, <2>1, UntilValue, NodeFacts DEF InOrderOfTime
<1>2. x \in 1..(n + 1) /\ (x <= n => tq[x].time > 1)
  BY <1>0, SecondStops
<1>3. /\ tq' = [i \in 1..Len(rest) |-> [rest[i] EXCEPT !.left = @ - 1 + Timer!PutOff]]
      /\ signal' = signal \cup {tq[i].who : i \in 1..(x - 1)}
      /\ free' = free + (x - 1)
  BY DEF Timer!Second
<1>4. \A k \in 1..n : u[k] <= tq[k].left
  BY DEF TimerInv, Promised
<1>5. \A k \in x..n : u[x] <= u[k]
  <2> TAKE k \in x..n
  <2>1. x \in 1..n
    BY <1>1, <1>2
  <2> QED BY <1>0, <2>1, UntilMonotone
(* By what a negative time puts the others off, it brings forward when the list says
   that they are due. *)
<1> DEFINE o == Timer!PutOff
<1>6. o \in Nat /\ u[x - 1] >= - o
  <2>1. o = (IF tq[1].time < 0 THEN - tq[1].time ELSE 0) /\ tq[1].time \in Int
    BY <1>1 DEF Timer!PutOff
  <2>2. CASE x = 1
    BY <1>1, <2>1, <2>2
  <2>3. CASE x # 1
    <3>1. 1 \in 1..n /\ x - 1 \in 1..n /\ x - 1 \in 0..n
      BY <1>1, <1>2, <2>3
    <3>2. u[1] <= u[x - 1]
      <4>1. x - 1 \in 1..Len(tq)
        BY <3>1
      <4> QED BY <1>0, <1>1, <4>1, UntilMonotone
    <3>3. u[1] = tq[1].time /\ u[x - 1] \in Int
      BY <1>1, <3>1
    <3> QED BY <2>1, <3>2, <3>3
  <2> QED BY <2>2, <2>3
<1> HIDE DEF o
<1> HIDE DEF n, u, x
<1>7. /\ s \in Lists /\ Len(s) = n
      /\ \A j \in 1..n : /\ s[j].time = IF j = x THEN tq[j].time - 1 ELSE tq[j].time
                         /\ s[j].left = tq[j].left /\ s[j].who = tq[j].who
  BY <1>0, <1>2, SoonerValue DEF n
<1> HIDE DEF s
<1>8. m \in Nat /\ rest \in Lists /\ Len(rest) = m /\ \A j \in 1..m : rest[j] = s[x + j - 1]
  <2> DEFINE N == [time : Int, who : Proc, left : Int]
  <2>1. m \in Nat /\ x \in Nat /\ n \in Nat
    BY <1>1, <1>2
  <2>2. \A j \in x..n : s[j] \in N
    <3>1. s \in Seq(N) /\ Len(s) = n
      BY <1>7 DEF Lists
    <3>2. \A j \in 1..n : s[j] \in N
      BY <3>1, ElementOfSeq
    <3> QED BY <1>2, <2>1, <3>2
  <2> HIDE DEF N
  <2>3. /\ rest \in Seq(N) /\ Len(rest) = (IF x <= n THEN n - x + 1 ELSE 0)
        /\ \A j \in 1..(n - x + 1) : rest[j] = s[x + j - 1]
    BY <2>1, <2>2, SubSeqProperties
  <2>4. Len(rest) = m
    BY <1>2, <2>1, <2>3
  <2> QED BY <2>1, <2>3, <2>4 DEF Lists, N
<1> HIDE DEF rest
<1>9. ASSUME NEW j \in 1..m
      PROVE  /\ x + j - 1 \in 1..n /\ x + j - 1 \in x..n
             /\ r[j] \in [time : Int, who : Proc, left : Int]
             /\ r[j].time = IF j = 1 THEN tq[x].time - 1 ELSE tq[x + j - 1].time
             /\ r[j].left = tq[x + j - 1].left - 1 + o
  <2>1. x + j - 1 \in 1..n /\ x + j - 1 \in x..n /\ (x + j - 1 = x <=> j = 1)
    BY <1>1, <1>2
  <2>2. r[j] = [rest[j] EXCEPT !.left = @ - 1 + o] /\ rest[j] \in [time : Int, who : Proc, left : Int]
    <3>1. rest[j] \in [time : Int, who : Proc, left : Int]
      BY <1>8, ElementOfSeq, Zenon DEF Lists
    <3> QED BY <1>3, <1>8, <3>1 DEF o
  <2>3. /\ rest[j].left = tq[x + j - 1].left
        /\ rest[j].time = IF j = 1 THEN tq[x].time - 1 ELSE tq[x + j - 1].time
    BY <1>7, <1>8, <2>1
  <2>4. rest[j].left - 1 + o \in Int
    BY <1>1, <1>6, <2>1, <2>3
  <2> QED BY <2>1, <2>2, <2>3, <2>4
<1>10. r \in Lists /\ Len(r) = m
  <2>1. r \in [1..m -> [time : Int, who : Proc, left : Int]]
    BY <1>3, <1>8, <1>9
  <2> DEFINE N == [time : Int, who : Proc, left : Int]
  <2>2. r \in [1..m -> N]
    BY <2>1
  <2> HIDE DEF N
  <2>3. r \in Seq(N) /\ Len(r) = m
    BY <1>8, <2>2
  <2> QED BY <2>3 DEF Lists, N
<1>11. v = Timer!Until(r)
  BY DEF Timer!Until
<1>12. v[0] = 0 /\ \A j \in 1..m : v[j] = v[j - 1] + r[j].time
  BY <1>10, <1>11, UntilValue
<1> HIDE DEF m, r, v
<1>m. m \in Nat /\ m = n - x + 1
  BY <1>8 DEF m
<1> DEFINE S == {j \in 0..m : j # 0 => v[j] = u[x + j - 1] - u[x - 1] - 1}
<1>13. 0 \in S
  BY <1>m
<1>x. x - 1 \in 0..n /\ u[x - 1] \in Int /\ x \in Nat
  BY <1>1, <1>2
<1>14. ASSUME NEW k \in 0..(m - 1), k \in S PROVE k + 1 \in S
  <2>1. k + 1 \in 1..m /\ k + 1 \in 0..m /\ (k + 1) - 1 = k /\ x + (k + 1) - 1 = x + k
    BY <1>m, <1>x
  <2>2. v[k + 1] = v[k] + r[k + 1].time /\ x + k \in 1..n
    BY <1>9, <1>12, <2>1
  <2>3. u[x + k] = u[(x + k) - 1] + tq[x + k].time /\ u[x + k] \in Int /\ tq[x + k].time \in Int
    BY <1>1, <2>2
  <2>4. CASE k = 0
    <3>1. v[k + 1] = tq[x].time - 1 /\ x + k = x
      BY <1>9, <1>12, <1>x, <2>1, <2>2, <2>4
    <3>2. u[x] = u[x - 1] + tq[x].time /\ u[x] \in Int
      BY <2>3, <3>1
    <3> QED BY <1>1, <1>x, <2>1, <2>2, <3>1, <3>2
  <2>5. CASE k # 0
    <3>1. v[k] = u[x + k - 1] - u[x - 1] - 1 /\ r[k + 1].time = tq[x + k].time
      BY <1>9, <1>14, <2>1, <2>5
    <3>2. x + k - 1 \in 0..n /\ u[x + k - 1] \in Int
      BY <1>1, <1>x, <2>2
    <3> QED BY <1>x, <2>1, <2>2, <2>3, <3>1, <3>2
  <2> QED BY <2>4, <2>5
<1> HIDE DEF S
<1>15. \A k \in 0..m : k \in S
  <2>1. \A k \in 0..(m - 1) : k \in S => k + 1 \in S
    BY <1>14
  <2> QED BY <1>m, <1>13, <2>1, IntervalInduction
<1>16. ASSUME NEW j \in 1..m
       PROVE  r[j].time >= 0 /\ r[j].left > 0 /\ v[j] <= r[j].left
  <2> DEFINE y == x + j - 1
  <2>1. /\ y \in 1..n /\ y \in x..n
        /\ r[j].time = (IF j = 1 THEN tq[x].time - 1 ELSE tq[y].time)
        /\ r[j].left = tq[y].left - 1 + o /\ (j # 1 => y \in 2..n)
    BY <1>9, <1>x
  <2>2. v[j] = u[y] - u[x - 1] - 1
    BY <1>15, <1>m DEF S
  <2> HIDE DEF y
  <2>3. x \in 1..n /\ x <= n
    BY <1>1, <1>x, <1>2, <2>1
  <2>4. /\ u[y] <= tq[y].left
        /\ u[y] \in Int /\ tq[y].left \in Int /\ tq[x].time \in Int /\ tq[x].time > 1
        /\ u[x] <= u[y] /\ u[x] = u[x - 1] + tq[x].time /\ u[x] \in Int
    BY <1>1, <1>2, <1>4, <1>5, <2>1, <2>3
  <2>5. v[j] >= 1 /\ v[j] <= r[j].left
    BY <1>6, <1>x, <2>1, <2>2, <2>4
  <2>6. r[j].time >= 0
    BY <1>1, <2>1, <2>4
  <2>7. r[j].left \in Int
    BY <1>6, <2>1, <2>4
  <2> QED BY <1>x, <2>2, <2>4, <2>5, <2>6, <2>7
<1>17. free' \in 0..NNODE /\ free' + Len(r) = NNODE /\ signal' \subseteq Proc
  <2>1. free \in 0..NNODE /\ free + n = NNODE /\ NNODE \in Nat /\ signal \subseteq Proc
    BY DEF TimerInv, NodeCount, n
  <2>2. \A i \in 1..(x - 1) : tq[i].who \in Proc
    BY <1>1, <1>2
  <2>3. signal' \subseteq Proc
    BY <1>3, <2>1, <2>2
  <2>4. free' = free + (x - 1) /\ Len(r) = n - x + 1
    BY <1>3, <1>10, <1>m
  <2> QED BY <1>1, <1>2, <1>x, <2>1, <2>3, <2>4
<1>18. wild' \in BOOLEAN
  BY DEF Timer!Second, TimerInv
<1>19. InOrderOfTime(r)
  <2>1. \A j \in 2..m : j \in 1..m
    BY <1>m
  <2> QED BY <1>10, <1>16, <2>1 DEF InOrderOfTime
<1> QED BY <1>10, <1>16, <1>17, <1>18, <1>19 DEF TimerInv, InOrderOfTime, Promised, r, v

LEMMA TimerInvariant == ASSUME NodeCount PROVE Timer!Spec => []TimerInv
<1>1. Timer!Init => TimerInv
  <2>1. <<>> \in Lists /\ Len(<<>>) = 0
    BY EmptySeq DEF Lists
  <2> SUFFICES ASSUME Timer!Init PROVE TimerInv
    OBVIOUS
  <2>2. tq = <<>> /\ free = NNODE /\ signal = {} /\ wild = FALSE /\ NNODE \in Nat
    BY DEF Timer!Init, NodeCount
  <2>3. tq \in Lists /\ Len(tq) = 0
    BY <2>1, <2>2
  <2>4. InOrderOfTime(tq) /\ Promised(tq)
    BY <2>3 DEF InOrderOfTime, Promised
  <2>5. free \in 0..NNODE /\ free + Len(tq) = NNODE
    BY <2>2, <2>3
  <2> QED BY <2>2, <2>3, <2>4, <2>5 DEF TimerInv
<1>2. TimerInv /\ [Timer!Next]_(Timer!vars) => TimerInv'
  <2> SUFFICES ASSUME TimerInv, [Timer!Next]_(Timer!vars) PROVE TimerInv'
    OBVIOUS
  <2>1. CASE Timer!Second
    BY <2>1, SecondKeeps
  <2>2. ASSUME NEW p \in Proc, NEW t \in (-MaxTime)..MaxTime, Timer!Itimer(p, t) PROVE TimerInv'
    <3>1. t \in Int
      BY DEF NodeCount
    <3> QED BY <2>2, <3>1, ItimerKeeps
  <2>3. CASE Timer!NoNode \/ (\E p \in Proc : Timer!Handle(p)) \/ UNCHANGED Timer!vars
    <3>1. UNCHANGED <<tq, free>> /\ signal' \subseteq signal /\ wild' \in BOOLEAN
      BY <2>3 DEF Timer!NoNode, Timer!Handle, Timer!vars, TimerInv
    <3> QED BY <3>1 DEF TimerInv, InOrderOfTime, Promised, Timer!Until
  <2> QED BY <2>1, <2>2, <2>3 DEF Timer!Next
<1> QED BY <1>1, <1>2, PTL DEF Timer!Spec

(* No alarm is late but by what requests for a negative time put it off, however many
   requests there are, for whatever times and in whatever order they come: after each
   second everything still in the list has to wait for more.  What happens after a
   request finds no free node is left open (driver/timer.c: kitimer() and
   timer0_handler). *)
THEOREM AlarmsInTime == ASSUME NodeCount PROVE Timer!Spec => []Timer!NeverLate
<1>1. TimerInv => Timer!NeverLate
  BY DEF TimerInv, Promised, Timer!NeverLate
<1> QED BY <1>1, TimerInvariant, PTL

(* No node but the first of the list ever has a negative time, whatever times are
   asked for, and the nodes are in the list or free. *)
THEOREM TimerTypes == ASSUME NodeCount PROVE Timer!Spec => []Timer!TypeOK
<1>1. TimerInv => Timer!TypeOK
  BY DEF TimerInv, InOrderOfTime, Lists, Timer!Node, Timer!TypeOK
<1> QED BY <1>1, TimerInvariant, PTL
=============================================================================
