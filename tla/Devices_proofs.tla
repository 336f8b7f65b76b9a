---------------------------- MODULE Devices_proofs ----------------------------
(***************************************************************************)
(* The drivers side by side, as MCDevices has them: the keyboard's codes,  *)
(* for any keys; the SD card, with the abstract disk that it implements,   *)
(* for a card of any size; the console, for a screen of any size; and the  *)
(* theorems about single drivers, for any sizes of their rings and lists.  *)
(* What runs in one leaves the state of the others alone, so that each     *)
(* behaviour of all is one of each.                                        *)
(***************************************************************************)
EXTENDS MCDevices, Integers, Sequences, FiniteSetTheorems, SequenceTheorems, TLAPS
-----------------------------------------------------------------------------
(* The keyboard's codes *)

(* The codes of the set in use, and the handlers' state between two of them. *)
Codes(ks) ==
  [key : {"shift", "control", "arrow", "rcontrol"} \cup Plain \cup
         (IF ks = 1 THEN {"E0"} ELSE {"F0"}),
   up : BOOLEAN]
States ==
  [esc : Nat, shift : BOOLEAN, control : BOOLEAN, release : BOOLEAN,
   escKey : {Decoder!NoKey, Decoder!Arrow}]
Current ==
  [esc |-> esc, shift |-> shift, control |-> control, release |-> release, escKey |-> escKey]

(* What an ordinary key stands for. *)
Means(ks, k, upper, ctl) ==
  CASE ctl /\ k = "c" /\ ~ (ks = 1 /\ upper) -> Decoder!LineEnd
    [] ctl /\ k = "d" -> Decoder!EndOfFile
    [] OTHER -> [key |-> k, upper |-> upper]

(* What kbd_handler1() makes of a code c in state s, and what it stores. *)
EscAt(s, c) == IF c.key = "E0" THEN s.esc + 1 ELSE s.esc
After1(s, c) ==
  IF EscAt(s, c) = 1 \/ (EscAt(s, c) = 2 /\ c.key = "E0") THEN [s EXCEPT !.esc = EscAt(s, c)]
  ELSE IF EscAt(s, c) = 2 /\ c.key \in {"control", "rcontrol"} THEN [s EXCEPT !.control = FALSE]
  ELSE IF EscAt(s, c) = 2
  THEN [s EXCEPT !.esc = 0, !.escKey = IF c.key = "arrow" THEN Decoder!Arrow ELSE @]
  ELSE [s EXCEPT !.esc = EscAt(s, c),
                 !.shift = IF c.key = "shift" THEN ~c.up ELSE @,
                 !.control = IF c.key \in {"control", "rcontrol"} THEN ~c.up ELSE @]
Yielded1(ks, s, c) ==
  IF EscAt(s, c) = 2 /\ c.key \notin {"E0", "control", "rcontrol"}
  THEN <<Decoder!Lower(After1(s, c).escKey), Decoder!LineEnd>>
  ELSE IF EscAt(s, c) \in {1, 2} \/ c.up \/ c.key \in {"shift", "control", "rcontrol", "E0"}
  THEN <<>>
  ELSE <<Means(ks, c.key, s.shift, s.control)>>

(* And kbd_handler2(). *)
After2(s, c) ==
  IF c.key = "F0" THEN [s EXCEPT !.release = TRUE]
  ELSE IF s.release
  THEN [s EXCEPT !.release = FALSE, !.shift = IF c.key = "shift" THEN FALSE ELSE @]
  ELSE IF c.key \in {"shift", "control"}
  THEN [s EXCEPT !.shift = IF c.key = "shift" THEN TRUE ELSE @,
                 !.control = IF c.key = "control" THEN TRUE ELSE @]
  ELSE [s EXCEPT !.control = IF c.key \in {"c", "d"} THEN FALSE ELSE @]
Yielded2(ks, s, c) ==
  IF c.key = "F0" \/ s.release \/ c.key \in {"shift", "control"} THEN <<>>
  ELSE <<Means(ks, c.key, s.shift, s.control)>>

After(ks, s, c) == IF ks = 1 THEN After1(s, c) ELSE After2(s, c)
Yielded(ks, s, c) == IF ks = 1 THEN Yielded1(ks, s, c) ELSE Yielded2(ks, s, c)

(* From state s the codes w lead to t and yield a: through the states st, with as much of
   a behind each code as cut says. *)
Follows(ks, st, cut, i, c, a) ==
  /\ st[i] = After(ks, st[i - 1], c)
  /\ cut[i] = cut[i - 1] + Len(Yielded(ks, st[i - 1], c))
  /\ \A j \in 1..Len(Yielded(ks, st[i - 1], c)) : a[cut[i - 1] + j] = Yielded(ks, st[i - 1], c)[j]
Run(ks, st, cut, w, a) ==
  /\ st \in [0..Len(w) -> States] /\ cut \in [0..Len(w) -> Nat]
  /\ cut[0] = 0 /\ cut[Len(w)] = Len(a)
  /\ \A i \in 1..Len(w) : Follows(ks, st, cut, i, w[i], a)
  /\ \A i \in 0..Len(w) : \A k \in i..Len(w) : cut[i] <= cut[k]
Decodes(ks, s, w, t, a) ==
  \E st, cut : Run(ks, st, cut, w, a) /\ st[0] = s /\ st[Len(w)] = t

LEMMA KeyFacts ==
  /\ \A k \in Plain : k \notin {"shift", "control", "rcontrol", "arrow", "E0", "F0"}
  /\ Decoder!Arrow = "arrow"
BY KeyNames DEF Decoder!Arrow

LEMMA MeaningType ==
  ASSUME NEW ks, NEW k \in {"shift", "control", "arrow", "rcontrol"} \cup Plain,
         NEW u \in BOOLEAN, NEW c \in BOOLEAN
  PROVE  Means(ks, k, u, c) \in Decoder!Yield
BY DEF Means, Decoder!Yield

LEMMA AfterType ==
  ASSUME NEW ks \in {1, 2}, NEW s \in States, NEW c \in Codes(ks)
  PROVE  After(ks, s, c) \in States /\ Yielded(ks, s, c) \in Seq(Decoder!Yield)
<1>1. /\ s.esc \in Nat /\ s.shift \in BOOLEAN /\ s.control \in BOOLEAN /\ s.release \in BOOLEAN
      /\ s.escKey \in {Decoder!NoKey, Decoder!Arrow} /\ c.up \in BOOLEAN
      /\ EscAt(s, c) \in Nat
  BY DEF States, Codes, EscAt
<1>2. After(ks, s, c) \in States
  BY <1>1 DEF After, After1, After2, States
<1>3. After(ks, s, c).escKey \in {Decoder!NoKey, Decoder!Arrow}
  BY <1>2 DEF States
<1>4. \A x, y : x \in Decoder!Yield /\ y \in Decoder!Yield =>
        <<x>> \in Seq(Decoder!Yield) /\ <<x, y>> \in Seq(Decoder!Yield)
  OBVIOUS
<1>5. \A x \in {Decoder!NoKey, Decoder!Arrow} :
        Decoder!Lower(x) \in Decoder!Yield /\ Decoder!LineEnd \in Decoder!Yield
  BY DEF Decoder!Yield, Decoder!Lower, Decoder!Arrow
<1>6. c.key \notin {"E0", "F0"} => Means(ks, c.key, s.shift, s.control) \in Decoder!Yield
  BY <1>1, MeaningType DEF Codes
<1>7. <<>> \in Seq(Decoder!Yield)
  OBVIOUS
<1>8. CASE ks = 1
  <2>1. c.key # "F0"
    BY <1>8, KeyFacts DEF Codes
  <2>2. After1(s, c).escKey \in {Decoder!NoKey, Decoder!Arrow}
    BY <1>3, <1>8 DEF After
  <2> QED BY <1>4, <1>5, <1>6, <1>7, <1>8, <1>2, <2>1, <2>2 DEF Yielded, Yielded1
<1>9. CASE ks = 2
  <2>1. c.key # "E0"
    BY <1>9, KeyFacts DEF Codes
  <2> QED BY <1>4, <1>6, <1>7, <1>9, <1>2, <2>1 DEF Yielded, Yielded2
<1> QED BY <1>8, <1>9

LEMMA NoCodes ==
  ASSUME NEW ks \in {1, 2}
  PROVE
  /\ \A s \in States : Decodes(ks, s, <<>>, s, <<>>)
  /\ \A s, t, a : Decodes(ks, s, <<>>, t, a) => t = s
<1>1. ASSUME NEW s \in States PROVE Decodes(ks, s, <<>>, s, <<>>)
  <2>1. Len(<<>>) = 0
    OBVIOUS
  <2>2. Run(ks, [i \in 0..0 |-> s], [i \in 0..0 |-> 0], <<>>, <<>>)
    BY <2>1 DEF Run
  <2>3. [i \in 0..0 |-> s][0] = s
    OBVIOUS
  <2> QED BY <2>1, <2>2, <2>3 DEF Decodes
<1>2. ASSUME NEW s, NEW t, NEW a, Decodes(ks, s, <<>>, t, a) PROVE t = s
  BY <1>2 DEF Decodes
<1> QED BY <1>1, <1>2

(* One code more at the end. *)
LEMMA OneMore ==
  ASSUME NEW ks \in {1, 2}, NEW s, NEW t, NEW w \in Seq(Codes(ks)), NEW a \in Seq(Decoder!Yield),
         NEW c \in Codes(ks), Decodes(ks, s, w, t, a)
  PROVE  /\ t \in States
         /\ Append(w, c) \in Seq(Codes(ks)) /\ a \o Yielded(ks, t, c) \in Seq(Decoder!Yield)
         /\ Decodes(ks, s, Append(w, c), After(ks, t, c), a \o Yielded(ks, t, c))
<1>1. PICK st, cut : Run(ks, st, cut, w, a) /\ st[0] = s /\ st[Len(w)] = t
  BY DEF Decodes
<1> DEFINE n == Len(w)
           y == Yielded(ks, t, c)
           v == After(ks, t, c)
           b == a \o y
           x == Append(w, c)
<1>2. n \in Nat /\ t \in States
  BY <1>1, LenProperties DEF Run
<1>3. v \in States /\ y \in Seq(Decoder!Yield) /\ Len(y) \in Nat /\ Len(a) \in Nat
  BY <1>2, AfterType, LenProperties
<1>4. /\ b \in Seq(Decoder!Yield) /\ Len(b) = Len(a) + Len(y)
      /\ \A i \in 1..Len(a) : b[i] = a[i]
      /\ \A j \in 1..Len(y) : b[Len(a) + j] = y[j]
  BY <1>3, ConcatProperties
<1>5. /\ x \in Seq(Codes(ks)) /\ Len(x) = n + 1 /\ x[n + 1] = c
      /\ \A i \in 1..n : x[i] = w[i]
  BY <1>2, AppendProperties
<1> DEFINE rs == [i \in 0..(n + 1) |-> IF i = n + 1 THEN v ELSE st[i]]
           rc == [i \in 0..(n + 1) |-> IF i = n + 1 THEN Len(b) ELSE cut[i]]
<1>6. /\ st \in [0..n -> States] /\ cut \in [0..n -> Nat] /\ cut[0] = 0 /\ cut[n] = Len(a)
      /\ \A i \in 1..n : Follows(ks, st, cut, i, w[i], a)
      /\ \A i \in 0..n : \A k \in i..n : cut[i] <= cut[k]
      /\ st[0] = s /\ st[n] = t
  BY <1>1 DEF Run
<1> HIDE DEF v, y, b, x, n
<1>7. /\ rs \in [0..(n + 1) -> States] /\ rc \in [0..(n + 1) -> Nat]
      /\ rs[n + 1] = v /\ rc[n + 1] = Len(b)
      /\ \A i \in 0..n : rs[i] = st[i] /\ rc[i] = cut[i]
  BY <1>2, <1>3, <1>4, <1>6
<1> HIDE DEF rs, rc
<1>8. ASSUME NEW i \in 1..(n + 1) PROVE Follows(ks, rs, rc, i, x[i], b)
  <2>1. CASE i = n + 1
    <3>1. i - 1 = n /\ n \in 0..n
      BY <1>2, <2>1
    <3>2. rs[i - 1] = t /\ rc[i - 1] = Len(a) /\ x[i] = c
      BY <1>5, <1>6, <1>7, <2>1, <3>1
    <3> QED BY <1>4, <1>7, <2>1, <3>2 DEF Follows, v, y
  <2>2. CASE i # n + 1
    <3>1. i \in 1..n /\ i \in 0..n /\ i - 1 \in 0..n /\ n \in i..n
      BY <1>2, <2>2
    <3>2. rs[i] = st[i] /\ rc[i] = cut[i] /\ rs[i - 1] = st[i - 1] /\ rc[i - 1] = cut[i - 1]
      BY <1>7, <3>1
    <3>3. x[i] = w[i] /\ Follows(ks, st, cut, i, w[i], a)
      BY <1>5, <1>6, <3>1
    <3> DEFINE z == Yielded(ks, st[i - 1], w[i])
    <3>4. /\ st[i] = After(ks, st[i - 1], w[i]) /\ cut[i] = cut[i - 1] + Len(z)
          /\ \A j \in 1..Len(z) : a[cut[i - 1] + j] = z[j]
      BY <3>3 DEF Follows
    <3>5. cut[i] <= Len(a) /\ cut[i - 1] \in Nat /\ Len(z) \in Nat
      <4>1. cut[i] <= cut[n] /\ cut[i - 1] \in Nat /\ st[i - 1] \in States /\ w[i] \in Codes(ks)
        BY <1>6, <3>1, ElementOfSeq DEF n
      <4> QED BY <1>6, <4>1, AfterType, LenProperties
    <3> HIDE DEF z
    <3>6. \A j \in 1..Len(z) : b[cut[i - 1] + j] = z[j]
      <4>1. ASSUME NEW j \in 1..Len(z) PROVE cut[i - 1] + j \in 1..Len(a)
        BY <1>3, <3>4, <3>5
      <4> QED BY <1>4, <3>4, <4>1
    <3> QED BY <3>2, <3>3, <3>4, <3>6 DEF Follows, z
  <2> QED BY <2>1, <2>2
<1>9. \A i \in 0..(n + 1) : \A k \in i..(n + 1) : rc[i] <= rc[k]
  <2>1. ASSUME NEW i \in 0..n, NEW k \in i..n PROVE rc[i] <= rc[k]
    <3>1. k \in 0..n
      OBVIOUS
    <3> QED BY <1>6, <1>7, <3>1
  <2>2. ASSUME NEW i \in 0..n PROVE rc[i] <= rc[n + 1]
    <3>1. cut[i] <= cut[n] /\ cut[i] \in Nat
      BY <1>2, <1>6
    <3> QED BY <1>3, <1>4, <1>6, <1>7, <3>1
  <2>3. rc[n + 1] <= rc[n + 1]
    BY <1>3, <1>4, <1>7
  <2> SUFFICES ASSUME NEW i \in 0..(n + 1), NEW k \in i..(n + 1) PROVE rc[i] <= rc[k]
    OBVIOUS
  <2>4. (i \in 0..n /\ k \in i..n) \/ (i \in 0..n /\ k = n + 1) \/ (i = n + 1 /\ k = n + 1)
    BY <1>2
  <2> QED BY <2>1, <2>2, <2>3, <2>4
<1>10. rs[0] = s /\ rc[0] = 0
  BY <1>2, <1>6, <1>7
<1>11. Run(ks, rs, rc, x, b)
  BY <1>5, <1>7, <1>8, <1>9, <1>10 DEF Run
<1>12. Decodes(ks, s, x, v, b)
  BY <1>5, <1>7, <1>10, <1>11 DEF Decodes
<1> QED BY <1>2, <1>4, <1>5, <1>12 DEF x, v, b, y

(* The first code is the handler's. *)
LEMMA FirstCode ==
  ASSUME NEW ks \in {1, 2}, NEW s, NEW t, NEW w \in Seq(Codes(ks)), w # <<>>,
         NEW a \in Seq(Decoder!Yield), Decodes(ks, s, w, t, a), NEW y, y = Yielded(ks, s, Head(w))
  PROVE  /\ Tail(w) \in Seq(Codes(ks)) /\ y \in Seq(Decoder!Yield)
         /\ SubSeq(a, Len(y) + 1, Len(a)) \in Seq(Decoder!Yield)
         /\ Decoder!IsPrefix(y, a)
         /\ After(ks, s, Head(w)) \in States
         /\ Decodes(ks, After(ks, s, Head(w)), Tail(w), t, SubSeq(a, Len(y) + 1, Len(a)))
<1>1. PICK st, cut : Run(ks, st, cut, w, a) /\ st[0] = s /\ st[Len(w)] = t
  BY DEF Decodes
<1> DEFINE n == Len(w)
           m == Len(y)
           x == Tail(w)
           b == SubSeq(a, m + 1, Len(a))
<1>2. /\ n \in Nat /\ n > 0 /\ Head(w) = w[1] /\ x \in Seq(Codes(ks)) /\ Len(x) = n - 1
      /\ \A i \in 1..(n - 1) : x[i] = w[i + 1]
      /\ \A i \in 1..n : w[i] \in Codes(ks)
  BY EmptySeq, LenProperties, HeadTailProperties, ElementOfSeq
<1>3. /\ st \in [0..n -> States] /\ cut \in [0..n -> Nat] /\ cut[0] = 0 /\ cut[n] = Len(a)
      /\ \A i \in 1..n : Follows(ks, st, cut, i, w[i], a)
      /\ \A i \in 0..n : \A k \in i..n : cut[i] <= cut[k]
      /\ st[0] = s /\ st[n] = t
  BY <1>1 DEF Run
<1>4. y \in Seq(Decoder!Yield) /\ m \in Nat /\ Len(a) \in Nat /\ After(ks, s, Head(w)) \in States
  <2>1. s \in States /\ Head(w) \in Codes(ks)
    BY <1>2, <1>3
  <2> QED BY <2>1, AfterType, LenProperties
<1> HIDE DEF n, x
<1>5. st[1] = After(ks, s, Head(w)) /\ cut[1] = m /\ \A j \in 1..m : a[j] = y[j]
  <2>1. 1 \in 1..n /\ 1 - 1 = 0
    BY <1>2
  <2>2. Follows(ks, st, cut, 1, w[1], a)
    BY <1>3, <2>1
  <2>5. st[1 - 1] = s /\ cut[1 - 1] = 0
    BY <1>3, <2>1
  <2>6. y = Yielded(ks, st[1 - 1], w[1])
    BY <1>2, <2>5
  <2>3. /\ st[1] = After(ks, s, Head(w)) /\ cut[1] = 0 + Len(y)
        /\ \A j \in 1..Len(y) : a[0 + j] = y[j]
    <3>1. /\ st[1] = After(ks, st[1 - 1], w[1]) /\ cut[1] = cut[1 - 1] + Len(y)
          /\ \A j \in 1..Len(y) : a[cut[1 - 1] + j] = y[j]
      BY <2>2, <2>6 DEF Follows
    <3> QED BY <1>2, <2>5, <3>1
  <2>4. \A j \in 1..Len(y) : 0 + j = j
    OBVIOUS
  <2> QED BY <1>4, <2>3, <2>4
<1>6. m <= Len(a)
  <2>1. 1 \in 0..n /\ n \in 1..n
    BY <1>2
  <2> QED BY <1>3, <1>5, <2>1
<1>7. /\ b \in Seq(Decoder!Yield) /\ Len(b) = Len(a) - m
      /\ \A i \in 1..Len(b) : b[i] = a[m + i]
  <2>1. m + 1 \in 1..(Len(a) + 1)
    BY <1>4, <1>6
  <2>2. \A i \in (m + 1)..Len(a) : a[i] \in Decoder!Yield
    BY <1>4, ElementOfSeq
  <2> QED BY <1>4, <1>6, <2>1, <2>2, SubSeqProperties
<1>8. Decoder!IsPrefix(y, a)
  <2>1. SubSeq(y, 1, m) = SubSeq(a, 1, m)
    BY <1>4, <1>5, <1>6
  <2> QED BY <1>6, <2>1 DEF Decoder!IsPrefix
<1> DEFINE rs == [i \in 0..(n - 1) |-> st[i + 1]]
           rc == [i \in 0..(n - 1) |-> cut[i + 1] - m]
<1> HIDE DEF m, b
<1>9. \A i \in 0..(n - 1) : i + 1 \in 1..n /\ i + 1 \in 0..n
  BY <1>2
<1>10. /\ rs \in [0..(n - 1) -> States] /\ rc \in [0..(n - 1) -> Nat]
       /\ \A i \in 0..(n - 1) : rs[i] = st[i + 1] /\ rc[i] = cut[i + 1] - m
  <2>1. ASSUME NEW i \in 0..(n - 1) PROVE cut[i + 1] - m \in Nat
    <3>1. cut[1] <= cut[i + 1] /\ cut[i + 1] \in Nat
      <4>1. 1 \in 0..n /\ i + 1 \in 1..n
        BY <1>2
      <4> QED BY <1>3, <1>9, <4>1
    <3> QED BY <1>4, <1>5, <3>1 DEF m
  <2> QED BY <1>3, <1>9, <2>1
<1> HIDE DEF rs, rc
<1>11. rs[0] = After(ks, s, Head(w)) /\ rc[0] = 0 /\ rs[n - 1] = t /\ rc[n - 1] = Len(b)
  <2>1. 0 \in 0..(n - 1) /\ n - 1 \in 0..(n - 1) /\ 0 + 1 = 1 /\ (n - 1) + 1 = n
    BY <1>2
  <2>2. m - m = 0
    BY <1>4 DEF m
  <2> QED BY <1>3, <1>5, <1>7, <1>10, <2>1, <2>2
<1>12. ASSUME NEW i \in 1..(n - 1) PROVE Follows(ks, rs, rc, i, x[i], b)
  <2>1. /\ i \in 0..(n - 1) /\ i - 1 \in 0..(n - 1) /\ (i - 1) + 1 = i /\ i \in 0..n
        /\ i + 1 \in 1..n /\ (i + 1) - 1 = i /\ i + 1 \in 0..n /\ n \in (i + 1)..n
    BY <1>2
  <2>2. /\ rs[i] = st[i + 1] /\ rc[i] = cut[i + 1] - m /\ rs[i - 1] = st[i]
        /\ rc[i - 1] = cut[i] - m /\ x[i] = w[i + 1]
    BY <1>2, <1>10, <2>1
  <2> DEFINE z == Yielded(ks, st[i], w[i + 1])
  <2>3. /\ st[i + 1] = After(ks, st[i], w[i + 1]) /\ cut[i + 1] = cut[i] + Len(z)
        /\ \A j \in 1..Len(z) : a[cut[i] + j] = z[j]
    <3>1. Follows(ks, st, cut, i + 1, w[i + 1], a)
      BY <1>3, <2>1
    <3> QED BY <2>1, <3>1, Zenon DEF Follows
  <2>4. cut[i] \in Nat /\ cut[i + 1] <= Len(a) /\ Len(z) \in Nat /\ cut[i] - m \in Nat
    <3>1. st[i] \in States /\ w[i + 1] \in Codes(ks)
      BY <1>2, <1>3, <2>1
    <3>2. cut[i] \in Nat /\ cut[i + 1] <= cut[n]
      BY <1>3, <2>1
    <3>3. rc[i - 1] \in Nat
      BY <1>10, <2>1
    <3> QED BY <1>3, <2>2, <3>1, <3>2, <3>3, AfterType, LenProperties
  <2> HIDE DEF z
  <2>5. ASSUME NEW j \in 1..Len(z) PROVE b[(cut[i] - m) + j] = z[j]
    <3>1. (cut[i] - m) + j \in 1..Len(b) /\ m + ((cut[i] - m) + j) = cut[i] + j
      <4> DEFINE p == cut[i]
                 u == Len(a)
                 v == Len(z)
      <4>1. /\ m \in Nat /\ u \in Nat /\ Len(b) = u - m /\ p + v <= u /\ p \in Nat
            /\ p - m \in Nat /\ v \in Nat /\ j \in 1..v
        BY <1>4, <1>7, <2>3, <2>4 DEF m
      <4> HIDE DEF p, u, v
      <4>2. (p - m) + j \in 1..(u - m) /\ m + ((p - m) + j) = p + j
        BY <4>1
      <4> QED BY <4>1, <4>2 DEF p
    <3> QED BY <1>7, <2>3, <3>1
  <2>6. cut[i + 1] - m = (cut[i] - m) + Len(z)
    BY <1>4, <2>3, <2>4 DEF m
  <2> QED BY <2>2, <2>3, <2>5, <2>6 DEF Follows, z
<1>13. \A i \in 0..(n - 1) : \A k \in i..(n - 1) : rc[i] <= rc[k]
  <2>1. ASSUME NEW i \in 0..(n - 1), NEW k \in i..(n - 1) PROVE rc[i] <= rc[k]
    <3>1. k \in 0..(n - 1) /\ k + 1 \in (i + 1)..n /\ i + 1 \in 0..n /\ k + 1 \in 0..n
      BY <1>2
    <3>2. cut[i + 1] <= cut[k + 1] /\ cut[i + 1] \in Nat /\ cut[k + 1] \in Nat
      BY <1>3, <3>1
    <3> QED BY <1>4, <1>10, <3>1, <3>2 DEF m
  <2> QED BY <2>1
<1>14. Run(ks, rs, rc, x, b)
  BY <1>2, <1>10, <1>11, <1>12, <1>13 DEF Run
<1>15. Decodes(ks, After(ks, s, Head(w)), x, t, b)
  BY <1>2, <1>11, <1>14 DEF Decodes
<1> QED BY <1>2, <1>4, <1>7, <1>8, <1>15 DEF x, b, m

(* These are the handlers. *)
LEMMA MeansIs == \A k, u, c : Decoder!Meaning(k, u, c) = Means(keyset, k, u, c)
BY DEF Means, Decoder!Meaning

LEMMA HandlerDecodes ==
  ASSUME keyset \in {1, 2}, Current \in States, NEW c \in Codes(keyset), UNCHANGED keyset,
         (keyset = 1 /\ Decoder!Handler1(c)) \/ (keyset = 2 /\ Decoder!Handler2(c))
  PROVE  Current' = After(keyset, Current, c) /\ stored' = Yielded(keyset, Current, c)
<1>1. /\ esc \in Nat /\ shift \in BOOLEAN /\ control \in BOOLEAN /\ release \in BOOLEAN
      /\ Current.esc = esc /\ Current.shift = shift /\ Current.control = control
      /\ Current.release = release /\ Current.escKey = escKey /\ c.up \in BOOLEAN
  BY DEF Current, States, Codes
<1>2. CASE keyset = 1 /\ Decoder!Handler1(c)
  <2> DEFINE e == IF c.key = "E0" THEN esc + 1 ELSE esc
  <2>1. e = EscAt(Current, c) /\ e \in Nat
    BY <1>1 DEF EscAt
  <2>2. (e \in {1, 2} /\ Decoder!Escaped(c, e)) \/ (e \notin {1, 2} /\ Decoder!Ordinary(c, e))
    BY <1>2 DEF Decoder!Handler1
  <2>e. e = IF c.key = "E0" THEN esc + 1 ELSE esc
    OBVIOUS
  <2> HIDE DEF e
  <2>3. CASE e \in {1, 2} /\ Decoder!Escaped(c, e)
    <3>1. UNCHANGED <<shift, release>>
      BY <2>3 DEF Decoder!Escaped
    <3>2. CASE e = 1 \/ c.key = "E0"
      <4>1. esc' = e /\ stored' = <<>> /\ UNCHANGED <<escKey, control>>
        BY <2>3, <3>2, KeyFacts DEF Decoder!Escaped
      <4>2. After(keyset, Current, c) = [Current EXCEPT !.esc = e] /\ Yielded(keyset, Current, c) = <<>>
        BY <1>2, <2>1, <2>3, <3>2 DEF After, After1, Yielded, Yielded1
      <4> QED BY <3>1, <4>1, <4>2 DEF Current
    <3>3. CASE e = 2 /\ c.key \in {"control", "rcontrol"}
      <4>1. control' = FALSE /\ esc' = e /\ stored' = <<>> /\ UNCHANGED escKey
        BY <2>3, <3>3 DEF Decoder!Escaped, Decoder!ControlUp
      <4>2. After(keyset, Current, c) = [Current EXCEPT !.control = FALSE] /\ Yielded(keyset, Current, c) = <<>>
        BY <1>2, <2>1, <2>3, <3>3 DEF After, After1, Yielded, Yielded1
      <4>3. esc = e
        BY <2>e, <3>3
      <4> QED BY <3>1, <4>1, <4>2, <4>3 DEF Current
    <3>4. CASE e = 2 /\ c.key \notin {"E0", "control", "rcontrol"}
      <4>1. /\ esc' = 0 /\ escKey' = Decoder!EscKeyOf(c) /\ UNCHANGED control
            /\ stored' = <<Decoder!Lower(escKey'), Decoder!LineEnd>>
        BY <2>3, <3>4 DEF Decoder!Escaped
      <4>2. Decoder!EscKeyOf(c) = IF c.key = "arrow" THEN Decoder!Arrow ELSE escKey
        BY KeyFacts DEF Decoder!EscKeyOf
      <4>3. /\ After1(Current, c) = [Current EXCEPT !.esc = 0, !.escKey = escKey']
            /\ After(keyset, Current, c) = After1(Current, c)
        BY <1>1, <1>2, <2>1, <3>4, <4>1, <4>2 DEF After, After1
      <4>4. After1(Current, c).escKey = escKey'
        BY <4>3 DEF Current
      <4>5. Yielded(keyset, Current, c) = <<Decoder!Lower(escKey'), Decoder!LineEnd>>
        BY <1>2, <2>1, <3>4, <4>4 DEF Yielded, Yielded1
      <4> QED BY <3>1, <4>1, <4>3, <4>5 DEF Current
    <3> QED BY <2>3, <3>2, <3>3, <3>4
  <2>4. CASE e \notin {1, 2} /\ Decoder!Ordinary(c, e)
    <3>1. /\ esc' = e /\ UNCHANGED <<escKey, release>>
          /\ shift' = IF c.key = "shift" THEN ~ c.up ELSE shift
          /\ control' = IF c.key \in {"control", "rcontrol"} THEN ~ c.up ELSE control
          /\ stored' = IF c.up \/ c.key \in {"shift", "control", "rcontrol", "E0"} THEN <<>>
                       ELSE <<Means(keyset, c.key, shift, control)>>
      BY <2>4, MeansIs DEF Decoder!Ordinary, Decoder!ShiftAfter, Decoder!Modifier
    <3>2. After(keyset, Current, c) =
            [Current EXCEPT !.esc = e, !.shift = IF c.key = "shift" THEN ~c.up ELSE @,
                            !.control = IF c.key \in {"control", "rcontrol"} THEN ~c.up ELSE @]
      BY <1>2, <2>1, <2>4 DEF After, After1
    <3>3. Current' = After(keyset, Current, c)
      <4> DEFINE u == IF c.key = "shift" THEN ~c.up ELSE shift
                 v == IF c.key \in {"control", "rcontrol"} THEN ~c.up ELSE control
      <4>1. After(keyset, Current, c) = [Current EXCEPT !.esc = e, !.shift = u, !.control = v]
        BY <1>1, <3>2
      <4>2. shift' = u /\ control' = v /\ esc' = e /\ UNCHANGED <<escKey, release>>
        BY <3>1
      <4> HIDE DEF u, v
      <4> QED BY <4>1, <4>2 DEF Current
    <3>4. Yielded(keyset, Current, c) =
            IF c.up \/ c.key \in {"shift", "control", "rcontrol", "E0"} THEN <<>>
            ELSE <<Means(keyset, c.key, shift, control)>>
      BY <1>1, <1>2, <2>1, <2>4 DEF Yielded, Yielded1
    <3> QED BY <3>1, <3>3, <3>4
  <2> QED BY <2>2, <2>3, <2>4
<1>3. CASE keyset = 2 /\ Decoder!Handler2(c)
  <2>1. UNCHANGED <<esc, escKey>>
    BY <1>3 DEF Decoder!Handler2
  <2>2. After(keyset, Current, c) = After2(Current, c) /\ Yielded(keyset, Current, c) = Yielded2(keyset, Current, c)
    BY <1>3 DEF After, Yielded
  <2>3. CASE c.key = "F0"
    <3>1. release' = TRUE /\ stored' = <<>> /\ UNCHANGED <<shift, control>>
      BY <1>3, <2>3 DEF Decoder!Handler2
    <3> QED BY <2>1, <2>2, <2>3, <3>1 DEF Current, After2, Yielded2
  <2>4. CASE release /\ c.key # "F0"
    <3>1. /\ release' = FALSE /\ stored' = <<>> /\ UNCHANGED control
          /\ shift' = (shift /\ c.key # "shift")
      BY <1>3, <2>4 DEF Decoder!Handler2, Decoder!ShiftUp
    <3>2. shift' = IF c.key = "shift" THEN FALSE ELSE shift
      BY <1>1, <3>1
    <3>3. After2(Current, c) =
            [Current EXCEPT !.release = FALSE, !.shift = IF c.key = "shift" THEN FALSE ELSE @]
      BY <1>1, <2>4 DEF After2
    <3> QED BY <1>1, <2>1, <2>2, <2>4, <3>1, <3>2, <3>3 DEF Current, Yielded2
  <2>5. CASE ~ release /\ c.key \in {"shift", "control"}
    <3>1. /\ shift' = (shift \/ c.key = "shift") /\ control' = (control \/ c.key = "control")
          /\ stored' = <<>> /\ UNCHANGED release
      BY <1>3, <2>5 DEF Decoder!Handler2
    <3>2. /\ shift' = IF c.key = "shift" THEN TRUE ELSE shift
          /\ control' = IF c.key = "control" THEN TRUE ELSE control
      BY <1>1, <3>1
    <3>3. After2(Current, c) =
            [Current EXCEPT !.shift = IF c.key = "shift" THEN TRUE ELSE @,
                            !.control = IF c.key = "control" THEN TRUE ELSE @]
      BY <1>1, <2>5 DEF After2
    <3> QED BY <1>1, <2>1, <2>2, <2>5, <3>1, <3>2, <3>3 DEF Current, Yielded2
  <2>6. CASE ~ release /\ c.key \notin {"F0", "shift", "control"}
    <3>1. /\ stored' = <<Means(keyset, c.key, shift, control)>> /\ UNCHANGED <<release, shift>>
          /\ control' = (control /\ c.key \notin {"c", "d"})
      BY <1>3, <2>6, MeansIs DEF Decoder!Handler2
    <3>2. control' = IF c.key \in {"c", "d"} THEN FALSE ELSE control
      BY <1>1, <3>1
    <3>3. After2(Current, c) = [Current EXCEPT !.control = IF c.key \in {"c", "d"} THEN FALSE ELSE @]
      BY <1>1, <2>6 DEF After2
    <3> QED BY <1>1, <2>1, <2>2, <2>6, <3>1, <3>2, <3>3 DEF Current, Yielded2
  <2> QED BY <1>3, <2>3, <2>4, <2>5, <2>6 DEF Decoder!Handler2
<1> QED BY <1>2, <1>3

(* The invariant.  After the codes on the wire the handlers will know the modifiers that are held,
   and will have stored what is asked for, unless a key was used whose release they miss. *)
Modifiers(ks, h, t) ==
  /\ t.esc = 0 /\ ~t.release /\ (t.shift <=> "shift" \in h)
  /\ ks = 1 => (t.control <=> "control" \in h)
  /\ ks = 2 => ~t.control /\ "control" \notin h
Settled(ks, h, t) == ks = 1 => t.esc # 1 /\ (t.control => "control" \in h)
Caught(t, a) ==
  /\ a \in Seq(Decoder!Yield) /\ Decodes(keyset, Current, wire, t, a)
  /\ Settled(keyset, held, t) /\ (~defect => a = asked /\ Modifiers(keyset, held, t))
CodeInv ==
  /\ keyset \in {1, 2} /\ held \subseteq {"shift", "control"} \cup Plain
  /\ wire \in Seq(Codes(keyset)) /\ asked \in Seq(Decoder!Yield) /\ stored \in Seq(Decoder!Yield)
  /\ Current \in States /\ defect \in BOOLEAN
  /\ \E t, a : Caught(t, a)

LEMMA CodesInit == Decoder!Init => CodeInv
<1> SUFFICES ASSUME Decoder!Init PROVE CodeInv
  OBVIOUS
<1>1. /\ keyset \in {1, 2} /\ held = {} /\ wire = <<>> /\ asked = <<>> /\ stored = <<>>
      /\ defect = FALSE /\ esc = 0 /\ shift = FALSE /\ control = FALSE /\ release = FALSE
      /\ escKey = Decoder!NoKey
  BY DEF Decoder!Init
<1>2. Current \in States
  BY <1>1 DEF Current, States
<1>3. Decodes(keyset, Current, wire, Current, asked)
  BY <1>1, <1>2, NoCodes
<1>4. asked \in Seq(Decoder!Yield) /\ wire \in Seq(Codes(keyset)) /\ stored \in Seq(Decoder!Yield)
  BY <1>1
<1>5. Settled(keyset, held, Current) /\ Modifiers(keyset, held, Current)
  BY <1>1 DEF Settled, Modifiers, Current
<1>6. Caught(Current, asked)
  BY <1>3, <1>4, <1>5 DEF Caught
<1> QED BY <1>1, <1>2, <1>4, <1>6 DEF CodeInv

(* What the keyboard sends is put behind what is on the wire. *)
LEMMA Behind ==
  ASSUME NEW T, NEW w \in Seq(T), NEW c \in T, NEW d \in T
  PROVE  /\ w \o (<<>> \o <<c>>) = Append(w, c)
         /\ w \o (<<>> \o <<c, d>>) = Append(Append(w, c), d)
<1>1. \A x \in Seq(T), y \in T : x \o <<y>> = Append(x, y)
  OBVIOUS
<1>2. <<>> \o <<c>> = <<c>> /\ <<>> \o <<c, d>> = <<c, d>>
  OBVIOUS
<1>3. w \o <<c, d>> = Append(Append(w, c), d)
  OBVIOUS
<1> QED BY <1>1, <1>2, <1>3

TwoPairs(w, c, d, e) == (w \o (<<c>> \o <<d>>)) \o (<<c>> \o <<e>>)

LEMMA BehindTwice ==
  ASSUME NEW T, NEW w \in Seq(T), NEW c \in T, NEW d \in T, NEW e \in T
  PROVE  TwoPairs(w, c, d, e) = Append(Append(Append(Append(w, c), d), c), e)
<1>1. ASSUME NEW x \in T, NEW y \in T PROVE <<x>> \o <<y>> = <<x, y>>
  <2>1. /\ <<x>> \in Seq(T) /\ <<y>> \in Seq(T) /\ Len(<<x>>) = 1 /\ Len(<<y>>) = 1
        /\ <<x, y>> \in Seq(T) /\ Len(<<x, y>>) = 2
    OBVIOUS
  <2>2. /\ <<x>> \o <<y>> \in Seq(T) /\ Len(<<x>> \o <<y>>) = 2
        /\ (<<x>> \o <<y>>)[1] = x /\ (<<x>> \o <<y>>)[2] = y
    BY <2>1, ConcatProperties
  <2>3. \A i \in 1..2 : (<<x>> \o <<y>>)[i] = <<x, y>>[i]
    BY <2>2
  <2> QED BY <2>1, <2>2, <2>3, SeqEqual
<1>2. ASSUME NEW x \in Seq(T), NEW y \in T, NEW z \in T
      PROVE  x \o <<y, z>> = Append(Append(x, y), z)
  OBVIOUS
<1>3. Append(Append(w, c), d) \in Seq(T)
  OBVIOUS
<1>4. (w \o (<<c>> \o <<d>>)) \o (<<c>> \o <<e>>) = Append(Append(w, c), d) \o <<c, e>>
  <2>1. <<c>> \o <<d>> = <<c, d>> /\ <<c>> \o <<e>> = <<c, e>>
    BY <1>1, Zenon
  <2>2. w \o <<c, d>> = Append(Append(w, c), d)
    BY <1>2, Zenon
  <2> QED BY <2>1, <2>2, Zenon
<1> QED BY <1>2, <1>3, <1>4 DEF TwoPairs

LEMMA YieldBehind ==
  ASSUME NEW T, NEW a \in Seq(T), NEW m \in T
  PROVE  a \o <<>> = a /\ a \o <<m>> = Append(a, m)
OBVIOUS

Pressed(k) == [key |-> k, up |-> FALSE]
Released(k) == [key |-> k, up |-> TRUE]

LEMMA SentCodes ==
  ASSUME keyset \in {1, 2}, NEW k \in {"shift", "control"} \cup Plain
  PROVE  /\ Pressed(k) \in Codes(keyset) /\ Released(k) \in Codes(keyset)
         /\ keyset = 2 => Pressed("F0") \in Codes(keyset)
         /\ Decoder!PressCodes(k) = <<>> \o <<Pressed(k)>>
         /\ keyset = 1 => Decoder!ReleaseCodes(k) = <<>> \o <<Released(k)>>
         /\ keyset = 2 => Decoder!ReleaseCodes(k) = <<>> \o <<Pressed("F0"), Pressed(k)>>
<1>1. k \notin {"arrow", "rcontrol", "E0", "F0"}
  BY KeyFacts
<1>2. Decoder!Prefixed(k) = <<>>
  BY <1>1 DEF Decoder!Prefixed
<1>3. Pressed(k) \in Codes(keyset) /\ Released(k) \in Codes(keyset)
      /\ (keyset = 2 => Pressed("F0") \in Codes(keyset))
  BY DEF Codes, Pressed, Released
<1>4. Decoder!PressCodes(k) = <<>> \o <<Pressed(k)>>
  BY <1>2 DEF Decoder!PressCodes, Pressed
<1>5. keyset = 1 => Decoder!ReleaseCodes(k) = <<>> \o <<Released(k)>>
  BY <1>2 DEF Decoder!ReleaseCodes, Released
<1>6. keyset = 2 => Decoder!ReleaseCodes(k) = <<>> \o <<Pressed("F0"), Pressed(k)>>
  BY <1>2 DEF Decoder!ReleaseCodes, Pressed
<1> QED BY <1>3, <1>4, <1>5, <1>6

(* What the handlers make of a key's press. *)
LEMMA PressSettles ==
  ASSUME NEW ks \in {1, 2}, NEW h, NEW k \in {"shift", "control"} \cup Plain,
         NEW t \in States, Settled(ks, h, t)
  PROVE  /\ Settled(ks, h \cup {k}, After(ks, t, Pressed(k)))
         /\ Modifiers(ks, h, t) /\ ~(ks = 2 /\ k = "control") =>
              /\ Modifiers(ks, h \cup {k}, After(ks, t, Pressed(k)))
              /\ Yielded(ks, t, Pressed(k)) =
                   IF k \in {"shift", "control"} THEN <<>>
                   ELSE <<Means(ks, k, "shift" \in h, "control" \in h)>>
<1> DEFINE c == Pressed(k)
           g == h \cup {k}
<1>1. /\ t.esc \in Nat /\ t.shift \in BOOLEAN /\ t.control \in BOOLEAN /\ t.release \in BOOLEAN
      /\ c.key = k /\ c.up = FALSE /\ k \notin {"arrow", "rcontrol", "E0", "F0"}
      /\ EscAt(t, c) = t.esc
  BY KeyFacts DEF States, EscAt, Pressed
<1>2. /\ "shift" \in g <=> "shift" \in h \/ k = "shift"
      /\ "control" \in g <=> "control" \in h \/ k = "control"
  OBVIOUS
<1> HIDE DEF c, g
<1>3. CASE ks = 1
  <2>1. t.esc # 1 /\ (t.control => "control" \in h) /\ After(ks, t, c) = After1(t, c)
    BY <1>3 DEF Settled, After
  <2>2. CASE t.esc = 2 /\ k = "control"
    <3>1. After1(t, c) = [t EXCEPT !.control = FALSE]
      BY <1>1, <2>1, <2>2 DEF After1
    <3>2. ~Modifiers(ks, h, t)
      BY <2>2 DEF Modifiers
    <3> QED BY <1>1, <2>1, <2>2, <3>1, <3>2 DEF States, Settled, c, g
  <2>3. CASE t.esc = 2 /\ k # "control"
    <3>1. After1(t, c) = [t EXCEPT !.esc = 0, !.escKey = @]
      BY <1>1, <2>1, <2>3 DEF After1
    <3>2. ~Modifiers(ks, h, t)
      BY <2>3 DEF Modifiers
    <3> QED BY <1>2, <2>1, <3>1, <3>2 DEF States, Settled, c, g
  <2>4. CASE t.esc # 2
    <3> DEFINE u == IF k = "shift" THEN TRUE ELSE t.shift
               v == IF k = "control" THEN TRUE ELSE t.control
    <3>1. After1(t, c) = [t EXCEPT !.esc = t.esc, !.shift = u, !.control = v]
      BY <1>1, <2>1, <2>4 DEF After1
    <3>2. (v => "control" \in g) /\ (k = "shift" => u) /\ (k # "shift" => u = t.shift)
          /\ (k = "control" => v) /\ (k # "control" => v = t.control)
          /\ u \in BOOLEAN /\ v \in BOOLEAN
      BY <1>1, <1>2, <2>1
    <3> HIDE DEF u, v
    <3>3. /\ After(ks, t, c).esc = t.esc /\ After(ks, t, c).shift = u
          /\ After(ks, t, c).control = v /\ After(ks, t, c).release = t.release
      BY <2>1, <3>1 DEF States
    <3>4. Settled(ks, g, After(ks, t, c))
      BY <2>1, <3>2, <3>3 DEF Settled
    <3>5. ASSUME Modifiers(ks, h, t)
          PROVE  /\ Modifiers(ks, g, After(ks, t, c))
                 /\ Yielded(ks, t, c) = IF k \in {"shift", "control"} THEN <<>>
                                        ELSE <<Means(ks, k, "shift" \in h, "control" \in h)>>
      <4>1. t.esc = 0 /\ ~t.release /\ (t.shift <=> "shift" \in h) /\ (t.control <=> "control" \in h)
        BY <1>3, <3>5 DEF Modifiers
      <4>2. (u <=> "shift" \in g) /\ (v <=> "control" \in g)
        BY <1>1, <1>2, <3>2, <4>1
      <4>3. Modifiers(ks, g, After(ks, t, c))
        BY <1>3, <3>3, <4>1, <4>2 DEF Modifiers
      <4>4. t.shift = ("shift" \in h) /\ t.control = ("control" \in h)
        BY <1>1, <4>1
      <4>5. Yielded(ks, t, c) = IF k \in {"shift", "control"} THEN <<>>
                                ELSE <<Means(ks, k, t.shift, t.control)>>
        BY <1>1, <1>3, <4>1 DEF Yielded, Yielded1
      <4> QED BY <4>3, <4>4, <4>5
    <3> QED BY <3>4, <3>5 DEF c, g
  <2> QED BY <2>2, <2>3, <2>4
<1>4. CASE ks = 2
  <2>1. Settled(ks, g, After(ks, t, c))
    BY <1>4 DEF Settled
  <2>2. ASSUME Modifiers(ks, h, t), k # "control"
        PROVE  /\ Modifiers(ks, g, After(ks, t, c))
               /\ Yielded(ks, t, c) = IF k \in {"shift", "control"} THEN <<>>
                                      ELSE <<Means(ks, k, "shift" \in h, "control" \in h)>>
    <3>1. /\ t.esc = 0 /\ ~t.release /\ (t.shift <=> "shift" \in h) /\ ~t.control /\ "control" \notin h
      BY <1>4, <2>2 DEF Modifiers
    <3>2. t.shift = ("shift" \in h) /\ t.control = ("control" \in h)
      BY <1>1, <3>1
    <3>3. Yielded(ks, t, c) = IF k \in {"shift", "control"} THEN <<>>
                              ELSE <<Means(ks, k, t.shift, t.control)>>
      BY <1>1, <1>4, <3>1 DEF Yielded, Yielded2
    <3>4. CASE k = "shift"
      <4>1. After(ks, t, c) = [t EXCEPT !.shift = TRUE, !.control = @]
        BY <1>1, <1>4, <3>1, <3>4 DEF After, After2
      <4> QED BY <1>2, <1>4, <2>2, <3>1, <3>2, <3>3, <3>4, <4>1 DEF Modifiers, States
    <3>5. CASE k # "shift"
      <4>1. After(ks, t, c) = [t EXCEPT !.control = IF k \in {"c", "d"} THEN FALSE ELSE @]
        BY <1>1, <1>4, <2>2, <3>1, <3>5 DEF After, After2
      <4>2. After(ks, t, c).control = FALSE /\ After(ks, t, c).shift = t.shift
            /\ After(ks, t, c).esc = 0 /\ After(ks, t, c).release = t.release
        BY <1>1, <3>1, <4>1 DEF States
      <4>3. Modifiers(ks, g, After(ks, t, c))
        BY <1>2, <1>4, <2>2, <3>1, <3>5, <4>2 DEF Modifiers
      <4> QED BY <3>2, <3>3, <4>3
    <3> QED BY <3>4, <3>5
  <2> QED BY <1>4, <2>1, <2>2 DEF c, g
<1> QED BY <1>3, <1>4

(* And of its release, in set 1 and in set 2. *)
LEMMA ReleaseSettles ==
  ASSUME NEW h, NEW k \in {"shift", "control"} \cup Plain, NEW t \in States, Settled(1, h, t)
  PROVE  /\ Settled(1, h \ {k}, After(1, t, Released(k)))
         /\ Modifiers(1, h, t) => /\ Modifiers(1, h \ {k}, After(1, t, Released(k)))
                                  /\ Yielded(1, t, Released(k)) = <<>>
<1> DEFINE c == Released(k)
           g == h \ {k}
<1>1. /\ t.esc \in Nat /\ t.shift \in BOOLEAN /\ t.control \in BOOLEAN /\ t.release \in BOOLEAN
      /\ c.key = k /\ c.up = TRUE /\ k \notin {"arrow", "rcontrol", "E0", "F0"}
      /\ EscAt(t, c) = t.esc
  BY KeyFacts DEF States, EscAt, Released
<1>2. /\ "shift" \in g <=> "shift" \in h /\ k # "shift"
      /\ "control" \in g <=> "control" \in h /\ k # "control"
  OBVIOUS
<1> HIDE DEF c, g
<1>3. t.esc # 1 /\ (t.control => "control" \in h) /\ After(1, t, c) = After1(t, c)
  BY DEF Settled, After
<1>4. CASE t.esc = 2 /\ k = "control"
  <2>1. After1(t, c) = [t EXCEPT !.control = FALSE]
    BY <1>1, <1>3, <1>4 DEF After1
  <2>2. ~Modifiers(1, h, t)
    BY <1>4 DEF Modifiers
  <2> QED BY <1>1, <1>3, <1>4, <2>1, <2>2 DEF States, Settled, c, g
<1>5. CASE t.esc = 2 /\ k # "control"
  <2>1. After1(t, c) = [t EXCEPT !.esc = 0, !.escKey = @]
    BY <1>1, <1>3, <1>5 DEF After1
  <2>2. ~Modifiers(1, h, t)
    BY <1>5 DEF Modifiers
  <2> QED BY <1>2, <1>3, <1>5, <2>1, <2>2 DEF States, Settled, c, g
<1>6. CASE t.esc # 2
  <2> DEFINE u == IF k = "shift" THEN FALSE ELSE t.shift
             v == IF k = "control" THEN FALSE ELSE t.control
  <2>1. After1(t, c) = [t EXCEPT !.esc = t.esc, !.shift = u, !.control = v]
    BY <1>1, <1>3, <1>6 DEF After1
  <2>2. (v => "control" \in g) /\ (k = "shift" => ~u) /\ (k # "shift" => u = t.shift)
        /\ (k = "control" => ~v) /\ (k # "control" => v = t.control)
        /\ u \in BOOLEAN /\ v \in BOOLEAN
    BY <1>1, <1>2, <1>3
  <2> HIDE DEF u, v
  <2>3. /\ After(1, t, c).esc = t.esc /\ After(1, t, c).shift = u
        /\ After(1, t, c).control = v /\ After(1, t, c).release = t.release
    BY <1>3, <2>1 DEF States
  <2>4. Settled(1, g, After(1, t, c))
    BY <1>3, <2>2, <2>3 DEF Settled
  <2>5. ASSUME Modifiers(1, h, t)
        PROVE  Modifiers(1, g, After(1, t, c)) /\ Yielded(1, t, c) = <<>>
    <3>1. t.esc = 0 /\ ~t.release /\ (t.shift <=> "shift" \in h) /\ (t.control <=> "control" \in h)
      BY <2>5 DEF Modifiers
    <3>2. (u <=> "shift" \in g) /\ (v <=> "control" \in g)
      BY <1>1, <1>2, <2>2, <3>1
    <3>3. Modifiers(1, g, After(1, t, c))
      BY <2>3, <3>1, <3>2 DEF Modifiers
    <3>4. Yielded(1, t, c) = <<>>
      BY <1>1, <3>1 DEF Yielded, Yielded1
    <3> QED BY <3>3, <3>4
  <2> QED BY <2>4, <2>5 DEF c, g
<1> QED BY <1>4, <1>5, <1>6

LEMMA ReleaseSettles2 ==
  ASSUME NEW h, NEW k \in {"shift", "control"} \cup Plain, NEW t \in States, Modifiers(2, h, t)
  PROVE  /\ Modifiers(2, h \ {k}, After(2, After(2, t, Pressed("F0")), Pressed(k)))
         /\ Yielded(2, t, Pressed("F0")) = <<>>
         /\ Yielded(2, After(2, t, Pressed("F0")), Pressed(k)) = <<>>
<1> DEFINE s == After(2, t, Pressed("F0"))
<1>1. Pressed(k).key = k /\ k # "F0" /\ Pressed("F0").key = "F0"
  BY KeyFacts DEF Pressed
<1>2. s = [t EXCEPT !.release = TRUE]
  BY <1>1 DEF After, After2
<1>3. t.esc = 0 /\ (t.shift <=> "shift" \in h) /\ ~t.control /\ "control" \notin h
  BY DEF Modifiers
<1>4. /\ s.esc = 0 /\ s.release = TRUE /\ s.shift = t.shift /\ s.control = t.control
      /\ DOMAIN s = DOMAIN t
  BY <1>2, <1>3 DEF States
<1>5. Yielded(2, t, Pressed("F0")) = <<>>
  BY <1>1 DEF Yielded, Yielded2
<1>6. s \in States
  BY <1>2 DEF States
<1> HIDE DEF s
<1>7. After(2, s, Pressed(k)) = [s EXCEPT !.release = FALSE, !.shift = IF k = "shift" THEN FALSE ELSE @]
  BY <1>1, <1>4 DEF After, After2
<1>8. Yielded(2, s, Pressed(k)) = <<>>
  BY <1>1, <1>4 DEF Yielded, Yielded2
<1>9. Modifiers(2, h \ {k}, After(2, s, Pressed(k)))
  <2>1. /\ After(2, s, Pressed(k)).esc = 0 /\ After(2, s, Pressed(k)).release = FALSE
        /\ After(2, s, Pressed(k)).control = t.control
        /\ After(2, s, Pressed(k)).shift = IF k = "shift" THEN FALSE ELSE t.shift
    BY <1>4, <1>6, <1>7 DEF States
  <2> QED BY <1>3, <2>1 DEF Modifiers
<1> QED BY <1>5, <1>8, <1>9 DEF s
(* kbd_handler1() by the value of esc. *)
EscRule(s, c) ==
  /\ EscAt(s, c) = 1 => After(1, s, c) = [s EXCEPT !.esc = 1] /\ Yielded(1, s, c) = <<>>
  /\ EscAt(s, c) = 2 /\ c.key = "E0" =>
       After(1, s, c) = [s EXCEPT !.esc = 2] /\ Yielded(1, s, c) = <<>>
  /\ EscAt(s, c) = 2 /\ c.key = "rcontrol" => After(1, s, c) = [s EXCEPT !.control = FALSE]
  /\ EscAt(s, c) = 2 /\ c.key = "arrow" =>
       After(1, s, c) = [s EXCEPT !.esc = 0, !.escKey = Decoder!Arrow]
  /\ EscAt(s, c) \notin {1, 2} /\ c.key \in {"arrow", "E0"} =>
       After(1, s, c) = [s EXCEPT !.esc = EscAt(s, c)]
  /\ EscAt(s, c) \notin {1, 2} /\ c.key = "rcontrol" =>
       After(1, s, c) = [s EXCEPT !.esc = EscAt(s, c), !.control = ~c.up]
LEMMA EscSteps == \A s \in States : \A c : EscRule(s, c)
<1> SUFFICES ASSUME NEW s \in States, NEW c PROVE EscRule(s, c)
  OBVIOUS
<1> DEFINE e == EscAt(s, c)
<1> HIDE DEF e
<1>1. e = 1 => After1(s, c) = [s EXCEPT !.esc = 1] /\ Yielded1(1, s, c) = <<>>
  BY DEF After1, Yielded1, e
<1>2. e = 2 /\ c.key = "E0" => After1(s, c) = [s EXCEPT !.esc = 2] /\ Yielded1(1, s, c) = <<>>
  BY DEF After1, Yielded1, e
<1>3. e = 2 /\ c.key = "rcontrol" => After1(s, c) = [s EXCEPT !.control = FALSE]
  BY DEF After1, e
<1>4. e = 2 /\ c.key = "arrow" => After1(s, c) = [s EXCEPT !.esc = 0, !.escKey = Decoder!Arrow]
  BY DEF After1, e
<1>5. e \notin {1, 2} /\ c.key \in {"arrow", "E0"} => After1(s, c) = [s EXCEPT !.esc = e]
  <2>1. e \notin {1, 2} /\ c.key \in {"arrow", "E0"} =>
          After1(s, c) = [s EXCEPT !.esc = e, !.shift = @, !.control = @]
    BY DEF After1, e
  <2> QED BY <2>1 DEF States
<1>6. e \notin {1, 2} /\ c.key = "rcontrol" => After1(s, c) = [s EXCEPT !.esc = e, !.control = ~c.up]
  <2>1. e \notin {1, 2} /\ c.key = "rcontrol" =>
          After1(s, c) = [s EXCEPT !.esc = e, !.shift = @, !.control = ~c.up]
    BY DEF After1, e
  <2> QED BY <2>1 DEF States
<1> QED BY <1>1, <1>2, <1>3, <1>4, <1>5, <1>6 DEF EscRule, After, Yielded, e

(* And of a key with an E0 code, whose four codes come in one. *)
LEMMA TapSettles ==
  ASSUME NEW h, NEW k \in {"arrow", "rcontrol"}, NEW t \in States, Settled(1, h, t),
         NEW t1, t1 = After(1, t, Pressed("E0")), NEW t2, t2 = After(1, t1, Pressed(k)),
         NEW t3, t3 = After(1, t2, Pressed("E0")), NEW t4, t4 = After(1, t3, Released(k))
  PROVE  /\ Settled(1, h, t4)
         /\ Modifiers(1, h, t) /\ k = "arrow" =>
              /\ Modifiers(1, h, t4)
              /\ Yielded(1, t, Pressed("E0")) = <<>> /\ Yielded(1, t1, Pressed(k)) = <<>>
              /\ Yielded(1, t2, Pressed("E0")) = <<>>
              /\ Yielded(1, t3, Released(k)) = <<Decoder!Lower(Decoder!Arrow), Decoder!LineEnd>>
<1>1. /\ Pressed("E0").key = "E0" /\ Pressed(k).key = k /\ Released(k).key = k
      /\ Released(k).up = TRUE /\ Pressed(k).up = FALSE /\ Pressed("E0").up = FALSE
      /\ k # "E0" /\ k # "shift" /\ k # "control"
  BY DEF Pressed, Released
<1>2. /\ t.esc \in Nat /\ t.shift \in BOOLEAN /\ t.control \in BOOLEAN /\ t.release \in BOOLEAN
      /\ t.esc # 1 /\ (t.control => "control" \in h)
  BY DEF States, Settled
<1>r. /\ EscRule(t, Pressed("E0")) /\ (t1 \in States => EscRule(t1, Pressed(k)))
      /\ t2 \in States => EscRule(t2, Pressed("E0"))
      /\ t3 \in States => EscRule(t3, Released(k))
  BY EscSteps
<1>3. CASE t.esc = 0
  <2>a. EscAt(t, Pressed("E0")) = 1
    BY <1>1, <1>3 DEF EscAt
  <2>1. t1 = [t EXCEPT !.esc = 1] /\ Yielded(1, t, Pressed("E0")) = <<>>
    BY <2>a, <1>r DEF EscRule
  <2>2. t1.esc = 1 /\ t1 \in States
    BY <2>1 DEF States
  <2>3. t2 = [t1 EXCEPT !.esc = 1] /\ Yielded(1, t1, Pressed(k)) = <<>>
    <3>1. EscAt(t1, Pressed(k)) = 1
      BY <1>1, <2>2 DEF EscAt
    <3> QED BY <2>2, <3>1, <1>r DEF EscRule
  <2>4. t2 = t1
    BY <2>2, <2>3 DEF States
  <2>5. t3 = [t1 EXCEPT !.esc = 2] /\ Yielded(1, t2, Pressed("E0")) = <<>>
    <3>1. EscAt(t2, Pressed("E0")) = 2
      BY <1>1, <2>2, <2>4 DEF EscAt
    <3>2. t3 = [t2 EXCEPT !.esc = 2] /\ Yielded(1, t2, Pressed("E0")) = <<>>
      BY <1>1, <2>2, <2>4, <3>1, <1>r DEF EscRule
    <3> QED BY <2>4, <3>2
  <2>6. /\ t3.esc = 2 /\ t3 \in States /\ t3.shift = t.shift /\ t3.control = t.control
        /\ t3.release = t.release
    BY <2>1, <2>2, <2>5 DEF States
  <2>b. EscAt(t3, Released(k)) = 2
    BY <1>1, <2>6 DEF EscAt
  <2>7. CASE k = "arrow"
    <3>1. t4 = [t3 EXCEPT !.esc = 0, !.escKey = Decoder!Arrow]
      BY <1>1, <2>6, <2>7, <2>b, <1>r DEF EscRule
    <3>2. After1(t3, Released(k)) = t4
      BY DEF After
    <3>3. /\ t4.esc = 0 /\ t4.shift = t.shift /\ t4.control = t.control /\ t4.release = t.release
          /\ t4.escKey = Decoder!Arrow
      BY <2>6, <3>1 DEF States
    <3>4. Yielded(1, t3, Released(k)) = <<Decoder!Lower(Decoder!Arrow), Decoder!LineEnd>>
      BY <1>1, <2>7, <2>b, <3>2, <3>3 DEF Yielded, Yielded1
    <3> QED BY <1>2, <1>3, <2>1, <2>3, <2>5, <3>3, <3>4 DEF Settled, Modifiers
  <2>8. CASE k = "rcontrol"
    <3>1. t4 = [t3 EXCEPT !.control = FALSE]
      BY <1>1, <2>6, <2>8, <2>b, <1>r DEF EscRule
    <3>2. t4.esc = 2 /\ t4.control = FALSE
      BY <2>6, <3>1 DEF States
    <3> QED BY <2>8, <3>2 DEF Settled
  <2> QED BY <2>7, <2>8
<1>4. CASE t.esc # 0
  <2>1. ~Modifiers(1, h, t)
    BY <1>4 DEF Modifiers
  <2>2. t.esc + 1 \in Nat /\ t.esc + 1 > 2
    BY <1>2, <1>4
  <2>3. ASSUME NEW s \in States, s.esc > 1
        PROVE  /\ After(1, s, Pressed("E0")).esc = s.esc + 1
               /\ After(1, s, Pressed("E0")).control = s.control
               /\ After(1, s, Pressed("E0")) \in States
    <3>1. EscAt(s, Pressed("E0")) = s.esc + 1 /\ s.esc + 1 \notin {1, 2} /\ s.esc \in Nat
      BY <1>1, <2>3 DEF EscAt, States
    <3> DEFINE v == After(1, s, Pressed("E0"))
    <3>2. v = [s EXCEPT !.esc = s.esc + 1]
      BY <1>1, <3>1, EscSteps DEF EscRule
    <3> HIDE DEF v
    <3>3. v.esc = s.esc + 1 /\ v.control = s.control /\ v \in States
      BY <3>1, <3>2 DEF States
    <3> QED BY <3>3 DEF v
  <2>4. t1.esc = t.esc + 1 /\ t1.control = t.control /\ t1 \in States
    BY <1>2, <1>4, <2>3
  <2>5. t2.esc = t1.esc /\ t2 \in States /\ (k = "arrow" => t2.control = t.control)
    <3>1. EscAt(t1, Pressed(k)) = t1.esc /\ t1.esc \notin {1, 2}
      BY <1>1, <1>2, <1>4, <2>4 DEF EscAt
    <3>2. CASE k = "arrow"
      <4>1. t2 = [t1 EXCEPT !.esc = t1.esc]
        BY <1>1, <2>4, <3>1, <3>2, <1>r DEF EscRule
      <4> QED BY <2>4, <4>1 DEF States
    <3>3. CASE k = "rcontrol"
      <4>1. t2 = [t1 EXCEPT !.esc = t1.esc, !.control = TRUE]
        BY <1>1, <2>4, <3>1, <3>3, <1>r DEF EscRule
      <4> QED BY <2>4, <3>3, <4>1 DEF States
    <3> QED BY <3>2, <3>3
  <2>6. t3.esc = t2.esc + 1 /\ t3.control = t2.control /\ t3 \in States
    BY <1>2, <2>2, <2>3, <2>4, <2>5
  <2>7. t4.esc = t3.esc /\ t4.control = IF k = "rcontrol" THEN FALSE ELSE t3.control
    <3>1. EscAt(t3, Released(k)) = t3.esc /\ t3.esc \notin {1, 2}
      BY <1>1, <1>2, <2>2, <2>4, <2>5, <2>6 DEF EscAt
    <3>2. CASE k = "arrow"
      <4>1. t4 = [t3 EXCEPT !.esc = t3.esc]
        BY <1>1, <2>6, <3>1, <3>2, <1>r DEF EscRule
      <4> QED BY <2>6, <3>2, <4>1 DEF States
    <3>3. CASE k = "rcontrol"
      <4>1. t4 = [t3 EXCEPT !.esc = t3.esc, !.control = FALSE]
        BY <1>1, <2>6, <3>1, <3>3, <1>r, ZenonT(20) DEF EscRule
      <4> QED BY <2>6, <3>3, <4>1 DEF States
    <3> QED BY <3>2, <3>3
  <2>8. t4.esc # 1 /\ (t4.control => "control" \in h)
    <3>1. t4.esc = (t.esc + 1) + 1
      BY <2>4, <2>5, <2>6, <2>7
    <3>2. CASE k = "rcontrol"
      <4>1. t4.control = FALSE
        BY <2>7, <3>2
      <4> QED BY <1>2, <2>2, <3>1, <4>1
    <3>3. CASE k = "arrow"
      <4>1. t4.control = t.control
        BY <2>5, <2>6, <2>7, <3>3
      <4> QED BY <1>2, <2>2, <3>1, <4>1
    <3> QED BY <3>2, <3>3
  <2> QED BY <2>1, <2>8 DEF Settled
<1> QED BY <1>3, <1>4

(* So each action of the keyboard keeps the invariant. *)
LEMMA CodesFrame ==
  ASSUME CodeInv, keyset' = keyset, Current' \in States, stored' \in Seq(Decoder!Yield),
         defect' \in BOOLEAN, held' \subseteq {"shift", "control"} \cup Plain,
         wire' \in Seq(Codes(keyset)), asked' \in Seq(Decoder!Yield),
         NEW t, NEW a \in Seq(Decoder!Yield), Decodes(keyset, Current', wire', t, a),
         Settled(keyset, held', t),
         ~defect' => a = asked' /\ Modifiers(keyset, held', t)
  PROVE  CodeInv'
<1>1. Caught(t, a)'
  BY DEF Caught
<1>2. \E x, y : Caught(x, y)'
  BY <1>1
<1> QED BY <1>2 DEF CodeInv

LEMMA PressKeeps ==
  ASSUME CodeInv, NEW k \in {"shift", "control"} \cup Plain, Decoder!Press(k)
  PROVE  CodeInv' /\ Len(wire') >= Len(wire)
<1> DEFINE c == Pressed(k)
           m == Means(keyset, k, "shift" \in held, "control" \in held)
<1>1. /\ held' = held \cup {k} /\ wire' = wire \o Decoder!PressCodes(k) /\ keyset' = keyset
      /\ asked' = IF k \in {"shift", "control"} THEN asked ELSE Append(asked, m)
      /\ defect' = (defect \/ (keyset = 2 /\ k = "control"))
      /\ Current' = Current /\ stored' = stored
  BY MeansIs, KeyFacts DEF Decoder!Press, Decoder!Modifier, Decoder!handler, Current
<1>2. PICK t, a : Caught(t, a)
  BY DEF CodeInv
<1>3. /\ keyset \in {1, 2} /\ wire \in Seq(Codes(keyset)) /\ c \in Codes(keyset)
      /\ a \in Seq(Decoder!Yield) /\ asked \in Seq(Decoder!Yield)
      /\ Decodes(keyset, Current, wire, t, a) /\ Settled(keyset, held, t)
      /\ Current' \in States /\ stored' \in Seq(Decoder!Yield)
      /\ held' \subseteq {"shift", "control"} \cup Plain /\ defect' \in BOOLEAN
  BY <1>1, <1>2, SentCodes DEF CodeInv, Caught
<1>4. m \in Decoder!Yield
  <2>1. ("shift" \in held) \in BOOLEAN /\ ("control" \in held) \in BOOLEAN
    OBVIOUS
  <2> QED BY <2>1, MeaningType, Zenon
<1>5. wire' = Append(wire, c)
  <2>1. wire' = wire \o (<<>> \o <<c>>)
    BY <1>1, <1>3, SentCodes
  <2> HIDE DEF c
  <2> QED BY <1>3, <2>1, Behind
<1> DEFINE y == Yielded(keyset, t, c)
<1>6. /\ t \in States /\ wire' \in Seq(Codes(keyset)) /\ a \o y \in Seq(Decoder!Yield)
      /\ Decodes(keyset, Current, wire', After(keyset, t, c), a \o y)
  BY <1>3, <1>5, OneMore
<1>7. /\ Settled(keyset, held', After(keyset, t, c))
      /\ Modifiers(keyset, held, t) /\ ~(keyset = 2 /\ k = "control") =>
           /\ Modifiers(keyset, held', After(keyset, t, c))
           /\ y = IF k \in {"shift", "control"} THEN <<>> ELSE <<m>>
  BY <1>1, <1>3, <1>6, PressSettles, ZenonT(20)
<1> HIDE DEF m, c, y
<1>8. asked' \in Seq(Decoder!Yield)
  BY <1>1, <1>3, <1>4
<1>9. ASSUME ~defect' PROVE a \o y = asked' /\ Modifiers(keyset, held', After(keyset, t, c))
  <2>1. ~defect /\ ~(keyset = 2 /\ k = "control")
    BY <1>1, <1>9
  <2>2. a = asked /\ Modifiers(keyset, held, t)
    BY <1>2, <2>1 DEF Caught
  <2>3. a \o <<>> = a /\ a \o <<m>> = Append(a, m)
    BY <1>3, <1>4, YieldBehind
  <2> QED BY <1>1, <1>7, <2>1, <2>2, <2>3
<1>10. Len(wire') >= Len(wire)
  BY <1>3, <1>5 DEF c
<1> QED BY <1>1, <1>3, <1>6, <1>7, <1>8, <1>9, <1>10, CodesFrame

LEMMA ReleaseKeeps ==
  ASSUME CodeInv, NEW k \in {"shift", "control"} \cup Plain, Decoder!Release(k)
  PROVE  CodeInv' /\ Len(wire') >= Len(wire)
<1>1. /\ held' = held \ {k} /\ wire' = wire \o Decoder!ReleaseCodes(k) /\ keyset' = keyset
      /\ asked' = asked /\ defect' = defect /\ Current' = Current /\ stored' = stored
  BY DEF Decoder!Release, Decoder!handler, Current
<1>2. PICK t, a : Caught(t, a)
  BY DEF CodeInv
<1>3. /\ keyset \in {1, 2} /\ wire \in Seq(Codes(keyset))
      /\ a \in Seq(Decoder!Yield) /\ asked \in Seq(Decoder!Yield)
      /\ Decodes(keyset, Current, wire, t, a) /\ Settled(keyset, held, t)
      /\ Current' \in States /\ stored' \in Seq(Decoder!Yield)
      /\ held' \subseteq {"shift", "control"} \cup Plain /\ defect' \in BOOLEAN
      /\ asked' \in Seq(Decoder!Yield)
      /\ ~defect' => a = asked' /\ Modifiers(keyset, held, t)
  BY <1>1, <1>2 DEF CodeInv, Caught
<1>4. CASE keyset = 1
  <2> DEFINE c == Released(k)
             y == Yielded(keyset, t, c)
  <2>1. c \in Codes(keyset)
    BY <1>3, SentCodes
  <2>2. wire' = Append(wire, c)
    <3>1. wire' = wire \o (<<>> \o <<c>>)
      BY <1>1, <1>3, <1>4, SentCodes
    <3> HIDE DEF c
    <3> QED BY <1>3, <2>1, <3>1, Behind
  <2>3. /\ t \in States /\ wire' \in Seq(Codes(keyset)) /\ a \o y \in Seq(Decoder!Yield)
        /\ Decodes(keyset, Current, wire', After(keyset, t, c), a \o y)
    BY <1>3, <2>1, <2>2, OneMore
  <2>4. /\ Settled(keyset, held', After(keyset, t, c))
        /\ Modifiers(keyset, held, t) => Modifiers(keyset, held', After(keyset, t, c)) /\ y = <<>>
    BY <1>1, <1>3, <1>4, <2>3, ReleaseSettles
  <2> HIDE DEF c, y
  <2>5. a \o <<>> = a
    BY <1>3
  <2>6. ~defect' => a \o y = asked' /\ Modifiers(keyset, held', After(keyset, t, c))
    BY <1>3, <2>4, <2>5
  <2>7. Len(wire') >= Len(wire)
    BY <1>3, <2>2
  <2> QED BY <1>1, <1>3, <2>3, <2>4, <2>6, <2>7, CodesFrame
<1>5. CASE keyset = 2
  <2> DEFINE c == Pressed("F0")
             d == Pressed(k)
             s == After(keyset, t, c)
             v == After(keyset, s, d)
             y == Yielded(keyset, t, c)
             z == Yielded(keyset, s, d)
  <2>1. c \in Codes(keyset) /\ d \in Codes(keyset)
    BY <1>3, <1>5, SentCodes
  <2>2. wire' = Append(Append(wire, c), d)
    <3>1. wire' = wire \o (<<>> \o <<c, d>>)
      BY <1>1, <1>3, <1>5, SentCodes
    <3> HIDE DEF c, d
    <3> QED BY <1>3, <2>1, <3>1, Behind
  <2>3. /\ t \in States /\ Append(wire, c) \in Seq(Codes(keyset)) /\ a \o y \in Seq(Decoder!Yield)
        /\ Decodes(keyset, Current, Append(wire, c), s, a \o y)
    BY <1>3, <2>1, OneMore
  <2>4. /\ wire' \in Seq(Codes(keyset)) /\ (a \o y) \o z \in Seq(Decoder!Yield)
        /\ Decodes(keyset, Current, wire', v, (a \o y) \o z)
    <3> HIDE DEF s, y
    <3> QED BY <1>3, <2>1, <2>2, <2>3, OneMore
  <2>5. Modifiers(keyset, held, t) => Modifiers(keyset, held', v) /\ y = <<>> /\ z = <<>>
    BY <1>1, <1>5, <2>3, ReleaseSettles2
  <2> HIDE DEF c, d, s, v, y, z
  <2>6. (a \o <<>>) \o <<>> = a
    BY <1>3
  <2>7. ~defect' => (a \o y) \o z = asked' /\ Modifiers(keyset, held', v)
    BY <1>3, <2>5, <2>6
  <2>8. Len(wire') >= Len(wire)
    BY <1>3, <2>1, <2>2, <2>3
  <2>9. Settled(keyset, held', v)
    BY <1>5 DEF Settled
  <2> QED BY <1>1, <1>3, <2>4, <2>7, <2>8, <2>9, CodesFrame
<1> QED BY <1>3, <1>4, <1>5

LEMMA TapKeeps ==
  ASSUME CodeInv, NEW k \in {"arrow", "rcontrol"}, Decoder!Tap(k)
  PROVE  CodeInv' /\ Len(wire') >= Len(wire)
<1> DEFINE c == Pressed("E0")
           d == Pressed(k)
           e == Released(k)
           m == <<Decoder!Lower(Decoder!Arrow), Decoder!LineEnd>>
<1>1. /\ keyset = 1 /\ held' = held /\ keyset' = keyset
      /\ wire' = (wire \o Decoder!PressCodes(k)) \o Decoder!ReleaseCodes(k)
      /\ asked' = IF k = "arrow" THEN asked \o m ELSE asked
      /\ defect' = (defect \/ k = "rcontrol") /\ Current' = Current /\ stored' = stored
  BY KeyFacts DEF Decoder!Tap, Decoder!handler, Current
<1>2. Decoder!PressCodes(k) = <<c>> \o <<d>> /\ Decoder!ReleaseCodes(k) = <<c>> \o <<e>>
  BY <1>1 DEF Decoder!PressCodes, Decoder!ReleaseCodes, Decoder!Prefixed, Pressed, Released
<1>3. c \in Codes(keyset) /\ d \in Codes(keyset) /\ e \in Codes(keyset)
  BY <1>1 DEF Codes, Pressed, Released
<1>4. PICK t, a : Caught(t, a)
  BY DEF CodeInv
<1>5. /\ keyset \in {1, 2} /\ wire \in Seq(Codes(keyset))
      /\ a \in Seq(Decoder!Yield) /\ asked \in Seq(Decoder!Yield)
      /\ Decodes(keyset, Current, wire, t, a) /\ Settled(keyset, held, t)
      /\ Current' \in States /\ stored' \in Seq(Decoder!Yield)
      /\ held' \subseteq {"shift", "control"} \cup Plain /\ defect' \in BOOLEAN
  BY <1>1, <1>4 DEF CodeInv, Caught
<1>6. m \in Seq(Decoder!Yield)
  <2>1. Decoder!Lower(Decoder!Arrow) \in Decoder!Yield /\ Decoder!LineEnd \in Decoder!Yield
    BY DEF Decoder!Yield, Decoder!Lower, Decoder!Arrow
  <2> QED BY <2>1
<1> DEFINE t1 == After(keyset, t, c)
           t2 == After(keyset, t1, d)
           t3 == After(keyset, t2, c)
           t4 == After(keyset, t3, e)
           y1 == Yielded(keyset, t, c)
           y2 == Yielded(keyset, t1, d)
           y3 == Yielded(keyset, t2, c)
           y4 == Yielded(keyset, t3, e)
           w1 == Append(wire, c)
           w2 == Append(w1, d)
           w3 == Append(w2, c)
<1>7. wire' = Append(w3, e)
  <2>1. wire' = TwoPairs(wire, c, d, e)
    BY <1>1, <1>2 DEF TwoPairs
  <2> HIDE DEF c, d, e
  <2> QED BY <1>3, <1>5, <2>1, BehindTwice
<1> DEFINE a1 == a \o y1
           a2 == a1 \o y2
           a3 == a2 \o y3
           a4 == a3 \o y4
<1>8. /\ t \in States /\ w1 \in Seq(Codes(keyset)) /\ a1 \in Seq(Decoder!Yield)
      /\ Decodes(keyset, Current, w1, t1, a1)
  BY <1>3, <1>5, OneMore
<1>9. /\ Settled(1, held, t4)
      /\ Modifiers(1, held, t) /\ k = "arrow" =>
           Modifiers(1, held, t4) /\ y1 = <<>> /\ y2 = <<>> /\ y3 = <<>> /\ y4 = m
  <2>1. /\ t1 = After(1, t, c) /\ t2 = After(1, t1, d) /\ t3 = After(1, t2, c)
        /\ t4 = After(1, t3, e) /\ y1 = Yielded(1, t, c) /\ y2 = Yielded(1, t1, d)
        /\ y3 = Yielded(1, t2, c) /\ y4 = Yielded(1, t3, e)
    BY <1>1
  <2>2. t \in States /\ Settled(1, held, t)
    BY <1>1, <1>5, <1>8
  <2> HIDE DEF t1, t2, t3, t4, y1, y2, y3, y4
  <2> QED BY <2>1, <2>2, TapSettles
<1>10. /\ w2 \in Seq(Codes(keyset)) /\ a2 \in Seq(Decoder!Yield)
       /\ Decodes(keyset, Current, w2, t2, a2)
  <2> HIDE DEF w1, a1, t1
  <2> QED BY <1>3, <1>5, <1>8, OneMore
<1>11. /\ w3 \in Seq(Codes(keyset)) /\ a3 \in Seq(Decoder!Yield)
       /\ Decodes(keyset, Current, w3, t3, a3)
  <2> HIDE DEF w2, a2, t2
  <2> QED BY <1>3, <1>5, <1>10, OneMore
<1>12. /\ wire' \in Seq(Codes(keyset)) /\ a4 \in Seq(Decoder!Yield)
       /\ Decodes(keyset, Current, wire', t4, a4)
  <2> HIDE DEF w3, a3, t3
  <2> QED BY <1>3, <1>5, <1>7, <1>11, OneMore
<1>13. Len(wire') >= Len(wire)
  <2>1. Len(w1) = Len(wire) + 1 /\ Len(w2) = Len(w1) + 1 /\ Len(w3) = Len(w2) + 1
        /\ Len(wire') = Len(w3) + 1 /\ Len(wire) \in Nat
    BY <1>3, <1>5, <1>7, <1>8, <1>10, <1>11, AppendProperties, LenProperties
  <2> QED BY <2>1
<1> HIDE DEF c, d, e, m, t1, t2, t3, t4, y1, y2, y3, y4, w1, w2, w3
<1>14. ASSUME ~defect' PROVE a4 = asked' /\ Modifiers(keyset, held', t4)
  <2>1. ~defect /\ k = "arrow"
    BY <1>1, <1>14
  <2>2. a = asked /\ Modifiers(1, held, t)
    BY <1>1, <1>4, <2>1 DEF Caught
  <2>3. ((a \o <<>>) \o <<>>) \o <<>> = a
    BY <1>5
  <2> QED BY <1>1, <1>9, <2>1, <2>2, <2>3
<1> HIDE DEF a4
<1>15. asked' \in Seq(Decoder!Yield)
  BY <1>1, <1>5, <1>6
<1> QED BY <1>1, <1>5, <1>9, <1>12, <1>13, <1>14, <1>15, CodesFrame

(* An interrupt takes the first code. *)
LEMMA InterruptKeeps ==
  ASSUME CodeInv, Decoder!Interrupt
  PROVE  CodeInv' /\ (~defect => Decoder!IsPrefix(stored', asked))
<1>1. PICK t, a : Caught(t, a)
  BY DEF CodeInv
<1>2. /\ keyset \in {1, 2} /\ wire \in Seq(Codes(keyset)) /\ wire # <<>>
      /\ a \in Seq(Decoder!Yield) /\ asked \in Seq(Decoder!Yield)
      /\ Decodes(keyset, Current, wire, t, a) /\ Settled(keyset, held, t) /\ Current \in States
      /\ held \subseteq {"shift", "control"} \cup Plain /\ defect \in BOOLEAN
      /\ ~defect => a = asked /\ Modifiers(keyset, held, t)
  BY <1>1 DEF CodeInv, Caught, Decoder!Interrupt
<1>3. /\ wire' = Tail(wire) /\ keyset' = keyset /\ held' = held /\ defect' = defect
      /\ (keyset = 1 /\ Decoder!Handler1(Head(wire))) \/ (keyset = 2 /\ Decoder!Handler2(Head(wire)))
      /\ asked' = SubSeq(asked, Len(stored') + 1, Len(asked))
  BY DEF Decoder!Interrupt
<1>4. Head(wire) \in Codes(keyset)
  BY <1>2, EmptySeq, HeadTailProperties
<1>5. Current' = After(keyset, Current, Head(wire)) /\ stored' = Yielded(keyset, Current, Head(wire))
  BY <1>2, <1>3, <1>4, HandlerDecodes
<1>6. /\ Tail(wire) \in Seq(Codes(keyset)) /\ stored' \in Seq(Decoder!Yield)
      /\ SubSeq(a, Len(stored') + 1, Len(a)) \in Seq(Decoder!Yield)
      /\ Decoder!IsPrefix(stored', a) /\ Current' \in States
      /\ Decodes(keyset, Current', Tail(wire), t, SubSeq(a, Len(stored') + 1, Len(a)))
  BY <1>2, <1>5, FirstCode
<1>7. asked' \in Seq(Decoder!Yield)
  <2>1. Len(stored') \in Nat /\ Len(asked) \in Nat
    BY <1>2, <1>6, LenProperties
  <2>2. \A i \in 1..Len(asked) : asked[i] \in Decoder!Yield
    BY <1>2, ElementOfSeq
  <2> QED BY <1>2, <1>3, <2>1, <2>2
<1> DEFINE b == SubSeq(a, Len(stored') + 1, Len(a))
<1>8. ~defect' => b = asked' /\ Modifiers(keyset, held', t)
  BY <1>2, <1>3
<1> HIDE DEF b
<1>9. b \in Seq(Decoder!Yield) /\ Decodes(keyset, Current', wire', t, b)
  BY <1>3, <1>6 DEF b
<1>10. CodeInv'
  BY <1>2, <1>3, <1>6, <1>7, <1>8, <1>9, CodesFrame
<1> QED BY <1>2, <1>6, <1>10

LEMMA CodesStep ==
  ASSUME CodeInv, Decoder!Next
  PROVE  CodeInv' /\ (Len(wire') < Len(wire) /\ ~defect => Decoder!IsPrefix(stored', asked))
<1>1. ASSUME Len(wire') >= Len(wire) PROVE ~(Len(wire') < Len(wire))
  BY <1>1
<1>2. CASE Decoder!Interrupt
  BY <1>2, InterruptKeeps
<1>3. ASSUME NEW k \in {"shift", "control"} \cup Plain, Decoder!Press(k) \/ Decoder!Release(k)
      PROVE  CodeInv' /\ Len(wire') >= Len(wire)
  BY <1>3, PressKeeps, ReleaseKeeps
<1>4. ASSUME NEW k \in {"arrow", "rcontrol"}, Decoder!Tap(k)
      PROVE  CodeInv' /\ Len(wire') >= Len(wire)
  BY <1>4, TapKeeps
<1> QED BY <1>1, <1>2, <1>3, <1>4 DEF Decoder!Next

LEMMA SetKept == OneReader!Next \/ AllReaders!Next => keyset' = keyset
<1>1. OneReader!Next => keyset' = keyset
  BY DEF OneReader!Next, OneReader!KernelStep, OneReader!Interrupt, OneReader!Key,
         OneReader!ControlC, OneReader!Arrow, OneReader!Read, OneReader!Looks, OneReader!Empty,
         OneReader!Sleep, OneReader!Take, OneReader!Die, OneReader!Kill, OneReader!KillOther
<1>2. AllReaders!Next => keyset' = keyset
  BY DEF AllReaders!Next, AllReaders!KernelStep, AllReaders!Interrupt, AllReaders!Key,
         AllReaders!ControlC, AllReaders!Arrow, AllReaders!Read, AllReaders!Looks, AllReaders!Empty,
         AllReaders!Sleep, AllReaders!Take, AllReaders!Die, AllReaders!Kill, AllReaders!KillOther
<1> QED BY <1>1, <1>2

LEMMA CodesSteps ==
  CodeInv /\ [Next]_vars =>
    CodeInv' /\ [Len(wire') < Len(wire) /\ ~defect => Decoder!IsPrefix(stored', asked)]_(Decoder!vars)
<1> SUFFICES ASSUME CodeInv, [Next]_vars
             PROVE  CodeInv' /\ [Len(wire') < Len(wire) /\ ~defect =>
                                   Decoder!IsPrefix(stored', asked)]_(Decoder!vars)
  OBVIOUS
<1>1. Decoder!Next \/ UNCHANGED Decoder!vars
  <2>1. Decoder!Next \/ (UNCHANGED decoder /\ keyset' = keyset)
    BY SetKept DEF Next, vars, KeyboardSteps, CardSteps, keyboard
  <2> QED BY <2>1 DEF decoder, Decoder!vars, Decoder!keyboard, Decoder!handler
<1>2. CASE UNCHANGED Decoder!vars
  <2>1. UNCHANGED <<keyset, held, wire, asked, defect, stored, Current>>
    BY <1>2 DEF Decoder!vars, Decoder!keyboard, Decoder!handler, Current
  <2>2. PICK t, a : Caught(t, a)
    BY DEF CodeInv
  <2>3. Caught(t, a)'
    BY <2>1, <2>2 DEF Caught
  <2>4. \E x, y : Caught(x, y)'
    BY <2>3
  <2> QED BY <1>2, <2>1, <2>4 DEF CodeInv
<1> QED BY <1>1, <1>2, CodesStep

LEMMA ControlKnown == CodeInv => Decoder!ControlIsHeld
<1> SUFFICES ASSUME CodeInv, keyset = 1, wire = <<>>, control PROVE "control" \in held
  BY DEF Decoder!ControlIsHeld
<1>1. PICK t, a : Caught(t, a)
  BY DEF CodeInv
<1>2. t = Current /\ Settled(1, held, t)
  BY <1>1, NoCodes DEF Caught
<1> QED BY <1>2 DEF Settled, Current

(* The handlers of driver/kbd.c store for each key what it stands for, with the modifiers that
   were down when it was pressed, for any keys and however many codes are under way: until a key
   is used whose release they miss; and with scan code set 1 they never take Control for held
   when it is not. *)
THEOREM KeysUnderstood == Spec => KeysDecoded
<1>1. Init => CodeInv
  BY CodesInit DEF Init
<1>2. Spec => []CodeInv
  BY <1>1, CodesSteps, PTL DEF Spec
<1>3. Spec => Decoder!KeysDecoded
  BY <1>1, CodesSteps, PTL DEF Spec, Decoder!KeysDecoded
<1> QED BY <1>2, <1>3, ControlKnown, PTL DEF KeysDecoded

-----------------------------------------------------------------------------
(* The SD card *)

(* The driver's variables for one way. *)
DriverVars ==
  [buf : Callers \cup {None}, count : 0..Chunks, done : BOOLEAN, value : Int, queue : Seq(Callers)]

(* p is in getblock() or putblock(), going the way w, and has still to be told; the
   handler works for p. *)
Waits(p, w) ==
  /\ drv[w].buf = p /\ (drv[w].done => drv[w].count = 0)
  /\ call[p] = "started" => drv[w].queue = <<>> /\ drv[w].value = IF drv[w].count = 0 THEN 1 ELSE 0
  /\ call[p] = "blocked" => drv[w].count > 0 /\ drv[w].queue = <<p>> /\ drv[w].value = -1
  /\ w = "write" => mem[p] \in Card!Data

(* What the card and the handler have moved for p so far, of block b. *)
Under(p, w, b) ==
  /\ req[p] = [way |-> w, block |-> b] /\ drv[w].count > 0
  /\ transfer = [way |-> w, block |-> b, data |-> transfer.data]
  /\ transfer.data \in Seq(Chunk) /\ Len(transfer.data) = Chunks - drv[w].count
  /\ \A i \in 1..(Chunks - drv[w].count) :
       /\ transfer.data[i] = IF w = "write" THEN mem[p][i] ELSE card[b][i]
       /\ w = "read" => mem[p][i] = card[b][i]

CardTypes ==
  /\ card \in [Blocks -> Card!Data]
  /\ mem \in [Callers -> [1..Chunks -> Chunk \cup {None}]]
  /\ req \in [Callers -> [way : Card!Way, block : Blocks]]
  /\ call \in [Callers -> {"idle", "started", "blocked", "back"}]
  /\ drv \in [Card!Way -> DriverVars]
(* Of the processes in the driver one has not been told yet; others may be on their way
   out. *)
OneCall ==
  \A p, q \in Callers :
    call[p] \in {"started", "blocked"} /\ call[q] \in {"started", "blocked"} => p = q
CardInv ==
  /\ CardTypes /\ OneCall
  /\ \A p \in Callers, w \in Card!Way :
       call[p] \in {"started", "blocked"} /\ req[p].way = w => Waits(p, w)
  /\ transfer.way \in Card!Way =>
       \E p \in Callers, w \in Card!Way, b \in Blocks :
         call[p] \in {"started", "blocked"} /\ Under(p, w, b)

LEMMA CardFacts ==
  /\ Chunks \in Nat \ {0} /\ None \notin Card!Data
  /\ (CHOOSE v \in Chunk : TRUE) \in Chunk /\ (CHOOSE b \in Blocks : TRUE) \in Blocks
  /\ "read" \in Card!Way /\ "write" \in Card!Way
BY CardSizes DEF Card!Data, Card!Way

LEMMA IdleVars ==
  /\ Card!Idle \in DriverVars
  /\ Card!Idle.done = FALSE /\ Card!Idle.value = 0 /\ Card!Idle.queue = <<>>
<1>1. <<>> \in Seq(Callers) /\ 0 \in 0..Chunks /\ 0 \in Int
  BY CardFacts
<1> QED BY <1>1 DEF Card!Idle, DriverVars

LEMMA CardInit == Card!Init => CardInv
<1> SUFFICES ASSUME Card!Init PROVE CardInv
  OBVIOUS
<1>1. [i \in 1..Chunks |-> CHOOSE v \in Chunk : TRUE] \in Card!Data
  BY CardFacts DEF Card!Data
<1>2. [i \in 1..Chunks |-> None] \in [1..Chunks -> Chunk \cup {None}]
  OBVIOUS
<1>3. [way |-> "read", block |-> CHOOSE b \in Blocks : TRUE] \in [way : Card!Way, block : Blocks]
  BY CardFacts
<1>4. Card!Idle \in DriverVars
  BY IdleVars
<1>5. CardTypes
  BY <1>1, <1>2, <1>3, <1>4 DEF Card!Init, CardTypes
<1>6. \A p \in Callers : call[p] = "idle"
  BY DEF Card!Init
<1>7. transfer.way \notin Card!Way
  BY DEF Card!Init, Card!NoTransfer, Card!Way
<1> QED BY <1>5, <1>6, <1>7 DEF CardInv, OneCall

(* getblock() or putblock() up to the command. *)
LEMMA StartTypes ==
  ASSUME CardInv, NEW p \in Callers, NEW w \in Card!Way, NEW b \in Blocks, Card!Start(p, w, b),
         NEW m \in [1..Chunks -> Chunk \cup {None}], mem' = [mem EXCEPT ![p] = m], card' = card
  PROVE  /\ CardTypes' /\ drv'[w].buf = p /\ drv'[w].count = Chunks
         /\ drv'[w].done = FALSE /\ drv'[w].value = 0 /\ drv'[w].queue = <<>>
<1>1. /\ call' = [call EXCEPT ![p] = "started"]
      /\ req' = [req EXCEPT ![p] = [way |-> w, block |-> b]]
      /\ drv' = [drv EXCEPT ![w] = [Card!Idle EXCEPT !.buf = p, !.count = Chunks]]
  BY DEF Card!Start
<1> DEFINE s == [Card!Idle EXCEPT !.buf = p, !.count = Chunks]
<1>2. /\ s \in DriverVars /\ s.buf = p /\ s.count = Chunks
      /\ s.done = FALSE /\ s.value = 0 /\ s.queue = <<>>
  <2>1. Chunks \in 0..Chunks
    BY CardFacts
  <2> DEFINE i == Card!Idle
  <2>2. i \in DriverVars /\ i.done = FALSE /\ i.value = 0 /\ i.queue = <<>>
    BY IdleVars
  <2> HIDE DEF i
  <2>3. s = [i EXCEPT !.buf = p, !.count = Chunks]
    BY DEF i
  <2> HIDE DEF s
  <2> QED BY <2>1, <2>2, <2>3 DEF DriverVars
<1>3. drv' = [drv EXCEPT ![w] = s]
  BY <1>1
<1> HIDE DEF s
<1>4. CardTypes'
  <2>1. [way |-> w, block |-> b] \in [way : Card!Way, block : Blocks]
    OBVIOUS
  <2>2. req' \in [Callers -> [way : Card!Way, block : Blocks]]
    BY <1>1, <2>1 DEF CardInv, CardTypes
  <2>3. drv' \in [Card!Way -> DriverVars]
    BY <1>2, <1>3 DEF CardInv, CardTypes
  <2>4. mem' \in [Callers -> [1..Chunks -> Chunk \cup {None}]]
    BY DEF CardInv, CardTypes
  <2>5. call' \in [Callers -> {"idle", "started", "blocked", "back"}]
    BY <1>1 DEF CardInv, CardTypes
  <2> QED BY <2>2, <2>3, <2>4, <2>5 DEF CardInv, CardTypes
<1>5. drv'[w] = s
  BY <1>3 DEF CardInv, CardTypes
<1> QED BY <1>2, <1>4, <1>5

(* Nobody else has still to be told. *)
LEMMA StartKeeps ==
  ASSUME CardInv, NEW p \in Callers, NEW w \in Card!Way, NEW b \in Blocks, Card!Start(p, w, b),
         NEW m \in [1..Chunks -> Chunk \cup {None}], mem' = [mem EXCEPT ![p] = m],
         w = "write" => m \in Card!Data, card' = card, ~ mixed'
  PROVE  CardInv'
<1>1. /\ \A q \in Callers : call[q] \notin {"started", "blocked"}
      /\ call' = [call EXCEPT ![p] = "started"]
      /\ req' = [req EXCEPT ![p] = [way |-> w, block |-> b]]
      /\ transfer' = [way |-> w, block |-> b, data |-> <<>>]
  BY DEF Card!Start, Card!HasCPU, Card!Waiting
<1>2. drv'[w].buf = p /\ drv'[w].count = Chunks /\ drv'[w].done = FALSE /\ drv'[w].value = 0
      /\ drv'[w].queue = <<>>
  BY StartTypes
<1>4. CardTypes'
  BY StartTypes
<1>5. OneCall' /\ \A q \in Callers : q # p => call'[q] \notin {"started", "blocked"}
  BY <1>1 DEF OneCall, CardInv, CardTypes
<1>6. /\ call'[p] = "started" /\ req'[p] = [way |-> w, block |-> b] /\ mem'[p] = m
  BY <1>1 DEF CardInv, CardTypes
<1>7. Waits(p, w)' /\ req'[p].way = w
  <2>2. Chunks # 0
    BY CardFacts
  <2> QED BY <1>2, <1>6, <2>2 DEF Waits
<1>8. Under(p, w, b)'
  <2>1. <<>> \in Seq(Chunk) /\ Len(<<>>) = 0 /\ Chunks - Chunks = 0 /\ Chunks > 0
    BY CardFacts
  <2>2. \A i \in 1..0 : FALSE
    OBVIOUS
  <2>3. drv'[w].count = Chunks
    BY <1>2, <1>6
  <2>4. transfer'.data = <<>> /\ transfer' = [way |-> w, block |-> b, data |-> transfer'.data]
    BY <1>1
  <2> QED BY <1>6, <2>1, <2>2, <2>3, <2>4 DEF Under
<1> QED BY <1>4, <1>5, <1>6, <1>7, <1>8 DEF CardInv

LEMMA WaitKeeps ==
  ASSUME CardInv, NEW p \in Callers, NEW w \in Card!Way, req[p].way = w, Card!Wait(p)
  PROVE  /\ CardInv' /\ drv'[w].count = drv[w].count
         /\ call'[p] = IF drv[w].count = 0 THEN "back" ELSE "blocked"
<1> DEFINE s == drv[w]
           r == Card!Down(s, p)
<1>1. /\ call[p] = "started" /\ drv' = [drv EXCEPT ![w] = r]
      /\ call' = [call EXCEPT ![p] = IF drv'[w].value < 0 THEN "blocked" ELSE "back"]
      /\ card' = card /\ transfer' = transfer /\ mem' = mem /\ req' = req
  BY DEF Card!Wait
<1>2. /\ s \in DriverVars /\ call \in [Callers -> {"idle", "started", "blocked", "back"}]
      /\ Waits(p, w) /\ drv \in [Card!Way -> DriverVars]
  BY <1>1 DEF CardInv, CardTypes
<1>3. /\ s.queue = <<>> /\ s.value = (IF s.count = 0 THEN 1 ELSE 0) /\ s.count \in 0..Chunks
      /\ s.buf = p /\ (s.done => s.count = 0)
  BY <1>1, <1>2 DEF Waits, DriverVars
<1>4. /\ r.count = s.count /\ r.buf = s.buf /\ r.done = s.done /\ r.value = s.value - 1
      /\ r.queue = IF s.count = 0 THEN <<>> ELSE <<p>>
      /\ r \in DriverVars
  <2>1. /\ Append(<<>>, p) = <<p>> /\ <<p>> \in Seq(Callers) /\ <<>> \in Seq(Callers)
    OBVIOUS
  <2>2. s.value - 1 \in Int /\ (s.value <= 0 <=> s.count # 0)
    BY <1>3
  <2> HIDE DEF s
  <2>3. r = [s EXCEPT !.value = s.value - 1, !.queue = IF s.count = 0 THEN <<>> ELSE <<p>>]
    BY <1>2, <1>3, <2>1, <2>2 DEF Card!Down, DriverVars
  <2> QED BY <1>2, <2>1, <2>2, <2>3 DEF DriverVars
<1> HIDE DEF r
<1>11. drv'[w] = r
  BY <1>1, <1>2
<1>5. call'[p] = IF s.count = 0 THEN "back" ELSE "blocked"
  BY <1>1, <1>2, <1>3, <1>4, <1>11
<1>6. CardTypes'
  BY <1>1, <1>2, <1>4 DEF CardInv, CardTypes
<1>7. OneCall' /\ \A q \in Callers : q # p => call'[q] \notin {"started", "blocked"}
  BY <1>1, <1>5 DEF OneCall, CardInv, CardTypes
<1>8. call'[p] \in {"started", "blocked"} => Waits(p, w)'
  BY <1>1, <1>2, <1>3, <1>4, <1>5, <1>11 DEF Waits
<1>9. \A b \in Blocks : Under(p, w, b) => Under(p, w, b)' /\ call'[p] = "blocked"
  BY <1>1, <1>3, <1>4, <1>5, <1>11 DEF Under
<1>10. transfer.way \in Card!Way => \E b \in Blocks : Under(p, w, b)
  <2>1. \A v, b : Under(p, v, b) => v = w
    BY DEF Under
  <2> QED BY <1>1, <2>1 DEF CardInv, OneCall
<1> QED BY <1>1, <1>4, <1>5, <1>6, <1>7, <1>8, <1>9, <1>10, <1>11 DEF CardInv

LEMMA PollKeeps ==
  ASSUME CardInv, NEW p \in Callers, NEW w \in Card!Way, req[p].way = w, Card!Poll(p)
  PROVE  CardInv'
<1>1. /\ call[p] = "started" /\ card' = card /\ transfer' = transfer /\ drv' = drv
      /\ mem' = mem /\ req' = req /\ call' = [call EXCEPT ![p] = "back"] /\ drv[w].done
  BY DEF Card!Poll
<1>2. transfer.way \notin Card!Way
  <2>1. drv[w].count = 0
    BY <1>1 DEF CardInv, Waits
  <2>2. \A v, b : ~Under(p, v, b)
    BY <2>1 DEF Under
  <2> QED BY <1>1, <2>2 DEF CardInv, OneCall
<1>3. CardTypes' /\ OneCall' /\ \A q \in Callers : call'[q] \notin {"started", "blocked"}
  BY <1>1 DEF CardInv, CardTypes, OneCall
<1> QED BY <1>1, <1>2, <1>3 DEF CardInv

LEMMA ReturnKeeps ==
  ASSUME CardInv, NEW p \in Callers, Card!Return(p)
  PROVE  CardInv'
<1>1. /\ call[p] = "back" /\ card' = card /\ transfer' = transfer /\ drv' = drv
      /\ mem' = mem /\ req' = req /\ call' = [call EXCEPT ![p] = "idle"]
  BY DEF Card!Return
<1>2. /\ CardTypes'
      /\ \A q \in Callers : call'[q] \in {"started", "blocked"} <=> call[q] \in {"started", "blocked"}
      /\ \A q \in Callers : call[q] \in {"started", "blocked"} => call'[q] = call[q]
  BY <1>1 DEF CardInv, CardTypes
<1>3. OneCall'
  BY <1>2 DEF CardInv, OneCall
<1>4. \A q \in Callers, w \in Card!Way :
        call'[q] \in {"started", "blocked"} /\ req'[q].way = w => Waits(q, w)'
  <2> SUFFICES ASSUME NEW q \in Callers, NEW w \in Card!Way,
                      call'[q] \in {"started", "blocked"}, req'[q].way = w
               PROVE  Waits(q, w)'
    OBVIOUS
  <2>1. call[q] \in {"started", "blocked"} /\ call'[q] = call[q]
    BY <1>2
  <2>2. Waits(q, w)
    BY <1>1, <2>1 DEF CardInv
  <2> QED BY <1>1, <2>1, <2>2, Zenon DEF Waits
<1>5. \A q, w, b : Under(q, w, b) => Under(q, w, b)'
  BY <1>1 DEF Under
<1> QED BY <1>1, <1>2, <1>3, <1>4, <1>5 DEF CardInv

(* What an interrupt leaves of the driver's variables after a chunk, s being the ones
   before it. *)
LEMMA ChunkMoved ==
  ASSUME CardInv, NEW p \in Callers, NEW w \in Card!Way, NEW b \in Blocks,
         call[p] \in {"started", "blocked"}, Under(p, w, b),
         NEW d, Card!Moved(w, [drv[w] EXCEPT !.count = drv[w].count - 1], d)
  PROVE  /\ drv' \in [Card!Way -> DriverVars]
         /\ drv'[w].count = drv[w].count - 1 /\ drv'[w].buf = p
         /\ drv'[w].done => drv'[w].count = 0
         /\ call' = [call EXCEPT ![p] = IF drv[w].count = 1 /\ call[p] = "blocked" THEN "back" ELSE call[p]]
         /\ call'[p] = "started" =>
              drv'[w].queue = <<>> /\ drv'[w].value = IF drv'[w].count = 0 THEN 1 ELSE 0
         /\ call'[p] = "blocked" =>
              drv'[w].count > 0 /\ drv'[w].queue = <<p>> /\ drv'[w].value = -1
         /\ transfer' = IF drv[w].count = 1 THEN Card!NoTransfer ELSE [transfer EXCEPT !.data = d]
<1> DEFINE s == drv[w]
           r == [s EXCEPT !.count = s.count - 1]
           u == [Card!Up(r) EXCEPT !.done = TRUE]
<1>1. /\ s \in DriverVars /\ Waits(p, w) /\ s.count > 0 /\ drv \in [Card!Way -> DriverVars]
      /\ call \in [Callers -> {"idle", "started", "blocked", "back"}]
  <2>1. req[p].way = w
    BY DEF Under
  <2> QED BY <2>1 DEF Under, CardInv, CardTypes, OneCall
<1>2. /\ s.buf = p /\ (s.done => s.count = 0) /\ s.count \in 1..Chunks /\ s.value \in Int
      /\ s.queue \in Seq(Callers)
      /\ call[p] = "started" => s.queue = <<>> /\ s.value = 0
      /\ call[p] = "blocked" => s.queue = <<p>> /\ s.value = -1
  BY <1>1, CardFacts DEF Waits, DriverVars
<1> HIDE DEF s
<1>3. /\ r \in DriverVars /\ r.buf = p /\ r.count = s.count - 1 /\ r.done = s.done
      /\ r.value = s.value /\ r.queue = s.queue
  <2>1. s.count - 1 \in 0..Chunks
    BY <1>2, CardFacts
  <2> QED BY <1>1, <1>2, <2>1 DEF DriverVars
<1>4. Card!Moved(w, r, d)
  BY DEF s
<1> HIDE DEF r
<1>5. CASE s.count = 1
  <2>1. r.count = 0
    BY <1>3, <1>5
  <2>2. /\ drv' = [drv EXCEPT ![w] = u]
        /\ call' = [q \in Callers |-> IF q \in Card!Wakes(r) THEN "back" ELSE call[q]]
        /\ transfer' = Card!NoTransfer
    BY <1>4, <2>1 DEF Card!Moved, Card!AllMoved
  <2>3. /\ u.buf = p /\ u.count = 0 /\ u \in DriverVars
        /\ call[p] = "started" => u.queue = <<>> /\ u.value = 1
    <3>1. Card!Up(r) = [r EXCEPT !.value = r.value + 1,
                          !.queue = IF r.value < 0 THEN Tail(r.queue) ELSE r.queue]
      BY DEF Card!Up
    <3>2. (IF r.value < 0 THEN Tail(r.queue) ELSE r.queue) \in Seq(Callers)
      <4>1. r.value < 0 => r.queue = <<p>>
        BY <1>2, <1>3
      <4>2. Tail(<<p>>) = <<>> /\ <<>> \in Seq(Callers)
        OBVIOUS
      <4> QED BY <1>2, <1>3, <4>1, <4>2
    <3>3. r.value + 1 \in Int
      BY <1>2, <1>3
    <3> DEFINE v == Card!Up(r)
    <3>4. /\ v \in DriverVars /\ v.buf = p /\ v.count = 0 /\ v.value = r.value + 1
          /\ v.queue = IF r.value < 0 THEN Tail(r.queue) ELSE r.queue
      BY <1>3, <2>1, <3>1, <3>2, <3>3 DEF DriverVars
    <3> HIDE DEF v
    <3>5. u = [v EXCEPT !.done = TRUE]
      BY DEF v
    <3> HIDE DEF u
    <3>6. /\ u \in DriverVars /\ u.buf = v.buf /\ u.count = v.count
          /\ u.value = v.value /\ u.queue = v.queue
      BY <3>4, <3>5 DEF DriverVars
    <3>7. call[p] = "started" => v.value = 1 /\ v.queue = <<>>
      BY <1>2, <1>3, <3>4
    <3> QED BY <3>4, <3>6, <3>7
  <2> HIDE DEF u
  <2>4. Card!Wakes(r) = IF call[p] = "blocked" THEN {p} ELSE {}
    <3>1. Head(<<p>>) = p
      OBVIOUS
    <3>2. CASE call[p] = "blocked"
      <4>1. r.value < 0 /\ r.queue = <<p>>
        BY <1>2, <1>3, <3>2
      <4> QED BY <3>1, <3>2, <4>1 DEF Card!Wakes
    <3>3. CASE call[p] = "started"
      <4>1. ~(r.value < 0)
        BY <1>2, <1>3, <3>3
      <4> QED BY <3>3, <4>1 DEF Card!Wakes
    <3> QED BY <3>2, <3>3
  <2>5. call' = [call EXCEPT ![p] = IF call[p] = "blocked" THEN "back" ELSE call[p]]
    BY <1>1, <2>2, <2>4
  <2>6. drv'[w] = u /\ drv' \in [Card!Way -> DriverVars]
    BY <1>1, <2>2, <2>3
  <2>7. call'[p] = IF call[p] = "blocked" THEN "back" ELSE call[p]
    BY <1>1, <2>5
  <2>8. s.count - 1 = 0
    BY <1>5
  <2>9. drv'[w].count = drv[w].count - 1 /\ drv'[w].buf = p
    BY <2>3, <2>6, <2>8 DEF s
  <2>10. call' = [call EXCEPT ![p] = IF drv[w].count = 1 /\ call[p] = "blocked" THEN "back" ELSE call[p]]
    BY <1>5, <2>5 DEF s
  <2>11. transfer' = IF drv[w].count = 1 THEN Card!NoTransfer ELSE [transfer EXCEPT !.data = d]
    BY <1>5, <2>2 DEF s
  <2> QED BY <2>3, <2>6, <2>7, <2>9, <2>10, <2>11
<1>6. CASE s.count # 1
  <2>1. r.count # 0
    BY <1>2, <1>3, <1>6
  <2>2. drv' = [drv EXCEPT ![w] = r] /\ call' = call /\ transfer' = [transfer EXCEPT !.data = d]
    BY <1>4, <2>1 DEF Card!Moved, Card!AllMoved
  <2>3. drv'[w] = r /\ r.count > 0
    BY <1>1, <1>2, <1>3, <1>6, <2>2
  <2>4. call' = [call EXCEPT ![p] = call[p]]
    BY <1>1, <2>2
  <2>5. drv' \in [Card!Way -> DriverVars]
    BY <1>1, <1>3, <2>2
  <2>6. /\ drv'[w].count = drv[w].count - 1 /\ drv'[w].buf = p /\ drv'[w].count > 0
        /\ ~drv'[w].done
    BY <1>2, <1>3, <2>3 DEF s
  <2>7. call' = [call EXCEPT ![p] = IF drv[w].count = 1 /\ call[p] = "blocked" THEN "back" ELSE call[p]]
    BY <1>6, <2>4 DEF s
  <2>8. transfer' = IF drv[w].count = 1 THEN Card!NoTransfer ELSE [transfer EXCEPT !.data = d]
    BY <1>6, <2>2 DEF s
  <2>9. /\ call[p] = "started" => drv'[w].queue = <<>> /\ drv'[w].value = 0
        /\ call[p] = "blocked" => drv'[w].queue = <<p>> /\ drv'[w].value = -1
    BY <1>2, <1>3, <2>3
  <2>10. drv'[w].count # 0
    BY <2>3
  <2> QED BY <2>2, <2>5, <2>6, <2>7, <2>8, <2>9, <2>10
<1> QED BY <1>5, <1>6

LEMMA ChunkKeeps ==
  ASSUME CardInv, NEW p \in Callers, NEW w \in Card!Way, NEW b \in Blocks,
         call[p] \in {"started", "blocked"}, Under(p, w, b),
         NEW x \in Chunk, NEW k, k = Chunks - drv[w].count + 1,
         Card!Moved(w, [drv[w] EXCEPT !.count = drv[w].count - 1], Append(transfer.data, x)),
         mem' \in [Callers -> [1..Chunks -> Chunk \cup {None}]],
         \A i \in 1..Chunks : i # k => mem'[p][i] = mem[p][i],
         w = "write" => x = mem[p][k] /\ mem' = mem,
         w = "read" => x = card[b][k] /\ mem'[p][k] = x,
         card' \in [Blocks -> Card!Data], drv[w].count # 1 => card' = card,
         req' = req
  PROVE  CardInv'
<1> DEFINE d == Append(transfer.data, x)
<1>1. /\ drv' \in [Card!Way -> DriverVars]
      /\ drv'[w].count = drv[w].count - 1 /\ drv'[w].buf = p
      /\ drv'[w].done => drv'[w].count = 0
      /\ call' = [call EXCEPT ![p] = IF drv[w].count = 1 /\ call[p] = "blocked" THEN "back" ELSE call[p]]
      /\ call'[p] = "started" =>
           drv'[w].queue = <<>> /\ drv'[w].value = IF drv'[w].count = 0 THEN 1 ELSE 0
      /\ call'[p] = "blocked" =>
           drv'[w].count > 0 /\ drv'[w].queue = <<p>> /\ drv'[w].value = -1
      /\ transfer' = IF drv[w].count = 1 THEN Card!NoTransfer ELSE [transfer EXCEPT !.data = d]
  <2>1. Card!Moved(w, [drv[w] EXCEPT !.count = drv[w].count - 1], d)
    OBVIOUS
  <2> HIDE DEF d
  <2> QED BY <2>1, ChunkMoved
<1>2. /\ req[p] = [way |-> w, block |-> b] /\ drv[w].count > 0
      /\ transfer = [way |-> w, block |-> b, data |-> transfer.data]
      /\ transfer.data \in Seq(Chunk) /\ Len(transfer.data) = k - 1
      /\ \A i \in 1..(k - 1) :
           /\ transfer.data[i] = IF w = "write" THEN mem[p][i] ELSE card[b][i]
           /\ w = "read" => mem[p][i] = card[b][i]
  <2>1. drv[w] \in DriverVars
    BY DEF CardInv, CardTypes
  <2>2. k - 1 = Chunks - drv[w].count
    BY <2>1, CardFacts DEF DriverVars
  <2> QED BY <2>2 DEF Under
<1>3. /\ drv[w].count \in 1..Chunks /\ k \in 1..Chunks
      /\ call \in [Callers -> {"idle", "started", "blocked", "back"}]
      /\ card \in [Blocks -> Card!Data]
      /\ \A q \in Callers : q # p => call[q] \notin {"started", "blocked"}
  <2>1. drv[w] \in DriverVars
    BY DEF CardInv, CardTypes
  <2>2. drv[w].count \in 1..Chunks
    BY <1>2, <2>1, CardFacts DEF DriverVars
  <2>3. k \in 1..Chunks
    BY <2>2, CardFacts
  <2> QED BY <2>2, <2>3 DEF CardInv, CardTypes, OneCall
<1>4. call' \in [Callers -> {"idle", "started", "blocked", "back"}]
      /\ \A q \in Callers : q # p => call'[q] \notin {"started", "blocked"}
  BY <1>1, <1>3
<1>5. CardTypes' /\ OneCall'
  BY <1>1, <1>4 DEF CardInv, CardTypes, OneCall
<1>6. w = "write" => mem'[p] \in Card!Data
  <2>1. Waits(p, w)
    BY <1>2 DEF CardInv
  <2> QED BY <2>1 DEF Waits
<1>7. call'[p] \in {"started", "blocked"} => Waits(p, w)'
  BY <1>1, <1>6 DEF Waits
<1>10. \A q \in Callers, v \in Card!Way :
         call'[q] \in {"started", "blocked"} /\ req'[q].way = v => Waits(q, v)'
  <2>1. req'[p].way = w
    BY <1>2
  <2> QED BY <1>4, <1>7, <2>1
<1>8. CASE drv[w].count = 1
  <2>1. transfer' = Card!NoTransfer
    BY <1>1, <1>8
  <2>2. transfer'.way \notin Card!Way
    BY <2>1 DEF Card!NoTransfer, Card!Way
  <2> QED BY <1>5, <1>10, <2>2 DEF CardInv
<1>9. CASE drv[w].count # 1
  <2>1. transfer' = [transfer EXCEPT !.data = d] /\ card' = card /\ call' = [call EXCEPT ![p] = call[p]]
    BY <1>1, <1>9
  <2>2. transfer' = [way |-> w, block |-> b, data |-> d]
    <3> HIDE DEF d
    <3> QED BY <1>2, <2>1
  <2>3. d \in Seq(Chunk) /\ Len(d) = k /\ d[k] = x /\ \A i \in 1..(k - 1) : d[i] = transfer.data[i]
    <3>1. transfer.data \in Seq(Chunk) /\ Len(transfer.data) = k - 1 /\ k \in Nat
      BY <1>2, <1>3, CardFacts
    <3> DEFINE e == transfer.data
    <3>2. e \in Seq(Chunk) /\ Len(e) = k - 1 /\ d = Append(e, x)
      BY <3>1
    <3> HIDE DEF d, e
    <3>3. d \in Seq(Chunk) /\ Len(d) = k /\ d[k] = x /\ \A i \in 1..(k - 1) : d[i] = e[i]
      BY <3>1, <3>2
    <3> QED BY <3>3 DEF e
  <2> HIDE DEF d
  <2>4. ASSUME NEW i \in 1..k
        PROVE  /\ d[i] = IF w = "write" THEN mem'[p][i] ELSE card'[b][i]
               /\ w = "read" => mem'[p][i] = card'[b][i]
    <3>1. CASE i = k
      BY <2>1, <2>3, <3>1 DEF Card!Way
    <3>2. CASE i # k
      <4>1. i \in 1..(k - 1) /\ i \in 1..Chunks
        BY <1>3, <3>2, CardFacts
      <4>2. mem'[p][i] = mem[p][i]
        BY <3>2, <4>1
      <4> QED BY <1>2, <2>1, <2>3, <4>1, <4>2
    <3> QED BY <3>1, <3>2
  <2>5. k = Chunks - drv'[w].count /\ drv'[w].count > 0
    BY <1>1, <1>3, <1>9, CardFacts, SMTT(20)
  <2>6. transfer'.data = d
    BY <2>2
  <2>7. Under(p, w, b)'
    BY <1>2, <2>2, <2>3, <2>4, <2>5, <2>6 DEF Under
  <2>8. call'[p] \in {"started", "blocked"}
    BY <1>3, <2>1
  <2> QED BY <1>5, <1>10, <2>7, <2>8 DEF CardInv
<1> QED BY <1>8, <1>9

(* The process that an interrupt works for. *)
LEMMA WorksFor ==
  ASSUME CardInv, NEW w \in Card!Way, transfer.way = w
  PROVE  \E p \in Callers, b \in Blocks :
           /\ call[p] \in {"started", "blocked"} /\ Under(p, w, b) /\ Waits(p, w)
           /\ transfer.block = b /\ req[p] = [way |-> w, block |-> b]
           /\ drv[w].buf = p /\ drv[w].count \in 1..Chunks
           /\ Len(transfer.data) = Chunks - drv[w].count
<1>1. PICK p \in Callers, v \in Card!Way, b \in Blocks : call[p] \in {"started", "blocked"} /\ Under(p, v, b)
  BY DEF CardInv
<1>2. transfer = [way |-> v, block |-> b, data |-> transfer.data] /\ req[p] = [way |-> v, block |-> b]
  BY <1>1 DEF Under
<1>3. v = w /\ transfer.block = b /\ req[p].way = w
  BY <1>2
<1>4. Waits(p, w)
  BY <1>1, <1>3 DEF CardInv
<1>5. drv[w] \in DriverVars /\ drv[w].count > 0 /\ Len(transfer.data) = Chunks - drv[w].count
  BY <1>1, <1>3 DEF CardInv, CardTypes, Under
<1>6. drv[w].count \in 1..Chunks /\ drv[w].buf = p
  BY <1>4, <1>5, CardFacts DEF DriverVars, Waits
<1> QED BY <1>1, <1>2, <1>3, <1>4, <1>5, <1>6

(* What an interrupt that moves a chunk does, for those who look at whole calls: nothing,
   but when it moves the last one. *)
ChunkFor(p, w, b) ==
  /\ call[p] \in {"started", "blocked"} /\ req[p] = [way |-> w, block |-> b]
  /\ drv[w].count # 0 /\ drv'[w].count = drv[w].count - 1
  /\ call' = [call EXCEPT ![p] =
                IF drv[w].count = 1 /\ call[p] = "blocked" THEN "back" ELSE call[p]]
Received(p, w, b) ==
  /\ ChunkFor(p, w, b)
  /\ \A q \in Callers : q # p => mem'[q] = mem[q]
  /\ drv[w].count = 1 => mem'[p] = card[b]
Written(p, w, b) ==
  /\ ChunkFor(p, w, b) /\ mem[p] \in Card!Data
  /\ card' = IF drv[w].count = 1 THEN [card EXCEPT ![b] = mem[p]] ELSE card

LEMMA RxKeeps ==
  ASSUME CardInv, Card!RxInterrupt, NEW w, w = "read"
  PROVE  /\ CardInv' /\ card' = card /\ req' = req
         /\ \E p \in Callers, b \in Blocks : Received(p, w, b)
<1>1. transfer.way = w /\ w \in Card!Way
  BY DEF Card!RxInterrupt, Card!Way
<1>2. PICK p \in Callers, b \in Blocks :
        /\ call[p] \in {"started", "blocked"} /\ Under(p, w, b) /\ Waits(p, w)
        /\ transfer.block = b /\ req[p] = [way |-> w, block |-> b]
        /\ drv[w].buf = p /\ drv[w].count \in 1..Chunks
        /\ Len(transfer.data) = Chunks - drv[w].count
  BY <1>1, WorksFor
<1> DEFINE k == Chunks - drv[w].count + 1
           x == card[b][k]
           d == Append(transfer.data, x)
           r == [drv[w] EXCEPT !.count = drv[w].count - 1]
<1>3. k \in 1..Chunks /\ Len(transfer.data) + 1 = k /\ transfer.data \in Seq(Chunk)
  BY <1>2, CardFacts DEF Under
<1>4. card \in [Blocks -> [1..Chunks -> Chunk]] /\ mem \in [Callers -> [1..Chunks -> Chunk \cup {None}]]
  BY DEF CardInv, CardTypes, Card!Data
<1>5. x \in Chunk
  BY <1>3, <1>4
<1>6. d[Len(d)] = x
  BY <1>3, <1>5
<1>7. /\ mem' = [mem EXCEPT ![drv[w].buf][Chunks - drv[w].count + 1] =
                Append(transfer.data, card[transfer.block][Len(transfer.data) + 1])
                  [Len(Append(transfer.data, card[transfer.block][Len(transfer.data) + 1]))]]
      /\ Card!Moved(w, r, Append(transfer.data, card[transfer.block][Len(transfer.data) + 1]))
      /\ card' = card /\ req' = req
  BY DEF Card!RxInterrupt, Card!Place
<1>8. Len(transfer.data) + 1 = k /\ transfer.block = b /\ drv[w].buf = p
  BY <1>2, <1>3
<1>9. mem' = [mem EXCEPT ![p][k] = d[Len(d)]] /\ Card!Moved(w, r, d)
  BY <1>7, <1>8
<1>10. mem' = [mem EXCEPT ![p] = [mem[p] EXCEPT ![k] = x]]
  BY <1>6, <1>9
<1> HIDE DEF k, x, r
<1>11. /\ mem' \in [Callers -> [1..Chunks -> Chunk \cup {None}]]
       /\ mem'[p][k] = x /\ \A i \in 1..Chunks : i # k => mem'[p][i] = mem[p][i]
       /\ \A q \in Callers : q # p => mem'[q] = mem[q]
  BY <1>3, <1>4, <1>5, <1>10
<1>12. CardInv'
  <2>1. k = Chunks - drv[w].count + 1 /\ x = card[b][k]
    BY DEF k, x
  <2>2. Card!Moved(w, [drv[w] EXCEPT !.count = drv[w].count - 1], Append(transfer.data, x))
    BY <1>9 DEF r
  <2>3. w # "write" /\ card' \in [Blocks -> Card!Data]
    BY <1>7 DEF CardInv, CardTypes
  <2>4. w = "read" => x = card[b][k] /\ mem'[p][k] = x
    BY <1>11, <2>1
  <2>5. req' = req /\ (drv[w].count # 1 => card' = card)
    BY <1>7
  <2>6. w = "write" => x = mem[p][k] /\ mem' = mem
    BY <2>3
  <2>7. w \in Card!Way /\ x \in Chunk /\ call[p] \in {"started", "blocked"} /\ Under(p, w, b)
    BY <1>1, <1>2, <1>5
  <2> HIDE DEF d
  <2> QED BY <1>11, <2>1, <2>2, <2>3, <2>4, <2>5, <2>6, <2>7, ChunkKeeps, SMTT(20)
<1>13. /\ drv'[w].count = drv[w].count - 1
       /\ call' = [call EXCEPT ![p] = IF drv[w].count = 1 /\ call[p] = "blocked" THEN "back" ELSE call[p]]
  BY <1>1, <1>2, <1>9, ChunkMoved DEF r
<1>14. ASSUME drv[w].count = 1 PROVE mem'[p] = card[b]
  <2>1. k = Chunks
    BY <1>14, CardFacts DEF k
  <2>2. \A i \in 1..(Chunks - 1) : mem[p][i] = card[b][i]
    BY <1>2, <1>14 DEF Under
  <2>3. \A i \in 1..Chunks : mem'[p][i] = card[b][i]
    <3>1. mem'[p][Chunks] = card[b][Chunks]
      BY <1>11, <2>1 DEF x
    <3>2. \A i \in 1..Chunks : i = Chunks \/ i \in 1..(Chunks - 1)
      BY CardFacts
    <3> QED BY <1>11, <2>1, <2>2, <3>1, <3>2
  <2>4. mem'[p] \in [1..Chunks -> Chunk \cup {None}] /\ card[b] \in [1..Chunks -> Chunk]
    BY <1>4, <1>11
  <2>5. /\ mem'[p] = [i \in 1..Chunks |-> mem'[p][i]]
        /\ card[b] = [i \in 1..Chunks |-> card[b][i]]
    BY <2>4
  <2> QED BY <2>3, <2>5
<1>15. drv[w].count # 0
  BY <1>2
<1>16. card' = card /\ req' = req
  BY <1>7
<1>17. /\ call[p] \in {"started", "blocked"} /\ req[p] = [way |-> w, block |-> b]
       /\ \A q \in Callers : q # p => mem'[q] = mem[q]
  BY <1>2, <1>11
<1>18. Received(p, w, b)
  BY <1>13, <1>14, <1>15, <1>17 DEF Received, ChunkFor
<1> QED BY <1>12, <1>16, <1>18

LEMMA TxKeeps ==
  ASSUME CardInv, Card!TxInterrupt, NEW w, w = "write"
  PROVE  /\ CardInv' /\ mem' = mem /\ req' = req
         /\ \E p \in Callers, b \in Blocks : Written(p, w, b)
<1>1. transfer.way = w /\ w \in Card!Way
  BY DEF Card!TxInterrupt, Card!Way
<1>2. PICK p \in Callers, b \in Blocks :
        /\ call[p] \in {"started", "blocked"} /\ Under(p, w, b) /\ Waits(p, w)
        /\ transfer.block = b /\ req[p] = [way |-> w, block |-> b]
        /\ drv[w].buf = p /\ drv[w].count \in 1..Chunks
        /\ Len(transfer.data) = Chunks - drv[w].count
  BY <1>1, WorksFor
<1> DEFINE k == Chunks - drv[w].count + 1
           x == mem[p][k]
           d == Append(transfer.data, x)
           r == [drv[w] EXCEPT !.count = drv[w].count - 1]
<1>3. k \in 1..Chunks /\ Len(transfer.data) + 1 = k /\ transfer.data \in Seq(Chunk)
  BY <1>2, CardFacts DEF Under
<1>4. /\ card \in [Blocks -> Card!Data] /\ mem \in [Callers -> [1..Chunks -> Chunk \cup {None}]]
      /\ mem[p] \in [1..Chunks -> Chunk]
  BY <1>2 DEF CardInv, CardTypes, Waits, Card!Data
<1>5. x \in Chunk
  BY <1>3, <1>4
<1>6. /\ card' = IF Len(Append(transfer.data, mem[drv[w].buf][Chunks - drv[w].count + 1])) = Chunks
                  THEN [card EXCEPT ![transfer.block] =
                          Append(transfer.data, mem[drv[w].buf][Chunks - drv[w].count + 1])]
                  ELSE card
      /\ Card!Moved(w, r, Append(transfer.data, mem[drv[w].buf][Chunks - drv[w].count + 1]))
      /\ mem' = mem /\ req' = req
  BY DEF Card!TxInterrupt, Card!Place
<1>7. Len(d) = k
  BY <1>3, <1>5
<1>8. Len(d) = Chunks <=> drv[w].count = 1
  BY <1>2, <1>7, CardFacts
<1>9. card' = (IF Len(d) = Chunks THEN [card EXCEPT ![b] = d] ELSE card) /\ Card!Moved(w, r, d)
  BY <1>2, <1>6
<1>10. ASSUME drv[w].count = 1 PROVE d = mem[p]
  <2>1. k = Chunks
    BY <1>10, CardFacts
  <2>2. \A i \in 1..(Chunks - 1) : transfer.data[i] = mem[p][i]
    BY <1>2, <1>10 DEF Under
  <2>3. d \in Seq(Chunk) /\ d[k] = x /\ \A i \in 1..(k - 1) : d[i] = transfer.data[i]
    BY <1>3, <1>5
  <2>4. d \in [1..Chunks -> Chunk]
    <3> HIDE DEF d
    <3> QED BY <1>7, <2>1, <2>3, LenProperties
  <2>5. \A i \in 1..Chunks : i = Chunks \/ i \in 1..(Chunks - 1)
    BY CardFacts
  <2>6. d[Chunks] = mem[p][Chunks] /\ \A i \in 1..(Chunks - 1) : d[i] = mem[p][i]
    BY <2>1, <2>2, <2>3
  <2> HIDE DEF d
  <2>7. \A i \in 1..Chunks : d[i] = mem[p][i]
    BY <2>5, <2>6
  <2>8. d = [i \in 1..Chunks |-> d[i]] /\ mem[p] = [i \in 1..Chunks |-> mem[p][i]]
    BY <1>4, <2>4
  <2> QED BY <2>7, <2>8
<1> HIDE DEF d, k, x, r
<1>11. card' = IF drv[w].count = 1 THEN [card EXCEPT ![b] = mem[p]] ELSE card
  BY <1>8, <1>9, <1>10
<1>12. mem[p] \in Card!Data /\ card' \in [Blocks -> Card!Data]
  BY <1>4, <1>11 DEF Card!Data
<1>13. CardInv'
  <2>1. k = Chunks - drv[w].count + 1 /\ x = mem[p][k]
    BY DEF k, x
  <2>2. Card!Moved(w, [drv[w] EXCEPT !.count = drv[w].count - 1], Append(transfer.data, x))
    BY <1>9 DEF r, d
  <2>3. w # "read" /\ (drv[w].count # 1 => card' = card)
    BY <1>11
  <2>4. /\ mem' \in [Callers -> [1..Chunks -> Chunk \cup {None}]] /\ req' = req
        /\ \A i \in 1..Chunks : i # k => mem'[p][i] = mem[p][i]
    BY <1>4, <1>6
  <2>5. w = "write" => x = mem[p][k] /\ mem' = mem
    BY <1>6, <2>1
  <2>6. w = "read" => x = card[b][k] /\ mem'[p][k] = x
    BY <2>3
  <2>7. w \in Card!Way /\ x \in Chunk /\ call[p] \in {"started", "blocked"} /\ Under(p, w, b)
    BY <1>1, <1>2, <1>5
  <2> QED BY <1>12, <2>1, <2>2, <2>3, <2>4, <2>5, <2>6, <2>7, ChunkKeeps
<1>14. /\ drv'[w].count = drv[w].count - 1
       /\ call' = [call EXCEPT ![p] = IF drv[w].count = 1 /\ call[p] = "blocked" THEN "back" ELSE call[p]]
  BY <1>1, <1>2, <1>9, ChunkMoved DEF r
<1>15. drv[w].count # 0
  BY <1>2
<1>16. Written(p, w, b)
  BY <1>2, <1>11, <1>12, <1>14, <1>15 DEF Written, ChunkFor
<1> QED BY <1>6, <1>13, <1>16

LEMMA ErrorKeeps ==
  ASSUME CardInv, Card!ErrorInterrupt
  PROVE  CardInv'
<1>1. /\ transfer' = Card!Failed /\ card' = card /\ drv' = drv /\ mem' = mem /\ req' = req /\ call' = call
  BY DEF Card!ErrorInterrupt
<1>2. transfer'.way \notin Card!Way
  BY <1>1 DEF Card!Failed, Card!Way
<1>3. CardTypes' /\ OneCall'
  BY <1>1 DEF CardInv, CardTypes, OneCall
<1>4. \A p \in Callers, w \in Card!Way :
        call'[p] \in {"started", "blocked"} /\ req'[p].way = w => Waits(p, w)'
  BY <1>1 DEF CardInv, Waits
<1> QED BY <1>2, <1>3, <1>4 DEF CardInv

LEMMA CardStep ==
  ASSUME CardInv, [Card!Next]_sdc, ~ mixed'
  PROVE  CardInv'
<1>1. CASE UNCHANGED sdc
  <2>1. /\ transfer' = transfer /\ card' = card /\ drv' = drv /\ mem' = mem /\ req' = req /\ call' = call
    BY <1>1 DEF sdc
  <2>2. CardTypes' /\ OneCall'
    BY <2>1 DEF CardInv, CardTypes, OneCall
  <2>3. \A p \in Callers, w \in Card!Way :
          call'[p] \in {"started", "blocked"} /\ req'[p].way = w => Waits(p, w)'
    BY <2>1 DEF CardInv, Waits
  <2>4. \A p, w, b : Under(p, w, b) => Under(p, w, b)'
    BY <2>1 DEF Under
  <2> QED BY <2>1, <2>2, <2>3, <2>4 DEF CardInv
<1>2. CASE Card!Interrupt
  BY <1>2, RxKeeps, TxKeeps, ErrorKeeps DEF Card!Interrupt
<1>3. ASSUME NEW p \in Callers, Card!Go(p) PROVE CardInv'
  <2>1. req[p].way \in Card!Way
    BY DEF CardInv, CardTypes
  <2> QED BY <1>3, <2>1, WaitKeeps, PollKeeps, ReturnKeeps DEF Card!Go
<1>4. ASSUME NEW p \in Callers, NEW b \in Blocks, Card!Getblock(p, b) PROVE CardInv'
  <2> DEFINE m == [i \in 1..Chunks |-> None]
  <2>1. m \in [1..Chunks -> Chunk \cup {None}]
    OBVIOUS
  <2>2. ASSUME NEW w, w = "read" PROVE Card!Start(p, w, b) /\ w \in Card!Way /\ w # "write"
    BY <1>4, <2>2 DEF Card!Getblock, Card!Way
  <2>3. mem' = [mem EXCEPT ![p] = m] /\ card' = card
    BY <1>4 DEF Card!Getblock
  <2> HIDE DEF m
  <2> QED BY <2>1, <2>2, <2>3, StartKeeps
<1>5. ASSUME NEW p \in Callers, NEW b \in Blocks, NEW v \in Chunk, Card!Putblock(p, b, v) PROVE CardInv'
  <2> DEFINE m == [i \in 1..Chunks |-> v]
  <2>1. m \in [1..Chunks -> Chunk \cup {None}] /\ m \in Card!Data
    BY DEF Card!Data
  <2>2. ASSUME NEW w, w = "write" PROVE Card!Start(p, w, b) /\ w \in Card!Way
    BY <1>5, <2>2 DEF Card!Putblock, Card!Way
  <2>3. mem' = [mem EXCEPT ![p] = m] /\ card' = card
    BY <1>5 DEF Card!Putblock
  <2> HIDE DEF m
  <2> QED BY <2>1, <2>2, <2>3, StartKeeps
<1>6. ~ (\E p \in Callers : Card!Kill(p))
  BY DEF Card!Kill
<1> QED BY <1>1, <1>2, <1>3, <1>4, <1>5, <1>6 DEF Card!Next

(* What the abstract disk sees of a process: how far its call is, what it has asked for
   and what it has got. *)
StageOf(p) ==
  IF call[p] = "idle" THEN "idle" ELSE IF Card!Done(p) THEN "done" ELSE "asked"
RequestOf(p) ==
  [block |-> req[p].block, data |-> IF req[p].way = "write" THEN mem[p] ELSE None]
ResultOf(p) == IF Card!Done(p) /\ req[p].way = "read" THEN mem[p] ELSE None

LEMMA DiskInit ==
  ASSUME CardInv, \A p \in Callers : call[p] = "idle" /\ req[p].way = "read"
  PROVE  Card!Disk!Init
<1>1. /\ card \in [Blocks -> Card!Data]
      /\ \A p \in Callers : ~Card!Done(p) /\ req[p].block \in Blocks
  BY DEF CardInv, CardTypes, Card!Done
<1> QED BY <1>1 DEF Card!Disk!Init

LEMMA DiskStutters ==
  ASSUME card' = card,
         \A p \in Callers : /\ StageOf(p)' = StageOf(p) /\ RequestOf(p)' = RequestOf(p)
                            /\ ResultOf(p)' = ResultOf(p)
  PROVE  UNCHANGED Card!Disk!vars
BY DEF Card!Disk!vars, StageOf, RequestOf, ResultOf

LEMMA DiskAsks ==
  ASSUME NEW p \in Callers, card' = card, StageOf(p) = "idle", StageOf(p)' = "asked",
         RequestOf(p)' \in [block : Blocks, data : Card!Data \cup {None}],
         ResultOf(p)' = ResultOf(p),
         \A q \in Callers : q # p =>
           /\ StageOf(q)' = StageOf(q) /\ RequestOf(q)' = RequestOf(q) /\ ResultOf(q)' = ResultOf(q)
  PROVE  Card!Disk!Next
<1>1. PICK r \in [block : Blocks, data : Card!Data \cup {None}] : r = RequestOf(p)'
  OBVIOUS
<1>2. Card!Disk!Ask(p, r)
  BY <1>1 DEF Card!Disk!Ask, StageOf, RequestOf, ResultOf
<1> QED BY <1>2 DEF Card!Disk!Next

LEMMA DiskReads ==
  ASSUME NEW p \in Callers, card' = card, StageOf(p) = "asked", StageOf(p)' = "done",
         RequestOf(p)' = RequestOf(p), RequestOf(p).data = None,
         ResultOf(p)' = card[RequestOf(p).block],
         \A q \in Callers : q # p =>
           /\ StageOf(q)' = StageOf(q) /\ RequestOf(q)' = RequestOf(q) /\ ResultOf(q)' = ResultOf(q)
  PROVE  Card!Disk!Next
<1>1. Card!Disk!Do(p)
  BY DEF Card!Disk!Do, StageOf, RequestOf, ResultOf
<1> QED BY <1>1 DEF Card!Disk!Next

LEMMA DiskWrites ==
  ASSUME NEW p \in Callers, StageOf(p) = "asked", StageOf(p)' = "done",
         RequestOf(p)' = RequestOf(p), RequestOf(p).data # None,
         card' = [card EXCEPT ![RequestOf(p).block] = RequestOf(p).data],
         ResultOf(p)' = ResultOf(p),
         \A q \in Callers : q # p =>
           /\ StageOf(q)' = StageOf(q) /\ RequestOf(q)' = RequestOf(q) /\ ResultOf(q)' = ResultOf(q)
  PROVE  Card!Disk!Next
<1>1. Card!Disk!Do(p)
  BY DEF Card!Disk!Do, StageOf, RequestOf, ResultOf
<1> QED BY <1>1 DEF Card!Disk!Next

LEMMA DiskReturns ==
  ASSUME NEW p \in Callers, card' = card, StageOf(p) = "done", StageOf(p)' = "idle",
         RequestOf(p)' = RequestOf(p), ResultOf(p)' = None,
         \A q \in Callers : q # p =>
           /\ StageOf(q)' = StageOf(q) /\ RequestOf(q)' = RequestOf(q) /\ ResultOf(q)' = ResultOf(q)
  PROVE  Card!Disk!Next
BY DEF Card!Disk!Next, Card!Disk!Return, StageOf, RequestOf, ResultOf

(* Each step of the driver is one of the abstract disk, or none: the last chunk's interrupt
   is the instant at which the block is read or written. *)

(* A step after which everybody stands where he stood. *)
LEMMA SameStage ==
  ASSUME NEW p \in Callers, Card!Done(p)' <=> Card!Done(p), call'[p] = "idle" <=> call[p] = "idle",
         req'[p] = req[p], mem'[p] = mem[p]
  PROVE  /\ StageOf(p)' = StageOf(p) /\ RequestOf(p)' = RequestOf(p) /\ ResultOf(p)' = ResultOf(p)
BY DEF StageOf, RequestOf, ResultOf

LEMMA StartMaps ==
  ASSUME CardInv, NEW p \in Callers, NEW w \in Card!Way, NEW b \in Blocks, Card!Start(p, w, b),
         NEW m, mem' = [mem EXCEPT ![p] = m], w = "write" => m \in Card!Data, card' = card,
         ~ mixed'
  PROVE  Card!Disk!Next
<1>1. /\ call[p] = "idle" /\ \A q \in Callers : call[q] \notin {"started", "blocked"}
      /\ call' = [call EXCEPT ![p] = "started"]
      /\ req' = [req EXCEPT ![p] = [way |-> w, block |-> b]]
      /\ drv' = [drv EXCEPT ![w] = [Card!Idle EXCEPT !.buf = p, !.count = Chunks]]
  BY DEF Card!Start, Card!HasCPU, Card!Waiting
<1>2. /\ call'[p] = "started" /\ req'[p] = [way |-> w, block |-> b] /\ mem'[p] = m
      /\ \A q \in Callers : q # p => call'[q] = call[q] /\ req'[q] = req[q] /\ mem'[q] = mem[q]
  BY <1>1 DEF CardInv, CardTypes
<1>3. drv'[w].count # 0
  <2> DEFINE i == Card!Idle
  <2>1. i \in DriverVars
    BY IdleVars
  <2> HIDE DEF i
  <2>2. [i EXCEPT !.buf = p, !.count = Chunks].count = Chunks
    BY <2>1 DEF DriverVars
  <2>3. drv'[w] = [i EXCEPT !.buf = p, !.count = Chunks]
    BY <1>1 DEF CardInv, CardTypes, i
  <2> QED BY <2>2, <2>3, CardFacts
<1>4. req'[p].way = w /\ req'[p].block = b
  BY <1>2
<1>5. ~Card!Done(p)' /\ ~Card!Done(p)
  BY <1>1, <1>2, <1>3, <1>4 DEF Card!Done
<1>6. \A q \in Callers : q # p => (Card!Done(q)' <=> Card!Done(q))
  BY <1>1, <1>2 DEF Card!Done
<1>7. RequestOf(p)' \in [block : Blocks, data : Card!Data \cup {None}]
  BY <1>2, <1>4 DEF RequestOf
<1>8. StageOf(p) = "idle" /\ StageOf(p)' = "asked" /\ ResultOf(p)' = ResultOf(p)
  BY <1>1, <1>2, <1>5 DEF StageOf, ResultOf
<1>9. ASSUME NEW q \in Callers, q # p
      PROVE  /\ StageOf(q)' = StageOf(q) /\ RequestOf(q)' = RequestOf(q) /\ ResultOf(q)' = ResultOf(q)
  BY <1>2, <1>6, <1>9, SameStage
<1> QED BY <1>7, <1>8, <1>9, DiskAsks

LEMMA GoMaps ==
  ASSUME CardInv, NEW p \in Callers, Card!Go(p)
  PROVE  [Card!Disk!Next]_(Card!Disk!vars)
<1> DEFINE w == req[p].way
<1>0. w \in Card!Way
  BY DEF CardInv, CardTypes
<1>1. card' = card /\ mem' = mem /\ req' = req
  BY DEF Card!Go, Card!Wait, Card!Poll, Card!Return
<1>2. CASE Card!Wait(p)
  <2>1. drv'[w].count = drv[w].count /\ call'[p] = IF drv[w].count = 0 THEN "back" ELSE "blocked"
    BY <1>0, <1>2, WaitKeeps
  <2>2. /\ call[p] = "started"
        /\ \A q \in Callers : q # p => call'[q] = call[q] /\ call[q] \notin {"started", "blocked"}
    BY <1>2 DEF Card!Wait, CardInv, CardTypes, OneCall
  <2>3. \A q \in Callers : /\ Card!Done(q)' <=> Card!Done(q)
                           /\ call'[q] = "idle" <=> call[q] = "idle"
    BY <1>1, <2>1, <2>2 DEF Card!Done
  <2> QED BY <1>1, <2>3, SameStage, DiskStutters
<1>3. CASE Card!Poll(p)
  <2>1. call[p] = "started" /\ drv[w].done /\ drv' = drv /\ call' = [call EXCEPT ![p] = "back"]
    BY <1>3 DEF Card!Poll
  <2>2. drv[w].count = 0
    BY <1>0, <2>1 DEF CardInv, Waits
  <2>3. /\ call'[p] = "back"
        /\ \A q \in Callers : q # p => call'[q] = call[q] /\ call[q] \notin {"started", "blocked"}
    BY <2>1 DEF CardInv, CardTypes, OneCall
  <2>4. \A q \in Callers : /\ Card!Done(q)' <=> Card!Done(q)
                           /\ call'[q] = "idle" <=> call[q] = "idle"
    BY <1>1, <2>1, <2>2, <2>3 DEF Card!Done
  <2> QED BY <1>1, <2>4, SameStage, DiskStutters
<1>4. CASE Card!Return(p)
  <2>1. call[p] = "back" /\ call' = [call EXCEPT ![p] = "idle"] /\ \A q \in Callers : call[q] # "started"
    BY <1>4 DEF Card!Return, Card!HasCPU
  <2>2. call'[p] = "idle" /\ \A q \in Callers : q # p => call'[q] = call[q]
    BY <2>1 DEF CardInv, CardTypes
  <2>3. /\ Card!Done(p) /\ ~Card!Done(p)'
        /\ \A q \in Callers : q # p => (Card!Done(q)' <=> Card!Done(q))
    BY <2>1, <2>2 DEF Card!Done
  <2>4. /\ StageOf(p) = "done" /\ StageOf(p)' = "idle" /\ RequestOf(p)' = RequestOf(p)
        /\ ResultOf(p)' = None
    BY <1>1, <2>1, <2>2, <2>3 DEF StageOf, RequestOf, ResultOf
  <2>5. \A q \in Callers : q # p =>
          /\ StageOf(q)' = StageOf(q) /\ RequestOf(q)' = RequestOf(q) /\ ResultOf(q)' = ResultOf(q)
    BY <1>1, <2>2, <2>3, SameStage
  <2> QED BY <1>1, <2>4, <2>5, DiskReturns
<1> QED BY <1>2, <1>3, <1>4 DEF Card!Go

(* Whose call an interrupt ends, and whether it ends it. *)
LEMMA ChunkMaps ==
  ASSUME CardInv, NEW p \in Callers, NEW w \in Card!Way, req[p].way = w, req' = req,
         call[p] \in {"started", "blocked"}, drv[w].count # 0, drv'[w].count = drv[w].count - 1,
         call' = [call EXCEPT ![p] = IF drv[w].count = 1 /\ call[p] = "blocked" THEN "back" ELSE call[p]],
         \A q \in Callers : q # p => mem'[q] = mem[q]
  PROVE  /\ ~Card!Done(p) /\ call'[p] # "idle"
         /\ Card!Done(p)' <=> drv[w].count = 1
         /\ \A q \in Callers : q # p =>
              /\ StageOf(q)' = StageOf(q) /\ RequestOf(q)' = RequestOf(q) /\ ResultOf(q)' = ResultOf(q)
<1>1. /\ drv[w].count \in Nat
      /\ \A q \in Callers : q # p => call'[q] = call[q] /\ call[q] \notin {"started", "blocked"}
      /\ call'[p] = IF drv[w].count = 1 /\ call[p] = "blocked" THEN "back" ELSE call[p]
  <2>1. drv[w] \in DriverVars
    BY DEF CardInv, CardTypes
  <2>2. drv[w].count \in Nat
    BY <2>1, CardFacts DEF DriverVars
  <2> QED BY <2>2 DEF CardInv, CardTypes, OneCall
<1>2. drv'[w].count = 0 <=> drv[w].count = 1
  BY <1>1
<1>3. ~Card!Done(p)
  BY DEF Card!Done
<1>4. Card!Done(p)' <=> drv[w].count = 1
  BY <1>1, <1>2 DEF Card!Done
<1>5. \A q \in Callers : q # p => (Card!Done(q)' <=> Card!Done(q))
  BY <1>1 DEF Card!Done
<1>6. \A q \in Callers : q # p =>
        /\ StageOf(q)' = StageOf(q) /\ RequestOf(q)' = RequestOf(q) /\ ResultOf(q)' = ResultOf(q)
  BY <1>1, <1>5, SameStage
<1> QED BY <1>1, <1>3, <1>4, <1>6

LEMMA RxMaps ==
  ASSUME CardInv, Card!RxInterrupt
  PROVE  [Card!Disk!Next]_(Card!Disk!vars)
<1>1. PICK w : w = "read"
  OBVIOUS
<1>2. PICK p \in Callers, b \in Blocks : Received(p, w, b)
  BY <1>1, RxKeeps
<1>3. card' = card /\ req' = req
  BY <1>1, RxKeeps
<1>10. /\ ChunkFor(p, w, b) /\ (\A q \in Callers : q # p => mem'[q] = mem[q])
       /\ drv[w].count = 1 => mem'[p] = card[b]
  BY <1>2 DEF Received
<1>4. w \in Card!Way /\ w # "write" /\ req[p].way = w /\ req[p].block = b
  BY <1>1, <1>10 DEF Card!Way, ChunkFor
<1>5. /\ ~Card!Done(p) /\ call'[p] # "idle"
      /\ Card!Done(p)' <=> drv[w].count = 1
      /\ \A q \in Callers : q # p =>
           /\ StageOf(q)' = StageOf(q) /\ RequestOf(q)' = RequestOf(q) /\ ResultOf(q)' = ResultOf(q)
  BY <1>3, <1>4, <1>10, ChunkMaps DEF ChunkFor
<1>6. StageOf(p) = "asked" /\ RequestOf(p)' = RequestOf(p) /\ ResultOf(p) = None
  BY <1>3, <1>4, <1>5, <1>10 DEF ChunkFor, StageOf, RequestOf, ResultOf
<1>7. CASE drv[w].count = 1
  <2>1. StageOf(p)' = "done" /\ RequestOf(p).data = None /\ RequestOf(p).block = b
    BY <1>4, <1>5, <1>7 DEF StageOf, RequestOf
  <2>2. ResultOf(p)' = card[RequestOf(p).block]
    BY <1>1, <1>3, <1>4, <1>5, <1>7, <1>10, <2>1 DEF ResultOf
  <2> QED BY <1>3, <1>5, <1>6, <2>1, <2>2, DiskReads
<1>8. CASE drv[w].count # 1
  <2>1. StageOf(p)' = StageOf(p) /\ ResultOf(p)' = ResultOf(p)
    BY <1>5, <1>6, <1>8 DEF StageOf, ResultOf
  <2> QED BY <1>3, <1>5, <1>6, <2>1, DiskStutters
<1> QED BY <1>7, <1>8

LEMMA TxMaps ==
  ASSUME CardInv, Card!TxInterrupt
  PROVE  [Card!Disk!Next]_(Card!Disk!vars)
<1>1. PICK w : w = "write"
  OBVIOUS
<1>2. PICK p \in Callers, b \in Blocks : Written(p, w, b)
  BY <1>1, TxKeeps
<1>3. mem' = mem /\ req' = req
  BY <1>1, TxKeeps
<1>10. /\ ChunkFor(p, w, b) /\ mem[p] \in Card!Data
       /\ card' = IF drv[w].count = 1 THEN [card EXCEPT ![b] = mem[p]] ELSE card
  BY <1>2 DEF Written
<1>4. w \in Card!Way /\ w # "read" /\ req[p].way = w /\ req[p].block = b
  BY <1>1, <1>10 DEF Card!Way, ChunkFor
<1>5. /\ ~Card!Done(p) /\ call'[p] # "idle"
      /\ Card!Done(p)' <=> drv[w].count = 1
      /\ \A q \in Callers : q # p =>
           /\ StageOf(q)' = StageOf(q) /\ RequestOf(q)' = RequestOf(q) /\ ResultOf(q)' = ResultOf(q)
  BY <1>3, <1>4, <1>10, ChunkMaps DEF ChunkFor
<1>6. /\ StageOf(p) = "asked" /\ RequestOf(p)' = RequestOf(p) /\ ResultOf(p)' = ResultOf(p)
      /\ RequestOf(p).block = b /\ RequestOf(p).data = mem[p]
  BY <1>1, <1>3, <1>4, <1>5, <1>10 DEF ChunkFor, StageOf, RequestOf, ResultOf
<1>7. CASE drv[w].count = 1
  <2>1. StageOf(p)' = "done"
    BY <1>5, <1>7 DEF StageOf
  <2>2. RequestOf(p).data # None
    BY <1>6, <1>10, CardFacts
  <2>3. card' = [card EXCEPT ![RequestOf(p).block] = RequestOf(p).data]
    BY <1>6, <1>7, <1>10
  <2> QED BY <1>5, <1>6, <2>1, <2>2, <2>3, DiskWrites
<1>8. CASE drv[w].count # 1
  <2>1. StageOf(p)' = StageOf(p) /\ card' = card
    BY <1>5, <1>6, <1>8, <1>10 DEF StageOf
  <2> QED BY <1>5, <1>6, <2>1, DiskStutters
<1> QED BY <1>7, <1>8

LEMMA CardMaps ==
  ASSUME CardInv, [Card!Next]_sdc, ~ mixed'
  PROVE  [Card!Disk!Next]_(Card!Disk!vars)
<1>1. CASE UNCHANGED sdc \/ Card!ErrorInterrupt
  <2>1. card' = card /\ drv' = drv /\ mem' = mem /\ req' = req /\ call' = call
    BY <1>1 DEF sdc, Card!ErrorInterrupt
  <2>2. \A p \in Callers : Card!Done(p)' <=> Card!Done(p)
    BY <2>1 DEF Card!Done
  <2> QED BY <2>1, <2>2, SameStage, DiskStutters
<1>2. CASE Card!RxInterrupt \/ Card!TxInterrupt
  BY <1>2, RxMaps, TxMaps
<1>3. ASSUME NEW p \in Callers, Card!Go(p) PROVE [Card!Disk!Next]_(Card!Disk!vars)
  BY <1>3, GoMaps
<1>4. ASSUME NEW p \in Callers, NEW b \in Blocks, Card!Getblock(p, b) PROVE Card!Disk!Next
  <2> DEFINE m == [i \in 1..Chunks |-> None]
  <2>1. ASSUME NEW w, w = "read" PROVE Card!Start(p, w, b) /\ w \in Card!Way /\ w # "write"
    BY <1>4, <2>1 DEF Card!Getblock, Card!Way
  <2>2. mem' = [mem EXCEPT ![p] = m] /\ card' = card
    BY <1>4 DEF Card!Getblock
  <2> HIDE DEF m
  <2> QED BY <2>1, <2>2, StartMaps
<1>5. ASSUME NEW p \in Callers, NEW b \in Blocks, NEW v \in Chunk, Card!Putblock(p, b, v)
      PROVE  Card!Disk!Next
  <2> DEFINE m == [i \in 1..Chunks |-> v]
  <2>1. m \in Card!Data
    BY DEF Card!Data
  <2>2. ASSUME NEW w, w = "write" PROVE Card!Start(p, w, b) /\ w \in Card!Way
    BY <1>5, <2>2 DEF Card!Putblock, Card!Way
  <2>3. mem' = [mem EXCEPT ![p] = m] /\ card' = card
    BY <1>5 DEF Card!Putblock
  <2> HIDE DEF m
  <2> QED BY <2>1, <2>2, <2>3, StartMaps
<1>6. ~ (\E p \in Callers : Card!Kill(p))
  BY DEF Card!Kill
<1> QED BY <1>1, <1>2, <1>3, <1>4, <1>5, <1>6 DEF Card!Next, Card!Interrupt

(* The driver keeps to the abstract disk until it is disturbed. *)
CardSound == ~ mixed => CardInv

LEMMA UntilMixed ==
  ASSUME CardSound, [Next]_vars
  PROVE  CardSound' /\ [mixed' \/ [Card!Disk!Next]_(Card!Disk!vars)]_(Card!vars)
<1>1. Card!Next \/ UNCHANGED sdc
  BY DEF Next, vars, KeyboardSteps, CardSteps
<1>2. CASE mixed'
  BY <1>2 DEF CardSound
<1>3. CASE ~ mixed' /\ CardInv
  <2>1. [Card!Next]_sdc
    BY <1>1
  <2> QED BY <1>3, <2>1, CardStep, CardMaps DEF CardSound
<1>4. CASE ~ mixed' /\ ~ CardInv
  <2>1. mixed
    BY <1>4 DEF CardSound
  <2>2. UNCHANGED sdc
    BY <1>1, <2>1 DEF Card!Next
  <2> QED BY <1>4, <2>1, <2>2 DEF sdc
<1> QED BY <1>2, <1>3, <1>4

(* getblock() and putblock() (driver/sdc.c) move whole blocks, read or written at one instant
   between call and return, whenever the card's interrupts come and whether it fails:
   for a card of any blocks, of any number of chunks, and any processes, until one calls
   while another waits or a signal ends the wait. *)
THEOREM CardIsAtomic == Spec => BlocksMoved
<1>1. Init => CardSound /\ Card!Disk!Init
  <2> SUFFICES ASSUME Init PROVE CardSound /\ Card!Disk!Init
    OBVIOUS
  <2>1. CardInv
    BY CardInit DEF Init
  <2>2. \A p \in Callers : call[p] = "idle" /\ req[p].way = "read"
    BY DEF Init, Card!Init
  <2> QED BY <2>1, <2>2, DiskInit DEF CardSound
<1>3. CardSound /\ [Next]_vars =>
        CardSound' /\ [mixed' \/ [Card!Disk!Next]_(Card!Disk!vars)]_(Card!vars)
  BY UntilMixed
<1> QED BY <1>1, <1>3, PTL DEF Spec, BlocksMoved, Card!WholeBlocks

-----------------------------------------------------------------------------
(* The console *)

Glyphs == Letter \cup Console!Digits \cup {Console!Cursor}
Screens == [cell : [Console!Cell -> SUBSET Glyphs], row : 1..Rows, col : 1..Cols]
Texts == [cell : [Console!Cell -> Letter \cup {None}], row : 1..Rows, col : 1..Cols]
Clock == <<1, ClockCol>>

(* A screen s shows the text t, with the cursor at the places in on. *)
Shows(s, t, on) ==
  /\ s \in Screens /\ t \in Texts /\ s.row = t.row /\ s.col = t.col
  /\ \A c \in Console!Cell \ {Clock} :
       /\ s.cell[c] \ {Console!Cursor} = {t.cell[c]} \ {None}
       /\ Console!Cursor \in s.cell[c] <=> c \in on

(* The text with the cell at its position cleared; and with c drawn there, before the
   position moves. *)
Cleared(t) == Console!At(t, None)
Inked(t, c) == IF c \in Letter THEN Console!At(t, c) ELSE Cleared(t)

LEMMA CharFacts ==
  /\ Console!Cursor \notin Letter /\ None \notin Letter
  /\ "nl" \notin Letter /\ "cr" \notin Letter /\ "bs" \notin Letter
  /\ Rows \in Nat \ {0} /\ Cols \in Nat \ {0} /\ ClockCol \in 1..Cols
BY ScreenSizes DEF Console!Cursor

LEMMA HereFacts ==
  ASSUME NEW s, s.row \in 1..Rows, s.col \in 1..Cols
  PROVE  /\ Console!Here(s) \in Console!Cell
         /\ Console!Here(s)[1] = s.row /\ Console!Here(s)[2] = s.col
BY DEF Console!Here, Console!Cell

(* What is put at the place where a screen or a text is. *)
LEMMA ScreenAt ==
  ASSUME NEW s \in Screens, NEW v \in SUBSET Glyphs
  PROVE  /\ Console!At(s, v) \in Screens
         /\ Console!At(s, v).row = s.row /\ Console!At(s, v).col = s.col
         /\ Console!Here(Console!At(s, v)) = Console!Here(s)
         /\ \A c \in Console!Cell :
              Console!At(s, v).cell[c] = IF c = Console!Here(s) THEN v ELSE s.cell[c]
<1>1. Console!Here(s) \in Console!Cell
  BY HereFacts DEF Screens
<1>2. Console!At(s, v) = [s EXCEPT !.cell = [@ EXCEPT ![Console!Here(s)] = v]]
  BY DEF Console!At
<1> DEFINE r == Console!At(s, v)
<1>3. /\ r \in Screens /\ r.row = s.row /\ r.col = s.col
      /\ \A c \in Console!Cell : r.cell[c] = IF c = Console!Here(s) THEN v ELSE s.cell[c]
  BY <1>1, <1>2 DEF Screens
<1> HIDE DEF r
<1>4. Console!Here(r) = Console!Here(s)
  BY <1>3 DEF Console!Here
<1> QED BY <1>3, <1>4 DEF r

LEMMA TextAt ==
  ASSUME NEW t \in Texts, NEW v \in Letter \cup {None}
  PROVE  /\ Console!At(t, v) \in Texts
         /\ Console!At(t, v).row = t.row /\ Console!At(t, v).col = t.col
         /\ \A c \in Console!Cell :
              Console!At(t, v).cell[c] = IF c = Console!Here(t) THEN v ELSE t.cell[c]
<1>1. Console!Here(t) \in Console!Cell
  BY HereFacts DEF Texts
<1>2. Console!At(t, v) = [t EXCEPT !.cell = [@ EXCEPT ![Console!Here(t)] = v]]
  BY DEF Console!At
<1> QED BY <1>1, <1>2 DEF Texts

LEMMA ShowsHere ==
  ASSUME NEW s, NEW t, NEW on, Shows(s, t, on)
  PROVE  /\ s \in Screens /\ t \in Texts
         /\ Console!Here(s) \in Console!Cell /\ Console!Here(t) = Console!Here(s)
         /\ s.cell[Console!Here(s)] \in SUBSET Glyphs
<1>1. /\ s \in Screens /\ t \in Texts /\ s.row = t.row /\ s.col = t.col
      /\ s.row \in 1..Rows /\ s.col \in 1..Cols
      /\ s.cell \in [Console!Cell -> SUBSET Glyphs]
  BY DEF Shows, Screens, Texts
<1>2. /\ Console!Here(s) \in Console!Cell /\ Console!Here(t) = Console!Here(s)
  BY <1>1, HereFacts DEF Console!Here
<1> QED BY <1>1, <1>2

(* To take the cursor off clears the cell that it is in. *)
LEMMA ClearShows ==
  ASSUME NEW s, NEW t, NEW on, Shows(s, t, on),
         \A c \in Console!Cell : c \in on => c = Console!Here(s)
  PROVE  Shows(Console!Clear(s), Cleared(t), {})
<1> DEFINE r == Console!Clear(s)
           u == Cleared(t)
<1>0. /\ s \in Screens /\ t \in Texts /\ s.row = t.row /\ s.col = t.col
      /\ Console!Here(t) = Console!Here(s)
  BY ShowsHere DEF Shows
<1>1. /\ r \in Screens /\ r.row = s.row /\ r.col = s.col
      /\ \A c \in Console!Cell : r.cell[c] = IF c = Console!Here(s) THEN {} ELSE s.cell[c]
  BY <1>0, ScreenAt DEF Console!Clear
<1>2. /\ u \in Texts /\ u.row = t.row /\ u.col = t.col
      /\ \A c \in Console!Cell : u.cell[c] = IF c = Console!Here(s) THEN None ELSE t.cell[c]
  BY <1>0, TextAt DEF Cleared
<1> HIDE DEF r, u
<1>3. ASSUME NEW x \in Console!Cell \ {Clock}
      PROVE  r.cell[x] \ {Console!Cursor} = {u.cell[x]} \ {None} /\ Console!Cursor \notin r.cell[x]
  <2>1. CASE x = Console!Here(s)
    BY <1>1, <1>2, <2>1
  <2>2. CASE x # Console!Here(s)
    BY <1>1, <1>2, <2>2 DEF Shows
  <2> QED BY <2>1, <2>2
<1>4. Shows(r, u, {})
  BY <1>0, <1>1, <1>2, <1>3 DEF Shows
<1> QED BY <1>4 DEF r, u

LEMMA InkShows ==
  ASSUME NEW s, NEW t \in Texts, Shows(s, Cleared(t), {}), NEW c \in Letter
  PROVE  Shows(Console!Drawn(s, c), Console!At(t, c), {})
<1> DEFINE r == Console!Drawn(s, c)
           u == Console!At(t, c)
           e == Cleared(t)
<1>e. /\ e \in Texts /\ e.row = t.row /\ e.col = t.col
      /\ \A x \in Console!Cell : e.cell[x] = IF x = Console!Here(t) THEN None ELSE t.cell[x]
  BY TextAt DEF Cleared
<1>s. Shows(s, e, {})
  OBVIOUS
<1> HIDE DEF e
<1>0. Console!Here(s) \in Console!Cell /\ Console!Here(t) = Console!Here(s)
  BY <1>e, <1>s, ShowsHere DEF Console!Here
<1>1. /\ r \in Screens /\ r.row = s.row /\ r.col = s.col
      /\ Console!Here(r) = Console!Here(s)
      /\ \A x \in Console!Cell :
           r.cell[x] = IF x = Console!Here(s) THEN s.cell[x] \cup {c} ELSE s.cell[x]
  <2> DEFINE v == s.cell[Console!Here(s)] \cup {c}
  <2>1. v \in SUBSET Glyphs /\ s \in Screens
    BY <1>s, ShowsHere DEF Glyphs
  <2>2. r = Console!At(s, v)
    BY DEF Console!Drawn
  <2> HIDE DEF v, r
  <2>3. /\ r \in Screens /\ r.row = s.row /\ r.col = s.col
        /\ Console!Here(r) = Console!Here(s)
        /\ \A x \in Console!Cell : r.cell[x] = IF x = Console!Here(s) THEN v ELSE s.cell[x]
    BY <2>1, <2>2, ScreenAt
  <2> QED BY <2>3 DEF v
<1>2. /\ u \in Texts /\ u.row = t.row /\ u.col = t.col
      /\ \A x \in Console!Cell : u.cell[x] = IF x = Console!Here(s) THEN c ELSE t.cell[x]
  BY <1>0, TextAt
<1>3. e.cell[Console!Here(s)] = None
  BY <1>0, <1>e
<1> HIDE DEF r, u
<1>7. s.row = t.row /\ s.col = t.col
  BY <1>e, <1>s DEF Shows
<1>4. ASSUME NEW x \in Console!Cell \ {Clock}
      PROVE  r.cell[x] \ {Console!Cursor} = {u.cell[x]} \ {None} /\ Console!Cursor \notin r.cell[x]
  <2>1. CASE x = Console!Here(s)
    <3>1. s.cell[x] \ {Console!Cursor} = {} /\ Console!Cursor \notin s.cell[x]
      BY <1>3, <1>s, <2>1 DEF Shows
    <3> QED BY <1>1, <1>2, <2>1, <3>1, CharFacts, ZenonT(20)
  <2>2. CASE x # Console!Here(s)
    BY <1>0, <1>1, <1>2, <1>e, <1>s, <2>2 DEF Shows
  <2> QED BY <2>1, <2>2
<1>5. Shows(r, u, {})
  BY <1>1, <1>2, <1>7, <1>4 DEF Shows
<1> QED BY <1>5 DEF r, u

LEMMA CursorShows ==
  ASSUME NEW s, NEW t, Shows(s, t, {})
  PROVE  Shows(Console!Drawn(s, Console!Cursor), t, {Console!Here(s)})
<1> DEFINE r == Console!Drawn(s, Console!Cursor)
<1>0. Console!Here(s) \in Console!Cell
  BY ShowsHere
<1>1. /\ r \in Screens /\ r.row = s.row /\ r.col = s.col
      /\ Console!Here(r) = Console!Here(s)
      /\ \A x \in Console!Cell :
           r.cell[x] = IF x = Console!Here(s) THEN s.cell[x] \cup {Console!Cursor} ELSE s.cell[x]
  <2>1. Console!Cursor \in Glyphs
    BY DEF Glyphs
  <2>2. s \in Screens /\ s.cell[Console!Here(s)] \in SUBSET Glyphs
    BY ShowsHere
  <2> DEFINE v == s.cell[Console!Here(s)] \cup {Console!Cursor}
  <2>3. v \in SUBSET Glyphs
    BY <2>1, <2>2
  <2>4. r = Console!At(s, v)
    BY DEF Console!Drawn
  <2> HIDE DEF r
  <2>5. /\ Console!At(s, v) \in Screens
        /\ Console!At(s, v).row = s.row /\ Console!At(s, v).col = s.col
        /\ Console!Here(Console!At(s, v)) = Console!Here(s)
        /\ \A c \in Console!Cell :
             Console!At(s, v).cell[c] = IF c = Console!Here(s) THEN v ELSE s.cell[c]
    <3> HIDE DEF v
    <3> QED BY <2>2, <2>3, ScreenAt
  <2> QED BY <2>4, <2>5
<1> HIDE DEF r
<1>2. t \in Texts /\ s.row = t.row /\ s.col = t.col
  BY DEF Shows
<1>3. ASSUME NEW x \in Console!Cell \ {Clock}
      PROVE  /\ r.cell[x] \ {Console!Cursor} = {t.cell[x]} \ {None}
             /\ Console!Cursor \in r.cell[x] <=> x \in {Console!Here(s)}
  <2>1. s.cell[x] \ {Console!Cursor} = {t.cell[x]} \ {None} /\ Console!Cursor \notin s.cell[x]
    BY DEF Shows
  <2> QED BY <1>1, <2>1
<1>4. Shows(r, t, {Console!Here(s)})
  BY <1>1, <1>2, <1>3 DEF Shows
<1> QED BY <1>4 DEF r

LEMMA ScreenMoves ==
  ASSUME NEW s \in Screens
  PROVE  /\ Console!Down(s) \in Screens /\ Console!Down(s).col = s.col
         /\ Console!Down(s).row = IF s.row = Rows THEN s.row ELSE s.row + 1
         /\ \A c \in Console!Cell :
              Console!Down(s).cell[c] =
                IF s.row # Rows THEN s.cell[c]
                ELSE IF c[1] < Rows THEN s.cell[<<c[1] + 1, c[2]>>] ELSE {}
<1>1. s.row \in 1..Rows /\ s.col \in 1..Cols /\ s.cell \in [Console!Cell -> SUBSET Glyphs]
  BY DEF Screens
<1>2. CASE s.row # Rows
  <2>1. s.row + 1 \in 1..Rows
    BY <1>1, <1>2, CharFacts
  <2>2. Console!Down(s) = [s EXCEPT !.row = s.row + 1]
    BY <1>2 DEF Console!Down
  <2> QED BY <1>1, <1>2, <2>1, <2>2 DEF Screens
<1>3. CASE s.row = Rows
  <2> DEFINE f == [c \in Console!Cell |->
                    IF c[1] < Rows THEN s.cell[<<c[1] + 1, c[2]>>] ELSE {}]
  <2>1. Console!Down(s) = [s EXCEPT !.cell = f]
    BY <1>3 DEF Console!Down, Console!Scroll
  <2>2. f \in [Console!Cell -> SUBSET Glyphs]
    <3>1. \A c \in Console!Cell : c[1] < Rows => <<c[1] + 1, c[2]>> \in Console!Cell
      BY CharFacts DEF Console!Cell
    <3> QED BY <1>1, <3>1
  <2>3. \A c \in Console!Cell :
          f[c] = IF c[1] < Rows THEN s.cell[<<c[1] + 1, c[2]>>] ELSE {}
    OBVIOUS
  <2> HIDE DEF f
  <2> QED BY <1>1, <1>3, <2>1, <2>2, <2>3 DEF Screens
<1> QED BY <1>2, <1>3

LEMMA TextMoves ==
  ASSUME NEW t \in Texts
  PROVE  /\ Console!ScrolledText(t) \in Texts /\ Console!ScrolledText(t).col = t.col
         /\ Console!ScrolledText(t).row = IF t.row = Rows THEN t.row ELSE t.row + 1
         /\ \A c \in Console!Cell :
              Console!ScrolledText(t).cell[c] =
                IF t.row # Rows THEN t.cell[c]
                ELSE IF c[1] < Rows THEN t.cell[<<c[1] + 1, c[2]>>] ELSE None
<1>1. t.row \in 1..Rows /\ t.col \in 1..Cols /\ t.cell \in [Console!Cell -> Letter \cup {None}]
  BY DEF Texts
<1>2. CASE t.row # Rows
  <2>1. t.row + 1 \in 1..Rows /\ t.row < Rows
    BY <1>1, <1>2, CharFacts
  <2>2. Console!ScrolledText(t) = [t EXCEPT !.row = t.row + 1]
    BY <2>1 DEF Console!ScrolledText
  <2> QED BY <1>1, <1>2, <2>1, <2>2 DEF Texts
<1>3. CASE t.row = Rows
  <2> DEFINE f == [c \in Console!Cell |->
                    IF c[1] < Rows THEN t.cell[<<c[1] + 1, c[2]>>] ELSE None]
  <2>0. ~(t.row < Rows)
    BY <1>3, CharFacts
  <2>1. Console!ScrolledText(t) = [t EXCEPT !.cell = f]
    BY <2>0 DEF Console!ScrolledText
  <2>2. f \in [Console!Cell -> Letter \cup {None}]
    <3>1. \A c \in Console!Cell : c[1] < Rows => <<c[1] + 1, c[2]>> \in Console!Cell
      BY CharFacts DEF Console!Cell
    <3> QED BY <1>1, <3>1
  <2>3. \A c \in Console!Cell :
          f[c] = IF c[1] < Rows THEN t.cell[<<c[1] + 1, c[2]>>] ELSE None
    OBVIOUS
  <2> HIDE DEF f
  <2> QED BY <1>1, <1>3, <2>1, <2>2, <2>3 DEF Texts
<1> QED BY <1>2, <1>3

(* The frame buffer scrolls as the text does. *)
LEMMA DownShows ==
  ASSUME NEW s, NEW t, Shows(s, t, {})
  PROVE  Shows(Console!Down(s), Console!ScrolledText(t), {})
<1> DEFINE r == Console!Down(s)
           u == Console!ScrolledText(t)
<1>1. s \in Screens /\ t \in Texts /\ s.row = t.row /\ s.col = t.col
  BY DEF Shows
<1>2. /\ r \in Screens /\ r.col = s.col /\ r.row = IF s.row = Rows THEN s.row ELSE s.row + 1
      /\ \A c \in Console!Cell :
           r.cell[c] = IF s.row # Rows THEN s.cell[c]
                       ELSE IF c[1] < Rows THEN s.cell[<<c[1] + 1, c[2]>>] ELSE {}
  BY <1>1, ScreenMoves
<1>3. /\ u \in Texts /\ u.col = t.col /\ u.row = IF t.row = Rows THEN t.row ELSE t.row + 1
      /\ \A c \in Console!Cell :
           u.cell[c] = IF t.row # Rows THEN t.cell[c]
                       ELSE IF c[1] < Rows THEN t.cell[<<c[1] + 1, c[2]>>] ELSE None
  BY <1>1, TextMoves
<1> HIDE DEF r, u
<1>4. ASSUME NEW x \in Console!Cell \ {Clock}
      PROVE  r.cell[x] \ {Console!Cursor} = {u.cell[x]} \ {None} /\ Console!Cursor \notin r.cell[x]
  <2>1. CASE s.row # Rows
    BY <1>1, <1>2, <1>3, <2>1 DEF Shows
  <2>2. CASE s.row = Rows /\ x[1] < Rows
    <3> DEFINE y == <<x[1] + 1, x[2]>>
    <3>1. y \in Console!Cell /\ y # Clock
      BY <2>2, CharFacts DEF Console!Cell, Clock
    <3>2. s.cell[y] \ {Console!Cursor} = {t.cell[y]} \ {None} /\ Console!Cursor \notin s.cell[y]
      BY <3>1 DEF Shows
    <3> QED BY <1>1, <1>2, <1>3, <2>2, <3>2
  <2>3. CASE s.row = Rows /\ ~(x[1] < Rows)
    BY <1>1, <1>2, <1>3, <2>3
  <2> QED BY <2>1, <2>2, <2>3
<1>5. r.row = u.row /\ r.col = u.col
  BY <1>1, <1>2, <1>3
<1>6. Shows(r, u, {})
  BY <1>2, <1>3, <1>4, <1>5 DEF Shows
<1> QED BY <1>6 DEF r, u

(* A change of position alone shows the same. *)
LEMMA ColShows ==
  ASSUME NEW s, NEW t, NEW on, Shows(s, t, on), NEW k \in 1..Cols
  PROVE  Shows([s EXCEPT !.col = k], [t EXCEPT !.col = k], on)
<1>1. [s EXCEPT !.col = k] \in Screens /\ [t EXCEPT !.col = k] \in Texts
  BY DEF Shows, Screens, Texts
<1>2. /\ [s EXCEPT !.col = k].cell = s.cell /\ [t EXCEPT !.col = k].cell = t.cell
      /\ [s EXCEPT !.col = k].row = s.row /\ [t EXCEPT !.col = k].row = t.row
      /\ [s EXCEPT !.col = k].col = k /\ [t EXCEPT !.col = k].col = k
  BY DEF Shows, Screens, Texts
<1> DEFINE r == [s EXCEPT !.col = k]
           u == [t EXCEPT !.col = k]
<1> HIDE DEF r, u
<1>3. Shows(r, u, on)
  BY <1>1, <1>2 DEF Shows, r, u
<1> QED BY <1>3 DEF r, u

(* The move after a character keeps in step with the text. *)
LEMMA MovedShows ==
  ASSUME NEW t \in Texts, NEW c \in Console!Chars, NEW s, Shows(s, Inked(t, c), {})
  PROVE  Shows(Console!Moved(s, c), Console!Told(t, c), {})
<1> DEFINE u == Inked(t, c)
<1>s. Shows(s, u, {})
  OBVIOUS
<1>0. /\ s.row = u.row /\ s.col = u.col /\ s.col \in 1..Cols
      /\ u.col = t.col /\ u = IF c \in Letter THEN Console!At(t, c) ELSE Console!At(t, None)
  BY TextAt DEF Shows, Screens, Inked, Cleared
<1> HIDE DEF u
<1>1. CASE c = "cr"
  <2>1. /\ Console!Moved(s, c) = [s EXCEPT !.col = 1]
        /\ Console!Told(t, c) = [u EXCEPT !.col = 1]
    BY <1>0, <1>1, CharFacts DEF Console!Moved, Console!Told
  <2> QED BY <1>s, <2>1, ColShows, CharFacts
<1>2. CASE c = "nl"
  <2>1. Console!Moved(s, c) = Console!Down(s) /\ Console!Told(t, c) = Console!ScrolledText(u)
    BY <1>0, <1>2, CharFacts DEF Console!Moved, Console!Told
  <2> QED BY <1>s, <2>1, DownShows
<1>3. CASE c = "bs" /\ s.col = 1
  <2>1. Console!Moved(s, c) = s /\ Console!Told(t, c) = u
    BY <1>0, <1>3, CharFacts DEF Console!Moved, Console!Told
  <2> QED BY <1>s, <2>1
<1>4. CASE c = "bs" /\ s.col # 1
  <2>1. /\ Console!Moved(s, c) = Console!Clear([s EXCEPT !.col = s.col - 1])
        /\ Console!Told(t, c) = Console!At([u EXCEPT !.col = s.col - 1], None)
    BY <1>0, <1>4, CharFacts DEF Console!Moved, Console!Told
  <2>2. s.col - 1 \in 1..Cols
    BY <1>0, <1>4, CharFacts
  <2>3. Shows([s EXCEPT !.col = s.col - 1], [u EXCEPT !.col = s.col - 1], {})
    BY <1>s, <2>2, ColShows
  <2> QED BY <2>1, <2>3, ClearShows DEF Cleared
<1>5. CASE c \in Letter /\ s.col < Cols
  <2>1. /\ Console!Moved(s, c) = [s EXCEPT !.col = s.col + 1]
        /\ Console!Told(t, c) = [u EXCEPT !.col = s.col + 1]
    BY <1>0, <1>5, CharFacts DEF Console!Moved, Console!Told
  <2>2. s.col + 1 \in 1..Cols
    BY <1>0, <1>5, CharFacts
  <2> QED BY <1>s, <2>1, <2>2, ColShows
<1>6. CASE c \in Letter /\ ~(s.col < Cols)
  <2>1. /\ Console!Moved(s, c) = Console!Down([s EXCEPT !.col = 1])
        /\ Console!Told(t, c) = Console!ScrolledText([u EXCEPT !.col = 1])
    BY <1>0, <1>6, CharFacts DEF Console!Moved, Console!Told
  <2>2. Shows([s EXCEPT !.col = 1], [u EXCEPT !.col = 1], {})
    BY <1>s, ColShows, CharFacts
  <2> QED BY <2>1, <2>2, DownShows
<1> QED BY <1>1, <1>2, <1>3, <1>4, <1>5, <1>6 DEF Console!Chars

(* Types, of a screen and a text in any state. *)
LEMMA ScreenOps ==
  ASSUME NEW s \in Screens, NEW c
  PROVE  /\ Console!Clear(s) \in Screens
         /\ c \in Letter \cup {Console!Cursor} => Console!Drawn(s, c) \in Screens
         /\ Console!Moved(s, c) \in Screens
<1>0. /\ s.row \in 1..Rows /\ s.col \in 1..Cols /\ s.cell \in [Console!Cell -> SUBSET Glyphs]
      /\ Console!Here(s) \in Console!Cell
  BY HereFacts DEF Screens
<1>1. ASSUME NEW k \in 1..Cols PROVE [s EXCEPT !.col = k] \in Screens
  BY DEF Screens
<1>2. \A r \in Screens : Console!Clear(r) \in Screens
  BY ScreenAt DEF Console!Clear
<1>3. ASSUME c \in Letter \cup {Console!Cursor} PROVE Console!Drawn(s, c) \in Screens
  <2>1. s.cell[Console!Here(s)] \cup {c} \in SUBSET Glyphs
    BY <1>0, <1>3 DEF Glyphs
  <2> QED BY <2>1, ScreenAt DEF Console!Drawn
<1>4. CASE c = "cr"
  BY <1>1, <1>2, <1>3, <1>4, CharFacts DEF Console!Moved
<1>5. CASE c = "nl"
  BY <1>2, <1>3, <1>5, ScreenMoves DEF Console!Moved
<1>6. CASE c = "bs"
  <2>1. s.col # 1 => s.col - 1 \in 1..Cols
    BY <1>0, CharFacts
  <2>2. Console!Moved(s, c) = IF s.col = 1 THEN s ELSE Console!Clear([s EXCEPT !.col = s.col - 1])
    BY <1>6 DEF Console!Moved
  <2>3. Console!Moved(s, c) \in Screens
    BY <1>1, <1>2, <2>1, <2>2
  <2> QED BY <1>2, <1>3, <2>3
<1>7. CASE c \notin {"cr", "nl", "bs"}
  <2>1. s.col < Cols => s.col + 1 \in 1..Cols
    BY <1>0, CharFacts
  <2>2. Console!Moved(s, c) = IF s.col < Cols THEN [s EXCEPT !.col = s.col + 1]
                              ELSE Console!Down([s EXCEPT !.col = 1])
    BY <1>7 DEF Console!Moved
  <2>3. Console!Moved(s, c) \in Screens
    BY <1>1, <2>1, <2>2, ScreenMoves, CharFacts
  <2> QED BY <1>2, <1>3, <2>3
<1> QED BY <1>4, <1>5, <1>6, <1>7

(* A handler's kputc(). *)
LEMMA KputcScreen ==
  ASSUME NEW s \in Screens, NEW c \in Console!Chars
  PROVE  Console!Kputc(s, c) \in Screens
<1> DEFINE d == IF c \in Letter THEN Console!Drawn(Console!Clear(s), c) ELSE Console!Clear(s)
<1>1. d \in Screens
  BY ScreenOps
<1>2. Console!Kputc(s, c) = IF Console!CursorLost(s, c) THEN d
                            ELSE Console!Drawn(Console!Moved(d, c), Console!Cursor)
  BY DEF Console!Kputc
<1> HIDE DEF d
<1> QED BY <1>1, <1>2, ScreenOps

(* What is written keeps the text's type, whatever it is. *)
LEMMA ToldText ==
  ASSUME NEW t \in Texts, NEW c \in Console!Chars
  PROVE  Console!Told(t, c) \in Texts
<1>0. /\ t.row \in 1..Rows /\ t.col \in 1..Cols /\ t.cell \in [Console!Cell -> Letter \cup {None}]
  BY DEF Texts
<1>1. ASSUME NEW u \in Texts, NEW k \in 1..Cols PROVE [u EXCEPT !.col = k] \in Texts
  BY DEF Texts
<1> DEFINE e == Console!At(t, None)
<1>e. e \in Texts /\ e.col = t.col
  BY TextAt
<1> HIDE DEF e
<1>2. CASE c = "cr"
  <2>1. Console!Told(t, c) = [e EXCEPT !.col = 1]
    BY <1>2 DEF Console!Told, e
  <2> QED BY <1>1, <1>e, <2>1, CharFacts
<1>3. CASE c = "nl"
  <2>1. Console!Told(t, c) = Console!ScrolledText(e)
    BY <1>3 DEF Console!Told, e
  <2> QED BY <1>e, <2>1, TextMoves
<1>4. CASE c = "bs"
  <2>1. t.col # 1 => t.col - 1 \in 1..Cols
    BY <1>0, CharFacts
  <2>2. Console!Told(t, c) = IF t.col = 1 THEN e ELSE Console!At([e EXCEPT !.col = e.col - 1], None)
    BY <1>4 DEF Console!Told, e
  <2> QED BY <1>1, <1>e, <2>1, <2>2, TextAt
<1>5. CASE c \in Letter
  <2> DEFINE n == Console!At(t, c)
  <2>1. n \in Texts /\ n.col = t.col
    BY <1>5, TextAt
  <2>2. Console!Told(t, c) = IF t.col < Cols THEN [n EXCEPT !.col = n.col + 1]
                             ELSE Console!ScrolledText([n EXCEPT !.col = 1])
    BY <1>5, CharFacts DEF Console!Told
  <2>3. t.col < Cols => n.col + 1 \in 1..Cols
    BY <1>0, <2>1, CharFacts
  <2> HIDE DEF n
  <2> QED BY <1>1, <2>1, <2>2, <2>3, TextMoves, CharFacts
<1> QED BY <1>2, <1>3, <1>4, <1>5 DEF Console!Chars

(* The console's invariant.  While the process is in kputc(), text is told of its
   character, and the screen shows the text that there was before. *)
Steady ==
  /\ step = "idle" => Shows(scr, text, IF hidden THEN {} ELSE {Console!Here(scr)})
  /\ step = "draw" => \E t \in Texts : text = Console!Told(t, ch) /\ Shows(scr, Cleared(t), {})
  /\ step = "move" =>
       \E t \in Texts : text = Console!Told(t, ch) /\ Shows(scr, Inked(t, ch), {})
  /\ step = "show" => ~hidden /\ Shows(scr, text, {})
ScreenInv ==
  /\ scr \in Screens /\ text \in Texts /\ digit \in Console!Digits
  /\ hidden \in BOOLEAN /\ disturbed \in BOOLEAN
  /\ step \in {"idle", "draw", "move", "show"}
  /\ step = "draw" => ch \in Letter
  /\ step = "move" => ch \in Console!Chars
  /\ ~disturbed => Steady

LEMMA EmptyScreen == Console!Init => ScreenInv
<1> SUFFICES ASSUME Console!Init PROVE ScreenInv
  OBVIOUS
<1>1. /\ scr \in Screens /\ text \in Texts /\ scr.row = 1 /\ scr.col = 1 /\ text.row = 1 /\ text.col = 1
      /\ \A c \in Console!Cell : scr.cell[c] = {} /\ text.cell[c] = None
  BY CharFacts DEF Console!Init, Screens, Texts
<1>2. Shows(scr, text, {})
  BY <1>1 DEF Shows
<1>3. step = "idle" /\ hidden = TRUE /\ digit = "0" /\ disturbed = FALSE
  BY DEF Console!Init
<1> QED BY <1>1, <1>2, <1>3 DEF ScreenInv, Steady, Console!Digits

LEMMA BeginKeeps ==
  ASSUME ScreenInv, NEW c \in Console!Chars, Console!Begin(c)
  PROVE  ScreenInv'
<1>1. /\ step = "idle" /\ text' = Console!Told(text, c)
      /\ scr' = Console!Clear(scr) /\ ch' = c
      /\ step' = IF c \in Letter THEN "draw" ELSE "move"
      /\ digit' = digit /\ hidden' = hidden /\ disturbed' = disturbed
  BY DEF Console!Begin, Console!Writes
<1>2. scr' \in Screens /\ text' \in Texts
  BY <1>1, ScreenOps, ToldText DEF ScreenInv
<1>3. ASSUME ~disturbed PROVE Steady'
  <2>1. Shows(scr', Cleared(text), {})
    <3> DEFINE on == IF hidden THEN {} ELSE {Console!Here(scr)}
    <3>1. Shows(scr, text, on) /\ \A x \in Console!Cell : x \in on => x = Console!Here(scr)
      BY <1>1, <1>3 DEF ScreenInv, Steady
    <3> HIDE DEF on
    <3> QED BY <1>1, <3>1, ClearShows
  <2>2. c \notin Letter => Inked(text, c) = Cleared(text)
    BY DEF Inked
  <2>3. text \in Texts
    BY DEF ScreenInv
  <2> QED BY <1>1, <2>1, <2>2, <2>3 DEF Steady
<1> QED BY <1>1, <1>2, <1>3 DEF ScreenInv, Console!Chars

LEMMA DrawKeeps ==
  ASSUME ScreenInv, Console!Draw
  PROVE  ScreenInv'
<1>1. /\ step = "draw" /\ step' = "move" /\ scr' = Console!Drawn(scr, ch) /\ ch \in Letter
      /\ ch' = ch /\ text' = text /\ hidden' = hidden /\ disturbed' = disturbed
      /\ digit' = digit
  BY DEF Console!Draw, ScreenInv
<1>2. scr' \in Screens
  BY <1>1, ScreenOps DEF ScreenInv
<1>3. ASSUME ~disturbed PROVE Steady'
  <2>1. PICK t \in Texts : text = Console!Told(t, ch) /\ Shows(scr, Cleared(t), {})
    BY <1>1, <1>3 DEF ScreenInv, Steady
  <2>2. Shows(scr', Inked(t, ch), {})
    BY <1>1, <2>1, InkShows DEF Inked
  <2> QED BY <1>1, <2>1, <2>2 DEF Steady
<1> QED BY <1>1, <1>2, <1>3 DEF ScreenInv, Console!Chars

LEMMA MoveKeeps ==
  ASSUME ScreenInv, Console!Move
  PROVE  ScreenInv'
<1>1. /\ step = "move" /\ ch \in Console!Chars /\ scr' = Console!Moved(scr, ch)
      /\ hidden' = Console!CursorLost(scr, ch)
      /\ step' = IF Console!CursorLost(scr, ch) THEN "idle" ELSE "show"
      /\ ch' = ch /\ text' = text /\ disturbed' = disturbed /\ digit' = digit
  BY DEF Console!Move, ScreenInv
<1>2. scr' \in Screens
  BY <1>1, ScreenOps DEF ScreenInv
<1>3. hidden' \in BOOLEAN
  BY <1>1 DEF Console!CursorLost
<1>4. ASSUME ~disturbed PROVE Steady'
  <2>1. PICK t \in Texts : text = Console!Told(t, ch) /\ Shows(scr, Inked(t, ch), {})
    BY <1>1, <1>4 DEF ScreenInv, Steady
  <2>2. Shows(scr', text', {})
    BY <1>1, <2>1, MovedShows
  <2> QED BY <1>1, <2>2 DEF Steady
<1> QED BY <1>1, <1>2, <1>3, <1>4 DEF ScreenInv

LEMMA ShowKeeps ==
  ASSUME ScreenInv, Console!Show
  PROVE  ScreenInv'
<1>1. /\ step = "show" /\ step' = "idle" /\ scr' = Console!Drawn(scr, Console!Cursor)
      /\ text' = text /\ hidden' = hidden /\ disturbed' = disturbed
      /\ digit' = digit
  BY DEF Console!Show
<1>2. scr' \in Screens
  BY <1>1, ScreenOps DEF ScreenInv
<1>3. ASSUME ~disturbed PROVE Steady'
  <2>1. ~hidden /\ Shows(scr, text, {})
    BY <1>1, <1>3 DEF ScreenInv, Steady
  <2>2. Shows(scr', text, {Console!Here(scr)})
    BY <1>1, <2>1, CursorShows
  <2>3. Console!Here(scr') = Console!Here(scr)
    BY <2>1, <2>2 DEF Console!Here, Shows
  <2> QED BY <1>1, <2>1, <2>2, <2>3 DEF Steady
<1> QED BY <1>1, <1>2, <1>3 DEF ScreenInv

LEMMA PrintKeeps ==
  ASSUME ScreenInv, NEW c \in Console!Chars, Console!HandlerPrints(c)
  PROVE  ScreenInv'
<1>1. /\ text' = Console!Told(text, c)
      /\ scr' = Console!Kputc(scr, c) /\ hidden' = Console!CursorLost(scr, c)
      /\ disturbed' = (disturbed \/ step # "idle")
      /\ step' = step /\ ch' = ch /\ digit' = digit
  BY DEF Console!HandlerPrints, Console!Writes
<1>2. scr' \in Screens /\ text' \in Texts
  BY <1>1, KputcScreen, ToldText DEF ScreenInv
<1>3. hidden' \in BOOLEAN /\ disturbed' \in BOOLEAN
  BY <1>1 DEF Console!CursorLost
<1>4. ASSUME ~disturbed' PROVE Steady'
  <2>1. /\ step = "idle" /\ scr \in Screens /\ text \in Texts
        /\ Shows(scr, text, IF hidden THEN {} ELSE {Console!Here(scr)})
    BY <1>1, <1>4 DEF ScreenInv, Steady
  <2>2. Shows(Console!Clear(scr), Cleared(text), {})
    <3> DEFINE on == IF hidden THEN {} ELSE {Console!Here(scr)}
    <3>1. Shows(scr, text, on) /\ \A x \in Console!Cell : x \in on => x = Console!Here(scr)
      BY <2>1
    <3> HIDE DEF on
    <3> QED BY <3>1, ClearShows
  <2> DEFINE d == IF c \in Letter THEN Console!Drawn(Console!Clear(scr), c) ELSE Console!Clear(scr)
  <2>3. Shows(d, Inked(text, c), {})
    BY <2>1, <2>2, InkShows DEF Inked
  <2>4. scr' = IF Console!CursorLost(scr, c) THEN d
               ELSE Console!Drawn(Console!Moved(d, c), Console!Cursor)
    BY <1>1 DEF Console!Kputc
  <2> HIDE DEF d
  <2>5. Shows(Console!Moved(d, c), text', {})
    BY <1>1, <2>1, <2>3, MovedShows
  <2>6. CASE Console!CursorLost(scr, c)
    <3>1. c = "bs" /\ d.col = 1
      <4>1. c = "bs" /\ scr.col = 1 /\ c \notin Letter
        BY <2>6, CharFacts DEF Console!CursorLost
      <4>2. scr.col = text.col /\ Inked(text, c).col = text.col
        BY <2>1, <4>1, TextAt DEF Shows, Inked, Cleared
      <4> QED BY <2>3, <4>1, <4>2 DEF Shows
    <3>2. Console!Moved(d, c) = d
      BY <3>1 DEF Console!Moved
    <3> QED BY <1>1, <2>1, <2>4, <2>5, <2>6, <3>2 DEF Steady
  <2>7. CASE ~Console!CursorLost(scr, c)
    <3>1. Shows(scr', text', {Console!Here(Console!Moved(d, c))})
      BY <2>4, <2>5, <2>7, CursorShows
    <3>2. Console!Here(scr') = Console!Here(Console!Moved(d, c))
      BY <2>5, <3>1 DEF Console!Here, Shows
    <3> QED BY <1>1, <2>1, <2>7, <3>1, <3>2 DEF Steady
  <2> QED BY <2>6, <2>7
<1> QED BY <1>1, <1>2, <1>3, <1>4 DEF ScreenInv

(* The clock is drawn in its own place only. *)
LEMMA TickKeeps ==
  ASSUME ScreenInv, NEW d \in Console!Digits, Console!Tick(d)
  PROVE  ScreenInv'
<1> DEFINE v == (scr.cell[Clock] \ {digit}) \cup {d}
<1>1. /\ scr' = [scr EXCEPT !.cell[Clock] = v] /\ digit' = d
      /\ step' = step /\ ch' = ch /\ text' = text
      /\ hidden' = hidden /\ disturbed' = disturbed
  BY DEF Console!Tick, Clock
<1>2. /\ scr \in Screens /\ scr.row \in 1..Rows /\ scr.col \in 1..Cols
      /\ scr.cell \in [Console!Cell -> SUBSET Glyphs]
  BY DEF ScreenInv, Screens
<1>3. Clock \in Console!Cell
  BY CharFacts DEF Clock, Console!Cell
<1>4. v \in SUBSET Glyphs
  BY <1>2, <1>3 DEF Glyphs
<1> HIDE DEF v
<1>5. /\ scr' \in Screens /\ scr'.row = scr.row /\ scr'.col = scr.col
      /\ \A x \in Console!Cell \ {Clock} : scr'.cell[x] = scr.cell[x]
  BY <1>1, <1>2, <1>3, <1>4 DEF Screens
<1>6. ASSUME NEW t, NEW on, Shows(scr, t, on) PROVE Shows(scr', t, on)
  BY <1>5, <1>6 DEF Shows
<1>7. Console!Here(scr') = Console!Here(scr)
  BY <1>5 DEF Console!Here
<1>8. ASSUME ~disturbed PROVE Steady'
  <2>1. Steady
    BY <1>8 DEF ScreenInv
  <2> QED BY <1>1, <1>6, <1>7, <2>1 DEF Steady
<1> QED BY <1>1, <1>5, <1>8 DEF ScreenInv

LEMMA ConsoleStep ==
  ASSUME ScreenInv, Console!Next
  PROVE  ScreenInv'
BY BeginKeeps, PrintKeeps, DrawKeeps, MoveKeeps, ShowKeeps, TickKeeps DEF Console!Next

LEMMA ScreenLegible == ScreenInv => Legible
<1> SUFFICES ASSUME ScreenInv, step = "idle", ~disturbed
             PROVE  \A c \in Console!Cell \ {Clock} :
                      /\ scr.cell[c] \ {Console!Cursor} = {text.cell[c]} \ {None}
                      /\ Console!Cursor \in scr.cell[c] <=> c = Console!Here(scr) /\ ~hidden
  BY DEF Legible, Console!Legible, Clock
<1>1. Shows(scr, text, IF hidden THEN {} ELSE {Console!Here(scr)}) /\ hidden \in BOOLEAN
  BY DEF ScreenInv, Steady
<1> QED BY <1>1 DEF Shows

LEMMA ConsoleSteps == ScreenInv /\ [Next]_vars => ScreenInv'
<1> SUFFICES ASSUME ScreenInv, [Next]_vars PROVE ScreenInv'
  OBVIOUS
<1>1. Console!Next \/ UNCHANGED console
  BY DEF Next, vars, KeyboardSteps, CardSteps
<1>2. CASE UNCHANGED console
  BY <1>2 DEF console, ScreenInv, Steady
<1> QED BY <1>1, <1>2, ConsoleStep

(* kputc() (driver/vid.c) shows what a terminal does that keeps nothing under its cursor,
   and the cursor where the next character comes and nowhere else, on a screen of any size,
   whatever newlines, carriage returns, backspaces and scrolling there are, in whatever
   order, and at whatever step the clock ticks: until a handler prints in the middle of a
   character. *)
THEOREM ConsoleLegible == Spec => []Legible
<1>1. Init => ScreenInv
  BY EmptyScreen DEF Init
<1> QED BY <1>1, ConsoleSteps, ScreenLegible, PTL DEF Spec
-----------------------------------------------------------------------------
(* The theorems about a keyboard with one reader and with several, the latter beside a
   serial line and the timer queue. *)
One == INSTANCE Handlers_proofs WITH
  Proc <- User,
  Reader <- {r1}, Enter <- Newline, BUFLEN <- KBN,
  kpc <- pc, ksig <- sig, ktyped <- typed, kgot <- got, kspoilt <- spoilt,
  pc <- at, sig <- pending, typed <- sent, got <- received, spoilt <- overrun
All == INSTANCE Handlers_proofs WITH
  Proc <- User,
  Reader <- Readers, Enter <- Newline, MaxKeys <- MaxSent,
  kpc <- pc, ksig <- sig, ktyped <- typed, kgot <- got, kspoilt <- spoilt,
  pc <- at, sig <- pending, typed <- sent, got <- received, spoilt <- overrun
-----------------------------------------------------------------------------
(* These are about the same drivers as the instances of MCDevices. *)

LEMMA SameTimer ==
  /\ Timer!Init <=> All!Timer!Init
  /\ Timer!Next <=> All!Timer!Next
  /\ Timer!NeverLate <=> All!Timer!NeverLate
BY DEF Timer!Until, All!Timer!Until, Timer!Place, All!Timer!Place, Timer!Sooner, All!Timer!Sooner,
       Timer!Itimer, All!Timer!Itimer, Timer!Second, All!Timer!Second, Timer!Handle,
       All!Timer!Handle, Timer!Next, All!Timer!Next, Timer!vars, All!Timer!vars, Timer!Init,
       All!Timer!Init, Timer!InsertAt, All!Timer!InsertAt, Timer!Min, All!Timer!Min,
       Timer!PutOff, All!Timer!PutOff, Timer!NoNode, All!Timer!NoNode,
       Timer!NeverLate, All!Timer!NeverLate

LEMMA SameReader ==
  /\ OneReader!Init <=> One!Keys!Init
  /\ OneReader!Next <=> One!Keys!Next
  /\ OneReader!InOrder <=> One!Keys!InOrder
  /\ OneReader!SleepsOnEmpty <=> One!Keys!SleepsOnEmpty
BY DEF OneReader!Slots, One!Keys!Slots, OneReader!ring, One!Keys!ring, OneReader!Init,
       One!Keys!Init, OneReader!Woken, One!Keys!Woken, OneReader!InWindow,
       One!Keys!InWindow, OneReader!InTime, One!Keys!InTime, OneReader!Store,
       One!Keys!Store, OneReader!Full, One!Keys!Full, OneReader!Arrives,
       One!Keys!Arrives, OneReader!Key, One!Keys!Key, OneReader!ForcedLine,
       One!Keys!ForcedLine, OneReader!ControlC, One!Keys!ControlC, OneReader!Arrow,
       One!Keys!Arrow, OneReader!Looks, One!Keys!Looks, OneReader!Empty, One!Keys!Empty,
       OneReader!Sleep, One!Keys!Sleep, OneReader!Take, One!Keys!Take, OneReader!Die,
       One!Keys!Die, OneReader!Pretend, One!Keys!Pretend, OneReader!Kill, One!Keys!Kill,
       OneReader!KillOther, One!Keys!KillOther, OneReader!Interrupt, One!Keys!Interrupt,
       OneReader!Read, One!Keys!Read, OneReader!KernelStep, One!Keys!KernelStep,
       OneReader!Next, One!Keys!Next, OneReader!vars, One!Keys!vars, OneReader!InOrder,
       One!Keys!InOrder, OneReader!SleepsOnEmpty, One!Keys!SleepsOnEmpty,
       OneReader!IsPrefix, One!Keys!IsPrefix

LEMMA SameReaders ==
  /\ AllReaders!Init <=> All!Keys!Init
  /\ AllReaders!Next <=> All!Keys!Next
  /\ AllReaders!InOrder <=> All!Keys!InOrder
  /\ AllReaders!SleepsOnEmpty <=> All!Keys!SleepsOnEmpty
BY DEF AllReaders!Slots, All!Keys!Slots, AllReaders!ring, All!Keys!ring,
       AllReaders!Init, All!Keys!Init, AllReaders!Woken, All!Keys!Woken,
       AllReaders!InWindow, All!Keys!InWindow, AllReaders!InTime, All!Keys!InTime,
       AllReaders!Store, All!Keys!Store, AllReaders!Full, All!Keys!Full,
       AllReaders!Arrives, All!Keys!Arrives, AllReaders!Key, All!Keys!Key,
       AllReaders!ForcedLine, All!Keys!ForcedLine, AllReaders!ControlC,
       All!Keys!ControlC, AllReaders!Arrow, All!Keys!Arrow, AllReaders!Looks,
       All!Keys!Looks, AllReaders!Empty, All!Keys!Empty, AllReaders!Sleep,
       All!Keys!Sleep, AllReaders!Take, All!Keys!Take, AllReaders!Die, All!Keys!Die,
       AllReaders!Pretend, All!Keys!Pretend, AllReaders!Kill, All!Keys!Kill,
       AllReaders!KillOther, All!Keys!KillOther, AllReaders!Interrupt,
       All!Keys!Interrupt, AllReaders!Read, All!Keys!Read, AllReaders!KernelStep,
       All!Keys!KernelStep, AllReaders!Next, All!Keys!Next, AllReaders!vars,
       All!Keys!vars, AllReaders!InOrder, All!Keys!InOrder, AllReaders!SleepsOnEmpty,
       All!Keys!SleepsOnEmpty, AllReaders!IsPrefix, All!Keys!IsPrefix

LEMMA SameLine ==
  /\ SerialLine!Init <=> All!Init
  /\ SerialLine!Next <=> All!Next
  /\ SerialLine!InOrder <=> All!InOrder
BY DEF SerialLine!Slots, All!Slots, SerialLine!ring, All!ring, SerialLine!inchar,
       All!inchar, SerialLine!vars, All!vars, SerialLine!Init, All!Init, SerialLine!P,
       All!P, SerialLine!Wakes, All!Wakes, SerialLine!V, All!V, SerialLine!HeadSlot,
       All!HeadSlot, SerialLine!Stored, All!Stored, SerialLine!Handler, All!Handler,
       SerialLine!ControlC, All!ControlC, SerialLine!DieInKernel, All!DieInKernel,
       SerialLine!Read, All!Read, SerialLine!TakesMore, All!TakesMore, SerialLine!Take,
       All!Take, SerialLine!Die, All!Die, SerialLine!Kill, All!Kill,
       SerialLine!KernelStep, All!KernelStep, SerialLine!Next, All!Next,
       SerialLine!Unlinked, All!Unlinked, SerialLine!RemoveFirst, All!RemoveFirst,
       SerialLine!SelectInSeq, All!SelectInSeq, SerialLine!RemoveAt, All!RemoveAt,
       SerialLine!Min, All!Min, SerialLine!Cardinality, All!Cardinality,
       SerialLine!InOrder, All!InOrder, SerialLine!SerialInOrder, All!SerialInOrder,
       SerialLine!CountsCharacters, All!CountsCharacters, SerialLine!Past, All!Past,
       SerialLine!NoDup, All!NoDup, SerialLine!IsPrefix, All!IsPrefix, SerialLine!Range,
       All!Range
-----------------------------------------------------------------------------
\* The keyboard has several readers.
Several == device = "readers"

(* A step of the whole is one of each driver, or leaves it alone. *)

LEMMA TimerStep == [Next]_vars => [All!Timer!Next]_(All!Timer!vars)
BY SameTimer DEF Next, vars, KeyboardSteps, CardSteps, timer, All!Timer!vars

LEMMA LineStep == [Next]_vars => [All!Next]_(All!vars)
BY SameLine DEF Next, vars, KeyboardSteps, CardSteps, serial, All!vars, All!ring, All!inchar

LEMMA ReaderStep ==
  ~Several /\ [Next]_vars => ~Several' /\ [One!Keys!Next]_(One!Keys!vars)
BY SameReader DEF Several, Next, vars, KeyboardSteps, CardSteps, keyboard, One!Keys!vars, One!Keys!ring

LEMMA ReadersStep ==
  Several /\ [Next]_vars => Several' /\ [All!Keys!Next]_(All!Keys!vars)
BY SameReaders DEF Several, Next, vars, KeyboardSteps, CardSteps, keyboard, All!Keys!vars, All!Keys!ring

LEMMA DriverInit ==
  /\ Init => All!Timer!Init /\ All!Init
  /\ Init /\ ~Several => One!Keys!Init
  /\ Init /\ Several => All!Keys!Init
BY SameTimer, SameLine, SameReader, SameReaders DEF Init, Several

LEMMA SizesHold ==
  One!Sizes /\ One!Marked /\ All!Sizes /\ All!Marked /\ All!NodeCount
<1>1. IsFiniteSet({r1}) /\ IsFiniteSet(Readers)
  BY FS_Singleton, RingSizes
<1>2. One!IsFiniteSet({r1}) /\ All!IsFiniteSet(Readers)
  BY <1>1 DEF IsFiniteSet, One!IsFiniteSet, All!IsFiniteSet
<1> QED
  BY <1>2, RingSizes, TimerSizes
  DEF One!Sizes, One!Marked, All!Sizes, All!Marked, All!NodeCount
-----------------------------------------------------------------------------
(* No alarm of itimer() (driver/timer.c) is late but by what requests with negative times
   put it off, however many nodes there are and whatever the other drivers do. *)
THEOREM NoneLate == Spec => []NeverLate
<1>1. All!Timer!Spec => []All!Timer!NeverLate
  BY SizesHold, All!AlarmsInTime
<1>2. All!Timer!NeverLate => NeverLate
  BY SameTimer DEF NeverLate
<1> QED BY <1>1, <1>2, DriverInit, TimerStep, PTL DEF Spec, All!Timer!Spec

(* What kgetc() (driver/kbd.c) and sgetc() (driver/uart.c) return is what was typed, in
   order and each character once, for any readers and any size of the rings: until a
   ring is overrun or a reader is killed. *)
THEOREM ReadInOrder == Spec => []InOrder
<1>1. All!Spec => []All!InOrder
  BY SizesHold, All!LineInOrder
<1>2. All!Keys!Spec => []All!Keys!InOrder
  BY SizesHold, All!KeysInOrder
<1>3. One!Keys!Spec => []One!Keys!InOrder
  BY SizesHold, One!KeysInOrder
<1>4. One!Keys!InOrder \/ All!Keys!InOrder => OneReader!InOrder
  BY SameReader
  DEF One!Keys!InOrder, All!Keys!InOrder, One!Keys!IsPrefix, All!Keys!IsPrefix
<1>5. (One!Keys!InOrder \/ All!Keys!InOrder) /\ All!InOrder => InOrder
  BY <1>4, SameLine DEF InOrder
<1>6. Spec /\ ~Several => []One!Keys!InOrder
  BY <1>3, DriverInit, ReaderStep, PTL DEF Spec, One!Keys!Spec
<1>7. Spec /\ Several => []All!Keys!InOrder
  BY <1>2, DriverInit, ReadersStep, PTL DEF Spec, All!Keys!Spec
<1>8. Spec => []All!InOrder
  BY <1>1, DriverInit, LineStep, PTL DEF Spec, All!Spec
<1> QED BY <1>5, <1>6, <1>7, <1>8, PTL

(* Who sleeps in kgetc() (driver/kbd.c) has nothing to read, unless a character came
   between its look and its sleep, be it alone or one of many readers. *)
THEOREM NoneSleepsBeside == Spec => []SleepsOnEmpty
<1>1. All!Keys!Spec => []All!Keys!SleepsOnEmpty
  BY SizesHold, All!SleepOnEmpty
<1>2. One!Keys!Spec => []One!Keys!SleepsOnEmpty
  BY SizesHold, One!SleepOnEmpty
<1>3. ~Several /\ One!Keys!SleepsOnEmpty => SleepsOnEmpty
  BY SameReader DEF SleepsOnEmpty, Several
<1>4. Several /\ All!Keys!SleepsOnEmpty => SleepsOnEmpty
  BY SameReaders DEF SleepsOnEmpty, Several
<1>5. Spec /\ ~Several => [](~Several /\ One!Keys!SleepsOnEmpty)
  BY <1>2, DriverInit, ReaderStep, PTL DEF Spec, One!Keys!Spec
<1>6. Spec /\ Several => [](Several /\ All!Keys!SleepsOnEmpty)
  BY <1>1, DriverInit, ReadersStep, PTL DEF Spec, All!Keys!Spec
<1> QED BY <1>3, <1>4, <1>5, <1>6, PTL
-----------------------------------------------------------------------------
(* Types *)

(* As many wait for a semaphore of the SD card's driver as its value says, and it is never
   more than 1, whatever the card does, until the driver is disturbed: an interrupt frees at
   most whoever waits. *)
Free(s) == s.value <= 1 /\ Len(s.queue) = IF s.value < 0 THEN - s.value ELSE 0
Semaphores == \A w \in Card!Way : Free(drv[w])

LEMMA OneInLine ==
  ASSUME NEW p
  PROVE  /\ Len(<<>>) = 0 /\ Len(<<p>>) = 1 /\ Append(<<>>, p) = <<p>>
         /\ Head(<<p>>) = p /\ Tail(<<p>>) = <<>>
OBVIOUS

LEMMA IsFree ==
  ASSUME NEW s, NEW p, \/ (s.value = 0 \/ s.value = 1) /\ s.queue = <<>>
                       \/ s.value = -1 /\ s.queue = <<p>>
  PROVE  Free(s)
<1>1. CASE (s.value = 0 \/ s.value = 1) /\ s.queue = <<>>
  BY <1>1, OneInLine DEF Free
<1>2. CASE s.value = -1 /\ s.queue = <<p>>
  <2>1. Len(s.queue) = 1
    BY <1>2, OneInLine
  <2>2. s.value <= 1
    BY <1>2
  <2>4. s.value < 0
    BY <1>2
  <2>3. - s.value = 1
    <3>1. \A x \in Int : x + 1 = 0 => - x = 1
      OBVIOUS
    <3>2. s.value \in Int /\ s.value + 1 = 0
      BY <1>2
    <3> QED BY <3>1, <3>2
  <2> QED BY <2>1, <2>2, <2>3, <2>4 DEF Free
<1> QED BY <1>1, <1>2

LEMMA WaitFrees ==
  ASSUME CardInv, Semaphores, NEW p \in Callers, Card!Wait(p)
  PROVE  Semaphores'
<1> DEFINE w == req[p].way
           s == drv[w]
           r == Card!Down(s, p)
<1>1. /\ call[p] = "started" /\ drv' = [drv EXCEPT ![w] = r]
  BY DEF Card!Wait
<1>2. w \in Card!Way /\ s \in DriverVars /\ drv \in [Card!Way -> DriverVars]
  BY DEF CardInv, CardTypes
<1>3. s.queue = <<>> /\ (s.value = 0 \/ s.value = 1)
  <2>1. Waits(p, w)
    BY <1>1, <1>2 DEF CardInv
  <2> QED BY <1>1, <2>1 DEF Waits
<1>4. Free(r)
  <2> HIDE DEF s
  <2>1. r = [s EXCEPT !.value = s.value - 1, !.queue = IF s.value <= 0 THEN <<p>> ELSE <<>>]
    BY <1>2, <1>3, OneInLine DEF Card!Down, DriverVars
  <2>2. r.value = s.value - 1 /\ r.queue = IF s.value <= 0 THEN <<p>> ELSE <<>>
    BY <1>2, <2>1 DEF DriverVars
  <2> HIDE DEF r
  <2>3. \/ r.value = 0 /\ r.queue = <<>>
        \/ r.value = -1 /\ r.queue = <<p>>
    BY <1>3, <2>2
  <2> QED BY <2>3, IsFree
<1> HIDE DEF w, s, r
<1>5. \A v \in Card!Way : drv'[v] = IF v = w THEN r ELSE drv[v]
  BY <1>1, <1>2
<1> QED BY <1>4, <1>5 DEF Semaphores

LEMMA ChunkFrees ==
  ASSUME CardInv, Semaphores, NEW w \in Card!Way, transfer.way = w,
         NEW s, s = [drv[w] EXCEPT !.count = @ - 1], NEW moved, Card!Moved(w, s, moved)
  PROVE  Semaphores'
<1>1. PICK p \in Callers : Waits(p, w) /\ call[p] \in {"started", "blocked"} /\ drv[w].count \in 1..Chunks
  BY WorksFor
<1>2. drv \in [Card!Way -> DriverVars] /\ drv[w] \in DriverVars
  BY DEF CardInv, CardTypes
<1>3. s.value = drv[w].value /\ s.queue = drv[w].queue
  BY <1>2 DEF DriverVars
<1>4. (s.value = 0 /\ s.queue = <<>>) \/ (s.value = -1 /\ s.queue = <<p>>)
  <2>1. drv[w].count # 0
    BY <1>1
  <2> QED BY <1>1, <1>3, <2>1 DEF Waits
<1>5. Free(s) /\ s \in [buf : Callers \cup {None}, count : Int, done : BOOLEAN, value : Int, queue : Seq(Callers)]
  <2>1. PICK o \in DriverVars : o = drv[w]
    BY <1>2
  <2>2. s = [o EXCEPT !.count = o.count - 1]
    BY <2>1
  <2>3. s \in [buf : Callers \cup {None}, count : Int, done : BOOLEAN, value : Int, queue : Seq(Callers)]
    BY <2>2 DEF DriverVars
  <2> QED BY <1>4, <2>3, IsFree
<1>6. CASE drv' = [drv EXCEPT ![w] = s]
  <2>1. \A v \in Card!Way : drv'[v] = IF v = w THEN s ELSE drv[v]
    BY <1>2, <1>6
  <2> QED BY <1>5, <2>1 DEF Semaphores
<1>7. CASE drv' = [drv EXCEPT ![w] = [Card!Up(s) EXCEPT !.done = TRUE]]
  <2> DEFINE r == [Card!Up(s) EXCEPT !.done = TRUE]
  <2>2. /\ r.value = s.value + 1
        /\ r.queue = IF s.value < 0 THEN Tail(s.queue) ELSE s.queue
    BY <1>5 DEF Card!Up
  <2> HIDE DEF r
  <2>3. (r.value = 0 \/ r.value = 1) /\ r.queue = <<>>
    <3>1. CASE s.value = 0 /\ s.queue = <<>>
      BY <2>2, <3>1
    <3>2. CASE s.value = -1 /\ s.queue = <<p>>
      <4>1. s.value < 0 /\ s.value + 1 = 0
        BY <3>2
      <4> QED BY <2>2, <3>2, <4>1, OneInLine
    <3> QED BY <1>4, <3>1, <3>2
  <2>6. Free(r)
    BY <2>3, IsFree
  <2>4. drv' = [drv EXCEPT ![w] = r]
    BY <1>7 DEF r
  <2>5. \A v \in Card!Way : drv'[v] = IF v = w THEN r ELSE drv[v]
    BY <1>2, <2>4
  <2> QED BY <2>5, <2>6 DEF Semaphores
<1> QED BY <1>6, <1>7 DEF Card!Moved

LEMMA StartFrees ==
  ASSUME CardInv, Semaphores, NEW p, NEW w, NEW b, Card!Start(p, w, b)
  PROVE  Semaphores'
<1> DEFINE r == [Card!Idle EXCEPT !.buf = p, !.count = Chunks]
<1>1. r.value = 0 /\ r.queue = <<>>
  BY DEF Card!Idle
<1>2. drv' = [drv EXCEPT ![w] = r] /\ drv \in [Card!Way -> DriverVars]
  BY DEF Card!Start, CardInv, CardTypes
<1> HIDE DEF r
<1>3. Free(r)
  BY <1>1, IsFree
<1>4. \A v \in Card!Way : drv'[v] = IF v = w THEN r ELSE drv[v]
  BY <1>2
<1> QED BY <1>3, <1>4 DEF Semaphores

LEMMA CardFrees == CardInv /\ Semaphores /\ [Next]_vars /\ ~ mixed' => Semaphores'
<1> SUFFICES ASSUME CardInv, Semaphores, [Next]_vars, ~ mixed' PROVE Semaphores'
  OBVIOUS
<1>1. CASE drv' = drv
  BY <1>1 DEF Semaphores
<1>2. Card!Next \/ UNCHANGED sdc
  BY DEF Next, vars, KeyboardSteps, CardSteps
<1>3. CASE UNCHANGED sdc
  BY <1>1, <1>3 DEF sdc
<1>4. CASE Card!RxInterrupt
  <2>1. "read" \in Card!Way /\ transfer.way = "read"
    BY <1>4 DEF Card!RxInterrupt, Card!Way
  <2>2. \E moved : Card!Moved("read", [drv["read"] EXCEPT !.count = @ - 1], moved)
    BY <1>4 DEF Card!RxInterrupt
  <2> QED BY <2>1, <2>2, ChunkFrees
<1>5. CASE Card!TxInterrupt
  <2>1. "write" \in Card!Way /\ transfer.way = "write"
    BY <1>5 DEF Card!TxInterrupt, Card!Way
  <2>2. \E moved : Card!Moved("write", [drv["write"] EXCEPT !.count = @ - 1], moved)
    BY <1>5 DEF Card!TxInterrupt
  <2> QED BY <2>1, <2>2, ChunkFrees
<1>6. CASE Card!ErrorInterrupt
  BY <1>1, <1>6 DEF Card!ErrorInterrupt
<1>7. ASSUME NEW p \in Callers, Card!Go(p) PROVE Semaphores'
  BY <1>1, <1>7, WaitFrees DEF Card!Go, Card!Poll, Card!Return
<1>8. ASSUME NEW p \in Callers, NEW b \in Blocks, Card!Getblock(p, b) PROVE Semaphores'
  BY <1>8, StartFrees DEF Card!Getblock
<1>9. ASSUME NEW p \in Callers, NEW b \in Blocks, NEW v \in Chunk, Card!Putblock(p, b, v)
      PROVE  Semaphores'
  BY <1>9, StartFrees DEF Card!Putblock
<1>10. ~ (\E p \in Callers : Card!Kill(p))
  BY DEF Card!Kill
<1> QED
  BY <1>2, <1>3, <1>4, <1>5, <1>6, <1>7, <1>8, <1>9, <1>10 DEF Card!Next, Card!Interrupt

LEMMA CardTyped == CardInv /\ Semaphores => Card!TypeOK
<1> SUFFICES ASSUME CardInv, Semaphores PROVE Card!TypeOK
  OBVIOUS
<1>1. \A w \in Card!Way : drv[w] \in DriverVars
  BY DEF CardInv, CardTypes
<1>2. \A w \in Card!Way : drv[w].buf \in Callers \cup {None} /\ drv[w].count \in 0..Chunks
  BY <1>1 DEF DriverVars
<1>3. \A w \in Card!Way :
        drv[w].value <= 1 /\ Len(drv[w].queue) = IF drv[w].value < 0 THEN - drv[w].value ELSE 0
  BY DEF Semaphores, Free
<1> QED BY <1>2, <1>3 DEF CardInv, CardTypes, Card!TypeOK

LEMMA CardTypedNext == CardInv' /\ Semaphores' => Card!TypeOK'
  BY CardTyped, PTL

(* A disturbance leaves the variables their types, and after it nothing moves. *)
CardTypedInv == Card!TypeOK /\ (~ mixed => CardInv /\ Semaphores)

LEMMA DisturbedTypes ==
  ASSUME CardInv, Card!Next, mixed'
  PROVE  Card!TypeOK'
<1>0. \A w \in Card!Way : drv[w] \in DriverVars
  BY DEF CardInv, CardTypes
<1>1. ASSUME CardTypes' PROVE Card!TypeOK'
  <2>1. \A w \in Card!Way : drv'[w] \in DriverVars
    BY <1>1 DEF CardTypes
  <2>2. \A w \in Card!Way : drv'[w].buf \in Callers \cup {None} /\ drv'[w].count \in 0..Chunks
    BY <2>1 DEF DriverVars
  <2> QED BY <1>1, <2>2 DEF CardTypes, Card!TypeOK
<1>2. ASSUME NEW p \in Callers, NEW b \in Blocks, Card!Getblock(p, b) PROVE Card!TypeOK'
  <2> DEFINE m == [i \in 1..Chunks |-> None]
  <2>1. m \in [1..Chunks -> Chunk \cup {None}]
    OBVIOUS
  <2>2. Card!Start(p, "read", b) /\ "read" \in Card!Way
    BY <1>2 DEF Card!Getblock, Card!Way
  <2>3. mem' = [mem EXCEPT ![p] = m] /\ card' = card
    BY <1>2 DEF Card!Getblock
  <2> HIDE DEF m
  <2> QED BY <1>1, <2>1, <2>2, <2>3, StartTypes
<1>3. ASSUME NEW p \in Callers, NEW b \in Blocks, NEW v \in Chunk, Card!Putblock(p, b, v)
      PROVE  Card!TypeOK'
  <2> DEFINE m == [i \in 1..Chunks |-> v]
  <2>1. m \in [1..Chunks -> Chunk \cup {None}]
    OBVIOUS
  <2>2. Card!Start(p, "write", b) /\ "write" \in Card!Way
    BY <1>3 DEF Card!Putblock, Card!Way
  <2>3. mem' = [mem EXCEPT ![p] = m] /\ card' = card
    BY <1>3 DEF Card!Putblock
  <2> HIDE DEF m
  <2> QED BY <1>1, <2>1, <2>2, <2>3, StartTypes
<1>4. ASSUME NEW p \in Callers, Card!Kill(p) PROVE Card!TypeOK'
  <2> DEFINE w == req[p].way
             q == Card!Remove(drv[w].queue, p)
             r == [drv[w] EXCEPT !.value = drv[w].value + 1, !.queue = q]
  <2>1. /\ card' = card /\ mem' = mem /\ call' = [call EXCEPT ![p] = "back"]
        /\ drv' = [drv EXCEPT ![w] = r]
    BY <1>4 DEF Card!Kill
  <2>2. w \in Card!Way /\ drv \in [Card!Way -> DriverVars]
    BY DEF CardInv, CardTypes
  <2> HIDE DEF q, w
  <2>3. r.buf = drv[w].buf /\ r.count = drv[w].count
    BY <2>2 DEF DriverVars
  <2> HIDE DEF r
  <2>4. \A v \in Card!Way : drv'[v].buf = drv[v].buf /\ drv'[v].count = drv[v].count
    BY <2>1, <2>2, <2>3
  <2>5. \A v \in Card!Way : drv'[v].buf \in Callers \cup {None} /\ drv'[v].count \in 0..Chunks
    BY <1>0, <2>4 DEF DriverVars
  <2>6. call' \in [Callers -> {"idle", "started", "blocked", "back"}]
    BY <2>1 DEF CardInv, CardTypes
  <2> QED BY <2>1, <2>5, <2>6 DEF CardInv, CardTypes, Card!TypeOK
<1>5. ~ Card!Interrupt /\ ~ (\E p \in Callers : Card!Go(p))
  BY DEF Card!Next, Card!Interrupt, Card!RxInterrupt, Card!TxInterrupt, Card!ErrorInterrupt,
         Card!Go, Card!Wait, Card!Poll, Card!Return
<1> QED BY <1>2, <1>3, <1>4, <1>5 DEF Card!Next

LEMMA CardTypesKept ==
  ASSUME CardTypedInv, [Next]_vars
  PROVE  CardTypedInv'
<1>1. Card!Next \/ UNCHANGED sdc
  BY DEF Next, vars, KeyboardSteps, CardSteps
<1>2. CASE UNCHANGED sdc
  <2>1. /\ card' = card /\ drv' = drv /\ mem' = mem /\ call' = call /\ mixed' = mixed
    BY <1>2 DEF sdc
  <2>2. Card!TypeOK'
    BY <2>1 DEF CardTypedInv, Card!TypeOK
  <2>3. ~ mixed' => CardInv' /\ Semaphores'
    BY <1>2, <2>1, CardStep, CardFrees DEF CardTypedInv
  <2> QED BY <2>2, <2>3 DEF CardTypedInv
<1>3. CASE Card!Next
  <2>1. CardInv /\ Semaphores
    BY <1>3 DEF Card!Next, CardTypedInv
  <2>2. CASE mixed'
    BY <1>3, <2>1, <2>2, DisturbedTypes DEF CardTypedInv
  <2>3. CASE ~ mixed'
    <3>1. CardInv' /\ Semaphores'
      BY <1>3, <2>1, <2>3, CardStep, CardFrees
    <3>2. CardInv' /\ Semaphores' => Card!TypeOK'
      BY CardTypedNext
    <3> QED BY <3>1, <3>2 DEF CardTypedInv
  <2> QED BY <2>2, <2>3
<1> QED BY <1>1, <1>2, <1>3

LEMMA DecoderTyped == CodeInv => Decoder!TypeOK
<1> SUFFICES ASSUME CodeInv PROVE Decoder!TypeOK
  OBVIOUS
<1> DEFINE every == [key : ({"shift", "control"} \cup Plain) \cup {"arrow", "rcontrol"} \cup {"E0", "F0"},
                     up : BOOLEAN]
<1>1. Codes(keyset) \subseteq every
  BY DEF Codes
<1>2. wire \in Seq(every)
  <2> HIDE DEF every
  <2>1. wire \in [1..Len(wire) -> Codes(keyset)] /\ Len(wire) \in Nat
    BY LenProperties DEF CodeInv
  <2>2. wire \in [1..Len(wire) -> every]
    BY <1>1, <2>1
  <2> QED BY <2>1, <2>2, SeqDef
<1>3. /\ esc \in Nat /\ shift \in BOOLEAN /\ control \in BOOLEAN /\ release \in BOOLEAN
      /\ escKey \in {Decoder!NoKey, Decoder!Arrow}
  <2>1. Current \in States
    BY DEF CodeInv
  <2>2. /\ Current.esc \in Nat /\ Current.shift \in BOOLEAN /\ Current.control \in BOOLEAN
        /\ Current.release \in BOOLEAN /\ Current.escKey \in {Decoder!NoKey, Decoder!Arrow}
    BY <2>1 DEF States
  <2> QED BY <2>2 DEF Current
<1> QED BY <1>2, <1>3 DEF CodeInv, Decoder!TypeOK

(* The bound on what is written. *)
Bounded == written \in 0..MaxChars

LEMMA BoundKept == Bounded /\ [Next]_vars => Bounded'
<1> SUFFICES ASSUME Bounded, [Next]_vars PROVE Bounded'
  OBVIOUS
<1>1. Console!Next \/ UNCHANGED console
  BY DEF Next, vars, KeyboardSteps, CardSteps
<1>2. written' = written \/ (written < MaxChars /\ written' = written + 1)
  BY <1>1 DEF Console!Next, Console!Begin, Console!HandlerPrints, Console!Writes, Console!Draw,
              Console!Move, Console!Show, Console!Tick, console
<1>3. MaxChars \in Nat
  BY ScreenSizes
<1> QED BY <1>2, <1>3 DEF Bounded

LEMMA ConsoleTyped == ScreenInv /\ Bounded => Console!TypeOK
<1> SUFFICES ASSUME ScreenInv, Bounded PROVE Console!TypeOK
  OBVIOUS
<1>1. scr \in Screens /\ text \in Texts
  BY DEF ScreenInv
<1>2. scr.cell \in [Console!Cell -> SUBSET Glyphs]
  BY <1>1 DEF Screens
<1>3. Console!Here(scr) \in Console!Cell /\ Console!Here(text) \in Console!Cell
  BY <1>1, HereFacts DEF Screens, Texts
<1> QED BY <1>2, <1>3 DEF ScreenInv, Bounded, Glyphs, Console!TypeOK

(* The type invariants of the keyboard, of the serial line and of the timer are those of
   Handlers_proofs. *)
LEMMA SameTypes ==
  /\ Timer!TypeOK <=> All!Timer!TypeOK
  /\ SerialLine!TypeOK <=> All!TypeOK
  /\ OneReader!TypeOK <=> One!Keys!TypeOK
  /\ AllReaders!TypeOK <=> All!Keys!TypeOK
BY DEF Timer!TypeOK, All!Timer!TypeOK, Timer!Node, All!Timer!Node, SerialLine!TypeOK, All!TypeOK,
       SerialLine!Slots, All!Slots, OneReader!TypeOK, One!Keys!TypeOK, OneReader!Slots,
       One!Keys!Slots, AllReaders!TypeOK, All!Keys!TypeOK, AllReaders!Slots, All!Keys!Slots

(* The drivers' variables hold values of their types, whatever interleaving of calls and
   interrupts there is and for any sizes: among them that no index leaves its ring, that the
   timer's nodes are in the list or free and no time but the first is negative, and that as
   many wait for a semaphore of driver/sdc.c as its value says, until the driver is
   disturbed. *)
THEOREM DevicesTyped == Spec => []TypeOK
<1>1. Init => CodeInv /\ CardTypedInv /\ ScreenInv /\ Bounded
  <2> SUFFICES ASSUME Init PROVE CodeInv /\ CardTypedInv /\ ScreenInv /\ Bounded
    OBVIOUS
  <2>1. CodeInv /\ CardInv /\ ScreenInv
    BY CodesInit, CardInit, EmptyScreen DEF Init
  <2>2. \A w \in Card!Way : drv[w] = Card!Idle
    BY DEF Init, Card!Init
  <2>3. Semaphores
    BY <2>2, IdleVars, IsFree DEF Semaphores
  <2>4. Bounded
    BY ScreenSizes DEF Init, Console!Init, Bounded
  <2> QED BY <2>1, <2>3, <2>4, CardTyped DEF CardTypedInv
<1>2. CardTypedInv /\ [Next]_vars => CardTypedInv'
  BY CardTypesKept
<1>3. Spec => [](CodeInv /\ CardTypedInv /\ ScreenInv /\ Bounded)
  BY <1>1, <1>2, CodesSteps, ConsoleSteps, BoundKept, PTL DEF Spec
<1>4. Spec => [](Timer!TypeOK /\ SerialLine!TypeOK)
  <2>1. All!Timer!Spec => []All!Timer!TypeOK
    BY SizesHold, All!TimerTypes
  <2>2. All!Spec => []All!TypeOK
    BY SizesHold, All!LineTypes
  <2>3. Spec => []All!Timer!TypeOK
    BY <2>1, DriverInit, TimerStep, PTL DEF Spec, All!Timer!Spec
  <2>4. Spec => []All!TypeOK
    BY <2>2, DriverInit, LineStep, PTL DEF Spec, All!Spec
  <2> QED BY <2>3, <2>4, SameTypes, PTL
<1>5. Spec /\ ~Several => [](~Several /\ OneReader!TypeOK)
  <2>1. One!Keys!Spec => []One!Keys!TypeOK
    BY SizesHold, One!KeyTypes
  <2>2. Spec /\ ~Several => [](~Several /\ One!Keys!TypeOK)
    BY <2>1, DriverInit, ReaderStep, PTL DEF Spec, One!Keys!Spec
  <2> QED BY <2>2, SameTypes, PTL
<1>6. Spec /\ Several => [](Several /\ AllReaders!TypeOK)
  <2>1. All!Keys!Spec => []All!Keys!TypeOK
    BY SizesHold, All!KeyTypes
  <2>2. Spec /\ Several => [](Several /\ All!Keys!TypeOK)
    BY <2>1, DriverInit, ReadersStep, PTL DEF Spec, All!Keys!Spec
  <2> QED BY <2>2, SameTypes, PTL
<1>7. /\ CodeInv /\ CardTypedInv /\ ScreenInv /\ Bounded
      /\ Timer!TypeOK /\ SerialLine!TypeOK
      /\ (~Several /\ OneReader!TypeOK) \/ (Several /\ AllReaders!TypeOK)
      => TypeOK
  BY DecoderTyped, ConsoleTyped DEF TypeOK, Several, CardTypedInv
<1> QED BY <1>3, <1>4, <1>5, <1>6, <1>7, PTL
===============================================================================
