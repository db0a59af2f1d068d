-------------------------- MODULE SensorQueue_proofs --------------------------
(***************************************************************************)
(* Proofs about the list operations of DataManager, for lists of any       *)
(* length and any integer stamps and bounds.                               *)
(***************************************************************************)
EXTENDS SensorQueue, SequenceTheorems, WellFoundedInduction, TLAPS

\* A piece of a sequence: the elements after position a, up to position b.
LEMMA Piece ==
  ASSUME NEW S, NEW q \in Seq(S), NEW a \in 0 .. Len(q), NEW b \in a .. Len(q)
  PROVE  /\ SubSeq(q, a + 1, b) \in Seq(S)
         /\ Len(SubSeq(q, a + 1, b)) = b - a
         /\ \A i \in 1 .. b - a : SubSeq(q, a + 1, b)[i] = q[a + i]
<1>1. Len(q) \in Nat /\ \A i \in 1 .. Len(q) : q[i] \in S
  BY ElementOfSeq
<1>2. a + 1 \in Int /\ b \in Int /\ \A i \in a + 1 .. b : q[i] \in S
  BY <1>1
<1>3. /\ SubSeq(q, a + 1, b) \in Seq(S)
      /\ Len(SubSeq(q, a + 1, b)) = IF a + 1 <= b THEN b - (a + 1) + 1 ELSE 0
      /\ \A i \in 1 .. b - (a + 1) + 1 : SubSeq(q, a + 1, b)[i] = q[a + 1 + i - 1]
  BY <1>2, SubSeqProperties
<1>4. Len(SubSeq(q, a + 1, b)) = b - a
  BY <1>1, <1>3
<1>5. ASSUME NEW i \in 1 .. b - a
      PROVE  SubSeq(q, a + 1, b)[i] = q[a + i]
  <2>1. i \in 1 .. b - (a + 1) + 1 /\ a + 1 + i - 1 = a + i
    BY <1>1
  <2>2. SubSeq(q, a + 1, b)[i] = q[a + 1 + i - 1]
    BY <1>3, <2>1
  <2> QED
    BY <2>1, <2>2, Zenon
<1> QED
  BY <1>3, <1>4, <1>5

\* A non-empty set of positions has a greatest member: seen from the far end
\* it has a least one, and < is well-founded on the naturals.
LEMMA MaxExists ==
  ASSUME NEW n \in Nat, NEW I \in SUBSET (1 .. n), I # {}
  PROVE  /\ Max(I) \in I
         /\ \A j \in I : j <= Max(I)
<1> DEFINE T == {n - i : i \in I}
<1>1. T \subseteq Nat
  <2> SUFFICES ASSUME NEW i \in I PROVE n - i \in Nat
    OBVIOUS
  <2>1. i \in 1 .. n
    OBVIOUS
  <2> QED
    BY <2>1
<1>2. T # {}
  <2>1. PICK i \in I : TRUE
    OBVIOUS
  <2>2. n - i \in T
    OBVIOUS
  <2> QED
    BY <2>2
<1>3. PICK x \in T : \A y \in T : <<y, x>> \notin OpToRel(<, Nat)
  BY <1>1, <1>2, NatLessThanWellFounded, WFMin, Zenon
<1>4. \A y \in T : ~ (y < x)
  BY <1>1, <1>3 DEF OpToRel
<1>5. PICK m \in I : x = n - m
  OBVIOUS
<1>6. \A j \in I : j <= m
  <2> SUFFICES ASSUME NEW j \in I PROVE j <= m
    OBVIOUS
  <2>1. n - j \in T
    OBVIOUS
  <2>2. m \in 1 .. n /\ j \in 1 .. n
    OBVIOUS
  <2> HIDE DEF T
  <2> QED
    BY <1>4, <1>5, <2>1, <2>2
<1>7. \A j \in I : m >= j
  <2>1. \A j \in I : j \in 1 .. n
    OBVIOUS
  <2> QED
    BY <1>6, <2>1
<1>8. Max(I) \in I /\ \A j \in I : Max(I) >= j
  <2> HIDE DEF T
  <2> QED
    BY <1>7 DEF Max
<1>9. \A j \in I : j \in 1 .. n
  OBVIOUS
<1> HIDE DEF T
<1> QED
  BY <1>8, <1>9

\* CountBefore is the position of the last stamp before the bound, or 0.
LEMMA CountBeforeLast ==
  ASSUME NEW q \in Seq(Int), NEW t \in Int
  PROVE  /\ CountBefore(q, t) \in 0 .. Len(q)
         /\ CountBefore(q, t) > 0 => q[CountBefore(q, t)] < t
         /\ \A i \in 1 .. Len(q) : i > CountBefore(q, t) => q[i] >= t
<1> DEFINE I == {i \in 1 .. Len(q) : q[i] < t}
<1>1. CountBefore(q, t) = IF I # {} THEN Max(I) ELSE 0
  BY DEF CountBefore, SelectLastInSeq
<1>2. Len(q) \in Nat /\ \A i \in 1 .. Len(q) : q[i] \in Int
  OBVIOUS
<1>3. CASE I = {}
  BY <1>1, <1>2, <1>3
<1>4. CASE I # {}
  <2>1. I \in SUBSET (1 .. Len(q))
    OBVIOUS
  <2>2. Max(I) \in I /\ \A j \in I : j <= Max(I)
    <3> HIDE DEF I
    <3> QED
      BY <1>2, <1>4, <2>1, MaxExists
  <2> DEFINE m == Max(I)
  <2>3. CountBefore(q, t) = m
    BY <1>1, <1>4
  <2>4. m \in 1 .. Len(q) /\ q[m] < t
    BY <2>2
  <2>5. \A i \in 1 .. Len(q) : i > m => q[i] >= t
    <3> SUFFICES ASSUME NEW i \in 1 .. Len(q), i > m, ~ (q[i] >= t) PROVE FALSE
      OBVIOUS
    <3>1. i \in I
      BY <1>2
    <3> HIDE DEF m
    <3> QED
      BY <2>2, <2>4, <3>1 DEF m
  <2> HIDE DEF m, I
  <2> QED
    BY <1>2, <2>3, <2>4, <2>5
<1> QED
  BY <1>3, <1>4

\* These three facts determine it.
LEMMA CountBeforeUnique ==
  ASSUME NEW q \in Seq(Int), NEW t \in Int, NEW k \in 0 .. Len(q),
         k > 0 => q[k] < t,
         \A i \in 1 .. Len(q) : i > k => q[i] >= t
  PROVE  CountBefore(q, t) = k
<1> DEFINE c == CountBefore(q, t)
<1>1. /\ c \in 0 .. Len(q)
      /\ c > 0 => q[c] < t
      /\ \A i \in 1 .. Len(q) : i > c => q[i] >= t
  BY CountBeforeLast
<1>2. Len(q) \in Nat /\ \A i \in 1 .. Len(q) : q[i] \in Int
  OBVIOUS
<1> HIDE DEF c
<1>3. ~ (c < k)
  BY <1>1, <1>2
<1>4. ~ (k < c)
  BY <1>1, <1>2
<1> QED
  BY <1>1, <1>2, <1>3, <1>4 DEF c

\* A later bound never counts fewer measurements, whatever their order.
LEMMA CountBeforeMonotone ==
  ASSUME NEW q \in Seq(Int), NEW s \in Int, NEW e \in Int, s <= e
  PROVE  CountBefore(q, s) <= CountBefore(q, e)
<1> DEFINE a == CountBefore(q, s)
           b == CountBefore(q, e)
<1>1. /\ a \in 0 .. Len(q)
      /\ a > 0 => q[a] < s
  BY CountBeforeLast
<1>2. /\ b \in 0 .. Len(q)
      /\ \A i \in 1 .. Len(q) : i > b => q[i] >= e
  BY CountBeforeLast
<1>3. Len(q) \in Nat /\ \A i \in 1 .. Len(q) : q[i] \in Int
  OBVIOUS
<1> HIDE DEF a, b
<1>4. a <= b
  BY <1>1, <1>2, <1>3
<1> QED
  BY <1>4 DEF a, b

\* No extraction makes std::copy run past the end of a list, in whatever order
\* the measurements arrived.
THEOREM CopyRangesAreValid ==
  \A q \in Seq(Int), s, e \in Int : CopyRangeValid(q, s, e)
BY CountBeforeMonotone DEF CopyRangeValid

\* On a list in time order the positions Extract copies are exactly those
\* stamped within [s, e).
THEOREM ExtractPositions ==
  ASSUME NEW q \in Seq(Int), NEW s \in Int, NEW e \in Int, InOrder(q)
  PROVE  \A i \in 1 .. Len(q) :
           i \in CountBefore(q, s) + 1 .. CountBefore(q, e) <=> s <= q[i] /\ q[i] < e
<1> DEFINE a == CountBefore(q, s)
           b == CountBefore(q, e)
<1>1. /\ a \in 0 .. Len(q)
      /\ a > 0 => q[a] < s
      /\ \A i \in 1 .. Len(q) : i > a => q[i] >= s
  BY CountBeforeLast
<1>2. /\ b \in 0 .. Len(q)
      /\ b > 0 => q[b] < e
      /\ \A i \in 1 .. Len(q) : i > b => q[i] >= e
  BY CountBeforeLast
<1>3. Len(q) \in Nat /\ \A i \in 1 .. Len(q) : q[i] \in Int
  OBVIOUS
<1>4. \A i, j \in 1 .. Len(q) : i < j => q[i] <= q[j]
  BY DEF InOrder
<1> HIDE DEF a, b
<1>5. ASSUME NEW i \in 1 .. Len(q)
      PROVE  i \in a + 1 .. b <=> s <= q[i] /\ q[i] < e
  <2>1. i > a <=> s <= q[i]
    <3>1. CASE i > a
      BY <1>1, <1>3, <3>1
    <3>2. CASE i < a
      <4>1. q[i] <= q[a] /\ q[a] < s
        BY <1>1, <1>3, <1>4, <3>2
      <4> QED
        BY <1>1, <1>3, <3>2, <4>1
    <3>3. CASE i = a
      BY <1>1, <1>3, <3>3
    <3> QED
      BY <1>1, <1>3, <3>1, <3>2, <3>3
  <2>2. i <= b <=> q[i] < e
    <3>1. CASE i > b
      BY <1>2, <1>3, <3>1
    <3>2. CASE i < b
      <4>1. q[i] <= q[b] /\ q[b] < e
        BY <1>2, <1>3, <1>4, <3>2
      <4> QED
        BY <1>2, <1>3, <3>2, <4>1
    <3>3. CASE i = b
      BY <1>2, <1>3, <3>3
    <3> QED
      BY <1>2, <1>3, <3>1, <3>2, <3>3
  <2> QED
    BY <1>1, <1>2, <1>3, <2>1, <2>2
<1> QED
  BY <1>5 DEF a, b

-------------------------------------------------------------------------------
\* When the positions after a, up to b, are those stamped within [s, e),
\* selecting these stamps yields exactly that piece.
LEMMA Selection ==
  ASSUME NEW q \in Seq(Int), NEW s \in Int, NEW e \in Int,
         NEW a \in 0 .. Len(q), NEW b \in a .. Len(q),
         \A i \in 1 .. Len(q) : s <= q[i] /\ q[i] < e <=> a < i /\ i <= b
  PROVE  Within(q, s, e) = SubSeq(q, a + 1, b)
<1> DEFINE up(i) == IF i < a THEN a ELSE IF i < b THEN i ELSE b
           f == [i \in 0 .. Len(q) |-> SubSeq(q, a + 1, up(i))]
           Step(h, i) == IF i = 0 THEN << >> ELSE IF s <= q[i] /\ q[i] < e THEN Append(h[i-1], q[i]) ELSE h[i-1]
<1>1. /\ Len(q) \in Nat /\ a \in Nat /\ b \in Nat /\ a <= b /\ b <= Len(q)
      /\ \A i \in 1 .. Len(q) : q[i] \in Int
  OBVIOUS
<1>2. ASSUME NEW i \in 0 .. Len(q)
      PROVE  f[i] = Step(f, i)
  <2>1. CASE i = 0
    BY <1>1, <2>1, SubSeqEmpty
  <2>2. CASE i # 0 /\ ~ (a < i /\ i <= b)
    <3>1. up(i) = up(i - 1) /\ i - 1 \in 0 .. Len(q) /\ i \in 1 .. Len(q)
      BY <1>1, <2>2
    <3>2. ~ (s <= q[i] /\ q[i] < e)
      BY <2>2, <3>1
    <3>3. f[i] = f[i - 1]
      BY <3>1, Zenon
    <3> QED
      BY <2>2, <3>2, <3>3
  <2>3. CASE i # 0 /\ a < i /\ i <= b
    <3>1. up(i) = i /\ up(i - 1) = i - 1 /\ i - 1 \in 0 .. Len(q) /\ i \in 1 .. Len(q)
      BY <1>1, <2>3
    <3>2. f[i] = SubSeq(q, a + 1, i) /\ f[i - 1] = SubSeq(q, a + 1, i - 1)
      BY <3>1, Zenon
    <3>3. SubSeq(q, a + 1, i) = Append(SubSeq(q, a + 1, i - 1), q[i])
      <4>1. a + 1 \in 1 .. Len(q) /\ i \in a + 1 .. Len(q)
        BY <1>1, <2>3
      <4>2. SubSeq(q, a + 1, i) = SubSeq(q, a + 1, i - 1) \o << q[i] >>
        BY <4>1, SubSeqRecursiveSecond
      <4>3. SubSeq(q, a + 1, i - 1) \in Seq(Int) /\ q[i] \in Int
        <5>1. i - 1 \in a .. Len(q)
          BY <1>1, <2>3
        <5> QED
          BY <1>1, <3>1, <5>1, Piece
      <4>4. Append(SubSeq(q, a + 1, i - 1), q[i]) = SubSeq(q, a + 1, i - 1) \o << q[i] >>
        BY <4>3, AppendIsConcat
      <4> QED
        BY <4>2, <4>4, Zenon
    <3>4. s <= q[i] /\ q[i] < e
      BY <2>3, <3>1
    <3> HIDE DEF f, up
    <3> QED
      BY <2>3, <3>2, <3>3, <3>4
  <2> QED
    BY <2>1, <2>2, <2>3
<1>3. f = [i \in 0 .. Len(q) |-> Step(f, i)]
  <2> HIDE DEF Step, up
  <2> QED
    BY <1>2
<1>4. ASSUME NEW g, g = [i \in 0 .. Len(q) |-> Step(g, i)]
      PROVE  g = f
  <2> DEFINE D == {i \in 0 .. Len(q) : g[i] # f[i]}
  <2>1. ASSUME D # {} PROVE FALSE
    <3>1. D \subseteq Nat
      OBVIOUS
    <3> DEFINE R == OpToRel(<, Nat)
    <3>2. IsWellFoundedOn(R, Nat)
      BY NatLessThanWellFounded
    <3> HIDE DEF R
    <3>3. PICK x \in D : \A y \in D : <<y, x>> \notin R
      <4> HIDE DEF D
      <4> QED
        BY <2>1, <3>1, <3>2, WFMin
    <3> USE DEF R
    <3>4. x \in 0 .. Len(q) /\ g[x] # f[x] /\ g[x] = Step(g, x)
      <4> HIDE DEF Step, f
      <4> QED
        BY <1>4
    <3>5. f[x] = Step(f, x)
      BY <1>2, <3>4
    <3>6. x # 0
      <4> HIDE DEF f
      <4> QED
        BY <3>4, <3>5
    <3>7. x - 1 \in 0 .. Len(q)
      BY <1>1, <3>4, <3>6
    <3>8. g[x - 1] = f[x - 1]
      <4>1. x - 1 \notin D
        <5>1. x - 1 \in Nat /\ x \in Nat /\ x - 1 < x
          BY <3>4, <3>7
        <5>2. <<x - 1, x>> \in R
          BY <5>1 DEF OpToRel
        <5> HIDE DEF R, D
        <5> QED
          BY <3>3, <5>2
      <4> HIDE DEF f
      <4> QED
        BY <3>7, <4>1
    <3> HIDE DEF f, D
    <3> QED
      BY <3>4, <3>5, <3>6, <3>8
  <2>2. \A i \in 0 .. Len(q) : g[i] = f[i]
    BY <2>1
  <2>3. g = [i \in 0 .. Len(q) |-> g[i]]
    <3> HIDE DEF Step
    <3> QED
      BY <1>4
  <2>4. f = [i \in 0 .. Len(q) |-> f[i]]
    OBVIOUS
  <2> HIDE DEF f, D, Step
  <2> QED
    BY <2>2, <2>3, <2>4
<1>5. f[Len(q)] = SubSeq(q, a + 1, b)
  <2>1. up(Len(q)) = b /\ Len(q) \in 0 .. Len(q)
    BY <1>1
  <2> HIDE DEF up
  <2> QED
    BY <2>1
<1> HIDE DEF f
<1>6. Within(q, s, e) = f[Len(q)]
  <2>1. \A g : g = [i \in 0 .. Len(q) |-> Step(g, i)] => g = f
    BY <1>4
  <2> QED
    BY <1>3, <2>1 DEF Within
<1> QED
  BY <1>5, <1>6

\* On a list in time order, an extraction is the window asked for: every
\* measurement stamped within it, once and in order.
THEOREM ExtractionsAreWindows ==
  \A q \in Seq(Int), s, e \in Int : ExtractIsWindow(q, s, e)
<1> SUFFICES ASSUME NEW q \in Seq(Int), NEW s \in Int, NEW e \in Int, InOrder(q), s <= e
             PROVE  Extract(q, s, e) = Within(q, s, e)
  BY DEF ExtractIsWindow
<1> DEFINE a == CountBefore(q, s)
           b == CountBefore(q, e)
<1>1. Len(q) \in Nat /\ a \in 0 .. Len(q) /\ b \in a .. Len(q)
  BY CountBeforeLast, CountBeforeMonotone
<1>2. \A i \in 1 .. Len(q) : i \in a + 1 .. b <=> s <= q[i] /\ q[i] < e
  BY ExtractPositions
<1>3. Extract(q, s, e) = SubSeq(q, a + 1, b)
  BY DEF Extract
<1> HIDE DEF a, b
<1>4. \A i \in 1 .. Len(q) : s <= q[i] /\ q[i] < e <=> a < i /\ i <= b
  BY <1>1, <1>2
<1>5. Within(q, s, e) = SubSeq(q, a + 1, b)
  BY <1>1, <1>4, Selection
<1> QED
  BY <1>3, <1>5

\* The overloads without an end give the window that nothing on the list is
\* beyond (data_manager.cpp:193-251).
THEOREM ExtractionsToTheEnd ==
  \A q \in Seq(Int), s, e \in Int : ExtractFromIsWindow(q, s, e)
<1> SUFFICES ASSUME NEW q \in Seq(Int), NEW s \in Int, NEW e \in Int, InOrder(q), s <= e,
                    \A i \in 1 .. Len(q) : q[i] < e
             PROVE  ExtractFrom(q, s) = Within(q, s, e)
  BY DEF ExtractFromIsWindow
<1>1. Len(q) \in Nat /\ Len(q) \in 0 .. Len(q)
  OBVIOUS
<1>2. /\ Len(q) > 0 => q[Len(q)] < e
      /\ \A i \in 1 .. Len(q) : i > Len(q) => q[i] >= e
  BY <1>1
<1>3. CountBefore(q, e) = Len(q)
  BY <1>1, <1>2, CountBeforeUnique
<1>4. ExtractFrom(q, s) = Extract(q, s, e)
  BY <1>3 DEF ExtractFrom, Extract
<1>5. Extract(q, s, e) = Within(q, s, e)
  BY ExtractionsAreWindows DEF ExtractIsWindow
<1> QED
  BY <1>4, <1>5

-------------------------------------------------------------------------------
\* Taking d measurements off the front of a list, all of them before the last
\* one stamped before s, moves the position found for s down by d.
LEMMA CountBeforeDropped ==
  ASSUME NEW q \in Seq(Int), NEW s \in Int, NEW d \in 0 .. CountBefore(q, s)
  PROVE  CountBefore(SubSeq(q, d + 1, Len(q)), s) = CountBefore(q, s) - d
<1> DEFINE a == CountBefore(q, s)
           r == SubSeq(q, d + 1, Len(q))
<1>1. Len(q) \in Nat /\ a \in 0 .. Len(q) /\ d \in 0 .. a
  BY CountBeforeLast
<1>2. /\ a > 0 => q[a] < s
      /\ \A i \in 1 .. Len(q) : i > a => q[i] >= s
  BY CountBeforeLast
<1>3. /\ r \in Seq(Int)
      /\ Len(r) = Len(q) - d
      /\ \A i \in 1 .. Len(q) - d : r[i] = q[d + i]
  <2> HIDE DEF a
  <2>1. d \in 0 .. Len(q) /\ Len(q) \in d .. Len(q)
    BY <1>1
  <2> QED
    BY <2>1, Piece
<1> HIDE DEF a, r
<1>4. a - d \in 0 .. Len(r)
  BY <1>1, <1>3
<1>5. a - d > 0 => r[a - d] < s
  <2> SUFFICES ASSUME a - d > 0 PROVE r[a - d] < s
    OBVIOUS
  <2>1. a - d \in 1 .. Len(q) - d /\ d + (a - d) = a /\ a > 0
    BY <1>1
  <2>2. r[a - d] = q[d + (a - d)]
    BY <1>3, <2>1
  <2> QED
    BY <1>2, <2>1, <2>2
<1>6. \A i \in 1 .. Len(r) : i > a - d => r[i] >= s
  <2> SUFFICES ASSUME NEW i \in 1 .. Len(r), i > a - d PROVE r[i] >= s
    OBVIOUS
  <2>1. d + i \in 1 .. Len(q) /\ d + i > a /\ r[i] = q[d + i]
    BY <1>1, <1>3
  <2> QED
    BY <1>2, <2>1
<1>7. CountBefore(r, s) = a - d
  BY <1>3, <1>4, <1>5, <1>6, CountBeforeUnique
<1> QED
  BY <1>7 DEF a, r

\* A piece of what is left is a piece of the list.
LEMMA PieceOfRest ==
  ASSUME NEW S, NEW q \in Seq(S), NEW d \in 0 .. Len(q),
         NEW a \in d .. Len(q), NEW b \in a .. Len(q)
  PROVE  SubSeq(SubSeq(q, d + 1, Len(q)), a - d + 1, b - d) = SubSeq(q, a + 1, b)
<1> DEFINE r == SubSeq(q, d + 1, Len(q))
<1>1. Len(q) \in Nat /\ a \in 0 .. Len(q) /\ Len(q) \in d .. Len(q)
  OBVIOUS
<1>2. /\ r \in Seq(S)
      /\ Len(r) = Len(q) - d
      /\ \A i \in 1 .. Len(q) - d : r[i] = q[d + i]
  BY <1>1, Piece
<1> HIDE DEF r
<1>3. /\ SubSeq(q, a + 1, b) \in Seq(S)
      /\ Len(SubSeq(q, a + 1, b)) = b - a
      /\ \A i \in 1 .. b - a : SubSeq(q, a + 1, b)[i] = q[a + i]
  BY <1>1, Piece
<1>4. /\ SubSeq(r, a - d + 1, b - d) \in Seq(S)
      /\ Len(SubSeq(r, a - d + 1, b - d)) = b - d - (a - d)
      /\ \A i \in 1 .. b - d - (a - d) : SubSeq(r, a - d + 1, b - d)[i] = r[a - d + i]
  <2>1. a - d \in 0 .. Len(r) /\ b - d \in a - d .. Len(r)
    BY <1>1, <1>2
  <2> QED
    BY <1>2, <2>1, Piece
<1>5. \A i \in 1 .. b - a : SubSeq(r, a - d + 1, b - d)[i] = SubSeq(q, a + 1, b)[i]
  <2> SUFFICES ASSUME NEW i \in 1 .. b - a
               PROVE  SubSeq(r, a - d + 1, b - d)[i] = SubSeq(q, a + 1, b)[i]
    OBVIOUS
  <2>1. i \in 1 .. b - d - (a - d) /\ a - d + i \in 1 .. Len(q) - d /\ d + (a - d + i) = a + i
    BY <1>1
  <2>2. r[a - d + i] = q[a + i]
    BY <1>2, <2>1
  <2>3. SubSeq(r, a - d + 1, b - d)[i] = r[a - d + i]
    BY <1>4, <2>1
  <2> QED
    BY <1>3, <2>2, <2>3
<1>6. Len(SubSeq(r, a - d + 1, b - d)) = b - a
  BY <1>1, <1>4
<1>7. SubSeq(r, a - d + 1, b - d) = SubSeq(q, a + 1, b)
  BY <1>3, <1>4, <1>5, <1>6, SeqEqual
<1> QED
  BY <1>7 DEF r

\* The windows from s on do not change.
LEMMA ExtractDropped ==
  ASSUME NEW q \in Seq(Int), NEW s \in Int, NEW e \in Int, s <= e,
         NEW d \in 0 .. CountBefore(q, s)
  PROVE  Extract(SubSeq(q, d + 1, Len(q)), s, e) = Extract(q, s, e)
<1> DEFINE a == CountBefore(q, s)
           b == CountBefore(q, e)
           r == SubSeq(q, d + 1, Len(q))
<1>1. Len(q) \in Nat /\ a \in 0 .. Len(q) /\ b \in 0 .. Len(q) /\ d \in 0 .. a /\ a <= b
  <2>1. a \in 0 .. Len(q) /\ b \in 0 .. Len(q)
    BY CountBeforeLast
  <2>2. a <= b
    BY CountBeforeMonotone
  <2> QED
    BY <2>1, <2>2
<1>2. CountBefore(r, s) = a - d /\ CountBefore(r, e) = b - d
  <2>1. d \in 0 .. b
    BY <1>1
  <2> QED
    BY <2>1, CountBeforeDropped
<1>3. /\ Extract(r, s, e) = SubSeq(r, a - d + 1, b - d)
      /\ Extract(q, s, e) = SubSeq(q, a + 1, b)
  BY <1>2 DEF Extract
<1>4. SubSeq(r, a - d + 1, b - d) = SubSeq(q, a + 1, b)
  <2> HIDE DEF a, b
  <2>1. d \in 0 .. Len(q) /\ a \in d .. Len(q) /\ b \in a .. Len(q)
    BY <1>1
  <2> QED
    BY <2>1, PieceOfRest
<1> QED
  BY <1>3, <1>4, Zenon

\* What erasing leaves is the list from some position on.
LEMMA EraseOldElements ==
  ASSUME NEW q \in Seq(Int), NEW t \in Int
  PROVE  /\ EraseOld(q, t) \in Seq(Int)
         /\ Len(EraseOld(q, t)) = Len(q) - CountBefore(q, t)
         /\ \A i \in 1 .. Len(q) - CountBefore(q, t) :
              EraseOld(q, t)[i] = q[CountBefore(q, t) + i]
<1>1. CountBefore(q, t) \in 0 .. Len(q) /\ Len(q) \in CountBefore(q, t) .. Len(q)
  BY CountBeforeLast
<1> QED
  BY <1>1, Piece DEF EraseOld

\* Erasing what lies before a window never changes what the window yields, in
\* whatever order the measurements arrived: the main thread may erase between
\* any two extractions of the StateManager thread.
THEOREM ErasureSparesWindows ==
  \A q \in Seq(Int), t, s, e \in Int : EraseSparesWindow(q, t, s, e)
<1> SUFFICES ASSUME NEW q \in Seq(Int), NEW t \in Int, NEW s \in Int, NEW e \in Int
             PROVE  EraseSparesWindow(q, t, s, e)
  OBVIOUS
<1> DEFINE c == CountBefore(q, t)
           r == EraseOld(q, t)
<1>1. /\ Len(q) \in Nat
      /\ c \in 0 .. Len(q)
      /\ \A i \in 1 .. Len(q) : i > c => q[i] >= t
      /\ \A i \in 1 .. Len(q) : q[i] \in Int
  BY CountBeforeLast
<1>2. \A i \in 1 .. Len(r) : r[i] >= t
  <2> SUFFICES ASSUME NEW i \in 1 .. Len(r) PROVE r[i] >= t
    OBVIOUS
  <2>1. /\ Len(r) = Len(q) - c
        /\ \A j \in 1 .. Len(q) - c : r[j] = q[c + j]
    BY EraseOldElements
  <2> HIDE DEF c, r
  <2>2. c + i \in 1 .. Len(q) /\ c + i > c /\ r[i] = q[c + i]
    BY <1>1, <2>1
  <2> QED
    BY <1>1, <2>2
<1>3. ASSUME t <= s, s <= e
      PROVE  Extract(r, s, e) = Extract(q, s, e)
  <2>1. c \in 0 .. CountBefore(q, s)
    BY <1>3, CountBeforeLast, CountBeforeMonotone
  <2> QED
    BY <1>3, <2>1, ExtractDropped DEF EraseOld
<1> QED
  BY <1>2, <1>3 DEF EraseSparesWindow
===============================================================================
