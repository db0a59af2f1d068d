--------------------------- MODULE SensorFlow_proofs ---------------------------
(***************************************************************************)
(* Proofs about the flow of measurements, for all stamps, scan sizes,      *)
(* rates, windows and lags: the lists keep what the windows need, and the  *)
(* threads together implement MeasurementLog.                              *)
(***************************************************************************)
EXTENDS SensorFlow, SensorQueue_proofs

\* What arrives on a list is in time order.
OrderInv ==
  \A s \in Sensors : arrived[s] \in Seq(Stamps[s]) /\ InOrder(arrived[s])

\* A list is what has arrived but for some of the measurements before the
\* first one of the window.
RestInv ==
  \A s \in Sensors : \E d \in 0 .. CountBefore(arrived[s], vset) :
    queue[s] = SubSeq(arrived[s], d + 1, Len(arrived[s]))

\* The sensors that a window waits for have delivered t, or something later.
Reached(t) ==
  \A s \in {"imu", "radar"} : arrived[s] # << >> /\ t <= Last(arrived[s])

\* The state is never valid beyond what has arrived; the main thread's idea of
\* it is never ahead.
MarkInv ==
  /\ initialized <=> vset # None
  /\ initialized => Reached(vset)
  /\ snapVset <= vset

\* The window the StateManager thread works on starts where the state ends, and
\* once its end is found everything within it has arrived.
WindowInv ==
  /\ pcSM \notin {"top", "done"} => initialized /\ sTime = vset
  /\ pcSM = "radarEnd" => /\ eTime # None /\ arrived["imu"] # << >>
                          /\ eTime <= Last(arrived["imu"])
  /\ pcSM \in {"imu", "radar", "leg", "judge", "quit"} =>
       eTime - sTime >= MinWindow /\ Reached(eTime)

\* x is the beginning of w.
Leads(x, w) ==
  Len(x) <= Len(w) /\ \A i \in 1 .. Len(x) : x[i] = w[i]

\* The copies are the windows of what has arrived, by now and not only when
\* they were taken; of the leg frames some may be missing at the end.
BatchInv ==
  /\ pcSM \in {"radar", "leg", "judge", "quit"} =>
       batch["imu"] = Extract(arrived["imu"], sTime, eTime)
  /\ pcSM \in {"leg", "judge", "quit"} =>
       batch["radar"] = Extract(arrived["radar"], sTime, eTime)
  /\ pcSM \in {"judge", "quit"} =>
       Leads(batch["leg"], Extract(arrived["leg"], sTime, eTime))

QuitInv == pcSM = "quit" => SMStarved

IInv == TypeOK /\ OrderInv /\ RestInv /\ MarkInv /\ WindowInv /\ BatchInv /\ QuitInv

-------------------------------------------------------------------------------
(* A list q that grows by measurements stamped t, later than all before.   *)

Grown(q, t, r) ==
  /\ r \in Seq(Int) /\ Len(q) < Len(r)
  /\ \A i \in 1 .. Len(q) : r[i] = q[i] /\ q[i] < t
  /\ \A i \in 1 .. Len(r) : i > Len(q) => r[i] = t

\* What arrives at time t changes no count of what is before t or earlier.
LEMMA GrownCount ==
  ASSUME NEW q \in Seq(Int), NEW t \in Int, NEW r, Grown(q, t, r), NEW u \in Int
  PROVE  /\ u <= t => CountBefore(r, u) = CountBefore(q, u)
         /\ u > t => CountBefore(q, u) = Len(q) /\ CountBefore(r, u) = Len(r)
         /\ CountBefore(q, u) <= CountBefore(r, u)
<1>1. /\ Len(q) \in Nat /\ r \in Seq(Int) /\ Len(r) \in Nat /\ Len(q) < Len(r)
      /\ \A i \in 1 .. Len(q) : r[i] = q[i] /\ q[i] < t
      /\ \A i \in 1 .. Len(r) : i > Len(q) => r[i] = t
      /\ \A i \in 1 .. Len(q) : q[i] \in Int
  BY DEF Grown
<1> DEFINE c == CountBefore(q, u)
<1>2. /\ c \in 0 .. Len(q)
      /\ c > 0 => q[c] < u
      /\ \A i \in 1 .. Len(q) : i > c => q[i] >= u
  BY CountBeforeLast
<1> HIDE DEF c
<1>3. CASE u <= t
  <2>1. c \in 0 .. Len(r) /\ (c > 0 => r[c] < u)
    BY <1>1, <1>2
  <2>2. ASSUME NEW i \in 1 .. Len(r), i > c
        PROVE  r[i] >= u
    <3>1. CASE i \in 1 .. Len(q)
      BY <1>1, <1>2, <2>2, <3>1
    <3>2. CASE i > Len(q)
      BY <1>1, <1>3, <3>2
    <3> QED
      BY <1>1, <3>1, <3>2
  <2>3. CountBefore(r, u) = c
    BY <1>1, <2>1, <2>2, CountBeforeUnique
  <2> QED
    BY <1>1, <1>2, <1>3, <2>3 DEF c
<1>4. CASE u > t
  <2>1. c = Len(q)
    <3>1. Len(q) > 0 => q[Len(q)] < u
      BY <1>1, <1>4
    <3> QED
      BY <1>1, <1>2, <3>1
  <2>2. CountBefore(r, u) = Len(r)
    <3>1. Len(r) \in 0 .. Len(r) /\ r[Len(r)] < u
      BY <1>1, <1>4
    <3>2. \A i \in 1 .. Len(r) : i > Len(r) => r[i] >= u
      BY <1>1
    <3> QED
      BY <1>1, <3>1, <3>2, CountBeforeUnique
  <2> QED
    BY <1>1, <1>4, <2>1, <2>2 DEF c
<1> QED
  BY <1>3, <1>4

\* What arrives is the end of the list, which stays in time order.
LEMMA GrownOrder ==
  ASSUME NEW q \in Seq(Int), NEW t \in Int, NEW r, Grown(q, t, r), InOrder(q)
  PROVE  InOrder(r) /\ r # << >> /\ Last(r) = t
<1>1. /\ Len(q) \in Nat /\ r \in Seq(Int) /\ Len(r) \in Nat /\ Len(q) < Len(r)
      /\ \A i \in 1 .. Len(q) : r[i] = q[i] /\ q[i] < t
      /\ \A i \in 1 .. Len(r) : i > Len(q) => r[i] = t
      /\ \A i \in 1 .. Len(q) : q[i] \in Int
      /\ \A i, j \in 1 .. Len(q) : i < j => q[i] <= q[j]
  BY DEF Grown, InOrder
<1>2. ASSUME NEW i \in 1 .. Len(r), NEW j \in 1 .. Len(r), i < j
      PROVE  r[i] <= r[j]
  <2>1. CASE j \in 1 .. Len(q)
    <3>1. i \in 1 .. Len(q) /\ q[i] <= q[j]
      BY <1>1, <1>2, <2>1
    <3>2. r[i] = q[i] /\ r[j] = q[j]
      BY <1>1, <2>1, <3>1
    <3> QED
      BY <3>1, <3>2
  <2>2. CASE j > Len(q) /\ i \in 1 .. Len(q)
    BY <1>1, <2>2
  <2>3. CASE j > Len(q) /\ i > Len(q)
    BY <1>1, <2>3
  <2> QED
    BY <1>1, <2>1, <2>2, <2>3
<1>3. r # << >>
  BY <1>1
<1>4. Last(r) = t
  BY <1>1 DEF Last
<1> QED
  BY <1>2, <1>3, <1>4 DEF InOrder

\* What arrives leaves the pieces of the list as it was unchanged.
LEMMA GrownPiece ==
  ASSUME NEW q \in Seq(Int), NEW t \in Int, NEW r, Grown(q, t, r),
         NEW a \in 0 .. Len(q), NEW b \in a .. Len(q)
  PROVE  SubSeq(r, a + 1, b) = SubSeq(q, a + 1, b)
<1>1. /\ Len(q) \in Nat /\ r \in Seq(Int) /\ Len(r) \in Nat /\ Len(q) < Len(r)
      /\ \A i \in 1 .. Len(q) : r[i] = q[i]
  BY DEF Grown
<1>2. /\ SubSeq(q, a + 1, b) \in Seq(Int)
      /\ Len(SubSeq(q, a + 1, b)) = b - a
      /\ \A i \in 1 .. b - a : SubSeq(q, a + 1, b)[i] = q[a + i]
  BY Piece
<1>3. /\ SubSeq(r, a + 1, b) \in Seq(Int)
      /\ Len(SubSeq(r, a + 1, b)) = b - a
      /\ \A i \in 1 .. b - a : SubSeq(r, a + 1, b)[i] = r[a + i]
  <2>1. a \in 0 .. Len(r) /\ b \in a .. Len(r)
    BY <1>1
  <2> QED
    BY <1>1, <2>1, Piece
<1>4. ASSUME NEW i \in 1 .. b - a
      PROVE  SubSeq(r, a + 1, b)[i] = SubSeq(q, a + 1, b)[i]
  <2>1. a + i \in 1 .. Len(q)
    BY <1>1
  <2> QED
    BY <1>1, <1>2, <1>3, <2>1
<1> QED
  BY <1>2, <1>3, <1>4, SeqEqual

\* A window whose end everything new is past does not change; of any other, what
\* it yielded before is the beginning of what it yields now.
LEMMA GrownWindow ==
  ASSUME NEW q \in Seq(Int), NEW t \in Int, NEW r, Grown(q, t, r),
         NEW s \in Int, NEW e \in Int, s <= e
  PROVE  /\ e <= t => Extract(r, s, e) = Extract(q, s, e)
         /\ \A x : Leads(x, Extract(q, s, e)) /\ x \in Seq(Int) => Leads(x, Extract(r, s, e))
<1> DEFINE a == CountBefore(q, s)
           b == CountBefore(q, e)
<1>1. /\ Len(q) \in Nat /\ r \in Seq(Int) /\ Len(r) \in Nat /\ Len(q) < Len(r)
      /\ \A i \in 1 .. Len(q) : r[i] = q[i]
  BY DEF Grown
<1>2. a \in 0 .. Len(q) /\ b \in a .. Len(q)
  BY CountBeforeLast, CountBeforeMonotone
<1>3. Extract(q, s, e) = SubSeq(q, a + 1, b)
  BY DEF Extract
<1>4. ASSUME e <= t
      PROVE  Extract(r, s, e) = Extract(q, s, e)
  <2>1. CountBefore(r, s) = a /\ CountBefore(r, e) = b
    BY <1>4, GrownCount
  <2>2. Extract(r, s, e) = SubSeq(r, a + 1, b)
    BY <2>1 DEF Extract
  <2>3. SubSeq(r, a + 1, b) = SubSeq(q, a + 1, b)
    <3> HIDE DEF a, b
    <3> QED
      BY <1>2, GrownPiece
  <2> QED
    BY <1>3, <2>2, <2>3, Zenon
<1>5. ASSUME NEW x, Leads(x, Extract(q, s, e)), x \in Seq(Int)
      PROVE  Leads(x, Extract(r, s, e))
  <2>1. CASE e <= t
    BY <1>4, <1>5, <2>1
  <2>2. CASE e > t
    <3>1. b = Len(q) /\ CountBefore(r, e) = Len(r)
      BY <2>2, GrownCount
    <3>2. CASE s <= t
      <4>1. CountBefore(r, s) = a
        BY <3>2, GrownCount
      <4>2. Extract(r, s, e) = SubSeq(r, a + 1, Len(r)) /\ Extract(q, s, e) = SubSeq(q, a + 1, Len(q))
        BY <1>3, <3>1, <4>1 DEF Extract
      <4> HIDE DEF a, b
      <4>3. a \in 0 .. Len(r) /\ Len(r) \in a .. Len(r) /\ Len(q) \in a .. Len(q)
        BY <1>1, <1>2
      <4>4. /\ Len(SubSeq(r, a + 1, Len(r))) = Len(r) - a
            /\ \A i \in 1 .. Len(r) - a : SubSeq(r, a + 1, Len(r))[i] = r[a + i]
        BY <1>1, <4>3, Piece
      <4>5. /\ Len(SubSeq(q, a + 1, Len(q))) = Len(q) - a
            /\ \A i \in 1 .. Len(q) - a : SubSeq(q, a + 1, Len(q))[i] = q[a + i]
        BY <1>2, <4>3, Piece
      <4>6. Len(x) \in Nat /\ Len(x) <= Len(q) - a /\ Len(x) <= Len(r) - a
        <5>1. Len(x) \in Nat /\ Len(x) <= Len(Extract(q, s, e))
          BY <1>5 DEF Leads
        <5>2. Len(Extract(q, s, e)) = Len(q) - a
          BY <4>2, <4>5, Zenon
        <5> QED
          BY <1>1, <1>2, <5>1, <5>2
      <4>7. ASSUME NEW i \in 1 .. Len(x)
            PROVE  x[i] = SubSeq(r, a + 1, Len(r))[i]
        <5>1. i \in 1 .. Len(q) - a /\ i \in 1 .. Len(r) - a /\ a + i \in 1 .. Len(q)
          <6>1. a \in Nat /\ Len(q) \in Nat /\ Len(r) \in Nat
            BY <1>1, <1>2
          <6> QED
            BY <4>6, <6>1
        <5>2. x[i] = SubSeq(q, a + 1, Len(q))[i]
          BY <1>5, <4>2 DEF Leads
        <5>3. x[i] = q[a + i]
          BY <4>5, <5>1, <5>2
        <5> QED
          BY <1>1, <4>4, <5>1, <5>3
      <4> QED
        BY <4>2, <4>4, <4>6, <4>7 DEF Leads
    <3>3. CASE s > t
      <4>1. a = Len(q)
        BY <3>3, GrownCount
      <4>2. Len(SubSeq(q, a + 1, b)) = 0
        <5> HIDE DEF a, b
        <5>1. Len(SubSeq(q, a + 1, b)) = b - a
          BY <1>2, Piece
        <5> QED
          BY <1>1, <3>1, <4>1, <5>1
      <4>3. Len(x) = 0
        <5>1. Len(Extract(q, s, e)) = 0
          BY <1>3, <4>2, Zenon
        <5>2. Len(x) \in Nat /\ Len(x) <= Len(Extract(q, s, e))
          BY <1>5 DEF Leads
        <5> QED
          BY <5>1, <5>2
      <4>4. Len(Extract(r, s, e)) \in Nat
        <5>1. CountBefore(r, s) \in 0 .. Len(r) /\ CountBefore(r, e) \in CountBefore(r, s) .. Len(r)
          <6>1. CountBefore(r, s) \in 0 .. Len(r) /\ CountBefore(r, e) \in 0 .. Len(r)
            BY <1>1, CountBeforeLast
          <6>2. CountBefore(r, s) <= CountBefore(r, e)
            BY <1>1, CountBeforeMonotone
          <6> QED
            BY <1>1, <6>1, <6>2
        <5>2. SubSeq(r, CountBefore(r, s) + 1, CountBefore(r, e)) \in Seq(Int)
          BY <1>1, <5>1, Piece
        <5> QED
          BY <5>2 DEF Extract
      <4> QED
        BY <4>3, <4>4 DEF Leads
    <3> QED
      BY <3>2, <3>3
  <2> QED
    BY <2>1, <2>2
<1> QED
  BY <1>4, <1>5

\* What is appended to what is left of a list is what is left of the longer one.
LEMMA RestGrows ==
  ASSUME NEW q \in Seq(Int), NEW d \in 0 .. Len(q), NEW data \in Seq(Int)
  PROVE  /\ SubSeq(q, d + 1, Len(q)) \o data = SubSeq(q \o data, d + 1, Len(q \o data))
         /\ d \in 0 .. Len(q \o data)
<1> DEFINE x == SubSeq(q, d + 1, Len(q))
           r == q \o data
<1>1. /\ x \in Seq(Int) /\ Len(x) = Len(q) - d
      /\ \A i \in 1 .. Len(q) - d : x[i] = q[d + i]
  <2>1. d \in 0 .. Len(q) /\ Len(q) \in d .. Len(q)
    OBVIOUS
  <2> QED
    BY <2>1, Piece
<1>2. /\ Len(q) \in Nat /\ Len(data) \in Nat /\ d \in Nat /\ d <= Len(q)
      /\ r \in Seq(Int) /\ Len(r) = Len(q) + Len(data)
      /\ \A i \in 1 .. Len(q) + Len(data) : r[i] = IF i <= Len(q) THEN q[i] ELSE data[i - Len(q)]
  BY ConcatProperties
<1> HIDE DEF x
<1>3. /\ x \o data \in Seq(Int) /\ Len(x \o data) = Len(x) + Len(data)
      /\ \A i \in 1 .. Len(x) + Len(data) : (x \o data)[i] = IF i <= Len(x) THEN x[i] ELSE data[i - Len(x)]
  BY <1>1, ConcatProperties
<1> HIDE DEF r
<1>4. /\ SubSeq(r, d + 1, Len(r)) \in Seq(Int) /\ Len(SubSeq(r, d + 1, Len(r))) = Len(r) - d
      /\ \A i \in 1 .. Len(r) - d : SubSeq(r, d + 1, Len(r))[i] = r[d + i]
  <2>1. d \in 0 .. Len(r) /\ Len(r) \in d .. Len(r)
    BY <1>2
  <2> QED
    BY <1>2, <2>1, Piece
<1> DEFINE y == x \o data
           z == SubSeq(r, d + 1, Len(r))
<1>5. /\ y \in Seq(Int) /\ Len(y) = Len(x) + Len(data)
      /\ \A i \in 1 .. Len(x) + Len(data) : y[i] = IF i <= Len(x) THEN x[i] ELSE data[i - Len(x)]
  BY <1>3
<1>6. /\ z \in Seq(Int) /\ Len(z) = Len(r) - d
      /\ \A i \in 1 .. Len(r) - d : z[i] = r[d + i]
  BY <1>4
<1> HIDE DEF y, z
<1>7. Len(y) = Len(z)
  BY <1>1, <1>2, <1>5, <1>6
<1>8. ASSUME NEW i \in 1 .. Len(y)
      PROVE  y[i] = z[i]
  <2>1. /\ i \in 1 .. Len(r) - d /\ d + i \in 1 .. Len(q) + Len(data)
        /\ i \in 1 .. Len(x) + Len(data)
    BY <1>1, <1>2, <1>5
  <2>2. z[i] = r[d + i]
    BY <1>6, <2>1
  <2>3. CASE i <= Len(x)
    <3>1. i \in 1 .. Len(q) - d /\ d + i <= Len(q)
      BY <1>1, <1>2, <2>1, <2>3
    <3>2. y[i] = x[i] /\ x[i] = q[d + i] /\ r[d + i] = q[d + i]
      BY <1>1, <1>2, <1>5, <2>1, <2>3, <3>1
    <3> QED
      BY <2>2, <3>2
  <2>4. CASE ~ (i <= Len(x))
    <3>1. ~ (d + i <= Len(q)) /\ d + i - Len(q) = i - Len(x)
      BY <1>1, <1>2, <2>1, <2>4
    <3>2. y[i] = data[i - Len(x)] /\ r[d + i] = data[d + i - Len(q)]
      <4>1. y[i] = data[i - Len(x)]
        BY <1>5, <2>1, <2>4
      <4>2. r[d + i] = data[d + i - Len(q)]
        <5> DEFINE k == d + i
        <5>1. k \in 1 .. Len(q) + Len(data) /\ ~ (k <= Len(q))
          BY <2>1, <3>1
        <5> HIDE DEF k
        <5>2. r[k] = data[k - Len(q)]
          BY <1>2, <5>1
        <5> QED
          BY <5>2 DEF k
      <4> QED
        BY <4>1, <4>2
    <3> QED
      BY <2>2, <3>1, <3>2, Zenon
  <2> QED
    BY <2>3, <2>4
<1>9. y = z
  BY <1>5, <1>6, <1>7, <1>8, SeqEqual
<1>10. d \in 0 .. Len(r)
  BY <1>2
<1> QED
  BY <1>9, <1>10 DEF x, y, z, r

-------------------------------------------------------------------------------
(* States.                                                                 *)

USE DEF None

\* The constants in the form the arithmetic below asks for.
LEMMA Numbers ==
  /\ \A s \in Sensors : Stamps[s] \subseteq Nat /\ Stamps[s] \subseteq Times
  /\ \A s \in Sensors : \A t \in Stamps[s] : t \in Nat /\ t \in Times
  /\ \A t \in Times : t \in Int /\ t >= None /\ (t # None => t \in Nat)
  /\ ScanSizes \subseteq Nat \ {0} /\ TicksPerSecond \in Nat \ {0} /\ MinWindow \in Nat \ {0}
  /\ EraseLag \in Nat /\ MinImuRate \in Nat /\ MinRadarRate \in Nat
<1>1. \A s \in Sensors : Stamps[s] \subseteq Nat
  BY FlowAssumption DEF FlowAssumption
<1> QED
  BY <1>1, FlowAssumption DEF FlowAssumption, Times

\* The two lists of a sensor: the one that arrived and the one kept.
LEMMA Lists ==
  ASSUME IInv, NEW s \in Sensors
  PROVE  /\ arrived[s] \in Seq(Stamps[s]) /\ arrived[s] \in Seq(Int) /\ arrived[s] \in Seq(Nat)
         /\ InOrder(arrived[s])
         /\ Len(arrived[s]) \in Nat
         /\ \A i \in 1 .. Len(arrived[s]) : arrived[s][i] \in Stamps[s] /\ arrived[s][i] \in Nat
         /\ vset \in Int
         /\ arrived[s] # << >> => /\ Last(arrived[s]) = arrived[s][Len(arrived[s])]
                                  /\ Len(arrived[s]) > 0
                                  /\ Last(arrived[s]) \in Stamps[s]
                                  /\ Last(arrived[s]) \in Nat
                                  /\ \A i \in 1 .. Len(arrived[s]) : arrived[s][i] <= Last(arrived[s])
<1>1. arrived[s] \in Seq(Stamps[s]) /\ InOrder(arrived[s]) /\ vset \in Times
  BY DEF IInv, OrderInv, TypeOK
<1>2. Stamps[s] \subseteq Nat /\ Stamps[s] \subseteq Int /\ vset \in Int
  BY <1>1, Numbers
<1>3. arrived[s] \in Seq(Int) /\ arrived[s] \in Seq(Nat)
  BY <1>1, <1>2, SeqMonotonic
<1>4. /\ Len(arrived[s]) \in Nat
      /\ \A i \in 1 .. Len(arrived[s]) : arrived[s][i] \in Stamps[s]
  BY <1>1, ElementOfSeq, LenProperties
<1>5. \A i \in 1 .. Len(arrived[s]) : arrived[s][i] \in Nat
  BY <1>2, <1>4
<1>6. ASSUME arrived[s] # << >>
      PROVE  /\ Last(arrived[s]) = arrived[s][Len(arrived[s])]
             /\ Len(arrived[s]) > 0
             /\ \A i \in 1 .. Len(arrived[s]) : arrived[s][i] <= Last(arrived[s])
  <2>1. Last(arrived[s]) = arrived[s][Len(arrived[s])]
    BY DEF Last
  <2>2. Len(arrived[s]) > 0
    BY <1>1, <1>4, <1>6, EmptySeq
  <2>3. \A i, j \in 1 .. Len(arrived[s]) : i < j => arrived[s][i] <= arrived[s][j]
    BY <1>1 DEF InOrder
  <2>4. ASSUME NEW i \in 1 .. Len(arrived[s])
        PROVE  arrived[s][i] <= arrived[s][Len(arrived[s])]
    <3>1. Len(arrived[s]) \in 1 .. Len(arrived[s])
      BY <1>4, <2>2
    <3>2. CASE i = Len(arrived[s])
      BY <1>5, <3>1, <3>2
    <3>3. CASE i < Len(arrived[s])
      BY <2>3, <3>1, <3>3
    <3> QED
      BY <1>4, <3>2, <3>3
  <2> QED
    BY <2>1, <2>2, <2>4
<1>7. arrived[s] # << >> => Len(arrived[s]) \in 1 .. Len(arrived[s])
  BY <1>4, <1>6
<1> QED
  BY <1>1, <1>2, <1>3, <1>4, <1>5, <1>6, <1>7

\* A list is what arrived, without a front that is older than the valid time.
LEMMA Rest ==
  ASSUME IInv, NEW s \in Sensors
  PROVE  \E d \in 0 .. CountBefore(arrived[s], vset) :
           /\ d \in 0 .. Len(arrived[s])
           /\ queue[s] = SubSeq(arrived[s], d + 1, Len(arrived[s]))
           /\ queue[s] \in Seq(Stamps[s]) /\ queue[s] \in Seq(Int)
           /\ Len(queue[s]) = Len(arrived[s]) - d
           /\ \A i \in 1 .. Len(arrived[s]) - d : queue[s][i] = arrived[s][d + i]
<1>1. PICK d \in 0 .. CountBefore(arrived[s], vset) :
        queue[s] = SubSeq(arrived[s], d + 1, Len(arrived[s]))
  BY DEF IInv, RestInv
<1>2. /\ arrived[s] \in Seq(Stamps[s]) /\ arrived[s] \in Seq(Int) /\ vset \in Int
      /\ Len(arrived[s]) \in Nat
  BY Lists
<1>3. CountBefore(arrived[s], vset) \in 0 .. Len(arrived[s])
  BY <1>2, CountBeforeLast
<1>4. d \in 0 .. Len(arrived[s]) /\ Len(arrived[s]) \in d .. Len(arrived[s])
  BY <1>2, <1>3
<1>5. /\ SubSeq(arrived[s], d + 1, Len(arrived[s])) \in Seq(Stamps[s])
      /\ Len(SubSeq(arrived[s], d + 1, Len(arrived[s]))) = Len(arrived[s]) - d
      /\ \A i \in 1 .. Len(arrived[s]) - d :
           SubSeq(arrived[s], d + 1, Len(arrived[s]))[i] = arrived[s][d + i]
  BY <1>2, <1>4, Piece
<1>6. SubSeq(arrived[s], d + 1, Len(arrived[s])) \in Seq(Int)
  BY <1>2, <1>4, Piece
<1> QED
  BY <1>1, <1>4, <1>5, <1>6, Zenon

\* The newest measurement of a list that reaches the window is still in it.
LEMMA Ends ==
  ASSUME IInv, initialized, NEW s \in {"imu", "radar"}
  PROVE  /\ queue[s] # << >> /\ Last(queue[s]) = Last(arrived[s])
         /\ arrived[s] # << >> /\ vset <= Last(arrived[s]) /\ vset # None
<1>1. s \in Sensors
  BY DEF Sensors
<1>2. arrived[s] # << >> /\ vset <= Last(arrived[s]) /\ vset # None
  BY DEF IInv, MarkInv, Reached
<1> DEFINE q == arrived[s]
           n == Len(q)
           c == CountBefore(q, vset)
<1>3. /\ q \in Seq(Int) /\ n \in Nat /\ n > 0 /\ vset \in Int
      /\ Last(q) = q[n] /\ q[n] \in Nat
  BY <1>1, <1>2, Lists
<1>4. c \in 0 .. n /\ (c > 0 => q[c] < vset)
  BY <1>3, CountBeforeLast
<1>5. PICK d \in 0 .. c :
        /\ queue[s] \in Seq(Int)
        /\ Len(queue[s]) = n - d
        /\ \A i \in 1 .. n - d : queue[s][i] = q[d + i]
  BY <1>1, Rest
<1> HIDE DEF q, c
<1>6. c < n
  BY <1>2, <1>3, <1>4 DEF q
<1> HIDE DEF n
<1>7. Len(queue[s]) \in 1 .. n - d /\ Len(queue[s]) = n - d /\ d + (n - d) = n
  BY <1>3, <1>4, <1>5, <1>6
<1>8. queue[s] # << >>
  BY <1>7, EmptySeq
<1>9. Last(queue[s]) = queue[s][n - d]
  BY <1>7 DEF Last
<1>10. queue[s][n - d] = q[d + (n - d)]
  BY <1>5, <1>7
<1> QED
  BY <1>2, <1>3, <1>7, <1>8, <1>9, <1>10 DEF q

-------------------------------------------------------------------------------
(* Arrivals: n measurements stamped t from sensor s.                       *)

Arrival(s, t, n) ==
  /\ \A i \in 1 .. Len(arrived[s]) : arrived[s][i] < t
  /\ Deliver(s, [i \in 1 .. n |-> t])
  /\ UNCHANGED <<statusVars, smVars, mainVars>>

\* Each of the callbacks appends one stamp, once or several times, to one list.
LEMMA Arrives ==
  ASSUME HandleIMUMessage \/ HandleRadarMessage \/ HandleLegMessage
  PROVE  \E s \in Sensors : \E t \in Stamps[s], n \in ScanSizes \union {1} : Arrival(s, t, n)
<1>1. ASSUME NEW s \in Sensors, HandleFrame(s)
      PROVE  \E t \in Stamps[s], n \in ScanSizes \union {1} : Arrival(s, t, n)
  <2>1. PICK t \in Stamps[s] : Fresh(s, t) /\ Deliver(s, << t >>)
    BY <1>1 DEF HandleFrame
  <2>2. << t >> = [i \in 1 .. 1 |-> t]
    OBVIOUS
  <2>3. Arrival(s, t, 1)
    BY <1>1, <2>1, <2>2 DEF HandleFrame, Fresh, Arrival
  <2> QED
    BY <2>3
<1>2. "imu" \in Sensors /\ "leg" \in Sensors /\ "radar" \in Sensors
  BY DEF Sensors
<1>3. CASE HandleIMUMessage
  BY <1>1, <1>2, <1>3 DEF HandleIMUMessage
<1>4. CASE HandleLegMessage
  BY <1>1, <1>2, <1>4 DEF HandleLegMessage
<1>5. CASE HandleRadarMessage
  <2>1. PICK t \in Stamps["radar"], n \in ScanSizes :
          Fresh("radar", t) /\ Deliver("radar", [i \in 1 .. n |-> t])
    BY <1>5 DEF HandleRadarMessage
  <2>2. Arrival("radar", t, n)
    BY <1>5, <2>1 DEF HandleRadarMessage, Fresh, Arrival
  <2> QED
    BY <1>2, <2>2
<1> QED
  BY <1>3, <1>4, <1>5

\* What the list and the history of a sensor gain by a callback.
LEMMA ArrivalGrows ==
  ASSUME IInv, NEW s \in Sensors, NEW t \in Stamps[s], NEW n \in ScanSizes \union {1},
         Arrival(s, t, n)
  PROVE  /\ \A u \in Sensors \ {s} : arrived'[u] = arrived[u] /\ queue'[u] = queue[u]
         /\ arrived'[s] = arrived[s] \o [i \in 1 .. n |-> t]
         /\ queue'[s] = queue[s] \o [i \in 1 .. n |-> t]
         /\ arrived'[s] \in Seq(Stamps[s]) /\ queue'[s] \in Seq(Stamps[s])
         /\ Grown(arrived[s], t, arrived'[s])
         /\ t \in Nat
         /\ [i \in 1 .. n |-> t] \in Seq(Int)
<1> DEFINE data == [i \in 1 .. n |-> t]
           q == arrived[s]
           r == arrived'[s]
<1>1. /\ arrived \in [Sensors -> Seq(Nat)] /\ queue \in [Sensors -> Seq(Nat)]
      /\ arrived' = [arrived EXCEPT ![s] = @ \o data]
      /\ queue' = [queue EXCEPT ![s] = @ \o data]
  BY DEF IInv, TypeOK, Arrival, Deliver
<1>2. r = q \o data /\ queue'[s] = queue[s] \o data
  BY <1>1
<1>3. n \in Nat /\ n > 0 /\ t \in Nat
  <2>1. t \in Nat
    BY Numbers
  <2>2. \A m \in ScanSizes : m \in Nat \ {0}
    BY Numbers
  <2> QED
    BY <2>1, <2>2
<1>4. data \in Seq(Stamps[s]) /\ Len(data) = n /\ \A i \in 1 .. n : data[i] = t
  BY <1>3, IsASeq
<1>5. Stamps[s] \subseteq Int /\ queue[s] \in Seq(Stamps[s])
  BY Numbers, Rest
<1>6. /\ q \in Seq(Stamps[s]) /\ q \in Seq(Int) /\ Len(q) \in Nat
      /\ \A i \in 1 .. Len(q) : q[i] < t
  BY Lists DEF Arrival
<1> HIDE DEF data, q, r
<1>7. data \in Seq(Int)
  BY <1>4, <1>5, SeqMonotonic
<1>8. q \o data \in Seq(Stamps[s]) /\ queue[s] \o data \in Seq(Stamps[s])
  BY <1>4, <1>5, <1>6, ConcatProperties
<1>9. /\ q \o data \in Seq(Int)
      /\ Len(q \o data) = Len(q) + Len(data)
      /\ \A i \in 1 .. Len(q) + Len(data) : (q \o data)[i] = IF i <= Len(q) THEN q[i] ELSE data[i - Len(q)]
  BY <1>6, <1>7, ConcatProperties
<1>10. /\ r \in Seq(Int)
       /\ Len(r) = Len(q) + Len(data)
       /\ \A i \in 1 .. Len(q) + Len(data) : r[i] = IF i <= Len(q) THEN q[i] ELSE data[i - Len(q)]
  BY <1>2, <1>9, Zenon
<1>11. \A i \in 1 .. Len(q) : r[i] = q[i]
  BY <1>3, <1>4, <1>6, <1>10
<1>12. ASSUME NEW i \in 1 .. Len(r), i > Len(q)
       PROVE  r[i] = t
  <2>1. i \in 1 .. Len(q) + Len(data) /\ i - Len(q) \in 1 .. n /\ ~ (i <= Len(q))
    BY <1>3, <1>4, <1>6, <1>10, <1>12
  <2>2. r[i] = data[i - Len(q)]
    BY <1>10, <2>1
  <2> QED
    BY <1>4, <2>1, <2>2
<1>13. Grown(q, t, r)
  <2>1. Len(q) < Len(r)
    BY <1>3, <1>4, <1>6, <1>10
  <2> QED
    BY <1>6, <1>10, <1>11, <1>12, <2>1 DEF Grown
<1>14. \A u \in Sensors \ {s} : arrived'[u] = arrived[u] /\ queue'[u] = queue[u]
  BY <1>1
<1> QED
  BY <1>2, <1>3, <1>7, <1>8, <1>13, <1>14 DEF q, r, data

\* What an arrival leaves true of every list.
LEMMA ArrivalKeeps ==
  ASSUME IInv, NEW s \in Sensors, NEW t \in Stamps[s], NEW n \in ScanSizes \union {1},
         Arrival(s, t, n), NEW u \in Sensors
  PROVE  /\ arrived'[u] \in Seq(Stamps[u]) /\ InOrder(arrived'[u])
         /\ \E d \in 0 .. CountBefore(arrived'[u], vset) :
              queue'[u] = SubSeq(arrived'[u], d + 1, Len(arrived'[u]))
         /\ \A x \in Int : arrived[u] # << >> /\ x <= Last(arrived[u])
              => arrived'[u] # << >> /\ x <= Last(arrived'[u])
         /\ \A x, y \in Int : x <= y /\ arrived[u] # << >> /\ y <= Last(arrived[u])
              => Extract(arrived'[u], x, y) = Extract(arrived[u], x, y)
         /\ \A x, y \in Int : x <= y =>
              \A w \in Seq(Int) : Leads(w, Extract(arrived[u], x, y))
                => Leads(w, Extract(arrived'[u], x, y))
<1>1. PICK d \in 0 .. CountBefore(arrived[u], vset) :
        /\ d \in 0 .. Len(arrived[u])
        /\ queue[u] = SubSeq(arrived[u], d + 1, Len(arrived[u]))
  BY Rest
<1>2. CASE u # s
  <2>1. arrived'[u] = arrived[u] /\ queue'[u] = queue[u]
    BY <1>2, ArrivalGrows
  <2>2. arrived[u] \in Seq(Stamps[u]) /\ InOrder(arrived[u])
    BY Lists
  <2>3. queue'[u] = SubSeq(arrived'[u], d + 1, Len(arrived'[u]))
    BY <1>1, <2>1, Zenon
  <2> QED
    BY <2>1, <2>2, <2>3, Zenon
<1>3. CASE u = s
  <2> DEFINE q == arrived[s]
             r == arrived'[s]
             data == [i \in 1 .. n |-> t]
  <2>1. /\ r = q \o data /\ queue'[s] = queue[s] \o data /\ Grown(q, t, r) /\ t \in Int
        /\ r \in Seq(Stamps[s]) /\ data \in Seq(Int)
    <3>1. /\ r = q \o data /\ queue'[s] = queue[s] \o data /\ Grown(q, t, r) /\ t \in Nat
          /\ r \in Seq(Stamps[s]) /\ data \in Seq(Int)
      BY ArrivalGrows, Zenon
    <3> QED
      BY <3>1
  <2>2. q \in Seq(Int) /\ InOrder(q) /\ vset \in Int /\ Len(q) \in Nat
        /\ (q # << >> => Last(q) = q[Len(q)] /\ Len(q) > 0)
    BY Lists
  <2>3. q # << >> => Last(q) < t /\ Last(q) \in Nat
    BY Lists, <2>2 DEF Arrival
  <2> HIDE DEF q, r, data
  <2>4. InOrder(r) /\ r # << >> /\ Last(r) = t
    BY <2>1, <2>2, GrownOrder
  <2>5. \E k \in 0 .. CountBefore(r, vset) : queue'[s] = SubSeq(r, k + 1, Len(r))
    <3>1. d \in 0 .. Len(q) /\ queue[s] = SubSeq(q, d + 1, Len(q)) /\ d \in 0 .. CountBefore(q, vset)
      BY <1>1, <1>3 DEF q
    <3>2. SubSeq(q, d + 1, Len(q)) \o data = SubSeq(q \o data, d + 1, Len(q \o data))
      BY <2>1, <2>2, <3>1, RestGrows
    <3>3. queue'[s] = SubSeq(r, d + 1, Len(r))
      BY <2>1, <3>1, <3>2, Zenon
    <3>4. CountBefore(q, vset) <= CountBefore(r, vset) /\ CountBefore(q, vset) \in Nat
          /\ CountBefore(r, vset) \in Nat
      <4>1. CountBefore(q, vset) <= CountBefore(r, vset)
        BY <2>1, <2>2, GrownCount
      <4>2. r \in Seq(Int)
        BY <2>1 DEF Grown
      <4> QED
        BY <2>2, <4>1, <4>2, CountBeforeLast
    <3>5. d \in 0 .. CountBefore(r, vset)
      BY <3>1, <3>4
    <3> QED
      BY <3>3, <3>5
  <2>6. \A x \in Int : q # << >> /\ x <= Last(q) => r # << >> /\ x <= Last(r)
    BY <2>1, <2>3, <2>4
  <2>7. ASSUME NEW x \in Int, NEW y \in Int, x <= y, q # << >>, y <= Last(q)
        PROVE  Extract(r, x, y) = Extract(q, x, y)
    <3>1. y <= t
      BY <2>1, <2>3, <2>7
    <3> QED
      BY <2>1, <2>2, <2>7, <3>1, GrownWindow
  <2>8. ASSUME NEW x \in Int, NEW y \in Int, x <= y, NEW w \in Seq(Int),
               Leads(w, Extract(q, x, y))
        PROVE  Leads(w, Extract(r, x, y))
    BY <2>1, <2>2, <2>8, GrownWindow
  <2> QED
    BY <1>3, <2>1, <2>4, <2>5, <2>6, <2>7, <2>8 DEF q, r
<1> QED
  BY <1>2, <1>3

-------------------------------------------------------------------------------
(* Steps.                                                                  *)

USE DEF statusVars, smVars, mainVars, flowVars

\* The window at hand begins at the valid time and ends where IMU and radar have been.
LEMMA Window ==
  ASSUME IInv, pcSM \in {"imu", "radar", "leg", "judge", "quit"}
  PROVE  /\ sTime \in Int /\ eTime \in Int /\ eTime \in Times /\ eTime # None
         /\ sTime < eTime /\ sTime = vset /\ initialized
         /\ Reached(eTime)
<1>1. sTime \in Times /\ eTime \in Times
  BY DEF IInv, TypeOK
<1>2. sTime \in Int /\ eTime \in Int /\ sTime >= None
  BY <1>1, Numbers
<1>3. eTime - sTime >= MinWindow /\ sTime = vset /\ initialized /\ Reached(eTime)
  BY DEF IInv, WindowInv
<1>4. sTime < eTime
  BY <1>2, <1>3, Numbers
<1> QED
  BY <1>1, <1>2, <1>3, <1>4

\* Nothing has arrived and nothing is in the hands of a thread.
LEMMA InitIInv == Init => IInv
<1> SUFFICES ASSUME Init PROVE IInv
  OBVIOUS
<1> USE DEF Init
<1>1. TypeOK
  <2>1. NoData \in [Sensors -> Seq(Nat)]
    BY DEF NoData
  <2>2. None \in Times
    BY DEF Times
  <2> QED
    BY <2>1, <2>2 DEF TypeOK
<1>2. \A s \in Sensors : arrived[s] = << >> /\ queue[s] = << >>
  BY DEF NoData
<1>3. OrderInv
  <2> SUFFICES ASSUME NEW s \in Sensors PROVE arrived[s] \in Seq(Stamps[s]) /\ InOrder(arrived[s])
    BY DEF OrderInv
  <2>1. << >> \in Seq(Stamps[s]) /\ Len(<< >>) = 0
    OBVIOUS
  <2>2. InOrder(<< >>)
    BY <2>1 DEF InOrder
  <2> QED
    BY <1>2, <2>1, <2>2
<1>4. RestInv
  <2> SUFFICES ASSUME NEW s \in Sensors
               PROVE  \E d \in 0 .. CountBefore(arrived[s], vset) :
                        queue[s] = SubSeq(arrived[s], d + 1, Len(arrived[s]))
    BY DEF RestInv
  <2>1. << >> \in Seq(Int) /\ Len(<< >>) = 0 /\ -1 \in Int
    OBVIOUS
  <2>2. CountBefore(<< >>, -1) \in 0 .. Len(<< >>)
    BY <2>1, CountBeforeLast
  <2>3. 0 \in 0 .. CountBefore(<< >>, -1)
    BY <2>1, <2>2
  <2>4. SubSeq(<< >>, 0 + 1, 0) = << >>
    BY SubSeqEmpty
  <2> QED
    BY <1>2, <2>1, <2>3, <2>4
<1>5. MarkInv /\ WindowInv /\ BatchInv /\ QuitInv
  BY DEF MarkInv, WindowInv, BatchInv, QuitInv
<1> QED
  BY <1>1, <1>3, <1>4, <1>5 DEF IInv

\* A callback changes no copy taken before it.
LEMMA ArrivalStep ==
  ASSUME IInv, NEW s \in Sensors, NEW t \in Stamps[s], NEW n \in ScanSizes \union {1},
         Arrival(s, t, n)
  PROVE  IInv'
<1>1. /\ \A u \in Sensors : arrived'[u] \in Seq(Stamps[u]) /\ InOrder(arrived'[u])
      /\ \A u \in Sensors : \E d \in 0 .. CountBefore(arrived'[u], vset) :
           queue'[u] = SubSeq(arrived'[u], d + 1, Len(arrived'[u]))
      /\ \A u \in Sensors : \A x \in Int : arrived[u] # << >> /\ x <= Last(arrived[u])
           => arrived'[u] # << >> /\ x <= Last(arrived'[u])
  BY ArrivalKeeps
<1>2. \A u \in Sensors : \A x, y \in Int : x <= y /\ arrived[u] # << >> /\ y <= Last(arrived[u])
           => Extract(arrived'[u], x, y) = Extract(arrived[u], x, y)
  BY ArrivalKeeps
<1>3. \A u \in Sensors : \A x, y \in Int : x <= y =>
           \A w \in Seq(Int) : Leads(w, Extract(arrived[u], x, y))
             => Leads(w, Extract(arrived'[u], x, y))
  BY ArrivalKeeps
<1>4. UNCHANGED <<initialized, shouldQuit, vset, pcSM, sTime, eTime, batch, used, pcMain, snapVset>>
  BY DEF Arrival
<1>5. "imu" \in Sensors /\ "radar" \in Sensors /\ "leg" \in Sensors
  BY DEF Sensors
<1>6. TypeOK'
  <2>1. Stamps[s] \subseteq Nat
    BY Numbers
  <2>2. arrived'[s] \in Seq(Nat) /\ queue'[s] \in Seq(Nat)
    BY <2>1, ArrivalGrows, SeqMonotonic
  <2>3. arrived' \in [Sensors -> Seq(Nat)] /\ queue' \in [Sensors -> Seq(Nat)]
    BY <2>2 DEF IInv, TypeOK, Arrival, Deliver
  <2> QED
    BY <1>4, <2>3 DEF IInv, TypeOK
<1>7. OrderInv'
  BY <1>1 DEF OrderInv
<1>8. RestInv'
  BY <1>1, <1>4 DEF RestInv
<1>9. \A x \in Int : Reached(x) => Reached(x)'
  BY <1>1, <1>5 DEF Reached
<1>10. vset \in Int /\ sTime \in Int /\ eTime \in Int
  BY Numbers DEF IInv, TypeOK
<1>11. MarkInv'
  BY <1>4, <1>9, <1>10 DEF IInv, MarkInv
<1>12. WindowInv'
  BY <1>1, <1>4, <1>5, <1>9, <1>10 DEF IInv, WindowInv
<1>13. BatchInv'
  <2> SUFFICES ASSUME pcSM \in {"radar", "leg", "judge", "quit"} PROVE BatchInv'
    BY <1>4 DEF BatchInv
  <2>1. /\ sTime <= eTime
        /\ arrived["imu"] # << >> /\ eTime <= Last(arrived["imu"])
        /\ arrived["radar"] # << >> /\ eTime <= Last(arrived["radar"])
    BY Window DEF Reached
  <2>2. /\ Extract(arrived'["imu"], sTime, eTime) = Extract(arrived["imu"], sTime, eTime)
        /\ Extract(arrived'["radar"], sTime, eTime) = Extract(arrived["radar"], sTime, eTime)
    BY <1>2, <1>5, <1>10, <2>1
  <2>3. batch["leg"] \in Seq(Int)
    BY <1>5, SeqMonotonic DEF IInv, TypeOK
  <2>4. Leads(batch["leg"], Extract(arrived["leg"], sTime, eTime))
          => Leads(batch["leg"], Extract(arrived'["leg"], sTime, eTime))
    BY <1>3, <1>5, <1>10, <2>1, <2>3
  <2> QED
    BY <1>4, <2>2, <2>4 DEF IInv, BatchInv
<1>14. QuitInv'
  BY <1>4 DEF IInv, QuitInv, SMStarved, TooFew
<1> QED
  BY <1>6, <1>7, <1>8, <1>11, <1>12, <1>13, <1>14 DEF IInv

\* A later mark leaves the lists what the invariant says they are.
LEMMA RestLater ==
  ASSUME IInv, UNCHANGED flowVars, vset' \in Int, vset <= vset'
  PROVE  RestInv' /\ OrderInv'
<1>1. ASSUME NEW s \in Sensors
      PROVE  \E d \in 0 .. CountBefore(arrived[s], vset') :
               queue[s] = SubSeq(arrived[s], d + 1, Len(arrived[s]))
  <2>1. PICK d \in 0 .. CountBefore(arrived[s], vset) :
          queue[s] = SubSeq(arrived[s], d + 1, Len(arrived[s]))
    BY Rest
  <2>2. arrived[s] \in Seq(Int) /\ vset \in Int
    BY Lists
  <2>3. /\ CountBefore(arrived[s], vset) <= CountBefore(arrived[s], vset')
        /\ CountBefore(arrived[s], vset) \in Nat /\ CountBefore(arrived[s], vset') \in Nat
    BY <2>2, CountBeforeLast, CountBeforeMonotone, LenProperties
  <2>4. d \in 0 .. CountBefore(arrived[s], vset')
    BY <2>3
  <2> QED
    BY <2>1, <2>4
<1> QED
  BY <1>1 DEF IInv, RestInv, OrderInv

\* Initialisation marks an IMU frame that has arrived, older than the last
\* radar scan.
LEMMA InitialMark ==
  ASSUME IInv, SMInitialize
  PROVE  /\ vset' \in Times /\ vset' # None /\ vset = None
         /\ Reached(vset')
<1>1. "imu" \in Sensors /\ "radar" \in Sensors
  BY DEF Sensors
<1>2. PICK i \in 1 .. Len(queue["radar"]), j \in 1 .. Len(queue["radar"]) :
        /\ queue["radar"][i] < queue["radar"][j]
        /\ Extract(queue["imu"], queue["radar"][i], queue["radar"][j]) # << >>
        /\ vset' = Last(Extract(queue["imu"], queue["radar"][i], queue["radar"][j]))
  BY DEF SMInitialize
<1>3. vset = None
  BY DEF SMInitialize, IInv, MarkInv
<1> DEFINE q == queue["imu"]
           x == queue["radar"][i]
           y == queue["radar"][j]
           a == CountBefore(q, x)
           b == CountBefore(q, y)
<1>4. y \in Nat /\ x \in Int /\ arrived["radar"] # << >> /\ y <= Last(arrived["radar"])
  <2>1. PICK d \in 0 .. CountBefore(arrived["radar"], vset) :
          /\ d \in 0 .. Len(arrived["radar"])
          /\ Len(queue["radar"]) = Len(arrived["radar"]) - d
          /\ \A k \in 1 .. Len(arrived["radar"]) - d : queue["radar"][k] = arrived["radar"][d + k]
    BY <1>1, Rest
  <2>2. Len(arrived["radar"]) \in Nat
    BY <1>1, Lists
  <2>3. d + i \in 1 .. Len(arrived["radar"]) /\ d + j \in 1 .. Len(arrived["radar"])
    BY <1>2, <2>1, <2>2
  <2>4. x = arrived["radar"][d + i] /\ y = arrived["radar"][d + j]
    BY <1>2, <2>1, <2>2
  <2>5. arrived["radar"] # << >>
    BY <2>3
  <2> HIDE DEF x, y
  <2> QED
    BY <1>1, <2>3, <2>4, <2>5, Lists
<1>5. q \in Seq(Int)
  BY <1>1, Rest
<1>6. x < y /\ Extract(q, x, y) # << >> /\ vset' = Last(Extract(q, x, y))
  BY <1>2
<1> HIDE DEF q, x, y
<1>7. a \in 0 .. Len(q) /\ b \in a .. Len(q) /\ (b > 0 => q[b] < y) /\ Len(q) \in Nat
  <2>1. a \in 0 .. Len(q) /\ b \in 0 .. Len(q) /\ (b > 0 => q[b] < y)
    <3>1. x \in Int /\ y \in Int
      BY <1>4
    <3> QED
      BY <1>5, <3>1, CountBeforeLast
  <2>2. a <= b
    BY <1>4, <1>5, <1>6, CountBeforeMonotone
  <2> HIDE DEF a, b
  <2> QED
    BY <1>5, <2>1, <2>2
<1>8. Extract(q, x, y) = SubSeq(q, a + 1, b)
  BY DEF Extract
<1> HIDE DEF a, b
<1> DEFINE w == SubSeq(q, a + 1, b)
<1>9. w \in Seq(Int) /\ Len(w) = b - a /\ \A k \in 1 .. b - a : w[k] = q[a + k]
  BY <1>5, <1>7, Piece
<1>10. w # << >> /\ vset' = Last(w)
  BY <1>6, <1>8, Zenon
<1> HIDE DEF w
<1>11. b - a \in 1 .. b - a /\ a + (b - a) = b /\ b \in 1 .. Len(q)
  <2>1. Len(w) > 0
    BY <1>9, <1>10, EmptySeq
  <2> QED
    BY <1>7, <1>9, <2>1
<1>12. vset' = q[b]
  <2>1. vset' = w[b - a]
    BY <1>9, <1>10 DEF Last
  <2>2. w[b - a] = q[a + (b - a)]
    BY <1>9, <1>11
  <2> QED
    BY <1>11, <2>1, <2>2
<1>13. PICK d \in 0 .. CountBefore(arrived["imu"], vset) :
         /\ d \in 0 .. Len(arrived["imu"])
         /\ Len(q) = Len(arrived["imu"]) - d
         /\ \A k \in 1 .. Len(arrived["imu"]) - d : q[k] = arrived["imu"][d + k]
  BY <1>1, Rest DEF q
<1>14. d + b \in 1 .. Len(arrived["imu"]) /\ vset' = arrived["imu"][d + b]
  <2>1. Len(arrived["imu"]) \in Nat
    BY <1>1, Lists
  <2>2. d + b \in 1 .. Len(arrived["imu"]) /\ b \in 1 .. Len(arrived["imu"]) - d
    BY <1>11, <1>13, <2>1
  <2> QED
    BY <1>12, <1>13, <2>2
<1>15. arrived["imu"] # << >>
  BY <1>14
<1>16. vset' \in Stamps["imu"] /\ vset' \in Nat /\ vset' <= Last(arrived["imu"])
  BY <1>1, <1>14, <1>15, Lists
<1>17. vset' <= Last(arrived["radar"])
  <2>1. q[b] < y
    BY <1>7, <1>11
  <2>2. Last(arrived["radar"]) \in Nat
    BY <1>1, <1>4, Lists
  <2> QED
    BY <1>4, <1>12, <1>16, <2>1, <2>2
<1>18. vset' \in Times /\ vset' # None
  BY <1>1, <1>16, Numbers
<1> QED
  BY <1>3, <1>4, <1>15, <1>16, <1>17, <1>18 DEF Reached

\* The first valid time is one the sensors have reached.
LEMMA InitializeStep ==
  ASSUME IInv, SMInitialize
  PROVE  IInv'
<1>1. /\ vset' \in Times /\ vset' # None /\ vset = None
      /\ Reached(vset')
  BY InitialMark
<1>2. /\ initialized' = TRUE /\ pcSM' = "top"
      /\ UNCHANGED <<queue, arrived, shouldQuit, sTime, eTime, batch, used, pcMain, snapVset>>
  BY DEF SMInitialize, SMStep
<1>3. vset' \in Int /\ vset <= vset'
  BY <1>1, Numbers
<1>4. RestInv' /\ OrderInv'
  BY <1>2, <1>3, RestLater
<1>5. TypeOK'
  BY <1>1, <1>2 DEF IInv, TypeOK
<1>6. MarkInv'
  <2>1. snapVset \in Int /\ snapVset <= vset
    BY Numbers DEF IInv, MarkInv, TypeOK
  <2>2. snapVset' <= vset'
    BY <1>1, <1>2, <1>3, <2>1
  <2> QED
    BY <1>1, <1>2, <2>2 DEF MarkInv, Reached
<1>7. WindowInv' /\ BatchInv' /\ QuitInv'
  BY <1>2 DEF WindowInv, BatchInv, QuitInv
<1> QED
  BY <1>4, <1>5, <1>6, <1>7 DEF IInv

\* What a step leaves alone keeps its part of the invariant.
LEMMA Untouched ==
  ASSUME IInv, UNCHANGED <<flowVars, vset>>
  PROVE  /\ OrderInv' /\ RestInv'
         /\ UNCHANGED <<initialized, snapVset>> => MarkInv'
         /\ \A x : Reached(x)' <=> Reached(x)
         /\ vset \in Times /\ vset \in Int
BY Numbers DEF IInv, OrderInv, RestInv, MarkInv, Reached, TypeOK

\* Where the window ends is read off the ends of two lists, one after the other.
LEMMA EndStep ==
  ASSUME IInv, SMSnapshot \/ SMImuEnd \/ SMRadarEnd
  PROVE  IInv'
<1>1. UNCHANGED <<queue, arrived, initialized, shouldQuit, vset, batch, used, pcMain, snapVset>>
  BY DEF SMSnapshot, SMImuEnd, SMRadarEnd
<1>2. OrderInv' /\ RestInv' /\ MarkInv' /\ vset \in Times /\ vset \in Int
      /\ \A x : Reached(x)' <=> Reached(x)
  BY <1>1, Untouched
<1>3. "imu" \in Sensors /\ "radar" \in Sensors
  BY DEF Sensors
<1>4. CASE SMSnapshot
  <2>1. TypeOK'
    BY <1>1, <1>2, <1>4 DEF IInv, TypeOK, SMSnapshot, SMStep
  <2>2. WindowInv' /\ BatchInv' /\ QuitInv'
    BY <1>1, <1>4 DEF SMSnapshot, SMStep, WindowInv, BatchInv, QuitInv
  <2> QED
    BY <1>2, <2>1, <2>2 DEF IInv
<1>5. CASE SMImuEnd
  <2>1. pcSM = "imuEnd" /\ pcSM' = "radarEnd" /\ eTime' = Last(queue["imu"]) /\ sTime' = sTime
    BY <1>5 DEF SMImuEnd, SMStep
  <2>2. initialized /\ sTime = vset
    BY <2>1 DEF IInv, WindowInv
  <2>3. Last(queue["imu"]) = Last(arrived["imu"]) /\ arrived["imu"] # << >>
    BY <2>2, Ends
  <2>4. /\ eTime' = Last(arrived["imu"]) /\ Last(arrived["imu"]) \in Nat
        /\ Last(arrived["imu"]) \in Stamps["imu"]
    BY <1>3, <2>1, <2>3, Lists
  <2>5. eTime' \in Times /\ eTime' # None /\ eTime' <= Last(arrived["imu"])
    BY <1>3, <2>4, Numbers
  <2>6. TypeOK'
    BY <1>1, <2>1, <2>5 DEF IInv, TypeOK
  <2>7. WindowInv' /\ BatchInv' /\ QuitInv'
    BY <1>1, <2>1, <2>2, <2>3, <2>5 DEF WindowInv, BatchInv, QuitInv
  <2> QED
    BY <1>2, <2>6, <2>7 DEF IInv
<1>6. CASE SMRadarEnd
  <2> DEFINE m2 == Last(queue["radar"])
             end == IF m2 < eTime THEN m2 ELSE eTime
  <2>1. /\ pcSM = "radarEnd" /\ eTime' = end /\ sTime' = sTime
        /\ pcSM' = IF end - sTime < MinWindow THEN "top" ELSE "imu"
    BY <1>6 DEF SMRadarEnd, SMStep
  <2>2. /\ initialized /\ sTime = vset
        /\ eTime # None /\ arrived["imu"] # << >> /\ eTime <= Last(arrived["imu"])
        /\ eTime \in Times /\ sTime \in Int
    BY <1>2, <2>1 DEF IInv, WindowInv, TypeOK
  <2>3. eTime \in Nat /\ Last(arrived["imu"]) \in Nat
    BY <1>3, <2>2, Lists, Numbers
  <2>4. /\ m2 = Last(arrived["radar"]) /\ arrived["radar"] # << >>
        /\ m2 \in Nat /\ m2 \in Times /\ m2 # None
    <3>1. m2 = Last(arrived["radar"]) /\ arrived["radar"] # << >>
      BY <2>2, Ends
    <3>2. Last(arrived["radar"]) \in Stamps["radar"]
      BY <1>3, <3>1, Lists
    <3> QED
      BY <1>3, <3>1, <3>2, Numbers
  <2> HIDE DEF m2
  <2>5. /\ eTime' \in Times /\ eTime' # None /\ eTime' \in Int
        /\ eTime' <= Last(arrived["imu"]) /\ eTime' <= m2
    BY <2>1, <2>2, <2>3, <2>4
  <2>6. Reached(eTime')
    BY <2>2, <2>4, <2>5 DEF Reached
  <2> HIDE DEF end
  <2>7. pcSM' = "imu" => eTime' - sTime' >= MinWindow
    BY <2>1, <2>2, <2>5, Numbers
  <2>8. TypeOK'
    BY <1>1, <2>1, <2>2, <2>5 DEF IInv, TypeOK
  <2>9. WindowInv'
    BY <1>1, <1>2, <2>1, <2>2, <2>6, <2>7 DEF WindowInv
  <2>10. BatchInv' /\ QuitInv'
    BY <2>1 DEF BatchInv, QuitInv
  <2> QED
    BY <1>2, <2>8, <2>9, <2>10 DEF IInv
<1> QED
  BY <1>4, <1>5, <1>6

\* What is copied out of a list is the window of what has arrived.
LEMMA Copied ==
  ASSUME IInv, pcSM \in {"imu", "radar", "leg"}, NEW s \in Sensors
  PROVE  /\ Extract(queue[s], sTime, eTime) = Extract(arrived[s], sTime, eTime)
         /\ Extract(arrived[s], sTime, eTime) \in Seq(Nat)
         /\ Len(Extract(arrived[s], sTime, eTime)) \in Nat
<1>1. sTime \in Int /\ eTime \in Int /\ sTime <= eTime /\ sTime = vset
  BY Window
<1>2. arrived[s] \in Seq(Int) /\ arrived[s] \in Seq(Nat)
  BY Lists
<1>3. PICK d \in 0 .. CountBefore(arrived[s], vset) :
        queue[s] = SubSeq(arrived[s], d + 1, Len(arrived[s]))
  BY Rest
<1>4. Extract(SubSeq(arrived[s], d + 1, Len(arrived[s])), sTime, eTime)
        = Extract(arrived[s], sTime, eTime)
  BY <1>1, <1>2, <1>3, ExtractDropped
<1>5. Extract(queue[s], sTime, eTime) = Extract(arrived[s], sTime, eTime)
  BY <1>3, <1>4, Zenon
<1>6. /\ CountBefore(arrived[s], sTime) \in 0 .. Len(arrived[s])
      /\ CountBefore(arrived[s], eTime) \in CountBefore(arrived[s], sTime) .. Len(arrived[s])
  <2>1. /\ CountBefore(arrived[s], sTime) \in 0 .. Len(arrived[s])
        /\ CountBefore(arrived[s], eTime) \in 0 .. Len(arrived[s])
        /\ CountBefore(arrived[s], sTime) <= CountBefore(arrived[s], eTime)
    BY <1>1, <1>2, CountBeforeLast, CountBeforeMonotone
  <2> QED
    BY <1>2, <2>1
<1>7. Extract(arrived[s], sTime, eTime) \in Seq(Nat)
  BY <1>2, <1>6, Piece DEF Extract
<1> QED
  BY <1>5, <1>7, LenProperties

\* Each of the three copies is the window of the history.
LEMMA ExtractStep ==
  ASSUME IInv, SMExtractImu \/ SMExtractRadar \/ SMExtractLeg
  PROVE  IInv'
<1> USE DEF SMExtractImu, SMExtractRadar, SMExtractLeg, SMExtract, SMStep
<1>1. /\ UNCHANGED <<queue, arrived, initialized, shouldQuit, vset, sTime, eTime, used, pcMain, snapVset>>
      /\ pcSM \in {"imu", "radar", "leg"}
  OBVIOUS
<1>2. OrderInv' /\ RestInv' /\ MarkInv' /\ \A x : Reached(x)' <=> Reached(x)
  BY <1>1, Untouched
<1>3. PICK s \in {"imu", "radar", "leg"} :
        /\ pcSM = s /\ pcSM' = (CASE s = "imu" -> "radar" [] s = "radar" -> "leg" [] s = "leg" -> "judge")
        /\ batch' = [batch EXCEPT ![s] = Extract(queue[s], sTime, eTime)]
  OBVIOUS
<1>4. /\ Extract(queue[s], sTime, eTime) = Extract(arrived[s], sTime, eTime)
      /\ Extract(arrived[s], sTime, eTime) \in Seq(Nat)
      /\ Len(Extract(arrived[s], sTime, eTime)) \in Nat
  BY <1>1, Copied DEF Sensors
<1>5. batch \in [Sensors -> Seq(Nat)] /\ Sensors = {"imu", "radar", "leg"}
  BY DEF IInv, TypeOK, Sensors
<1>6. /\ batch' \in [Sensors -> Seq(Nat)]
      /\ batch'[s] = Extract(arrived[s], sTime, eTime)
      /\ \A u \in Sensors : u # s => batch'[u] = batch[u]
  BY <1>3, <1>4, <1>5
<1>7. TypeOK'
  BY <1>1, <1>3, <1>6 DEF IInv, TypeOK
<1>8. WindowInv'
  BY <1>1, <1>2, <1>3 DEF IInv, WindowInv
<1>9. BatchInv'
  <2>1. CASE s = "imu"
    BY <1>1, <1>3, <1>6, <2>1 DEF BatchInv
  <2>2. CASE s = "radar"
    BY <1>1, <1>3, <1>5, <1>6, <2>2 DEF IInv, BatchInv
  <2>3. CASE s = "leg"
    <3>1. Leads(batch'["leg"], Extract(arrived["leg"], sTime, eTime))
      BY <1>4, <1>6, <2>3 DEF Leads
    <3> QED
      BY <1>1, <1>3, <1>5, <1>6, <2>3, <3>1 DEF IInv, BatchInv
  <2> QED
    BY <2>1, <2>2, <2>3
<1>10. QuitInv'
  BY <1>3 DEF QuitInv
<1> QED
  BY <1>2, <1>7, <1>8, <1>9, <1>10 DEF IInv

\* What the thread gives up for is what it has copied.
LEMMA JudgeStep ==
  ASSUME IInv, SMGiveUp \/ SMQuit
  PROVE  IInv'
<1> USE DEF SMGiveUp, SMQuit, SMStep
<1>1. /\ UNCHANGED <<queue, arrived, initialized, vset, sTime, eTime, batch, used, pcMain, snapVset>>
      /\ pcSM \in {"judge", "quit"} /\ pcSM' \in {"top", "quit"}
      /\ shouldQuit' \in BOOLEAN
      /\ pcSM' = "quit" => pcSM = "judge" /\ SMStarved
  BY DEF IInv, TypeOK
<1>2. OrderInv' /\ RestInv' /\ MarkInv' /\ \A x : Reached(x)' <=> Reached(x)
  BY <1>1, Untouched
<1>3. TypeOK'
  BY <1>1 DEF IInv, TypeOK
<1>4. WindowInv'
  BY <1>1, <1>2 DEF IInv, WindowInv
<1>5. BatchInv'
  BY <1>1 DEF IInv, BatchInv
<1>6. QuitInv'
  BY <1>1 DEF QuitInv, SMStarved, TooFew
<1> QED
  BY <1>2, <1>3, <1>4, <1>5, <1>6 DEF IInv

\* The valid time moves on, to a time the sensors have reached.
LEMMA CommitStep ==
  ASSUME IInv, SMCommit
  PROVE  IInv' /\ eTime \in Times /\ vset < eTime /\ Reached(eTime)
<1>1. /\ UNCHANGED <<queue, arrived, initialized, shouldQuit, sTime, eTime, batch, pcMain, snapVset>>
      /\ pcSM = "judge" /\ pcSM' = "top" /\ vset' = eTime
      /\ used' = [s \in Sensors |-> used[s] \o batch[s]]
  BY DEF SMCommit, SMStep
<1>2. /\ eTime \in Times /\ eTime \in Int /\ eTime # None /\ vset < eTime /\ vset \in Int
      /\ initialized /\ Reached(eTime)
  BY <1>1, Window
<1>3. RestInv' /\ OrderInv'
  BY <1>1, <1>2, RestLater
<1>4. used' \in [Sensors -> Seq(Nat)]
  <2>1. \A s \in Sensors : used[s] \in Seq(Nat) /\ batch[s] \in Seq(Nat)
    BY DEF IInv, TypeOK
  <2>2. \A s \in Sensors : used[s] \o batch[s] \in Seq(Nat)
    BY <2>1, ConcatProperties
  <2> QED
    BY <1>1, <2>2
<1>5. TypeOK'
  BY <1>1, <1>2, <1>4 DEF IInv, TypeOK
<1>6. MarkInv'
  <2>1. snapVset \in Int /\ snapVset <= vset
    BY Numbers DEF IInv, MarkInv, TypeOK
  <2>2. snapVset' <= vset'
    BY <1>1, <1>2, <2>1
  <2> QED
    BY <1>1, <1>2, <2>2 DEF MarkInv, Reached
<1>7. WindowInv' /\ BatchInv' /\ QuitInv'
  BY <1>1 DEF WindowInv, BatchInv, QuitInv
<1> QED
  BY <1>2, <1>3, <1>5, <1>6, <1>7 DEF IInv

\* The main thread's copy of the valid time is never ahead of it.
LEMMA MainSnapshotStep ==
  ASSUME IInv, MainSnapshot
  PROVE  IInv'
<1>1. /\ UNCHANGED <<queue, arrived, initialized, shouldQuit, vset, pcSM, sTime, eTime, batch, used>>
      /\ snapVset' = vset /\ pcMain' \in {"top", "imu", "done"}
  BY DEF MainSnapshot, MainStep
<1>2. OrderInv' /\ RestInv' /\ vset \in Times /\ vset \in Int /\ \A x : Reached(x)' <=> Reached(x)
  BY <1>1, Untouched
<1>3. TypeOK'
  BY <1>1, <1>2 DEF IInv, TypeOK
<1>4. MarkInv'
  BY <1>1, <1>2 DEF IInv, MarkInv
<1>5. WindowInv'
  BY <1>1, <1>2 DEF IInv, WindowInv
<1>6. BatchInv'
  BY <1>1 DEF IInv, BatchInv
<1>7. QuitInv'
  BY <1>1 DEF IInv, QuitInv, SMStarved, TooFew
<1> QED
  BY <1>2, <1>3, <1>4, <1>5, <1>6, <1>7 DEF IInv

\* Erasure goes by a snapshot no later than the mark, so it takes off only
\* what the windows have moved past.
LEMMA EraseStep ==
  ASSUME IInv, NEW s \in Sensors, NEW next \in {"radar", "leg", "top"}, MainErase(s, next)
  PROVE  IInv'
<1>1. /\ UNCHANGED <<arrived, initialized, shouldQuit, vset, pcSM, sTime, eTime, batch, used, snapVset>>
      /\ queue' = [queue EXCEPT ![s] = EraseOld(queue[s], snapVset - EraseLag)]
      /\ pcMain' = next
  BY DEF MainErase, MainStep
<1> DEFINE q == arrived[s]
           n == Len(q)
           t == snapVset - EraseLag
<1>2. PICK d \in 0 .. CountBefore(q, vset) :
        /\ d \in 0 .. n
        /\ queue[s] = SubSeq(q, d + 1, n)
        /\ queue[s] \in Seq(Int)
        /\ Len(queue[s]) = n - d
  BY Rest
<1>3. q \in Seq(Int) /\ q \in Seq(Nat) /\ n \in Nat /\ vset \in Int
  BY Lists
<1>4. t \in Int /\ t <= vset
  BY Numbers DEF IInv, MarkInv, TypeOK
<1>5. queue \in [Sensors -> Seq(Nat)]
  BY DEF IInv, TypeOK
<1> HIDE DEF q, n, t
<1> DEFINE c == CountBefore(queue[s], t)
<1>6. CountBefore(queue[s], vset) = CountBefore(q, vset) - d
  BY <1>2, <1>3, CountBeforeDropped DEF n
<1>7. c \in 0 .. n - d /\ c <= CountBefore(queue[s], vset)
  BY <1>2, <1>3, <1>4, CountBeforeLast, CountBeforeMonotone
<1>8. CountBefore(q, vset) \in 0 .. n
  BY <1>3, CountBeforeLast DEF n
<1>9. EraseOld(queue[s], t) = SubSeq(SubSeq(q, d + 1, n), c + 1, n - d)
  BY <1>2 DEF EraseOld
<1> HIDE DEF c
<1>10. /\ d + c \in 0 .. CountBefore(q, vset) /\ d + c \in 0 .. n /\ n \in d + c .. n
       /\ d + c \in d .. n
  BY <1>2, <1>3, <1>6, <1>7, <1>8
<1>11. EraseOld(queue[s], t) = SubSeq(q, d + c + 1, n)
  <2> DEFINE k == d + c
  <2>1. k \in d .. n /\ n \in k .. n /\ k - d = c
    BY <1>2, <1>3, <1>7, <1>10
  <2> HIDE DEF k
  <2>2. SubSeq(SubSeq(q, d + 1, n), k - d + 1, n - d) = SubSeq(q, k + 1, n)
    BY <1>2, <1>3, <2>1, PieceOfRest DEF n
  <2>3. EraseOld(queue[s], t) = SubSeq(q, k + 1, n)
    BY <1>9, <2>1, <2>2, Zenon
  <2> QED
    BY <2>3 DEF k
<1>12. queue'[s] = SubSeq(q, d + c + 1, n) /\ \A u \in Sensors \ {s} : queue'[u] = queue[u]
  BY <1>1, <1>5, <1>11 DEF t
<1>13. RestInv'
  <2> SUFFICES ASSUME NEW u \in Sensors
               PROVE  \E k \in 0 .. CountBefore(arrived[u], vset) :
                        queue'[u] = SubSeq(arrived[u], k + 1, Len(arrived[u]))
    BY <1>1 DEF RestInv
  <2>1. CASE u = s
    BY <1>10, <1>12, <2>1 DEF q, n
  <2>2. CASE u # s
    BY <1>12, <2>2 DEF IInv, RestInv
  <2> QED
    BY <2>1, <2>2
<1>14. TypeOK'
  <2>1. SubSeq(q, d + c + 1, n) \in Seq(Nat)
    BY <1>3, <1>10, Piece DEF n
  <2>2. queue' \in [Sensors -> Seq(Nat)]
    BY <1>1, <1>5, <1>11, <2>1 DEF t
  <2> QED
    BY <1>1, <2>2 DEF IInv, TypeOK
<1>15. OrderInv' /\ MarkInv' /\ WindowInv' /\ BatchInv' /\ QuitInv'
  BY <1>1 DEF IInv, OrderInv, MarkInv, WindowInv, BatchInv, QuitInv, Reached, SMStarved, TooFew
<1> QED
  BY <1>13, <1>14, <1>15 DEF IInv

\* Every step keeps the invariant.
LEMMA StepIInv == IInv /\ [Next]_vars => IInv'
<1> SUFFICES ASSUME IInv, [Next]_vars PROVE IInv'
  OBVIOUS
<1>1. CASE HandleIMUMessage \/ HandleRadarMessage \/ HandleLegMessage
  BY <1>1, Arrives, ArrivalStep
<1>2. CASE SMInitialize
  BY <1>2, InitializeStep
<1>3. CASE SMSnapshot \/ SMImuEnd \/ SMRadarEnd
  BY <1>3, EndStep
<1>4. CASE SMExtractImu \/ SMExtractRadar \/ SMExtractLeg
  BY <1>4, ExtractStep
<1>5. CASE SMGiveUp \/ SMQuit
  BY <1>5, JudgeStep
<1>6. CASE SMCommit
  BY <1>6, CommitStep
<1>7. CASE MainSnapshot
  BY <1>7, MainSnapshotStep
<1>8. CASE MainEraseImu \/ MainEraseRadar \/ MainEraseLeg
  BY <1>8, EraseStep DEF MainEraseImu, MainEraseRadar, MainEraseLeg, Sensors
<1>9. CASE Terminated \/ UNCHANGED vars
  <2>1. UNCHANGED vars
    BY <1>9 DEF Terminated
  <2>2. UNCHANGED <<queue, arrived, initialized, shouldQuit, vset, pcSM, sTime, eTime, batch, used, pcMain, snapVset>>
    BY <2>1 DEF vars
  <2> QED
    BY <2>2 DEF IInv, TypeOK, OrderInv, RestInv, MarkInv, WindowInv, BatchInv, QuitInv, Reached, SMStarved, TooFew
<1> QED
  BY <1>1, <1>2, <1>3, <1>4, <1>5, <1>6, <1>7, <1>8, <1>9 DEF Next, SMNext, MainNext

\* The invariant holds in every reachable state.
LEMMA Invariance == Spec => []IInv
BY InitIInv, StepIInv, PTL DEF Spec

\* Every variable of the flow keeps its type: in particular every time the
\* threads agree on is the stamp of some measurement.
THEOREM TypeCorrect == Spec => []TypeOK
<1>1. IInv => TypeOK
  BY DEF IInv
<1> QED
  BY <1>1, Invariance, PTL

\* The main thread never erases the newest IMU frame or radar target, which
\* GetEndTimeSafely and the IMU callback read without asking
\* (data_manager.h:170).
THEOREM EndsAreKept == Spec => []EndsKept
<1>1. IInv => EndsKept
  BY Ends DEF EndsKept
<1> QED
  BY <1>1, Invariance, PTL

\* Nothing is erased before the windows have moved past it
\* (data_manager.cpp:308-330).
THEOREM UnconsumedIsKept == Spec => []UnconsumedKept
<1>1. ASSUME IInv, NEW s \in Sensors
      PROVE  \E n \in 0 .. Len(arrived[s]) :
               /\ queue[s] = SubSeq(arrived[s], n + 1, Len(arrived[s]))
               /\ \A i \in 1 .. n : arrived[s][i] < vset
  <2> DEFINE q == arrived[s]
             c == CountBefore(q, vset)
  <2>1. /\ q \in Seq(Int) /\ InOrder(q) /\ Len(q) \in Nat /\ vset \in Int
        /\ \A i \in 1 .. Len(q) : q[i] \in Nat
    BY <1>1, Lists
  <2>2. PICK d \in 0 .. c : d \in 0 .. Len(q) /\ queue[s] = SubSeq(q, d + 1, Len(q))
    BY <1>1, Rest
  <2>3. c \in 0 .. Len(q) /\ (c > 0 => q[c] < vset)
    BY <2>1, CountBeforeLast
  <2>4. \A i, j \in 1 .. Len(q) : i < j => q[i] <= q[j]
    BY <2>1 DEF InOrder
  <2> HIDE DEF c, q
  <2>5. ASSUME NEW i \in 1 .. d
        PROVE  q[i] < vset
    <3>1. i \in 1 .. Len(q) /\ c \in 1 .. Len(q) /\ c > 0 /\ (i < c \/ i = c)
      BY <2>1, <2>2, <2>3
    <3>2. q[i] <= q[c]
      BY <2>1, <2>4, <3>1
    <3> QED
      BY <2>1, <2>3, <3>1, <3>2
  <2> QED
    BY <2>2, <2>5 DEF q
<1>2. IInv => UnconsumedKept
  BY <1>1 DEF UnconsumedKept
<1> QED
  BY <1>2, Invariance, PTL

\* Fewer than one measurement: a product of naturals below one of its factors.
LEMMA NoneOf ==
  ASSUME NEW n \in Nat, NEW k \in Nat \ {0}, NEW m \in Int, m <= k, n * k < m
  PROVE  n = 0
OBVIOUS

\* Estimation only gives up on a window that starts with a radar scan, and is
\* short enough to have no second one, for want of IMU frames
\* (state_manager.cpp:513-534).
THEOREM GivesUpOnlyForCause == Spec => []GivesUpForCause
<1>1. ASSUME IInv, pcSM = "quit", NEW i \in 1 .. Len(arrived["radar"]),
             arrived["radar"][i] = sTime,
             MinRadarRate * (eTime - sTime) <= TicksPerSecond
      PROVE  TooFew(Len(batch["imu"]), MinImuRate)
  <2> DEFINE q == arrived["radar"]
             a == CountBefore(q, sTime)
             b == CountBefore(q, eTime)
  <2>1. sTime \in Int /\ eTime \in Int /\ sTime < eTime
    BY <1>1, Window
  <2>2. q \in Seq(Int) /\ InOrder(q)
    BY <1>1, Lists DEF Sensors
  <2>3. batch["radar"] = SubSeq(q, a + 1, b)
    BY <1>1 DEF IInv, BatchInv, Extract
  <2>4. i \in a + 1 .. b
    BY <1>1, <2>1, <2>2, ExtractPositions
  <2>5. a \in 0 .. Len(q) /\ b \in a .. Len(q)
    <3>1. a \in 0 .. Len(q) /\ b \in 0 .. Len(q)
      BY <2>1, <2>2, CountBeforeLast
    <3>2. sTime <= eTime
      BY <2>1
    <3>3. a <= b
      BY <2>1, <2>2, <3>2, CountBeforeMonotone
    <3> QED
      BY <2>2, <3>1, <3>3
  <2> HIDE DEF a, b
  <2>6. Len(batch["radar"]) = b - a
    <3>1. Len(SubSeq(q, a + 1, b)) = b - a
      BY <2>2, <2>5, Piece
    <3> QED
      BY <2>3, <3>1, Zenon
  <2>7. Len(batch["radar"]) \in Nat /\ Len(batch["radar"]) # 0
    BY <2>2, <2>4, <2>5, <2>6
  <2>8. SMStarved
    BY <1>1 DEF IInv, QuitInv
  <2>9. ~ TooFew(Len(batch["radar"]), MinRadarRate)
    <3>1. MinRadarRate * (eTime - sTime) \in Int
      BY <2>1, Numbers
    <3>2. ~ (Len(batch["radar"]) * TicksPerSecond < MinRadarRate * (eTime - sTime))
      BY <1>1, <2>7, <3>1, NoneOf, Numbers
    <3> QED
      BY <3>2 DEF TooFew
  <2> QED
    BY <2>8, <2>9 DEF SMStarved
<1>2. IInv => GivesUpForCause
  BY <1>1 DEF GivesUpForCause
<1> QED
  BY <1>2, Invariance, PTL

-------------------------------------------------------------------------------
(* The threads implement MeasurementLog.                                   *)

\* The log has the sensors of the flow, which are three.
LEMMA SensorsOf == Log!Sensors = Sensors /\ Sensors = {"imu", "radar", "leg"}
BY FlowAssumption DEF FlowAssumption, Log!Sensors, Sensors

\* The greatest of three numbers is no less than any of them.
LEMMA MaxOfThree ==
  ASSUME NEW f \in [Sensors -> Nat]
  PROVE  /\ Max({f[s] : s \in Sensors}) \in Nat
         /\ \A s \in Sensors : f[s] <= Max({f[u] : u \in Sensors})
<1> DEFINE T == {f[s] : s \in Sensors}
<1>1. T = {f["imu"], f["radar"], f["leg"]}
  BY DEF Sensors
<1>2. f["imu"] \in Nat /\ f["radar"] \in Nat /\ f["leg"] \in Nat
  BY DEF Sensors
<1>3. \A s \in Sensors : f[s] \in T
  OBVIOUS
<1> HIDE DEF T
<1>4. \E m \in T : \A y \in T : m >= y
  <2>1. CASE f["imu"] >= f["radar"] /\ f["imu"] >= f["leg"]
    BY <1>1, <1>2, <2>1
  <2>2. CASE f["radar"] >= f["imu"] /\ f["radar"] >= f["leg"]
    BY <1>1, <1>2, <2>2
  <2>3. CASE f["leg"] >= f["imu"] /\ f["leg"] >= f["radar"]
    BY <1>1, <1>2, <2>3
  <2> QED
    BY <1>2, <2>1, <2>2, <2>3
<1>5. Max(T) \in T /\ \A y \in T : Max(T) >= y
  BY <1>4 DEF Max
<1>6. T \subseteq Nat
  BY <1>1, <1>2
<1>7. Max(T) \in Nat /\ \A s \in Sensors : f[s] <= Max(T)
  <2>1. Max(T) \in Nat
    BY <1>5, <1>6
  <2>2. \A s \in Sensors : f[s] \in Nat /\ Max(T) >= f[s]
    BY <1>3, <1>5, <1>6
  <2> QED
    BY <2>1, <2>2
<1> QED
  BY <1>7 DEF T

\* A list that leads another is its beginning, by positions.
LEMMA LeadsIs ==
  ASSUME NEW x \in Seq(Int), NEW w \in Seq(Int), Leads(x, w)
  PROVE  x = SubSeq(w, 1, Len(x)) /\ Len(x) \in 0 .. Len(w)
<1>1. Len(x) \in Nat /\ Len(w) \in Nat /\ Len(x) <= Len(w) /\ \A i \in 1 .. Len(x) : x[i] = w[i]
  BY DEF Leads
<1>2. 0 \in 0 .. Len(w) /\ Len(x) \in 0 .. Len(w)
  BY <1>1
<1>3. /\ SubSeq(w, 0 + 1, Len(x)) \in Seq(Int)
      /\ Len(SubSeq(w, 0 + 1, Len(x))) = Len(x) - 0
      /\ \A i \in 1 .. Len(x) - 0 : SubSeq(w, 0 + 1, Len(x))[i] = w[0 + i]
  BY <1>2, Piece
<1> DEFINE y == SubSeq(w, 1, Len(x))
<1>4. /\ y \in Seq(Int) /\ Len(y) = Len(x)
      /\ \A i \in 1 .. Len(x) : y[i] = w[i]
  <2>1. 0 + 1 = 1 /\ Len(x) - 0 = Len(x) /\ \A i \in 1 .. Len(x) : 0 + i = i
    BY <1>1
  <2> QED
    BY <1>1, <1>3, <2>1
<1> HIDE DEF y
<1>5. x = y
  BY <1>1, <1>4, SeqEqual
<1> QED
  BY <1>2, <1>5 DEF y

\* A mark that has been reached and is later than the last one.
LEMMA AMark ==
  ASSUME NEW t \in Times, t # None, t > vset, Reached(t)
  PROVE  t \in Log!Marks
<1>1. t \in UNION {Stamps[s] : s \in Log!Sensors}
  BY SensorsOf DEF Times
<1>2. Log!Delivered(t)
  BY DEF Log!Delivered, Reached, Log!Last, Last
<1> QED
  BY <1>1, <1>2 DEF Log!Marks

\* A commit consumes the log up to the window's end, in one step.
LEMMA CommitConsumes ==
  ASSUME IInv, SMCommit
  PROVE  Log!Consume
<1>1. /\ UNCHANGED <<arrived, sTime, eTime, batch>>
      /\ pcSM = "judge" /\ vset' = eTime
      /\ used' = [s \in Sensors |-> used[s] \o batch[s]]
  BY DEF SMCommit, SMStep
<1>2. /\ eTime \in Times /\ eTime \in Int /\ eTime # None /\ vset < eTime /\ vset \in Int
      /\ initialized /\ Reached(eTime) /\ sTime = vset
  BY <1>1, Window
<1>3. vset # None
  BY <1>2 DEF IInv, MarkInv
<1>4. eTime \in Log!Marks
  <2>1. eTime > vset
    BY <1>2
  <2> QED
    BY <1>2, <2>1, AMark
<1> DEFINE W(s) == Extract(arrived[s], vset, eTime)
           n == [s \in Sensors |-> Len(batch[s])]
           size == [s \in Sensors |-> Len(W(s))]
<1>5. ASSUME NEW s \in Sensors
      PROVE  Log!Window(s, vset, eTime) = W(s) /\ W(s) \in Seq(Int)
  <2>1. arrived[s] \in Seq(Int) /\ InOrder(arrived[s]) /\ vset <= eTime
    BY <1>2, Lists
  <2>2. W(s) = Within(arrived[s], vset, eTime)
    BY <1>2, <2>1, ExtractionsAreWindows DEF ExtractIsWindow
  <2>3. Log!Window(s, vset, eTime) = Within(arrived[s], vset, eTime)
    BY DEF Log!Window, Within
  <2>4. W(s) \in Seq(Int)
    <3>1. /\ CountBefore(arrived[s], vset) \in 0 .. Len(arrived[s])
          /\ CountBefore(arrived[s], eTime) \in 0 .. Len(arrived[s])
          /\ CountBefore(arrived[s], vset) <= CountBefore(arrived[s], eTime)
      BY <1>2, <2>1, CountBeforeLast, CountBeforeMonotone
    <3>2. CountBefore(arrived[s], eTime) \in CountBefore(arrived[s], vset) .. Len(arrived[s])
      BY <2>1, <3>1
    <3> QED
      BY <2>1, <3>1, <3>2, Piece DEF Extract
  <2> QED
    BY <2>2, <2>3, <2>4, Zenon
<1> HIDE DEF W
<1>6. batch["imu"] = W("imu") /\ batch["radar"] = W("radar") /\ Leads(batch["leg"], W("leg"))
  BY <1>1, <1>2 DEF IInv, BatchInv, W
<1>7. ASSUME NEW s \in Sensors
      PROVE  /\ batch[s] = SubSeq(W(s), 1, Len(batch[s]))
             /\ Len(batch[s]) \in 0 .. Len(W(s))
             /\ s \in {"imu", "radar"} => Len(batch[s]) = Len(W(s))
  <2>1. batch[s] \in Seq(Int)
    BY SeqMonotonic DEF IInv, TypeOK
  <2>2. Leads(batch[s], W(s))
    <3>1. CASE s = "leg"
      BY <1>6, <3>1
    <3>2. CASE s # "leg"
      <4>1. batch[s] = W(s)
        BY <1>6, <3>2 DEF Sensors
      <4>2. Len(W(s)) \in Nat
        BY <1>5, LenProperties
      <4> QED
        BY <4>1, <4>2 DEF Leads
    <3> QED
      BY <3>1, <3>2
  <2>3. s \in {"imu", "radar"} => Len(batch[s]) = Len(W(s))
    BY <1>6
  <2> QED
    BY <1>5, <2>1, <2>2, <2>3, LeadsIs
<1>8. size \in [Sensors -> Nat]
  BY <1>5, LenProperties
<1>9. /\ Max({size[s] : s \in Sensors}) \in Nat
      /\ \A s \in Sensors : size[s] <= Max({size[u] : u \in Sensors})
  BY <1>8, MaxOfThree
<1>10. {size[s] : s \in Sensors} = {Len(Log!Window(s, vset, eTime)) : s \in Log!Sensors}
  <2>1. \A s \in Sensors : size[s] = Len(Log!Window(s, vset, eTime))
    BY <1>5, Zenon
  <2> HIDE DEF size
  <2> QED
    BY <2>1, SensorsOf
<1>11. \A s \in Sensors : /\ size[s] = Len(Log!Window(s, vset, eTime)) /\ size[s] = Len(W(s))
                          /\ size[s] \in Nat
  BY <1>5, <1>8, Zenon
<1> HIDE DEF size
<1>12. n \in Log!Shares(eTime)
  <2>1. \A s \in Sensors : /\ n[s] \in 0 .. Max({size[u] : u \in Sensors})
                           /\ n[s] <= size[s]
                           /\ s \in {"imu", "radar"} => n[s] = size[s]
    BY <1>7, <1>9, <1>11
  <2>2. n \in [Sensors -> 0 .. Max({size[u] : u \in Sensors})]
    <3>1. n = [s \in Sensors |-> n[s]]
      OBVIOUS
    <3> HIDE DEF n
    <3> QED
      BY <2>1, <3>1
  <2> HIDE DEF n
  <2>3. n \in [Log!Sensors -> 0 .. Max({Len(Log!Window(s, vset, eTime)) : s \in Log!Sensors})]
    BY <1>10, <2>2, SensorsOf, Zenon
  <2>4. \A s \in Log!Sensors : /\ n[s] <= Len(Log!Window(s, vset, eTime))
                               /\ s \in {"imu", "radar"} => n[s] = Len(Log!Window(s, vset, eTime))
    BY <1>11, <2>1, SensorsOf, Zenon
  <2> QED
    BY <2>3, <2>4, Zenon DEF Log!Shares, Log!Max, Max
<1>13. used' = [s \in Log!Sensors |-> used[s] \o SubSeq(Log!Window(s, vset, eTime), 1, n[s])]
  <2>1. \A s \in Sensors : batch[s] = SubSeq(Log!Window(s, vset, eTime), 1, n[s])
    BY <1>5, <1>7, Zenon
  <2>2. used' = [s \in Sensors |-> used[s] \o SubSeq(Log!Window(s, vset, eTime), 1, n[s])]
    <3> HIDE DEF n
    <3> QED
      BY <1>1, <2>1, Zenon
  <2> QED
    BY <2>2, SensorsOf, Zenon
<1> HIDE DEF n
<1> QED
  BY <1>1, <1>3, <1>4, <1>12, <1>13, SensorsOf DEF Log!Consume, Log!None

\* From the callbacks to the optimisation, whatever the interleaving of the
\* three sets of threads, every IMU frame and radar target from the first window
\* on is optimised in exactly one window (state_manager.cpp:513-534,
\* data_manager.cpp:193-330).
THEOREM ImplementsLog == Spec => ImplementsMeasurementLog
<1>1. Init => Log!Init
  BY SensorsOf DEF Init, NoData, Log!Init, Log!None
<1>2. ASSUME IInv, [Next]_vars
      PROVE  [Log!Next]_<<arrived, vset, used>>
  <2>1. CASE HandleIMUMessage \/ HandleRadarMessage \/ HandleLegMessage
    <3>1. PICK s \in Sensors : \E t \in Stamps[s], n \in ScanSizes \union {1} : Arrival(s, t, n)
      BY <2>1, Arrives
    <3>2. Log!Record(s)
      BY <3>1 DEF Arrival, Deliver, Log!Record
    <3> QED
      BY <3>1, <3>2, SensorsOf DEF Log!Next
  <2>2. CASE SMInitialize
    <3>1. vset' \in Times /\ vset' # None /\ vset = None /\ Reached(vset') /\ UNCHANGED <<arrived, used>>
      BY <1>2, <2>2, InitialMark DEF SMInitialize
    <3>2. vset' > vset
      BY <3>1, Numbers
    <3>3. vset' \in Log!Marks
      BY <3>1, <3>2, AMark
    <3> QED
      BY <3>1, <3>3 DEF Log!Begin, Log!Next, Log!None
  <2>3. CASE SMCommit
    BY <1>2, <2>3, CommitConsumes DEF Log!Next
  <2>4. CASE \/ SMSnapshot \/ SMImuEnd \/ SMRadarEnd \/ SMExtractImu \/ SMExtractRadar \/ SMExtractLeg
             \/ SMGiveUp \/ SMQuit \/ MainNext \/ Terminated \/ UNCHANGED vars
    <3>1. UNCHANGED <<arrived, vset, used>>
      BY <2>4 DEF SMSnapshot, SMImuEnd, SMRadarEnd, SMExtractImu, SMExtractRadar, SMExtractLeg,
                  SMExtract, SMGiveUp, SMQuit, MainNext, MainSnapshot, MainEraseImu, MainEraseRadar,
                  MainEraseLeg, MainErase, Terminated, vars
    <3> QED
      BY <3>1
  <2> QED
    BY <1>2, <2>1, <2>2, <2>3, <2>4 DEF Next, SMNext
<1> QED
  BY <1>1, <1>2, Invariance, PTL DEF Spec, ImplementsMeasurementLog, Log!Spec

-------------------------------------------------------------------------------
\* The operations on the lists do what their names say, on any list of integers,
\* in or out of time order, and for any bounds: the four theorems of
\* SensorQueue_proofs together.
LEMMA OperationsHold ==
  ASSUME NEW q \in Seq(Int), NEW s \in Int, NEW e \in Int
  PROVE  /\ CopyRangeValid(q, s, e)
         /\ ExtractIsWindow(q, s, e)
         /\ ExtractFromIsWindow(q, s, e)
         /\ \A t \in Int : EraseSparesWindow(q, t, s, e)
  BY CopyRangesAreValid, ExtractionsAreWindows, ExtractionsToTheEnd, ErasureSparesWindows

\* So they do whatever the lists and times that ListOperations asks about, and
\* not only before anything has arrived, when it asks.
THEOREM ListOperationsHold == Spec => []ListOperations
<1>1. ASSUME NEW q \in SampleLists, NEW s \in SampleTimes, NEW e \in SampleTimes
      PROVE  /\ CopyRangeValid(q, s, e)
             /\ ExtractIsWindow(q, s, e)
             /\ ExtractFromIsWindow(q, s, e)
             /\ \A t \in SampleTimes : EraseSparesWindow(q, t, s, e)
  <2>1. q \in Seq(Int) /\ s \in Int /\ e \in Int /\ \A t \in SampleTimes : t \in Int
    BY ListAssumption
  <2> QED
    BY <2>1, OperationsHold
<1>2. ListOperations
  BY <1>1 DEF ListOperations
<1> QED
  BY <1>2, PTL
===============================================================================
