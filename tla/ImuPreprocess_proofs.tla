------------------------- MODULE ImuPreprocess_proofs -------------------------
(***************************************************************************)
(* Proofs about ImuPreprocess, for every set of stamps and contacts, every *)
(* length of the average, every threshold of the counter, every lag and    *)
(* every set of other topics.                                              *)
(***************************************************************************)
EXTENDS ImuPreprocess, SensorQueue_proofs

\* The counter measures the run of equal contacts at the end of footDataSeq.
CountInv ==
  /\ footDataSeq = << >> => contactDuration = 0
  /\ footDataSeq # << >> =>
       /\ contactDuration < Len(footDataSeq)
       /\ \A i \in (Len(footDataSeq) - contactDuration) .. Len(footDataSeq) :
            footDataSeq[i] = footDataSeq[Len(footDataSeq)]
       /\ contactDuration + 1 < Len(footDataSeq) =>
            footDataSeq[Len(footDataSeq) - contactDuration - 1]
              # footDataSeq[Len(footDataSeq)]

\* Frames are stored in the order of their stamps.
OrderInv ==
  /\ \A i, j \in 1 .. Len(stored) : i < j => stored[i] < stored[j]
  /\ pcImu = "idle" => frame = IF stored = << >> THEN None ELSE stored[Len(stored)]
  /\ pcImu # "idle" => /\ frame \in Stamps
                       /\ \A i \in 1 .. Len(stored) : stored[i] < frame

\* The epoch is there when it is read, is only set by the IMU before the first
\* frame, and is the one all frames have been shifted by, as long as it stays.
EpochInv ==
  /\ pcImu \in {"shift", "store"} \/ stored # << >> => epoch # None
  /\ pcImu = "set" => stored = << >>
  /\ ~ epochMoved =>
       /\ \A i \in 1 .. Len(stored) : shift[stored[i]] = epoch
       /\ pcImu = "store" => shift[frame] = epoch

\* The list is what is left of the frames ever stored, the end of them, and
\* what is missing is old, as long as the epoch stays.
SuffixInv ==
  /\ Len(imuDataSeq) <= Len(stored)
  /\ stored # << >> => imuDataSeq # << >>
  /\ \A i \in 1 .. Len(imuDataSeq) :
       imuDataSeq[i] = stored[Len(stored) - Len(imuDataSeq) + i]
  /\ ~ epochMoved => \A i \in 1 .. Len(stored) - Len(imuDataSeq) :
                        stored[i] < stored[Len(stored)] - EraseLag

\* The first frame starts the integration; a frame being handled is in it.
TurnInv ==
  /\ imuIsCome <=> stored # << >> \/ pcImu # "idle"
  /\ stored = << >> => turned = 0
  /\ ~ epochMoved /\ stored # << >> =>
       turned = IF pcImu = "idle" THEN stored[Len(stored)] - stored[1]
                ELSE frame - stored[1]

AcceInv == calm \subseteq Frames /\ OnlyCalmMeasured

IInv == TypeOK /\ CountInv /\ OrderInv /\ EpochInv /\ SuffixInv /\ TurnInv /\ AcceInv

-------------------------------------------------------------------------------
USE DEF None, epochVars, footVars, imuVars

\* The end of a sequence, as the community modules define it.
LEMMA LastIs ==
  ASSUME NEW S, NEW q \in Seq(S), q # << >>
  PROVE  Last(q) = q[Len(q)] /\ Len(q) \in Nat \ {0} /\ Last(q) \in S
BY DEF Last

\* What is appended comes last and moves nothing.
LEMMA Appended ==
  ASSUME NEW S, NEW q \in Seq(S), NEW x \in S
  PROVE  /\ Append(q, x) \in Seq(S) /\ Append(q, x) # << >>
         /\ Len(Append(q, x)) = Len(q) + 1 /\ Len(q) \in Nat
         /\ \A i \in 1 .. Len(q) : Append(q, x)[i] = q[i]
         /\ Append(q, x)[Len(q) + 1] = x
OBVIOUS

\* The stamps of the frames in the list are numbers, in the order of the list.
LEMMA StampsOfList ==
  ASSUME TypeOK
  PROVE  /\ \A t \in Stamps : StampOf(t) \in Int /\ shift[t] \in Nat
         /\ ListStamps \in Seq(Int) /\ Len(ListStamps) = Len(imuDataSeq)
         /\ \A i \in 1 .. Len(imuDataSeq) : ListStamps[i] = StampOf(imuDataSeq[i])
         /\ imuDataSeq # << >> =>
              Last(ListStamps) = StampOf(imuDataSeq[Len(imuDataSeq)])
<1>1. ASSUME NEW t \in Stamps PROVE StampOf(t) \in Int /\ shift[t] \in Nat
  <2>1. t \in Nat /\ shift[t] \in Nat
    BY PreprocessAssumption DEF PreprocessAssumption, TypeOK
  <2> QED
    BY <2>1 DEF StampOf
<1>2. imuDataSeq \in Seq(Stamps) /\ Len(imuDataSeq) \in Nat
  BY DEF TypeOK
<1>3. \A i \in 1 .. Len(imuDataSeq) : StampOf(imuDataSeq[i]) \in Int
  BY <1>1, <1>2, ElementOfSeq
<1> HIDE DEF StampOf
<1>4. ListStamps \in Seq(Int) /\ Len(ListStamps) = Len(imuDataSeq)
  BY <1>2, <1>3 DEF ListStamps
<1>5. \A i \in 1 .. Len(imuDataSeq) : ListStamps[i] = StampOf(imuDataSeq[i])
  BY DEF ListStamps
<1>6. ASSUME imuDataSeq # << >>
      PROVE  Last(ListStamps) = StampOf(imuDataSeq[Len(imuDataSeq)])
  <2>1. Len(imuDataSeq) \in 1 .. Len(imuDataSeq)
    BY <1>2, <1>6, LastIs
  <2> QED
    BY <1>4, <1>5, <2>1 DEF Last
<1> QED
  BY <1>1, <1>4, <1>5, <1>6

\* A bound no later than the last stamp leaves that frame in the list; the last
\* frame taken off, if any, is stamped before the bound.
LEMMA ErasedFront ==
  ASSUME TypeOK, imuDataSeq # << >>, NEW t \in Int, t <= Last(ListStamps),
         NEW q, q = SubSeq(imuDataSeq, CountBefore(ListStamps, t) + 1, Len(imuDataSeq))
  PROVE  /\ q \in Seq(Stamps) /\ q # << >>
         /\ \E k \in 0 .. Len(imuDataSeq) - 1 :
              /\ Len(q) = Len(imuDataSeq) - k
              /\ \A i \in 1 .. Len(q) : q[i] = imuDataSeq[k + i]
              /\ k > 0 => StampOf(imuDataSeq[k]) < t
<1> DEFINE c == CountBefore(ListStamps, t)
           m == Len(imuDataSeq)
<1>1. /\ ListStamps \in Seq(Int) /\ Len(ListStamps) = m
      /\ \A i \in 1 .. m : ListStamps[i] = StampOf(imuDataSeq[i])
      /\ Last(ListStamps) = StampOf(imuDataSeq[m])
      /\ imuDataSeq \in Seq(Stamps) /\ m \in Nat \ {0}
  BY StampsOfList, LastIs DEF TypeOK
<1>2. /\ c \in 0 .. m
      /\ c > 0 => ListStamps[c] < t
  BY <1>1, CountBeforeLast
<1>3. Last(ListStamps) = ListStamps[m] /\ ListStamps[m] \in Int
  BY <1>1, ElementOfSeq
<1> HIDE DEF c, m
<1>4. c \in 0 .. m - 1 /\ m \in c .. m
  BY <1>1, <1>2, <1>3
<1>5. /\ SubSeq(imuDataSeq, c + 1, m) \in Seq(Stamps)
      /\ Len(SubSeq(imuDataSeq, c + 1, m)) = m - c
      /\ \A i \in 1 .. m - c : SubSeq(imuDataSeq, c + 1, m)[i] = imuDataSeq[c + i]
  BY <1>1, <1>2, <1>4, Piece DEF m
<1>6. q = SubSeq(imuDataSeq, c + 1, m)
  BY DEF c, m
<1>7. q # << >> /\ Len(q) = m - c
  <2>1. Len(q) = m - c
    BY <1>5, <1>6, Zenon
  <2>2. m - c # 0
    BY <1>1, <1>4
  <2>3. Len(<< >>) = 0
    OBVIOUS
  <2> QED
    BY <2>1, <2>2, <2>3, Zenon
<1>8. c > 0 => StampOf(imuDataSeq[c]) < t
  BY <1>1, <1>2
<1>9. /\ c \in 0 .. m - 1 /\ Len(q) = m - c
      /\ \A i \in 1 .. Len(q) : q[i] = imuDataSeq[c + i]
      /\ c > 0 => StampOf(imuDataSeq[c]) < t
  BY <1>4, <1>5, <1>6, <1>7, <1>8
<1> QED
  BY <1>5, <1>6, <1>7, <1>9 DEF m

-------------------------------------------------------------------------------
\* Stamps are numbers, and the ends of the two lists are the same frame.
LEMMA Ends ==
  ASSUME IInv
  PROVE  /\ Stamps \subseteq Nat
         /\ Len(stored) \in Nat /\ Len(imuDataSeq) \in Nat
         /\ \A i \in 1 .. Len(stored) : stored[i] \in Stamps /\ stored[i] \in Nat
         /\ \A i \in 1 .. Len(imuDataSeq) : imuDataSeq[i] \in Stamps
         /\ stored = << >> <=> imuDataSeq = << >>
         /\ stored # << >> =>
              /\ Len(stored) > 0 /\ Len(imuDataSeq) > 0
              /\ 1 \in 1 .. Len(stored) /\ Len(stored) \in 1 .. Len(stored)
              /\ Last(imuDataSeq) = stored[Len(stored)]
              /\ Last(stored) = stored[Len(stored)]
              /\ imuDataSeq[Len(imuDataSeq)] = stored[Len(stored)]
         /\ \A i, j \in 1 .. Len(imuDataSeq) : i < j => imuDataSeq[i] < imuDataSeq[j]
<1>1. Stamps \subseteq Nat
  BY PreprocessAssumption DEF PreprocessAssumption
<1>2. stored \in Seq(Stamps) /\ imuDataSeq \in Seq(Stamps)
  BY DEF IInv, TypeOK
<1>3. stored = << >> <=> imuDataSeq = << >>
  BY <1>2 DEF IInv, SuffixInv
<1>6. /\ Len(stored) \in Nat
      /\ \A i \in 1 .. Len(stored) : stored[i] \in Stamps /\ stored[i] \in Nat
  <2>1. \A i \in 1 .. Len(stored) : stored[i] \in Stamps
    BY <1>2, ElementOfSeq
  <2>2. \A x \in Stamps : x \in Nat
    BY <1>1
  <2> QED
    BY <1>2, <2>1, <2>2
<1>4. ASSUME stored # << >>
      PROVE  /\ Len(stored) > 0 /\ Len(imuDataSeq) > 0
             /\ Last(imuDataSeq) = imuDataSeq[Len(imuDataSeq)]
             /\ Last(stored) = stored[Len(stored)]
             /\ imuDataSeq[Len(imuDataSeq)] = stored[Len(stored)]
  <2>1. Len(stored) > 0 /\ Len(imuDataSeq) > 0
    BY <1>2, <1>3, <1>4
  <2>2. imuDataSeq[Len(imuDataSeq)]
          = stored[Len(stored) - Len(imuDataSeq) + Len(imuDataSeq)]
    BY <1>2, <2>1 DEF IInv, SuffixInv
  <2>3. Len(stored) - Len(imuDataSeq) + Len(imuDataSeq) = Len(stored)
    BY <1>2
  <2> QED
    BY <1>2, <1>3, <1>4, <2>1, <2>2, <2>3, LastIs, Zenon
<1>5. \A i, j \in 1 .. Len(imuDataSeq) : i < j => imuDataSeq[i] < imuDataSeq[j]
  <2> SUFFICES ASSUME NEW i \in 1 .. Len(imuDataSeq), NEW j \in 1 .. Len(imuDataSeq), i < j
               PROVE  imuDataSeq[i] < imuDataSeq[j]
    OBVIOUS
  <2> DEFINE d == Len(stored) - Len(imuDataSeq)
  <2>1. imuDataSeq[i] = stored[d + i] /\ imuDataSeq[j] = stored[d + j]
    BY DEF IInv, SuffixInv
  <2>2. d + i \in 1 .. Len(stored) /\ d + j \in 1 .. Len(stored) /\ d + i < d + j
    BY <1>2 DEF IInv, SuffixInv
  <2>3. stored[d + i] < stored[d + j]
    <3> HIDE DEF d
    <3> QED
      BY <2>2 DEF IInv, OrderInv
  <2> QED
    BY <2>1, <2>3
<1> QED
  BY <1>1, <1>2, <1>3, <1>4, <1>5, <1>6

\* The counter exceeds the threshold exactly when that many contacts agree.
LEMMA CountMeasures ==
  ASSUME IInv
  PROVE  contactDuration > StableAfter <=> Agreeing
<1> DEFINE n == Len(footDataSeq)
<1>1. n \in Nat /\ contactDuration \in Nat /\ StableAfter \in Nat
  BY PreprocessAssumption DEF PreprocessAssumption, IInv, TypeOK
<1>2. CASE footDataSeq = << >>
  BY <1>1, <1>2 DEF IInv, CountInv, Agreeing
<1>3. CASE footDataSeq # << >>
  <2>1. Last(footDataSeq) = footDataSeq[n]
    BY <1>3, LastIs DEF IInv, TypeOK
  <2>2. CountInv
    BY DEF IInv
  <2>3. ASSUME contactDuration > StableAfter PROVE Agreeing
    BY <1>1, <1>3, <2>1, <2>2, <2>3 DEF CountInv, Agreeing
  <2>4. ASSUME ~ (contactDuration > StableAfter) PROVE ~ Agreeing
    <3> SUFFICES ASSUME Agreeing PROVE FALSE
      OBVIOUS
    <3>1. contactDuration + 1 < n /\ n - contactDuration - 1 \in (n - StableAfter - 1) .. n
      BY <1>1, <1>3, <2>4 DEF Agreeing
    <3>2. footDataSeq[n - contactDuration - 1] # footDataSeq[n]
      BY <1>3, <2>2, <3>1 DEF CountInv
    <3> QED
      BY <2>1, <3>1, <3>2 DEF Agreeing
  <2> QED
    BY <2>3, <2>4
<1> QED
  BY <1>2, <1>3

-------------------------------------------------------------------------------
\* The initial states.
LEMMA InitIInv == Init => IInv
<1> SUFFICES ASSUME Init PROVE IInv
  OBVIOUS
<1> USE DEF Init
<1>1. Len(<< >>) = 0
  OBVIOUS
<1>2. TypeOK
  <2>1. [t \in Stamps |-> {}] \in [Stamps -> SUBSET Stamps]
    OBVIOUS
  <2>2. [t \in Stamps |-> 0] \in [Stamps -> Nat]
    OBVIOUS
  <2>3. [topic \in Others |-> None] \in [Others -> OtherStamps \union {None}]
    OBVIOUS
  <2>4. epochMoved \in BOOLEAN /\ imuIsCome \in BOOLEAN
    BY Zenon
  <2> QED
    BY <2>1, <2>2, <2>3, <2>4, EmptySeq DEF TypeOK
<1>3. CountInv /\ OrderInv /\ EpochInv /\ TurnInv
  BY <1>1 DEF CountInv, OrderInv, EpochInv, TurnInv
<1>4. SuffixInv
  BY <1>1 DEF SuffixInv
<1>5. AcceInv
  BY <1>1 DEF AcceInv, Frames, OnlyCalmMeasured
<1> QED
  BY <1>2, <1>3, <1>4, <1>5 DEF IInv

\* A foot message prolongs the run of equal contacts or starts a new one.
LEMMA FootStep ==
  ASSUME IInv, HandleFootMessage
  PROVE  IInv'
<1> USE DEF HandleFootMessage
<1>1. PICK contact \in Contacts :
        /\ contactDuration' = Counted(contact)
        /\ footDataSeq' = Append(footDataSeq, contact)
  OBVIOUS
<1> DEFINE n == Len(footDataSeq)
<1>2. footDataSeq \in Seq(Contacts) /\ contactDuration \in Nat /\ n \in Nat
  BY DEF IInv, TypeOK
<1>3. /\ footDataSeq' \in Seq(Contacts) /\ footDataSeq' # << >>
      /\ Len(footDataSeq') = n + 1
      /\ \A i \in 1 .. n : footDataSeq'[i] = footDataSeq[i]
      /\ footDataSeq'[n + 1] = contact
  BY <1>1, <1>2, Appended
<1>4. contactDuration' \in Nat
  BY <1>1, <1>2 DEF Counted
<1>5. CountInv'
  <2>1. CASE footDataSeq = << >>
    <3>1. n = 0 /\ contactDuration' = 0
      BY <1>1, <2>1 DEF Counted, IInv, CountInv
    <3> QED
      BY <1>3, <3>1 DEF CountInv
  <2>2. CASE footDataSeq # << >>
    <3>1. Last(footDataSeq) = footDataSeq[n] /\ n > 0
      BY <1>2, <2>2, LastIs
    <3>2. /\ contactDuration < n
          /\ \A i \in (n - contactDuration) .. n : footDataSeq[i] = footDataSeq[n]
          /\ contactDuration + 1 < n =>
               footDataSeq[n - contactDuration - 1] # footDataSeq[n]
      BY <2>2 DEF IInv, CountInv
    <3>3. CASE footDataSeq[n] = contact
      <4>1. contactDuration' = contactDuration + 1
        BY <1>1, <2>2, <3>1, <3>3 DEF Counted
      <4>2. \A i \in (n - contactDuration) .. n + 1 : footDataSeq'[i] = contact
        <5> SUFFICES ASSUME NEW i \in (n - contactDuration) .. n + 1
                     PROVE  footDataSeq'[i] = contact
          OBVIOUS
        <5>1. i = n + 1 \/ (i \in 1 .. n /\ i \in (n - contactDuration) .. n)
          <6> HIDE DEF n
          <6> QED
            BY <1>2, <3>2
        <5> QED
          BY <1>3, <3>2, <3>3, <5>1
      <4>3. contactDuration + 1 < n => footDataSeq'[n - contactDuration - 1] # contact
        BY <1>2, <1>3, <3>2, <3>3
      <4>4. /\ n + 1 - (contactDuration + 1) = n - contactDuration
            /\ n + 1 - (contactDuration + 1) - 1 = n - contactDuration - 1
            /\ contactDuration + 1 + 1 < n + 1 <=> contactDuration + 1 < n
            /\ contactDuration + 1 < n + 1
        BY <1>2, <3>2
      <4>5. /\ contactDuration' < Len(footDataSeq')
            /\ Len(footDataSeq') - contactDuration' = n - contactDuration
            /\ Len(footDataSeq') - contactDuration' - 1 = n - contactDuration - 1
            /\ contactDuration' + 1 < Len(footDataSeq') <=> contactDuration + 1 < n
            /\ footDataSeq'[Len(footDataSeq')] = contact
        BY <1>3, <4>1, <4>4
      <4> HIDE DEF n
      <4> QED
        BY <1>3, <4>2, <4>3, <4>5 DEF CountInv
    <3>4. CASE footDataSeq[n] # contact
      <4>1. contactDuration' = 0
        BY <1>1, <2>2, <3>1, <3>4 DEF Counted
      <4>2. footDataSeq'[n] # contact
        BY <1>2, <1>3, <3>1, <3>4
      <4>3. n + 1 - 0 = n + 1 /\ n + 1 - 0 - 1 = n /\ 0 < n + 1
        BY <1>2
      <4>4. \A i \in (n + 1) .. (n + 1) : i = n + 1
        BY <1>2
      <4>5. /\ contactDuration' < Len(footDataSeq')
            /\ Len(footDataSeq') - contactDuration' = n + 1
            /\ Len(footDataSeq') - contactDuration' - 1 = n
            /\ footDataSeq'[Len(footDataSeq')] = contact
        BY <1>3, <4>1, <4>3
      <4> HIDE DEF n
      <4> QED
        BY <1>3, <4>2, <4>4, <4>5 DEF CountInv
    <3> QED
      BY <3>3, <3>4
  <2> QED
    BY <2>1, <2>2
<1>6. TypeOK' /\ OrderInv' /\ EpochInv' /\ SuffixInv' /\ TurnInv' /\ AcceInv'
  <2>1. TypeOK'
    BY <1>3, <1>4 DEF IInv, TypeOK
  <2> QED
    BY <2>1 DEF IInv, OrderInv, EpochInv, SuffixInv, TurnInv, AcceInv, Frames, OnlyCalmMeasured
<1> QED
  BY <1>5, <1>6 DEF IInv

\* An epoch set before any frame has been shifted is as good as another; one set
\* later has moved.
LEMMA EpochStep ==
  ASSUME IInv, NEW topic \in Others, TestEpoch(topic) \/ SetEpoch(topic)
  PROVE  IInv'
<1>1. toSet[topic] \in OtherStamps \union {None} /\ OtherStamps \subseteq Nat
  BY PreprocessAssumption DEF PreprocessAssumption, IInv, TypeOK
<1>2. UNCHANGED <<footVars, imuVars>>
  BY DEF TestEpoch, SetEpoch
<1>3. TypeOK'
  <2>1. toSet' \in [Others -> OtherStamps \union {None}]
    BY DEF TestEpoch, SetEpoch, IInv, TypeOK
  <2>2. epoch' \in Nat \union {None}
    BY <1>1 DEF TestEpoch, SetEpoch, IInv, TypeOK
  <2>3. epochMoved' \in BOOLEAN
    <3>1. CASE TestEpoch(topic)
      BY <3>1 DEF TestEpoch, IInv, TypeOK
    <3>2. CASE SetEpoch(topic)
      BY <3>2 DEF SetEpoch
    <3> QED
      BY <3>1, <3>2
  <2> QED
    BY <1>2, <2>1, <2>2, <2>3 DEF IInv, TypeOK
<1>4. CASE TestEpoch(topic)
  BY <1>2, <1>3, <1>4 DEF TestEpoch, IInv, CountInv, OrderInv, EpochInv, SuffixInv, TurnInv,
                          AcceInv, Frames, OnlyCalmMeasured
<1>5. CASE SetEpoch(topic)
  <2>1. CountInv' /\ OrderInv' /\ AcceInv'
    BY <1>2 DEF IInv, CountInv, OrderInv, AcceInv, Frames, OnlyCalmMeasured
  <2>2. epoch' # None
    BY <1>1, <1>5 DEF SetEpoch
  <2>3. ~ epochMoved' => ~ epochMoved /\ stored = << >> /\ pcImu # "store"
    BY <1>5 DEF SetEpoch
  <2>4. EpochInv'
    <3>1. stored = << >> => Len(stored) = 0
      OBVIOUS
    <3> QED
      BY <1>2, <2>2, <2>3, <3>1 DEF IInv, EpochInv
  <2>5. SuffixInv' /\ TurnInv'
    BY <1>2, <2>3 DEF IInv, SuffixInv, TurnInv
  <2> QED
    BY <1>3, <2>1, <2>4, <2>5 DEF IInv
<1> QED
  BY <1>4, <1>5

\* An IMU message later than every one before it turns init_orient on, by the
\* time since the frame stored last if the epoch has not moved.
LEMMA ReceiveStep ==
  ASSUME IInv, HandleIMUMessage
  PROVE  IInv'
<1> USE DEF HandleIMUMessage
<1>1. Stamps \subseteq Nat /\ frame' \in Stamps /\ frame' > frame
  BY Ends
<1>2. ASSUME stored # << >>
      PROVE  frame = stored[Len(stored)] /\ imuIsCome /\ Dt(frame') \in Int /\ epoch # None
  <2>1. Last(imuDataSeq) = stored[Len(stored)] /\ stored[Len(stored)] \in Stamps
    BY <1>2, Ends
  <2>2. StampOf(Last(imuDataSeq)) \in Int
    BY <2>1, StampsOfList DEF IInv
  <2>3. frame' \in Int /\ epoch \in Int
    BY <1>1 DEF IInv, TypeOK
  <2> QED
    BY <1>2, <2>2, <2>3 DEF IInv, OrderInv, TurnInv, EpochInv, Dt
<1>a. ASSUME stored # << >>, ~ epochMoved
      PROVE  /\ turned = stored[Len(stored)] - stored[1]
             /\ Dt(frame') = frame' - stored[Len(stored)]
  <2>1. Last(imuDataSeq) = stored[Len(stored)] /\ Len(stored) \in 1 .. Len(stored)
    BY <1>a, Ends
  <2>2. shift[stored[Len(stored)]] = epoch
    BY <1>a, <2>1 DEF IInv, EpochInv
  <2>3. frame' \in Int /\ epoch \in Int /\ stored[Len(stored)] \in Int
    BY <1>1, <1>a, Ends DEF IInv, TypeOK
  <2>4. Dt(frame') = frame' - (stored[Len(stored)] - epoch) - epoch
    BY <2>1, <2>2 DEF Dt, StampOf
  <2> QED
    BY <1>a, <2>3, <2>4 DEF IInv, TurnInv
<1>3. ASSUME NEW i \in 1 .. Len(stored) PROVE stored[i] < frame'
  <2>1. stored # << >>
    BY EmptySeq
  <2>2. i = Len(stored) \/ stored[i] < stored[Len(stored)]
    BY <2>1, Ends DEF IInv, OrderInv
  <2>3. /\ stored[i] \in Nat /\ stored[Len(stored)] \in Nat /\ frame' \in Nat
        /\ frame' > stored[Len(stored)]
    BY <1>1, <1>2, <2>1, Ends
  <2> QED
    BY <2>2, <2>3
<1>4. /\ stored = << >> => turned' = 0
      /\ stored # << >> /\ ~ epochMoved => turned' = frame' - stored[1]
  <2>1. CASE stored = << >>
    BY <2>1 DEF IInv, TurnInv
  <2>2. CASE stored # << >> /\ ~ epochMoved
    <3>1. turned' = turned + (frame' - stored[Len(stored)])
      BY <1>2, <1>a, <2>2
    <3>2. stored[Len(stored)] \in Nat /\ stored[1] \in Nat /\ frame' \in Nat
      <4>1. stored[Len(stored)] \in Nat /\ stored[1] \in Nat
        BY <2>2, Ends
      <4> QED
        BY <1>1, <4>1
    <3> QED
      BY <1>a, <2>2, <3>1, <3>2
  <2> QED
    BY <2>1, <2>2
<1>5. TypeOK'
  <2>1. turned' \in Int
    <3>1. CASE stored = << >>
      BY <1>4, <3>1
    <3>2. CASE stored # << >>
      BY <1>2, <3>2 DEF IInv, TypeOK
    <3> QED
      BY <3>1, <3>2
  <2>2. pcImu' \in {"set", "shift"}
    BY DEF AfterTest
  <2>3. imuIsCome' \in BOOLEAN
    BY Zenon
  <2> QED
    BY <1>1, <2>1, <2>2, <2>3 DEF IInv, TypeOK
<1>6. OrderInv'
  BY <1>1, <1>3 DEF IInv, OrderInv, AfterTest
<1>7. TurnInv'
  BY <1>4 DEF IInv, TurnInv, AfterTest
<1>8. CountInv' /\ SuffixInv' /\ AcceInv'
  BY DEF IInv, CountInv, SuffixInv, AcceInv, Frames, OnlyCalmMeasured
<1>9. EpochInv'
  BY <1>2 DEF IInv, EpochInv, AfterTest
<1> QED
  BY <1>5, <1>6, <1>7, <1>8, <1>9 DEF IInv

\* The IMU sets the epoch before it has shifted anything by one.
LEMMA ImuSetStep ==
  ASSUME IInv, ImuSetEpoch
  PROVE  IInv'
<1> USE DEF ImuSetEpoch
<1>1. frame \in Stamps /\ frame \in Nat /\ stored = << >> /\ Len(stored) = 0
  BY Ends DEF IInv, OrderInv, EpochInv
<1>2. TypeOK'
  BY <1>1 DEF IInv, TypeOK
<1>3. EpochInv'
  BY <1>1 DEF IInv, EpochInv
<1>4. UNCHANGED <<footDataSeq, contactDuration, imuDataSeq, acce, imuIsCome, turned, frame,
                  stored, calm, epochMoved>>
  OBVIOUS
<1>5. pcImu = "set" /\ pcImu' = "shift"
  OBVIOUS
<1> HIDE DEF ImuSetEpoch
<1>6. CountInv'
  BY <1>4 DEF IInv, CountInv
<1>7. OrderInv'
  BY <1>4, <1>5 DEF IInv, OrderInv
<1>8. SuffixInv'
  BY <1>4 DEF IInv, SuffixInv
<1>9. TurnInv'
  BY <1>1, <1>4, <1>5 DEF IInv, TurnInv
<1>10. AcceInv'
  BY <1>4 DEF IInv, AcceInv, Frames, OnlyCalmMeasured
<1> QED
  BY <1>2, <1>3, <1>6, <1>7, <1>8, <1>9, <1>10 DEF IInv

\* The frame is shifted by the epoch of now.
LEMMA ImuShiftStep ==
  ASSUME IInv, ImuShift
  PROVE  IInv'
<1> USE DEF ImuShift
<1>1. /\ frame \in Stamps /\ epoch \in Nat /\ epoch # None
      /\ \A i \in 1 .. Len(stored) : stored[i] < frame /\ stored[i] \in Stamps
      /\ shift \in [Stamps -> Nat] /\ Stamps \subseteq Nat
  BY Ends DEF IInv, TypeOK, OrderInv, EpochInv
<1>2. /\ shift' \in [Stamps -> Nat] /\ shift'[frame] = epoch
      /\ \A i \in 1 .. Len(stored) : shift'[stored[i]] = shift[stored[i]]
  <2>1. \A i \in 1 .. Len(stored) : stored[i] # frame
    BY <1>1
  <2> QED
    BY <1>1, <2>1
<1>3. TypeOK'
  BY <1>2 DEF IInv, TypeOK
<1>4. EpochInv'
  BY <1>1, <1>2 DEF IInv, EpochInv
<1>5. UNCHANGED <<footDataSeq, contactDuration, imuDataSeq, acce, imuIsCome, turned, frame,
                  stored, calm, epochMoved>>
  OBVIOUS
<1>6. pcImu = "shift" /\ pcImu' = "store"
  OBVIOUS
<1> HIDE DEF ImuShift
<1>7. CountInv'
  BY <1>5 DEF IInv, CountInv
<1>8. OrderInv'
  BY <1>5, <1>6 DEF IInv, OrderInv
<1>9. SuffixInv'
  BY <1>5 DEF IInv, SuffixInv
<1>10. TurnInv'
  BY <1>5, <1>6 DEF IInv, TurnInv
<1>11. AcceInv'
  BY <1>5 DEF IInv, AcceInv, Frames, OnlyCalmMeasured
<1> QED
  BY <1>3, <1>4, <1>7, <1>8, <1>9, <1>10, <1>11 DEF IInv

\* What the average is taken over has been stored.
LEMMA RecentStored ==
  ASSUME IInv
  PROVE  Recent(imuDataSeq) \subseteq Frames /\ Frames \subseteq Stamps
<1>1. ASSUME NEW i \in 1 .. Len(imuDataSeq) PROVE imuDataSeq[i] \in Frames
  <2>1. imuDataSeq[i] = stored[Len(stored) - Len(imuDataSeq) + i]
    BY DEF IInv, SuffixInv
  <2>2. Len(stored) - Len(imuDataSeq) + i \in 1 .. Len(stored)
    BY Ends DEF IInv, SuffixInv
  <2> QED
    BY <2>1, <2>2 DEF Frames
<1>2. Recent(imuDataSeq) \subseteq Frames
  BY <1>1 DEF Recent
<1>3. Frames \subseteq Stamps
  BY Ends DEF Frames
<1> QED
  BY <1>2, <1>3

\* A frame is stored behind every other, and its acceleration is made of what
\* the feet vouch for.
LEMMA StoreStep ==
  ASSUME IInv, Store
  PROVE  IInv'
<1> USE DEF Store
<1> DEFINE n == Len(stored)
           m == Len(imuDataSeq)
<1>1. /\ frame \in Stamps /\ \A i \in 1 .. n : stored[i] < frame
      /\ n \in Nat /\ m \in Nat /\ m <= n
      /\ Stamps \subseteq Nat /\ EraseLag \in Nat
  BY Ends, PreprocessAssumption DEF IInv, OrderInv, SuffixInv, PreprocessAssumption
<1>2. /\ stored' \in Seq(Stamps) /\ stored' # << >> /\ Len(stored') = n + 1
      /\ \A i \in 1 .. n : stored'[i] = stored[i]
      /\ stored'[n + 1] = frame
  BY <1>1, Appended DEF IInv, TypeOK
<1>3. /\ imuDataSeq' \in Seq(Stamps) /\ imuDataSeq' # << >> /\ Len(imuDataSeq') = m + 1
      /\ \A i \in 1 .. m : imuDataSeq'[i] = imuDataSeq[i]
      /\ imuDataSeq'[m + 1] = frame
  <2>1. imuDataSeq \in Seq(Stamps) /\ frame \in Stamps
    BY <1>1 DEF IInv, TypeOK
  <2>2. imuDataSeq' = Append(imuDataSeq, frame)
    OBVIOUS
  <2> HIDE DEF Store
  <2> QED
    BY <2>1, <2>2, Appended
<1>4. frame \notin Frames /\ Frames' = Frames \union {frame}
  <2>1. frame \notin Frames
    <3> SUFFICES ASSUME NEW i \in 1 .. n, stored[i] = frame PROVE FALSE
      BY DEF Frames
    <3>1. stored[i] < frame /\ frame \in Nat
      BY <1>1
    <3> QED
      BY <3>1
  <2>2. \A i \in 1 .. n + 1 : i \in 1 .. n \/ i = n + 1
    BY <1>1
  <2>3. 1 .. n \subseteq 1 .. n + 1 /\ n + 1 \in 1 .. n + 1
    BY <1>1
  <2> HIDE DEF n
  <2>4. Frames' = {stored'[i] : i \in 1 .. n + 1}
    BY <1>2 DEF Frames
  <2>5. Frames = {stored[i] : i \in 1 .. n}
    BY DEF Frames, n
  <2>6. \A x \in Frames' : x \in Frames \union {frame}
    BY <1>2, <2>2, <2>4, <2>5
  <2>7. \A x \in Frames \union {frame} : x \in Frames'
    BY <1>2, <2>3, <2>4, <2>5
  <2> QED
    BY <2>1, <2>6, <2>7
<1>5. /\ acce \in [Stamps -> SUBSET Stamps]
      /\ calm \subseteq Frames /\ Frames \subseteq Stamps
      /\ Recent(imuDataSeq) \subseteq Frames
      /\ \A t \in Frames : /\ acce[t] \subseteq calm \union {stored[1]}
                           /\ t \in calm => t \in acce[t]
  BY RecentStored DEF IInv, TypeOK, AcceInv, OnlyCalmMeasured
<1>6. ASSUME imuDataSeq # << >> PROVE Last(imuDataSeq) \in Frames
  <2>1. stored # << >>
    BY <1>6, Ends
  <2> QED
    BY <2>1, Ends DEF Frames
<1>7. StoredAcce(frame) \subseteq Stamps
  <2>1. Smoothed(frame) \subseteq Stamps
    BY <1>1, <1>5 DEF Smoothed
  <2>2. ASSUME imuDataSeq # << >> PROVE acce[Last(imuDataSeq)] \subseteq Stamps
    BY <1>5, <1>6, <2>2
  <2> QED
    BY <1>1, <2>1, <2>2 DEF StoredAcce
<1>8. /\ acce'[frame] = StoredAcce(frame)
      /\ \A t \in Frames : acce'[t] = acce[t]
  BY <1>1, <1>4, <1>5
<1>9. TypeOK'
  <2>1. acce' \in [Stamps -> SUBSET Stamps]
    BY <1>5, <1>7
  <2>2. calm' \subseteq Stamps
    BY <1>1, <1>5
  <2> QED
    BY <1>2, <1>3, <2>1, <2>2 DEF IInv, TypeOK
<1>10. OrderInv'
  <2>1. ASSUME NEW i \in 1 .. n + 1, NEW j \in 1 .. n + 1, i < j
        PROVE  stored'[i] < stored'[j]
    <3>1. i \in 1 .. n /\ (j = n + 1 \/ j \in 1 .. n)
      <4> HIDE DEF n
      <4> QED
        BY <1>1, <2>1
    <3>2. j \in 1 .. n => stored[i] < stored[j]
      BY <2>1, <3>1 DEF IInv, OrderInv
    <3> QED
      BY <1>1, <1>2, <3>1, <3>2
  <2> HIDE DEF n
  <2> QED
    BY <1>2, <2>1 DEF OrderInv
<1>11. SuffixInv'
  <2>1. ASSUME NEW i \in 1 .. m + 1
        PROVE  imuDataSeq'[i] = stored'[n + 1 - (m + 1) + i]
    <3>1. i = m + 1 \/ i \in 1 .. m
      BY <1>1
    <3>2. CASE i = m + 1
      <4>1. n + 1 - (m + 1) + i = n + 1
        BY <1>1, <3>2
      <4> QED
        BY <1>2, <1>3, <3>2, <4>1, Zenon
    <3>3. CASE i \in 1 .. m
      <4>1. n + 1 - (m + 1) + i = n - m + i /\ n - m + i \in 1 .. n
        BY <1>1, <3>3
      <4>2. imuDataSeq[i] = stored[n - m + i]
        BY <3>3 DEF IInv, SuffixInv
      <4> QED
        BY <1>2, <1>3, <3>3, <4>1, <4>2, Zenon
    <3> QED
      BY <3>1, <3>2, <3>3
  <2>2. ASSUME ~ epochMoved, NEW i \in 1 .. n + 1 - (m + 1)
        PROVE  stored'[i] < frame - EraseLag
    <3>1. i \in 1 .. n - m /\ i \in 1 .. n /\ n \in 1 .. n
      BY <1>1
    <3>2. stored[i] < stored[n] - EraseLag
      BY <2>2, <3>1 DEF IInv, SuffixInv
    <3>3. stored[n] < frame /\ stored[n] \in Nat /\ stored[i] \in Nat
      BY <1>1, <3>1, Ends
    <3>4. frame \in Nat /\ stored'[i] = stored[i]
      BY <1>1, <1>2, <3>1
    <3> QED
      BY <1>1, <3>2, <3>3, <3>4
  <2>3. /\ Len(imuDataSeq') <= Len(stored')
        /\ Len(stored') - Len(imuDataSeq') = n + 1 - (m + 1)
        /\ stored'[Len(stored')] = frame
    BY <1>1, <1>2, <1>3
  <2> HIDE DEF n, m
  <2>4. \A i \in 1 .. Len(imuDataSeq') :
          imuDataSeq'[i] = stored'[Len(stored') - Len(imuDataSeq') + i]
    BY <1>3, <2>1, <2>3
  <2> QED
    BY <1>3, <2>2, <2>3, <2>4 DEF SuffixInv
<1>12. TurnInv'
  <2>1. n = 0 <=> stored = << >>
    BY EmptySeq DEF IInv, TypeOK
  <2>2. imuIsCome'
    BY DEF IInv, TurnInv
  <2>3. ~ epochMoved => turned' = frame - stored'[1]
    <3>1. CASE stored = << >>
      <4>1. turned = 0 /\ stored'[1] = frame /\ frame \in Nat
        BY <1>1, <1>2, <2>1, <3>1 DEF IInv, TurnInv
      <4> QED
        BY <4>1
    <3>2. CASE stored # << >>
      <4>1. stored'[1] = stored[1]
        BY <1>2, <3>2, Ends
      <4> QED
        BY <3>2, <4>1 DEF IInv, TurnInv
    <3> QED
      BY <3>1, <3>2
  <2> HIDE DEF n
  <2> QED
    BY <1>2, <2>2, <2>3 DEF TurnInv
<1>13. AcceInv'
  <2>1. stored'[1] = IF stored = << >> THEN frame ELSE stored[1]
    <3>1. CASE stored = << >>
      BY <1>2, <3>1, EmptySeq
    <3>2. CASE stored # << >>
      BY <1>2, <3>2, Ends
    <3> QED
      BY <3>1, <3>2
  <2>2. calm \subseteq calm' /\ calm' \subseteq Frames'
    BY <1>4, <1>5
  <2>3. ASSUME NEW t \in Frames
        PROVE  acce'[t] \subseteq calm' \union {stored'[1]} /\ (t \in calm' => t \in acce'[t])
    <3>1. stored # << >>
      BY EmptySeq DEF Frames
    <3> QED
      BY <1>4, <1>5, <1>8, <2>1, <2>2, <3>1
  <2>4. /\ acce'[frame] \subseteq calm' \union {stored'[1]}
        /\ frame \in calm' => frame \in acce'[frame]
    <3>1. CASE imuDataSeq = << >>
      <4>1. stored = << >> /\ StoredAcce(frame) = {frame}
        BY <3>1, Ends DEF StoredAcce
      <4> QED
        BY <1>8, <2>1, <4>1
    <3>2. CASE imuDataSeq # << >> /\ Agreeing
      <4>1. stored # << >> /\ contactDuration > StableAfter
        BY <3>2, Ends, CountMeasures
      <4>2. acce'[frame] = Smoothed(frame) /\ frame \in calm'
        BY <1>8, <3>2, <4>1 DEF StoredAcce
      <4>3. \A u \in Recent(imuDataSeq) : acce[u] \subseteq calm \union {stored[1]}
        BY <1>5
      <4> QED
        BY <2>1, <2>2, <4>1, <4>2, <4>3 DEF Smoothed
    <3>3. CASE imuDataSeq # << >> /\ ~ Agreeing
      <4>1. stored # << >> /\ ~ (contactDuration > StableAfter)
        BY <3>3, Ends, CountMeasures
      <4>2. acce'[frame] = acce[Last(imuDataSeq)] /\ calm' = calm
        BY <1>8, <3>3, <4>1 DEF StoredAcce
      <4> QED
        BY <1>4, <1>5, <1>6, <2>1, <3>3, <4>1, <4>2
    <3> QED
      BY <3>1, <3>2, <3>3
  <2>5. \A t \in Frames' : t \in Frames \/ t = frame
    BY <1>4
  <2> QED
    BY <2>2, <2>3, <2>4, <2>5 DEF AcceInv, OnlyCalmMeasured
<1>14. CountInv'
  BY DEF IInv, CountInv
<1>15. EpochInv'
  <2>1. ASSUME ~ epochMoved, NEW i \in 1 .. n + 1
        PROVE  shift[stored'[i]] = epoch
    <3>1. i \in 1 .. n \/ i = n + 1
      BY <1>1
    <3> QED
      BY <1>2, <2>1, <3>1 DEF IInv, EpochInv
  <2>2. epoch # None
    BY DEF IInv, EpochInv
  <2> HIDE DEF n
  <2> QED
    BY <1>2, <2>1, <2>2 DEF EpochInv
<1> QED
  BY <1>9, <1>10, <1>11, <1>12, <1>13, <1>14, <1>15 DEF IInv

\* Erasing leaves the end of the list, and takes off old frames only if the
\* epoch has not moved.
LEMMA EraseStep ==
  ASSUME IInv, MainErase
  PROVE  IInv'
<1> USE DEF MainErase
<1> DEFINE n == Len(stored)
           m == Len(imuDataSeq)
<1>1. PICK now \in Stamps :
        LET validTime == now - epoch
        IN /\ validTime <= Last(ListStamps)
           /\ imuDataSeq' = SubSeq(imuDataSeq,
                                   CountBefore(ListStamps, EraseBound(validTime)) + 1,
                                   Len(imuDataSeq))
  OBVIOUS
<1> DEFINE t == EraseBound(now - epoch)
<1>2. /\ n \in Nat /\ m \in Nat /\ m <= n /\ stored # << >>
      /\ stored[n] \in Nat /\ EraseLag \in Nat /\ now \in Nat /\ epoch \in Nat
      /\ imuDataSeq[m] = stored[n] /\ imuDataSeq # << >>
      /\ n \in 1 .. n /\ stored[n] \in Stamps
  <2>1. /\ stored # << >> /\ m <= n /\ EraseLag \in Nat /\ now \in Nat
        /\ epoch \in Nat /\ imuDataSeq # << >>
    BY Ends, PreprocessAssumption DEF IInv, TypeOK, SuffixInv, EpochInv, PreprocessAssumption
  <2> QED
    BY <2>1, Ends
<1>3. /\ now - epoch <= Last(ListStamps) /\ Last(ListStamps) = StampOf(stored[n])
      /\ StampOf(stored[n]) \in Int
      /\ t = now - epoch - EraseLag /\ t \in Int /\ t <= Last(ListStamps)
  <2>1. Last(ListStamps) = StampOf(stored[n]) /\ StampOf(stored[n]) \in Int
    BY <1>2, StampsOfList DEF IInv
  <2> QED
    BY <1>1, <1>2, <2>1 DEF EraseBound
<1>4. /\ imuDataSeq' \in Seq(Stamps) /\ imuDataSeq' # << >>
      /\ \E k \in 0 .. m - 1 :
           /\ Len(imuDataSeq') = m - k
           /\ \A i \in 1 .. Len(imuDataSeq') : imuDataSeq'[i] = imuDataSeq[k + i]
           /\ k > 0 => StampOf(imuDataSeq[k]) < t
  <2>1. TypeOK /\ imuDataSeq # << >>
    BY <1>2 DEF IInv
  <2>2. ASSUME NEW u \in Int, u = t, NEW q, q = imuDataSeq'
        PROVE  /\ u <= Last(ListStamps)
               /\ q = SubSeq(imuDataSeq, CountBefore(ListStamps, u) + 1, Len(imuDataSeq))
    BY <1>1, <1>3, <2>2
  <2>3. t \in Int
    BY <1>3
  <2> HIDE DEF t, MainErase
  <2>4. ASSUME NEW u \in Int, u = t, NEW q, q = imuDataSeq'
        PROVE  /\ q \in Seq(Stamps) /\ q # << >>
               /\ \E k \in 0 .. Len(imuDataSeq) - 1 :
                    /\ Len(q) = Len(imuDataSeq) - k
                    /\ \A i \in 1 .. Len(q) : q[i] = imuDataSeq[k + i]
                    /\ k > 0 => StampOf(imuDataSeq[k]) < u
    BY <2>1, <2>2, <2>4, ErasedFront
  <2> QED
    BY <2>3, <2>4
<1>5. PICK k \in 0 .. m - 1 :
        /\ Len(imuDataSeq') = m - k
        /\ \A i \in 1 .. Len(imuDataSeq') : imuDataSeq'[i] = imuDataSeq[k + i]
        /\ k > 0 => StampOf(imuDataSeq[k]) < t
  BY <1>4
\* with one epoch for all frames, order and age are the same by either stamp
<1>a. ASSUME ~ epochMoved, NEW i \in 1 .. k
      PROVE  imuDataSeq[i] < stored[n] - EraseLag
  <2>1. \A x \in Stamps : x \in Nat
    BY Ends
  <2>2. /\ i \in 1 .. m /\ k \in 1 .. m /\ k > 0
        /\ imuDataSeq[i] \in Stamps /\ imuDataSeq[k] \in Stamps
    BY <1>2, Ends
  <2>3. i = k \/ imuDataSeq[i] < imuDataSeq[k]
    BY <2>2, Ends
  <2>4. shift[stored[n]] = epoch /\ shift[imuDataSeq[k]] = epoch
    <3>2. imuDataSeq[k] = stored[n - m + k]
      BY <2>2 DEF IInv, SuffixInv
    <3>3. n - m + k \in 1 .. n
      <4> HIDE DEF n, m
      <4> QED
        BY <1>2, <2>2
    <3>1. n - m + k \in 1 .. n /\ imuDataSeq[k] = stored[n - m + k]
      BY <3>2, <3>3
    <3> QED
      BY <1>2, <1>a, <3>1 DEF IInv, EpochInv
  <2>5. imuDataSeq[k] - epoch < now - epoch - EraseLag /\ now - epoch <= stored[n] - epoch
    BY <1>3, <1>5, <2>2, <2>4 DEF StampOf
  <2>6. imuDataSeq[i] \in Nat /\ imuDataSeq[k] \in Nat
    BY <2>1, <2>2
  <2>7. ASSUME NEW a \in Nat, NEW b \in Nat, NEW c \in Nat, a = b \/ a < b,
               b - epoch < now - epoch - EraseLag, now - epoch <= c - epoch
        PROVE  a < c - EraseLag
    BY <1>2, <2>7
  <2> HIDE DEF n, m, t, MainErase
  <2> QED
    BY <1>2, <2>3, <2>5, <2>6, <2>7
<1>6. SuffixInv'
  <2>1. ASSUME NEW i \in 1 .. m - k
        PROVE  imuDataSeq'[i] = stored[n - (m - k) + i]
    <3>1. k + i \in 1 .. m /\ n - m + (k + i) = n - (m - k) + i
      BY <1>2
    <3>2. imuDataSeq[k + i] = stored[n - m + (k + i)]
      BY <3>1 DEF IInv, SuffixInv
    <3> QED
      BY <1>5, <3>1, <3>2, Zenon
  <2>2. ASSUME ~ epochMoved, NEW i \in 1 .. n - (m - k)
        PROVE  stored[i] < stored[n] - EraseLag
    <3>1. CASE i \in 1 .. n - m
      BY <2>2, <3>1 DEF IInv, SuffixInv
    <3>2. CASE i \notin 1 .. n - m
      <4>1. i - (n - m) \in 1 .. k /\ i - (n - m) \in 1 .. m /\ n - m + (i - (n - m)) = i
        BY <1>2, <3>2
      <4>2. imuDataSeq[i - (n - m)] = stored[n - m + (i - (n - m))]
        BY <4>1 DEF IInv, SuffixInv
      <4>3. imuDataSeq[i - (n - m)] = stored[i]
        BY <4>1, <4>2, Zenon
      <4> QED
        BY <1>a, <2>2, <4>1, <4>3, Zenon
    <3> QED
      BY <3>1, <3>2
  <2>3. m - k <= n
    BY <1>2
  <2>4. UNCHANGED <<stored, epochMoved>>
    OBVIOUS
  <2>5. Len(stored') = n
    BY <2>4
  <2>6. Len(imuDataSeq') = m - k
    BY <1>5
  <2> HIDE DEF n, m, MainErase
  <2>7. \A i \in 1 .. Len(imuDataSeq') :
          imuDataSeq'[i] = stored'[Len(stored') - Len(imuDataSeq') + i]
    BY <2>1, <2>4, <2>5, <2>6
  <2>8. ~ epochMoved' => \A i \in 1 .. Len(stored') - Len(imuDataSeq') :
                            stored'[i] < stored'[Len(stored')] - EraseLag
    BY <2>2, <2>4, <2>5, <2>6
  <2> QED
    BY <1>4, <2>3, <2>5, <2>6, <2>7, <2>8 DEF SuffixInv
<1>7. TypeOK' /\ CountInv' /\ OrderInv' /\ EpochInv' /\ TurnInv' /\ AcceInv'
  <2>1. TypeOK'
    BY <1>4 DEF IInv, TypeOK
  <2>2. CountInv' /\ OrderInv' /\ EpochInv' /\ TurnInv' /\ AcceInv'
    BY DEF IInv, CountInv, OrderInv, EpochInv, TurnInv, AcceInv, Frames, OnlyCalmMeasured
  <2> QED
    BY <2>1, <2>2
<1> QED
  BY <1>6, <1>7 DEF IInv

\* Nothing else changes anything.
LEMMA Step == IInv /\ [Next]_vars => IInv'
<1> SUFFICES ASSUME IInv, [Next]_vars PROVE IInv'
  OBVIOUS
<1>1. CASE HandleFootMessage
  BY <1>1, FootStep
<1>2. CASE HandleIMUMessage
  BY <1>2, ReceiveStep
<1>3. CASE Store
  BY <1>3, StoreStep
<1>4. CASE MainErase
  BY <1>4, EraseStep
<1>5. CASE UNCHANGED vars
  BY <1>5 DEF vars, IInv, TypeOK, CountInv, OrderInv, EpochInv, SuffixInv, TurnInv, AcceInv,
              Frames, OnlyCalmMeasured
<1>6. CASE ImuSetEpoch
  BY <1>6, ImuSetStep
<1>7. CASE ImuShift
  BY <1>7, ImuShiftStep
<1>8. CASE \E topic \in Others : TestEpoch(topic) \/ SetEpoch(topic)
  BY <1>8, EpochStep
<1> QED
  BY <1>1, <1>2, <1>3, <1>4, <1>5, <1>6, <1>7, <1>8 DEF Next

-------------------------------------------------------------------------------
\* The strengthened invariant holds in every reachable state.
THEOREM Inductive == Spec => []IInv
BY InitIInv, Step, PTL DEF Spec

\* Every variable of the preprocessing keeps its type; no stamp is shifted by an
\* epoch nobody has set.
THEOREM TypeCorrect == Spec => []TypeOK
<1>1. IInv => TypeOK
  BY DEF IInv
<1> QED
  BY <1>1, Inductive, PTL

\* An acceleration contains no measurement taken while the feet were changing,
\* but the very first, whatever the two callbacks interleave.
THEOREM CalmOnly == Spec => []OnlyCalmMeasured
<1>1. IInv => OnlyCalmMeasured
  BY DEF IInv, AcceInv
<1> QED
  BY <1>1, Inductive, PTL

\* The yaw is integrated over exactly the time since the first frame, whatever
\* the main thread erases meanwhile and whichever topic has set the epoch, unless
\* another sets it once more after a frame has been shifted.
THEOREM NoGapUnlessMoved == Spec => []TurnedThroughout
<1>1. IInv => TurnedThroughout
  BY Ends DEF IInv, TurnInv, TurnedThroughout
<1> QED
  BY <1>1, Inductive, PTL

\* The average reaches back over frames that are still in the list, as long as
\* it reaches back no further than the lag of the erasure and the epoch stays.
THEOREM FullAverage == Spec => []AverageUndisturbed
<1>1. ASSUME IInv PROVE AverageUndisturbed
  <2> DEFINE n == Len(stored)
             m == Len(imuDataSeq)
  <2> SUFFICES ASSUME ~ epochMoved, n >= SmaLength,
                      stored[n] - stored[n - SmaLength + 1] <= EraseLag
               PROVE  Recent(imuDataSeq) = Recent(stored)
    BY DEF AverageUndisturbed
  <2>1. /\ n \in Nat /\ m \in Nat /\ m <= n /\ SmaLength \in Nat \ {0} /\ EraseLag \in Nat
    BY <1>1, Ends, PreprocessAssumption DEF IInv, SuffixInv, PreprocessAssumption
  <2>2. n - SmaLength + 1 \in 1 .. n /\ n \in 1 .. n
    BY <2>1
  <2>3. stored[n] \in Nat /\ stored[n - SmaLength + 1] \in Nat
    BY <1>1, <2>2, Ends
  <2>4. n - SmaLength + 1 \notin 1 .. n - m
    <3> SUFFICES ASSUME n - SmaLength + 1 \in 1 .. n - m PROVE FALSE
      OBVIOUS
    <3>1. stored[n - SmaLength + 1] < stored[n] - EraseLag
      BY <1>1 DEF IInv, SuffixInv
    <3> HIDE DEF n
    <3> QED
      BY <2>1, <2>3, <3>1
  <2>5. m >= SmaLength
    BY <2>1, <2>2, <2>4
  <2>6. \A i \in 1 .. m : imuDataSeq[i] = stored[n - m + i]
    BY <1>1 DEF IInv, SuffixInv
  <2>7. ASSUME NEW i \in 1 .. m, i + SmaLength > m
        PROVE  imuDataSeq[i] \in Recent(stored)
    <3>1. n - m + i \in 1 .. n /\ (n - m + i) + SmaLength > n
      BY <2>1, <2>7
    <3>2. stored[n - m + i] \in Recent(stored)
      BY <3>1 DEF Recent
    <3> QED
      BY <2>6, <3>2
  <2>8. ASSUME NEW j \in 1 .. n, j + SmaLength > n
        PROVE  stored[j] \in Recent(imuDataSeq)
    <3>1. /\ j - (n - m) \in 1 .. m /\ (j - (n - m)) + SmaLength > m
          /\ n - m + (j - (n - m)) = j
      BY <2>1, <2>5, <2>8
    <3>2. imuDataSeq[j - (n - m)] \in Recent(imuDataSeq)
      BY <3>1 DEF Recent
    <3> QED
      BY <2>6, <3>1, <3>2, Zenon
  <2>9. /\ \A x \in Recent(imuDataSeq) : x \in Recent(stored)
        /\ \A x \in Recent(stored) : x \in Recent(imuDataSeq)
    <3>1. \A x \in Recent(imuDataSeq) : \E i \in 1 .. m : i + SmaLength > m /\ x = imuDataSeq[i]
      BY DEF Recent
    <3>2. \A x \in Recent(stored) : \E i \in 1 .. n : i + SmaLength > n /\ x = stored[i]
      BY DEF Recent
    <3> QED
      BY <2>7, <2>8, <3>1, <3>2
  <2> QED
    BY <2>9
<1> QED
  BY <1>1, Inductive, PTL
===============================================================================
