---------------------------- MODULE TimeEpoch_proofs ----------------------------
(***************************************************************************)
(* Proofs about TimeEpoch, for all stamps, every number of radar targets   *)
(* and of messages, every offset, and any of the topics.                   *)
(***************************************************************************)
EXTENDS TimeEpoch, SequenceTheorems, FiniteSetTheorems, TLAPS

\* The stamp of the first message of a topic.
FirstStamp(u) == IF stored[u] = << >> THEN raw[u] ELSE stored[u][1].raw

\* The epoch is the first stamp of a topic that set it, and nobody shifts or
\* has shifted stamps without it.
EpochInv ==
  /\ epoch = None <=> setters = {}
  /\ epoch # None => \E u \in setters : epoch = FirstStamp(u)
  /\ \A t \in Topics : pc[t] = "shift" \/ stored[t] # << >> => epoch # None

\* A topic sets the epoch with its first message or never.
SetterInv ==
  \A t \in Topics : /\ pc[t] = "set" => stored[t] = << >>
                    /\ t \in setters /\ stored[t] = << >> => pc[t] = "shift"

\* What a callback has in its hands.
HandInv ==
  \A t \in Topics :
    /\ pc[t] # "idle" => raw[t] \in Stamps
    /\ pc[t] # "shift" => shifted[t] = << >>
    /\ pc[t] = "idle" /\ stored[t] # << >> => raw[t] = stored[t][Len(stored[t])].raw

\* The epoch behind a stamp, before it is stored.
EpochOfShifted(t, i) == raw[t] + Delay(t) - shifted[t][i]

ShiftedInv ==
  \A t \in Topics : \A i \in 1 .. Len(shifted[t]) :
    \E u \in setters : EpochOfShifted(t, i) = FirstStamp(u)

StoredInv ==
  \A t \in Topics : \A i \in 1 .. Len(stored[t]) :
    \E u \in setters : EpochOf(t, stored[t][i]) = FirstStamp(u)

Unraced == \A u, v \in setters : u = v

UnracedInv ==
  Unraced =>
    /\ dtExact
    /\ \A t \in Topics : /\ \A i \in 1 .. Len(shifted[t]) : EpochOfShifted(t, i) = epoch
                         /\ \A i \in 1 .. Len(stored[t]) : EpochOf(t, stored[t][i]) = epoch

IInv == /\ TypeOK /\ EpochInv /\ SetterInv /\ HandInv
        /\ ShiftedInv /\ StoredInv /\ UnracedInv

-------------------------------------------------------------------------------
USE DEF None

\* Stamps are numbers, and so is what is added to them.
LEMMA Numbers ==
  /\ Stamps \subseteq Nat /\ Stamps \subseteq Int
  /\ \A t \in Topics : Delay(t) \in Int /\ Count(t) \in Nat /\ Count(t) >= 1
  /\ Topics \subseteq {"imu", "radar", "leg", "foot"} /\ "imu" \in Topics
  /\ Delay("imu") = 0
BY EpochAssumption DEF EpochAssumption, Delay, Count

\* What a callback stores comes after what is there and moves nothing.
LEMMA Stored ==
  ASSUME NEW R, NEW q \in Seq(R), NEW b \in Seq(R), Len(b) >= 1
  PROVE  /\ q \o b \in Seq(R) /\ Len(q) \in Nat /\ Len(q \o b) = Len(q) + Len(b)
         /\ q \o b # << >>
         /\ \A i \in 1 .. Len(q) : (q \o b)[i] = q[i]
         /\ \A i \in 1 .. Len(b) : (q \o b)[Len(q) + i] = b[i]
BY ConcatProperties, LenProperties

\* The topics are few: less than two setters are one or none.
LEMMA FewSetters ==
  ASSUME TypeOK, Cardinality(setters) < 2
  PROVE  Unraced
<1>1. IsFiniteSet({"imu", "radar", "leg", "foot"})
  <2>1. IsFiniteSet({}) /\ IsFiniteSet({"imu"})
    BY FS_EmptySet, FS_Singleton
  <2>2. IsFiniteSet({"imu"} \union {"radar"})
    BY <2>1, FS_AddElement
  <2>3. IsFiniteSet({"imu"} \union {"radar"} \union {"leg"})
    BY <2>2, FS_AddElement
  <2>4. IsFiniteSet({"imu"} \union {"radar"} \union {"leg"} \union {"foot"})
    BY <2>3, FS_AddElement
  <2>5. {"imu", "radar", "leg", "foot"} = {"imu"} \union {"radar"} \union {"leg"} \union {"foot"}
    OBVIOUS
  <2> QED
    BY <2>4, <2>5
<1>2. IsFiniteSet(setters)
  <2>1. setters \subseteq {"imu", "radar", "leg", "foot"}
    BY Numbers DEF TypeOK
  <2> QED
    BY <1>1, <2>1, FS_Subset
<1>3. Cardinality(setters) \in Nat
  BY <1>2, FS_CardinalityType
<1>4. CASE Cardinality(setters) = 0
  BY <1>2, <1>4, FS_EmptySet DEF Unraced
<1>5. CASE Cardinality(setters) = 1
  BY <1>2, <1>5, FS_Singleton DEF Unraced
<1> QED
  BY <1>3, <1>4, <1>5

-------------------------------------------------------------------------------
\* No callback is on its way and there is no epoch.
LEMMA InitIInv == Init => IInv
<1> SUFFICES ASSUME Init PROVE IInv
  OBVIOUS
<1>1. TypeOK
  <2>1. 0 \in 0 .. MaxMessages
    BY EpochAssumption
  <2>2. << >> \in Seq(Int) /\ << >> \in Seq([raw : Stamps, stamp : Int])
    BY EmptySeq
  <2> QED
    BY <2>1, <2>2 DEF Init, TypeOK
<1> QED
  BY <1>1 DEF Init, IInv, EpochInv, SetterInv, HandInv, ShiftedInv, StoredInv, UnracedInv

\* Every step keeps the types: a stamp is only shifted when there is an epoch.
LEMMA TypeStep == TypeOK /\ HandInv /\ EpochInv /\ [Next]_vars => TypeOK'
<1> SUFFICES ASSUME TypeOK, HandInv, EpochInv, [Next]_vars PROVE TypeOK'
  OBVIOUS
<1>1. ASSUME NEW t \in Topics, Receive(t) PROVE TypeOK'
  <2>1. PICK now \in Stamps : raw' = [raw EXCEPT ![t] = now]
    BY <1>1 DEF Receive
  <2>2. dtExact' \in BOOLEAN
    <3>1. /\ dtExact \in BOOLEAN
          /\ \E stamp \in Stamps :
               dtExact' = IF t = "imu" /\ stored[t] # << >>
                          THEN dtExact /\ ImuDt(stamp) = stamp - raw[t] ELSE dtExact
      BY <1>1 DEF Receive, TypeOK
    <3> QED
      BY <3>1, Zenon
  <2>3. received' \in [Topics -> 0 .. MaxMessages]
    BY <1>1, EpochAssumption DEF Receive, TypeOK
  <2> QED
    BY <1>1, <2>1, <2>2, <2>3 DEF Receive, Goto, TypeOK
<1>2. ASSUME NEW t \in Topics, Test(t) PROVE TypeOK'
  BY <1>2 DEF Test, Goto, TypeOK
<1>3. ASSUME NEW t \in Topics, Set(t) PROVE TypeOK'
  BY <1>3 DEF Set, Goto, TypeOK, HandInv
<1>4. ASSUME NEW t \in Topics, Shift(t) PROVE TypeOK'
  <2>1. Shifted(t) \in Int
    <3>1. raw[t] \in Stamps /\ epoch \in Stamps
      BY <1>4 DEF Shift, TypeOK, EpochInv, HandInv
    <3>2. raw[t] \in Int /\ epoch \in Int /\ Delay(t) \in Int
      BY <3>1, Numbers
    <3> QED
      BY <3>2 DEF Shifted
  <2>2. Append(shifted[t], Shifted(t)) \in Seq(Int)
    BY <2>1, AppendProperties DEF TypeOK
  <2>3. shifted' \in [Topics -> Seq(Int)]
    BY <1>4, <2>2 DEF Shift, TypeOK
  <2> QED
    BY <1>4, <2>3 DEF Shift, TypeOK
<1>5. ASSUME NEW t \in Topics, Store(t) PROVE TypeOK'
  <2> DEFINE R == [raw : Stamps, stamp : Int]
             b == [i \in 1 .. Count(t) |-> [raw |-> raw[t], stamp |-> shifted[t][i]]]
  <2>1. pc[t] = "shift" /\ Len(shifted[t]) = Count(t) /\ shifted[t] \in Seq(Int)
    BY <1>5 DEF Store, Goto, TypeOK
  <2>2. raw[t] \in Stamps
    BY <2>1 DEF HandInv
  <2>3. b \in [1 .. Count(t) -> R]
    BY <2>1, <2>2
  <2>4. stored[t] \o b \in Seq(R)
    <3>1. Count(t) \in Nat /\ Count(t) >= 1 /\ stored[t] \in Seq(R)
      BY Numbers DEF TypeOK
    <3> HIDE DEF b, R
    <3>2. b \in Seq(R) /\ Len(b) = Count(t)
      BY <2>3, <3>1, IsASeq, LenProperties
    <3> QED
      BY <3>1, <3>2, Stored
  <2>5. stored' = [stored EXCEPT ![t] = @ \o b]
    BY <1>5 DEF Store
  <2> HIDE DEF b, R
  <2>6. stored' \in [Topics -> Seq(R)]
    BY <2>4, <2>5 DEF TypeOK, R
  <2>7. shifted' \in [Topics -> Seq(Int)]
    BY <1>5 DEF Store, TypeOK
  <2> QED
    BY <1>5, <2>6, <2>7 DEF Store, Goto, TypeOK, R
<1>6. CASE UNCHANGED vars
  BY <1>6 DEF vars, TypeOK
<1> QED
  BY <1>1, <1>2, <1>3, <1>4, <1>5, <1>6 DEF Next

-------------------------------------------------------------------------------
(* One lemma for each step of a callback.                                  *)

\* The start of a callback: first stamps stay, for a topic that set the epoch has
\* stored something or is still shifting; and dt is right if there was no race.
LEMMA ReceiveStep ==
  ASSUME IInv, TypeOK', NEW t \in Topics, Receive(t)
  PROVE  IInv'
<1>1. PICK now \in Stamps :
        /\ raw' = [raw EXCEPT ![t] = now]
        /\ dtExact' = IF t = "imu" /\ stored[t] # << >>
                      THEN dtExact /\ ImuDt(now) = now - raw[t] ELSE dtExact
  BY DEF Receive
<1>2. /\ pc[t] = "idle" /\ pc' = [pc EXCEPT ![t] = "test"]
      /\ epoch' = epoch /\ shifted' = shifted /\ stored' = stored /\ setters' = setters
  BY DEF Receive, Goto
<1>3. TypeOK /\ EpochInv /\ SetterInv /\ HandInv /\ ShiftedInv /\ StoredInv /\ UnracedInv
  BY DEF IInv
<1>4. shifted[t] = << >> /\ setters \subseteq Topics
  BY <1>2, <1>3 DEF HandInv, TypeOK
<1>5. \A u \in setters : FirstStamp(u)' = FirstStamp(u)
  <2>1. \A u \in setters : u = t => stored[u] # << >>
    BY <1>2, <1>3, <1>4 DEF SetterInv
  <2> QED
    BY <1>1, <1>2, <1>3, <1>4, <2>1 DEF FirstStamp, TypeOK
<1>6. EpochInv'
  <2>1. \A v \in Topics : pc'[v] = "shift" \/ stored'[v] # << >> => epoch' # None
    BY <1>2, <1>3 DEF EpochInv, TypeOK
  <2> QED
    BY <1>2, <1>3, <1>5, <2>1 DEF EpochInv
<1>7. SetterInv'
  BY <1>2, <1>3 DEF SetterInv, TypeOK
<1>8. HandInv'
  <2> SUFFICES ASSUME NEW v \in Topics
               PROVE  /\ pc'[v] # "idle" => raw'[v] \in Stamps
                      /\ pc'[v] # "shift" => shifted'[v] = << >>
                      /\ pc'[v] = "idle" /\ stored'[v] # << >> =>
                           raw'[v] = stored'[v][Len(stored'[v])].raw
    BY DEF HandInv
  <2>1. CASE v = t
    BY <1>1, <1>2, <1>3, <1>4, <2>1 DEF TypeOK
  <2>2. CASE v # t
    BY <1>1, <1>2, <1>3, <2>2 DEF TypeOK, HandInv
  <2> QED
    BY <2>1, <2>2
<1>9. \A v \in Topics : \A i \in 1 .. Len(shifted[v]) :
        shifted'[v] = shifted[v] /\ EpochOfShifted(v, i)' = EpochOfShifted(v, i)
  <2> SUFFICES ASSUME NEW v \in Topics, NEW i \in 1 .. Len(shifted[v])
               PROVE  shifted'[v] = shifted[v] /\ raw'[v] = raw[v]
    BY DEF EpochOfShifted, Delay
  <2>1. v # t
    BY <1>4
  <2> QED
    BY <1>1, <1>2, <1>3, <2>1 DEF TypeOK
<1>10. ShiftedInv'
  BY <1>2, <1>3, <1>5, <1>9 DEF ShiftedInv
<1>11. StoredInv'
  BY <1>2, <1>3, <1>5 DEF StoredInv, EpochOf, Delay
<1>12. UnracedInv'
  <2> SUFFICES ASSUME Unraced'
               PROVE  /\ dtExact'
                      /\ \A v \in Topics :
                           /\ \A i \in 1 .. Len(shifted'[v]) : EpochOfShifted(v, i)' = epoch'
                           /\ \A i \in 1 .. Len(stored'[v]) : EpochOf(v, stored'[v][i]) = epoch'
    BY DEF UnracedInv, EpochOf, Delay
  <2>1. /\ dtExact
        /\ \A v \in Topics :
             /\ \A i \in 1 .. Len(shifted[v]) : EpochOfShifted(v, i) = epoch
             /\ \A i \in 1 .. Len(stored[v]) : EpochOf(v, stored[v][i]) = epoch
    BY <1>2, <1>3 DEF UnracedInv, Unraced
  <2>2. ASSUME t = "imu" /\ stored[t] # << >> PROVE ImuDt(now) = now - raw[t]
    <3> DEFINE q == stored["imu"]
               m == q[Len(q)]
    <3>1. q \in Seq([raw : Stamps, stamp : Int]) /\ q # << >>
      BY <1>3, <2>2 DEF TypeOK
    <3>2. Len(q) \in 1 .. Len(q) /\ m.raw \in Stamps /\ m.stamp \in Int /\ Last(q) = m
      <4>1. Len(q) \in 1 .. Len(q)
        BY <3>1, EmptySeq, LenProperties
      <4>2. q[Len(q)] \in [raw : Stamps, stamp : Int]
        BY <3>1, <4>1, ElementOfSeq
      <4> QED
        BY <4>1, <4>2 DEF Last
    <3>3. m.raw + 0 - m.stamp = epoch
      BY <2>1, <3>2, Numbers DEF EpochOf
    <3>4. raw[t] = m.raw
      BY <1>2, <1>3, <2>2 DEF HandInv
    <3>5. ImuDt(now) = now - m.stamp - epoch
      BY <3>2 DEF ImuDt
    <3>6. now \in Int /\ m.raw \in Int /\ m.stamp \in Int
      BY <3>2, Numbers
    <3> HIDE DEF m, q
    <3> QED
      BY <3>3, <3>4, <3>5, <3>6
  <2>3. dtExact'
    BY <1>1, <2>1, <2>2, Zenon
  <2> QED
    BY <1>2, <1>9, <2>1, <2>3
<1> QED
  BY <1>6, <1>7, <1>8, <1>10, <1>11, <1>12 DEF IInv

\* A callback looks whether there is an epoch, and goes on to set it or to use it.
LEMMA TestStep ==
  ASSUME IInv, TypeOK', NEW t \in Topics, Test(t)
  PROVE  IInv'
<1>1. /\ pc[t] = "test" /\ pc' = [pc EXCEPT ![t] = IF epoch = None THEN "set" ELSE "shift"]
      /\ UNCHANGED <<epoch, raw, shifted, stored, received, setters, dtExact>>
  BY DEF Test, Goto
<1>2. TypeOK /\ EpochInv /\ SetterInv /\ HandInv /\ ShiftedInv /\ StoredInv /\ UnracedInv
  BY DEF IInv
<1>3. \A u : FirstStamp(u)' = FirstStamp(u)
  BY <1>1 DEF FirstStamp
<1>4. EpochInv' /\ SetterInv'
  BY <1>1, <1>2, <1>3 DEF TypeOK, EpochInv, SetterInv
<1>5. HandInv'
  BY <1>1, <1>2 DEF TypeOK, HandInv
<1>6. ShiftedInv' /\ StoredInv' /\ UnracedInv'
  BY <1>1, <1>2, <1>3 DEF ShiftedInv, StoredInv, UnracedInv, Unraced, EpochOfShifted, EpochOf, Delay
<1> QED
  BY <1>4, <1>5, <1>6 DEF IInv

\* Whoever sets the epoch does so with its first message; if nobody did before,
\* nothing has been shifted.
LEMMA SetStep ==
  ASSUME IInv, TypeOK', NEW t \in Topics, Set(t)
  PROVE  IInv'
<1>1. /\ pc[t] = "set" /\ pc' = [pc EXCEPT ![t] = "shift"]
      /\ epoch' = raw[t] /\ setters' = setters \union {t}
      /\ UNCHANGED <<raw, shifted, stored, received, dtExact>>
  BY DEF Set, Goto
<1>2. TypeOK /\ EpochInv /\ SetterInv /\ HandInv /\ ShiftedInv /\ StoredInv /\ UnracedInv
  BY DEF IInv
<1>3. \A u : FirstStamp(u)' = FirstStamp(u)
  BY <1>1 DEF FirstStamp
<1>4. stored[t] = << >> /\ raw[t] \in Stamps /\ t \notin setters /\ epoch' # None
  <2>1. stored[t] = << >> /\ raw[t] \in Stamps /\ t \notin setters
    BY <1>1, <1>2 DEF SetterInv, HandInv
  <2>2. raw[t] \in Nat
    BY <2>1, Numbers
  <2> QED
    BY <1>1, <2>1, <2>2
<1>5. EpochInv'
  BY <1>1, <1>3, <1>4 DEF EpochInv, FirstStamp
<1>6. SetterInv' /\ HandInv'
  BY <1>1, <1>2, <1>4 DEF TypeOK, SetterInv, HandInv
<1>7. ShiftedInv' /\ StoredInv'
  BY <1>1, <1>2, <1>3 DEF ShiftedInv, StoredInv, EpochOfShifted, EpochOf, Delay
<1>8. UnracedInv'
  <2> SUFFICES ASSUME Unraced' PROVE UnracedInv'
    BY DEF UnracedInv
  <2>1. setters = {}
    BY <1>1, <1>4 DEF Unraced
  <2>2. \A v \in Topics : shifted[v] = << >> /\ stored[v] = << >>
    BY <1>2, <2>1 DEF EpochInv, HandInv
  <2>3. dtExact
    BY <1>2, <2>1 DEF Unraced, UnracedInv
  <2> QED
    BY <1>1, <2>2, <2>3 DEF UnracedInv
<1> QED
  BY <1>5, <1>6, <1>7, <1>8 DEF IInv

\* A stamp is shifted by the epoch of now.
LEMMA ShiftStep ==
  ASSUME IInv, TypeOK', NEW t \in Topics, Shift(t)
  PROVE  IInv'
<1> DEFINE n == Len(shifted[t])
<1>1. /\ pc[t] = "shift" /\ shifted' = [shifted EXCEPT ![t] = Append(@, Shifted(t))]
      /\ UNCHANGED <<epoch, pc, raw, stored, received, setters, dtExact>>
  BY DEF Shift
<1>2. TypeOK /\ EpochInv /\ SetterInv /\ HandInv /\ ShiftedInv /\ StoredInv /\ UnracedInv
  BY DEF IInv
<1>3. \A u : FirstStamp(u)' = FirstStamp(u)
  BY <1>1 DEF FirstStamp
<1>4. /\ epoch # None /\ raw[t] \in Int /\ epoch \in Int /\ Delay(t) \in Int
      /\ \E u \in setters : epoch = FirstStamp(u)
  <2>1. epoch # None /\ raw[t] \in Stamps
    BY <1>1, <1>2 DEF EpochInv, HandInv
  <2>2. epoch \in Stamps
    BY <1>2, <2>1 DEF TypeOK
  <2> QED
    BY <1>2, <2>1, <2>2, Numbers DEF EpochInv
<1>5. shifted[t] \in Seq(Int) /\ n \in Nat /\ Shifted(t) \in Int
  <2>1. Shifted(t) \in Int
    BY <1>4 DEF Shifted
  <2> QED
    BY <1>2, <2>1, LenProperties DEF TypeOK
<1>6. /\ Len(shifted'[t]) = n + 1 /\ shifted'[t][n + 1] = Shifted(t)
      /\ \A i \in 1 .. n : shifted'[t][i] = shifted[t][i]
  <2>1. shifted'[t] = Append(shifted[t], Shifted(t))
    BY <1>1, <1>2 DEF TypeOK
  <2> QED
    BY <1>5, <2>1, AppendProperties
<1> HIDE DEF n
<1>7. ASSUME NEW v \in Topics, NEW i \in 1 .. Len(shifted'[v])
      PROVE  \/ i \in 1 .. Len(shifted[v]) /\ EpochOfShifted(v, i)' = EpochOfShifted(v, i)
             \/ EpochOfShifted(v, i)' = epoch
  <2>1. CASE v # t
    <3>1. shifted'[v] = shifted[v]
      BY <1>1, <1>2, <2>1 DEF TypeOK
    <3> QED
      BY <1>1, <3>1 DEF EpochOfShifted, Delay
  <2>2. CASE v = t /\ i \in 1 .. n
    BY <1>1, <1>6, <2>2 DEF EpochOfShifted, Delay, n
  <2>3. CASE v = t /\ i = n + 1
    <3>1. raw[t] + Delay(t) - Shifted(t) = epoch
      BY <1>4 DEF Shifted
    <3> QED
      BY <1>1, <1>6, <2>3, <3>1 DEF EpochOfShifted, Delay
  <2> QED
    BY <1>5, <1>6, <2>1, <2>2, <2>3
<1>8. EpochInv' /\ SetterInv'
  BY <1>1, <1>2, <1>3 DEF EpochInv, SetterInv
<1>9. HandInv'
  BY <1>1, <1>2 DEF HandInv, TypeOK
<1>10. ShiftedInv'
  <2> SUFFICES ASSUME NEW v \in Topics, NEW i \in 1 .. Len(shifted'[v])
               PROVE  \E u \in setters : EpochOfShifted(v, i)' = FirstStamp(u)
    BY <1>1, <1>3 DEF ShiftedInv
  <2> QED
    BY <1>2, <1>4, <1>7 DEF ShiftedInv
<1>11. StoredInv'
  BY <1>1, <1>2, <1>3 DEF StoredInv, EpochOf, Delay
<1>12. UnracedInv'
  <2> SUFFICES ASSUME Unraced'
               PROVE  /\ dtExact'
                      /\ \A v \in Topics :
                           /\ \A i \in 1 .. Len(shifted'[v]) : EpochOfShifted(v, i)' = epoch'
                           /\ \A i \in 1 .. Len(stored'[v]) : EpochOf(v, stored'[v][i]) = epoch'
    BY DEF UnracedInv, EpochOf, Delay
  <2>1. Unraced
    BY <1>1 DEF Unraced
  <2> QED
    BY <1>1, <1>2, <1>7, <2>1 DEF UnracedInv
<1> QED
  BY <1>8, <1>9, <1>10, <1>11, <1>12 DEF IInv

\* What is stored has the epochs it was shifted by.  The first measurement a
\* topic stores has the stamp of its first message.
LEMMA StoreStep ==
  ASSUME IInv, TypeOK', NEW t \in Topics, Store(t)
  PROVE  IInv'
<1> DEFINE R == [raw : Stamps, stamp : Int]
           b == [i \in 1 .. Count(t) |-> [raw |-> raw[t], stamp |-> shifted[t][i]]]
           n == Len(stored[t])
<1>1. /\ pc[t] = "shift" /\ pc' = [pc EXCEPT ![t] = "idle"] /\ Len(shifted[t]) = Count(t)
      /\ stored' = [stored EXCEPT ![t] = @ \o b] /\ shifted' = [shifted EXCEPT ![t] = << >>]
      /\ UNCHANGED <<epoch, raw, received, setters, dtExact>>
  BY DEF Store, Goto
<1>2. TypeOK /\ EpochInv /\ SetterInv /\ HandInv /\ ShiftedInv /\ StoredInv /\ UnracedInv
  BY DEF IInv
<1>3. epoch # None /\ raw[t] \in Stamps
  BY <1>1, <1>2 DEF EpochInv, HandInv
<1>4. /\ stored'[t] \in Seq(R) /\ n \in Nat /\ Len(stored'[t]) = n + Count(t)
      /\ Count(t) \in Nat /\ Count(t) >= 1 /\ stored'[t] # << >>
      /\ \A i \in 1 .. n : stored'[t][i] = stored[t][i]
      /\ \A i \in 1 .. Count(t) :
           stored'[t][n + i] = [raw |-> raw[t], stamp |-> shifted[t][i]]
  <2>1. Count(t) \in Nat /\ Count(t) >= 1 /\ stored[t] \in Seq(R) /\ shifted[t] \in Seq(Int)
    BY <1>2, Numbers DEF TypeOK
  <2>2. b \in [1 .. Count(t) -> R]
    BY <1>1, <1>3, <2>1
  <2>3. stored'[t] = stored[t] \o b
    BY <1>1, <1>2 DEF TypeOK
  <2>4. \A i \in 1 .. Count(t) : b[i] = [raw |-> raw[t], stamp |-> shifted[t][i]]
    OBVIOUS
  <2> HIDE DEF b, R
  <2>5. /\ stored'[t] \in Seq(R) /\ n \in Nat /\ Len(stored'[t]) = n + Count(t)
        /\ stored'[t] # << >>
        /\ \A i \in 1 .. n : stored'[t][i] = stored[t][i]
        /\ \A i \in 1 .. Count(t) : stored'[t][n + i] = b[i]
    <3>1. b \in Seq(R) /\ Len(b) = Count(t)
      BY <2>1, <2>2, IsASeq, LenProperties
    <3>2. stored'[t] # << >> /\ stored'[t] \in Seq(R) /\ n \in Nat
      BY <2>1, <2>3, <3>1, Stored
    <3>3. Len(stored'[t]) = n + Count(t)
      <4>1. Len(stored[t] \o b) = Len(stored[t]) + Len(b)
        BY <2>1, <3>1, ConcatProperties
      <4> QED
        BY <2>3, <3>1, <4>1, Zenon
    <3>4. \A i \in 1 .. n : stored'[t][i] = stored[t][i]
      BY <2>1, <2>3, <3>1, Stored
    <3>5. \A i \in 1 .. Count(t) : stored'[t][n + i] = b[i]
      BY <2>1, <2>3, <3>1, Stored
    <3> QED
      BY <3>2, <3>3, <3>4, <3>5
  <2> QED
    BY <2>1, <2>4, <2>5
<1> HIDE DEF n, R, b
\* every measurement was stored before or has just been shifted
<1>5. ASSUME NEW v \in Topics, NEW i \in 1 .. Len(stored'[v])
      PROVE  \/ i \in 1 .. Len(stored[v]) /\ stored'[v][i] = stored[v][i]
             \/ \E j \in 1 .. Len(shifted[v]) : EpochOf(v, stored'[v][i]) = EpochOfShifted(v, j)
  <2>1. CASE v # t
    BY <1>1, <1>2, <2>1 DEF TypeOK
  <2>2. CASE v = t /\ i \in 1 .. n
    BY <1>4, <2>2 DEF n
  <2>3. CASE v = t /\ i \in n + 1 .. n + Count(t)
    <3> DEFINE j == i - n
    <3>1. j \in 1 .. Count(t) /\ i = n + j
      BY <1>4, <2>3
    <3>2. stored'[v][i] = [raw |-> raw[t], stamp |-> shifted[t][j]]
      BY <1>4, <2>3, <3>1
    <3> HIDE DEF j
    <3>3. EpochOf(v, stored'[v][i]) = EpochOfShifted(v, j)
      BY <2>3, <3>2 DEF EpochOf, EpochOfShifted
    <3> QED
      BY <1>1, <2>3, <3>1, <3>3
  <2> QED
    BY <1>4, <2>1, <2>2, <2>3
<1>6. \A v \in Topics : /\ stored'[v] = << >> => stored[v] = << >>
                        /\ shifted'[v] = shifted[v] \/ shifted'[v] = << >>
  BY <1>1, <1>2, <1>4 DEF TypeOK
<1>7. \A u \in setters : FirstStamp(u)' = FirstStamp(u)
  <2> SUFFICES ASSUME NEW u \in setters PROVE FirstStamp(u)' = FirstStamp(u)
    OBVIOUS
  <2>1. u \in Topics
    BY <1>2 DEF TypeOK
  <2>2. CASE u # t
    BY <1>1, <1>2, <2>1, <2>2 DEF FirstStamp, TypeOK
  <2>3. CASE u = t /\ stored[t] # << >>
    <3>1. 1 \in 1 .. n
      BY <1>2, <1>4, <2>3, EmptySeq, LenProperties DEF TypeOK, n
    <3>2. stored'[t][1] = stored[t][1]
      BY <1>4, <3>1
    <3> QED
      BY <1>4, <2>3, <3>2 DEF FirstStamp
  <2>4. CASE u = t /\ stored[t] = << >>
    <3>1. n = 0
      BY <2>4 DEF n
    <3>2. stored'[t][n + 1] = [raw |-> raw[t], stamp |-> shifted[t][1]]
      BY <1>4
    <3>3. stored'[t][1].raw = raw[t]
      BY <3>1, <3>2
    <3> QED
      BY <1>1, <1>4, <2>4, <3>3 DEF FirstStamp
  <2> QED
    BY <2>2, <2>3, <2>4
<1>8. EpochInv'
  <2>1. \A v \in Topics : pc'[v] = "shift" \/ stored'[v] # << >> => epoch' # None
    BY <1>1, <1>3
  <2> QED
    BY <1>1, <1>2, <1>7, <2>1 DEF EpochInv
<1>9. SetterInv'
  BY <1>1, <1>2, <1>4 DEF SetterInv, TypeOK
<1>10. HandInv'
  <2> SUFFICES ASSUME NEW v \in Topics
               PROVE  /\ pc'[v] # "idle" => raw'[v] \in Stamps
                      /\ pc'[v] # "shift" => shifted'[v] = << >>
                      /\ pc'[v] = "idle" /\ stored'[v] # << >> =>
                           raw'[v] = stored'[v][Len(stored'[v])].raw
    BY DEF HandInv
  <2>1. CASE v = t
    <3>1. stored'[t][n + Count(t)] = [raw |-> raw[t], stamp |-> shifted[t][Count(t)]]
      BY <1>4
    <3>2. stored'[t][Len(stored'[t])].raw = raw[t]
      BY <1>4, <3>1
    <3> QED
      BY <1>1, <1>2, <1>3, <2>1, <3>2 DEF TypeOK
  <2>2. CASE v # t
    BY <1>1, <1>2, <2>2 DEF TypeOK, HandInv
  <2> QED
    BY <2>1, <2>2
<1>11. \A v \in Topics : \A i \in 1 .. Len(shifted'[v]) :
         i \in 1 .. Len(shifted[v]) /\ EpochOfShifted(v, i)' = EpochOfShifted(v, i)
  BY <1>1, <1>6 DEF EpochOfShifted, Delay
<1>12. ShiftedInv'
  <2> SUFFICES ASSUME NEW v \in Topics, NEW i \in 1 .. Len(shifted'[v])
               PROVE  \E u \in setters' : EpochOfShifted(v, i)' = FirstStamp(u)'
    BY DEF ShiftedInv
  <2> QED
    BY <1>1, <1>2, <1>7, <1>11 DEF ShiftedInv
<1>13. StoredInv'
  <2> SUFFICES ASSUME NEW v \in Topics, NEW i \in 1 .. Len(stored'[v])
               PROVE  \E u \in setters' : EpochOf(v, stored'[v][i]) = FirstStamp(u)'
    BY DEF StoredInv, EpochOf, Delay
  <2>1. \E u \in setters : EpochOf(v, stored'[v][i]) = FirstStamp(u)
    BY <1>2, <1>5 DEF StoredInv, ShiftedInv
  <2> QED
    BY <1>1, <1>7, <2>1
<1>14. UnracedInv'
  <2> SUFFICES ASSUME Unraced'
               PROVE  /\ dtExact'
                      /\ \A v \in Topics :
                           /\ \A i \in 1 .. Len(shifted'[v]) : EpochOfShifted(v, i)' = epoch'
                           /\ \A i \in 1 .. Len(stored'[v]) : EpochOf(v, stored'[v][i]) = epoch'
    BY DEF UnracedInv, EpochOf, Delay
  <2>1. Unraced
    BY <1>1 DEF Unraced
  <2>2. /\ dtExact
        /\ \A v \in Topics :
             /\ \A i \in 1 .. Len(shifted[v]) : EpochOfShifted(v, i) = epoch
             /\ \A i \in 1 .. Len(stored[v]) : EpochOf(v, stored[v][i]) = epoch
    BY <1>2, <2>1 DEF UnracedInv
  <2>3. ASSUME NEW v \in Topics, NEW i \in 1 .. Len(stored'[v])
        PROVE  EpochOf(v, stored'[v][i]) = epoch
    BY <1>5, <2>2
  <2> QED
    BY <1>1, <1>11, <2>2, <2>3
<1> QED
  BY <1>8, <1>9, <1>10, <1>12, <1>13, <1>14 DEF IInv

-------------------------------------------------------------------------------
\* Every step keeps the invariant.
LEMMA StepIInv == IInv /\ [Next]_vars => IInv'
<1> SUFFICES ASSUME IInv, [Next]_vars PROVE IInv'
  OBVIOUS
<1>1. TypeOK'
  BY TypeStep DEF IInv
<1>2. CASE UNCHANGED vars
  <2>1. EpochInv' /\ SetterInv' /\ HandInv'
    BY <1>2 DEF vars, IInv, EpochInv, SetterInv, HandInv, FirstStamp
  <2>2. ShiftedInv' /\ StoredInv'
    BY <1>2 DEF vars, IInv, ShiftedInv, StoredInv, FirstStamp, EpochOfShifted, EpochOf, Delay
  <2>3. UnracedInv'
    BY <1>2 DEF vars, IInv, UnracedInv, Unraced, EpochOfShifted, EpochOf, Delay
  <2> QED
    BY <1>1, <2>1, <2>2, <2>3 DEF IInv
<1>3. CASE Next
  BY <1>1, <1>3, ReceiveStep, TestStep, SetStep, ShiftStep, StoreStep DEF Next
<1> QED
  BY <1>2, <1>3

\* The invariant holds in every reachable state.
LEMMA Invariance == Spec => []IInv
<1> QED
  BY InitIInv, StepIInv, PTL DEF Spec

-------------------------------------------------------------------------------
(* What the runs check, for all constants.                                 *)

\* Callbacks of topics whose steps interleave keep every variable in its type:
\* the epoch is never read before somebody has set it.
THEOREM TypeCorrect == Spec => []TypeOK
<1>1. IInv => TypeOK
  BY DEF IInv
<1> QED
  BY <1>1, Invariance, PTL

\* The measurements of a topic are the elements of its list.
LEMMA MeasurementAt ==
  ASSUME TypeOK, NEW t \in Topics, NEW m \in Measurements(t)
  PROVE  \E i \in 1 .. Len(stored[t]) : m = stored[t][i]
<1>1. stored[t] \in Seq([raw : Stamps, stamp : Int])
  BY DEF TypeOK
<1>2. DOMAIN stored[t] = 1 .. Len(stored[t])
  BY <1>1, LenProperties
<1> QED
  BY <1>2 DEF Measurements, ToSet

\* As long as one topic has set the epoch, all measurements share it and every dt
\* of the IMU is right (data_manager.h:170, 195-199, 261-271).
THEOREM Aligned == Spec => []AlignedUnlessRaced
<1>1. ASSUME IInv PROVE AlignedUnlessRaced
  <2> SUFFICES ASSUME Cardinality(setters) < 2
               PROVE  /\ dtExact
                      /\ \A t \in Topics : \A m \in Measurements(t) : EpochOf(t, m) = epoch
    BY DEF AlignedUnlessRaced, AlignedTo
  <2>1. /\ dtExact
        /\ \A t \in Topics : \A i \in 1 .. Len(stored[t]) : EpochOf(t, stored[t][i]) = epoch
    BY <1>1, FewSetters DEF IInv, UnracedInv
  <2> QED
    BY <1>1, <2>1, MeasurementAt DEF IInv
<1> QED
  BY <1>1, Invariance, PTL

\* Even in a race, a measurement is shifted by the first stamp of a topic that set
\* the epoch.
THEOREM FirstStampsOnly == Spec => []EpochIsFirstStamp
<1>1. ASSUME IInv PROVE EpochIsFirstStamp
  <2> SUFFICES ASSUME NEW t \in Topics, NEW m \in Measurements(t)
               PROVE  \E u \in setters : EpochOf(t, m) = FirstStamp(u)
    BY DEF EpochIsFirstStamp, FirstStamp
  <2> QED
    BY <1>1, MeasurementAt DEF IInv, StoredInv
<1> QED
  BY <1>1, Invariance, PTL

\* The second finding happens in no other way: IMU frames and radar targets have
\* one epoch, as the comment says (data_manager.h:265), unless two topics have set
\* it.  (Without a radar topic there is nothing to align.)
THEOREM MisalignedOnlyByRace ==
  ASSUME "radar" \in Topics
  PROVE  Spec => [](RadarAlignedToImu \/ \E u, v \in setters : u # v)
<1>1. ASSUME IInv, Unraced PROVE RadarAlignedToImu
  <2> SUFFICES ASSUME NEW m \in Measurements("imu"), NEW n \in Measurements("radar")
               PROVE  EpochOf("imu", m) = EpochOf("radar", n)
    BY DEF RadarAlignedToImu
  <2>1. \A t \in Topics : \A i \in 1 .. Len(stored[t]) : EpochOf(t, stored[t][i]) = epoch
    BY <1>1 DEF IInv, UnracedInv
  <2>2. EpochOf("imu", m) = epoch /\ EpochOf("radar", n) = epoch
    BY <1>1, <2>1, MeasurementAt, Numbers DEF IInv
  <2> QED
    BY <2>2
<1>2. IInv => RadarAlignedToImu \/ \E u, v \in setters : u # v
  BY <1>1 DEF Unraced
<1> QED
  BY <1>2, Invariance, PTL

\* The epoch only changes in the callback of a topic that has stored nothing yet.
EpochSetEarly == epoch' # epoch => \E t \in Topics : stored[t] = << >>

\* Once every topic has stored a measurement the epoch is final: a race is over
\* with the first messages (data_manager.h:195-199, 261-271).
THEOREM EpochSettles == Spec => [][EpochSetEarly]_vars
<1>1. ASSUME IInv, Next PROVE EpochSetEarly
  <2> SUFFICES ASSUME epoch' # epoch PROVE \E t \in Topics : stored[t] = << >>
    BY DEF EpochSetEarly
  <2>1. PICK t \in Topics : Receive(t) \/ Test(t) \/ Set(t) \/ Shift(t) \/ Store(t)
    BY <1>1 DEF Next
  <2>2. Set(t)
    BY <2>1 DEF Receive, Test, Shift, Store
  <2>3. pc[t] = "set"
    BY <2>2 DEF Set, Goto
  <2> QED
    BY <1>1, <2>3 DEF IInv, SetterInv
<1> QED
  BY <1>1, Invariance, PTL DEF Spec
===============================================================================
