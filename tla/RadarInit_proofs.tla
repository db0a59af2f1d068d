---------------------------- MODULE RadarInit_proofs ----------------------------
(***************************************************************************)
(* Proofs about the initialisation, for all stamps, scan sizes, frame      *)
(* spans, least numbers of targets and numbers of frames kept.             *)
(***************************************************************************)
EXTENDS RadarInit, SensorQueue_proofs

\* No IMU frame is missing before the last one.
ImuInv ==
  /\ \A i, j \in 1 .. Len(imuDataSeq) : i < j => imuDataSeq[i] < imuDataSeq[j]
  /\ \A i \in 1 .. Len(imuDataSeq) : \A u \in ImuStamps :
       u < imuDataSeq[i] => \E j \in 1 .. Len(imuDataSeq) : imuDataSeq[j] = u

\* The targets gathered are in time order, and older than the scan in hand.
TarInv ==
  /\ InOrder(tarAry)
  /\ \A i \in 1 .. Len(tarAry) : tarAry[i] <= radarEnd
  /\ pcRadar = "organize" => /\ scan \in Scans /\ scan.stamp = radarEnd
                             /\ \A i \in 1 .. Len(tarAry) : tarAry[i] < radarEnd

\* Frames in time order, disjoint, a frame span apart: any two of them.
OrderedFrames(fs) ==
  /\ \A i \in 1 .. Len(fs) : fs[i].first <= fs[i].last
  /\ \A i, j \in 1 .. Len(fs) : i < j =>
       fs[i].last < fs[j].first /\ fs[j].last - fs[i].last >= FrameSpan

\* The head time is where the last frame ended; what is gathered comes later.
FrameInv ==
  /\ OrderedFrames(radarTarAryForInit)
  /\ Len(radarTarAryForInit) <= NumFrames
  /\ radarTarAryForInit # << >> =>
       /\ scanHeadTime = radarTarAryForInit[Len(radarTarAryForInit)].last
       /\ scanHeadTime <= radarEnd
       /\ \A i \in 1 .. Len(tarAry) : tarAry[i] > scanHeadTime
       /\ pcRadar = "organize" => scanHeadTime < radarEnd

\* The StateManager thread initialises once; only then are scans dropped.
PhaseInv ==
  /\ initialized => pcSM = "running"
  /\ pcRadar \in {"drop", "toggle"} => initialized
  /\ pcSM = "consume" => ready

\* While no frame had too few targets, the flag means a full list, from when it
\* is raised until the list is copied.
ReadyInv ==
  ~spoilt /\ ((pcSM = "top" /\ ready) \/ pcSM \in {"consume", "copy"})
    => Len(radarTarAryForInit) = NumFrames

CopyInv ==
  /\ OrderedFrames(frames)
  /\ pcSM = "initialize" /\ ~spoilt => Len(frames) = NumFrames
  /\ pcSM = "initialize" /\ ~crashed => frames # << >>

IInv == /\ TypeOK /\ ImuInv /\ TarInv /\ FrameInv /\ PhaseInv /\ ReadyInv /\ CopyInv
        /\ CrashesForCause /\ InitCovered

-------------------------------------------------------------------------------
USE DEF None, listVars, organizerVars, sharedVars, radarVars, smVars

\* The constants in the form the arithmetic below asks for.
LEMMA Numbers ==
  /\ \A t \in ScanStamps : t \in Nat
  /\ \A t \in ImuStamps : t \in Nat
  /\ ImuStamps \subseteq Int /\ ScanStamps \subseteq Int
  /\ \A n \in ScanSizes : n \in Nat
  /\ FrameSpan \in Nat /\ FrameSpan > 0 /\ MinTargets \in Nat /\ MinTargets > 0
  /\ NumFrames \in Nat /\ NumFrames > 1
  /\ radarEnd \in ScanStamps \union {None} => radarEnd \in Int /\ radarEnd >= None
<1>1. /\ ScanStamps \subseteq Nat /\ ImuStamps \subseteq Nat /\ ScanSizes \subseteq Nat
      /\ FrameSpan \in Nat \ {0} /\ MinTargets \in Nat \ {0}
      /\ NumFrames \in Nat /\ NumFrames > 1
  BY InitAssumption DEF InitAssumption
<1>2. /\ FrameSpan \in Nat /\ FrameSpan > 0 /\ MinTargets \in Nat /\ MinTargets > 0
  BY <1>1
<1>3. /\ \A t \in ScanStamps : t \in Nat
      /\ \A t \in ImuStamps : t \in Nat
      /\ \A n \in ScanSizes : n \in Nat
  BY <1>1
<1>4. ImuStamps \subseteq Int /\ ScanStamps \subseteq Int
  BY <1>3
<1>5. radarEnd \in ScanStamps \union {None} => radarEnd \in Int /\ radarEnd >= None
  BY <1>3
<1> QED
  BY <1>1, <1>2, <1>3, <1>4, <1>5

\* Booleans, for the provers.
LEMMA Flags ==
  ASSUME TypeOK
  PROVE  /\ ready \in BOOLEAN /\ initialized \in BOOLEAN /\ snapReady \in BOOLEAN
         /\ crashed \in BOOLEAN /\ spoilt \in BOOLEAN
BY DEF TypeOK

\* The frames of a list, and its last one, are made of radar stamps.
LEMMA FrameOf ==
  ASSUME NEW fs \in Seq(Frames)
  PROVE  /\ Len(fs) \in Nat
         /\ \A i \in 1 .. Len(fs) : /\ fs[i] \in Frames
                                    /\ fs[i].first \in ScanStamps /\ fs[i].last \in ScanStamps
                                    /\ fs[i].first \in Nat /\ fs[i].last \in Nat
         /\ fs # << >> => Len(fs) > 0 /\ Last(fs) = fs[Len(fs)] /\ Last(fs) \in Frames
<1>1. Len(fs) \in Nat /\ \A i \in 1 .. Len(fs) : fs[i] \in Frames
  BY ElementOfSeq, LenProperties
<1>2. \A f \in Frames : f.first \in ScanStamps /\ f.last \in ScanStamps
  BY DEF Frames
<1>3. fs # << >> => Len(fs) > 0 /\ Len(fs) \in 1 .. Len(fs) /\ Last(fs) = fs[Len(fs)]
  BY <1>1, EmptySeq DEF Last
<1> QED
  BY <1>1, <1>2, <1>3, Numbers

\* What the organizer has in hand: the targets gathered and those of the scan.
LEMMA Gathering ==
  ASSUME IInv, pcRadar = "organize"
  PROVE  /\ Gathered \in Seq(ScanStamps)
         /\ Len(Gathered) \in Nat
         /\ \A i \in 1 .. Len(Gathered) : Gathered[i] \in ScanStamps /\ Gathered[i] \in Nat
         /\ InOrder(Gathered)
         /\ \A i \in 1 .. Len(Gathered) : Gathered[i] <= radarEnd
         /\ radarTarAryForInit # << >> => \A i \in 1 .. Len(Gathered) : Gathered[i] > scanHeadTime
         /\ Gathered # << >> => /\ Len(Gathered) > 0
                                /\ Head(Gathered) = Gathered[1]
                                /\ Last(Gathered) = Gathered[Len(Gathered)]
<1> DEFINE data == [i \in 1 .. scan.size |-> scan.stamp]
           G == tarAry \o data
<1>1. /\ scan \in Scans /\ scan.stamp = radarEnd /\ InOrder(tarAry)
      /\ tarAry \in Seq(ScanStamps)
      /\ \A i \in 1 .. Len(tarAry) : tarAry[i] < radarEnd
  BY DEF IInv, TypeOK, TarInv
<1>2. scan.stamp \in ScanStamps /\ scan.size \in Nat
  BY <1>1, Numbers DEF Scans
<1>3. data \in Seq(ScanStamps) /\ Len(data) = scan.size /\ \A i \in 1 .. scan.size : data[i] = radarEnd
  BY <1>1, <1>2, IsASeq
<1>4. /\ Len(tarAry) \in Nat
      /\ \A i \in 1 .. Len(tarAry) : tarAry[i] \in ScanStamps /\ tarAry[i] \in Nat
  BY <1>1, ElementOfSeq, LenProperties, Numbers
<1> HIDE DEF data
<1>5. /\ G \in Seq(ScanStamps)
      /\ Len(G) = Len(tarAry) + Len(data)
      /\ \A i \in 1 .. Len(tarAry) + Len(data) :
           G[i] = IF i <= Len(tarAry) THEN tarAry[i] ELSE data[i - Len(tarAry)]
  BY <1>1, <1>3, ConcatProperties
<1> HIDE DEF G
<1>6. ASSUME NEW i \in 1 .. Len(G)
      PROVE  \/ i \in 1 .. Len(tarAry) /\ G[i] = tarAry[i]
             \/ i > Len(tarAry) /\ G[i] = radarEnd
  <2>1. CASE i <= Len(tarAry)
    BY <1>3, <1>2, <1>4, <1>5, <2>1
  <2>2. CASE ~ (i <= Len(tarAry))
    <3>1. i - Len(tarAry) \in 1 .. scan.size /\ i \in 1 .. Len(tarAry) + Len(data)
      BY <1>2, <1>3, <1>4, <1>5, <2>2
    <3>2. G[i] = data[i - Len(tarAry)]
      BY <1>5, <2>2, <3>1
    <3> QED
      BY <1>3, <1>4, <2>2, <3>1, <3>2
  <2> QED
    BY <2>1, <2>2
<1>7. /\ Len(G) \in Nat
      /\ \A i \in 1 .. Len(G) : G[i] \in ScanStamps
  BY <1>5, ElementOfSeq, LenProperties
<1>8. radarEnd \in Nat
  BY <1>1, <1>2, Numbers
<1>9. ASSUME NEW i \in 1 .. Len(G), NEW j \in 1 .. Len(G), i < j
      PROVE  G[i] <= G[j]
  <2>1. \A k, m \in 1 .. Len(tarAry) : k < m => tarAry[k] <= tarAry[m]
    BY <1>1 DEF InOrder
  <2>2. CASE j \in 1 .. Len(tarAry) /\ G[j] = tarAry[j]
    <3>1. i \in 1 .. Len(tarAry) /\ ~ (i > Len(tarAry))
      BY <1>4, <1>7, <1>9, <2>2
    <3>2. G[i] = tarAry[i]
      BY <1>6, <3>1
    <3> QED
      BY <1>9, <2>1, <2>2, <3>1, <3>2
  <2>3. CASE j > Len(tarAry) /\ G[j] = radarEnd
    <3>1. CASE i \in 1 .. Len(tarAry) /\ G[i] = tarAry[i]
      BY <1>1, <1>4, <1>8, <2>3, <3>1
    <3>2. CASE G[i] = radarEnd
      BY <1>8, <2>3, <3>2
    <3> QED
      BY <1>6, <3>1, <3>2
  <2> QED
    BY <1>6, <2>2, <2>3
<1>10. \A i \in 1 .. Len(G) : G[i] <= radarEnd
  <2> SUFFICES ASSUME NEW i \in 1 .. Len(G) PROVE G[i] <= radarEnd
    OBVIOUS
  <2>1. CASE i \in 1 .. Len(tarAry) /\ G[i] = tarAry[i]
    BY <1>1, <1>4, <1>8, <2>1
  <2>2. CASE G[i] = radarEnd
    BY <1>8, <2>2
  <2> QED
    BY <1>6, <2>1, <2>2
<1>11. ASSUME radarTarAryForInit # << >>, NEW i \in 1 .. Len(G)
       PROVE  G[i] > scanHeadTime
  <2>1. /\ \A k \in 1 .. Len(tarAry) : tarAry[k] > scanHeadTime
        /\ scanHeadTime < radarEnd
    BY <1>11 DEF IInv, FrameInv
  <2>2. scanHeadTime \in Int
    BY Numbers DEF IInv, TypeOK
  <2>3. CASE i \in 1 .. Len(tarAry) /\ G[i] = tarAry[i]
    BY <2>1, <2>3
  <2>4. CASE G[i] = radarEnd
    BY <1>8, <2>1, <2>2, <2>4
  <2> QED
    BY <1>6, <2>3, <2>4
<1>12. G # << >> => Len(G) > 0 /\ Head(G) = G[1] /\ Last(G) = G[Len(G)]
  BY <1>5, <1>7, EmptySeq DEF Last
<1>13. G = Gathered
  BY DEF G, data, Gathered
<1>14. \A i \in 1 .. Len(G) : G[i] \in Nat
  BY <1>7, Numbers
<1>15. InOrder(G)
  BY <1>9 DEF InOrder
<1> QED
  BY <1>5, <1>7, <1>10, <1>11, <1>12, <1>13, <1>14, <1>15, Zenon

\* Appending a frame that starts after the last one ended, and ends a frame
\* span later at least, keeps the frames in order; so does dropping the first.
LEMMA FramePushed ==
  ASSUME NEW fs \in Seq(Frames), OrderedFrames(fs), NEW f \in Frames, f.first <= f.last,
         fs # << >> => fs[Len(fs)].last < f.first /\ f.last - fs[Len(fs)].last >= FrameSpan,
         NEW all, all = Append(fs, f)
  PROVE  /\ all \in Seq(Frames) /\ OrderedFrames(all)
         /\ Len(all) = Len(fs) + 1 /\ all[Len(all)] = f /\ Len(fs) \in Nat
<1>1. /\ Len(fs) \in Nat
      /\ \A i \in 1 .. Len(fs) : fs[i].first \in Nat /\ fs[i].last \in Nat
  BY FrameOf
<1>2. /\ all \in Seq(Frames) /\ Len(all) = Len(fs) + 1
      /\ \A i \in 1 .. Len(fs) : all[i] = fs[i]
      /\ all[Len(fs) + 1] = f
  BY AppendProperties
<1>3. f.first \in Nat /\ f.last \in Nat
  BY Numbers DEF Frames
<1>4. \A i \in 1 .. Len(all) : all[i].first <= all[i].last
  <2> SUFFICES ASSUME NEW i \in 1 .. Len(all) PROVE all[i].first <= all[i].last
    OBVIOUS
  <2>1. CASE i \in 1 .. Len(fs)
    BY <1>2, <2>1 DEF OrderedFrames
  <2>2. CASE i = Len(fs) + 1
    BY <1>2, <2>2
  <2> QED
    BY <1>1, <1>2, <2>1, <2>2
<1>5. ASSUME NEW i \in 1 .. Len(all), NEW j \in 1 .. Len(all), i < j
      PROVE  all[i].last < all[j].first /\ all[j].last - all[i].last >= FrameSpan
  <2>1. i \in 1 .. Len(fs) /\ all[i] = fs[i]
    BY <1>1, <1>2, <1>5
  <2>2. CASE j \in 1 .. Len(fs)
    <3>1. all[j] = fs[j]
      BY <1>2, <2>2
    <3> QED
      BY <1>5, <2>1, <2>2, <3>1 DEF OrderedFrames
  <2>3. CASE j = Len(fs) + 1
    <3> DEFINE k == Len(fs)
    <3>1. k \in 1 .. Len(fs) /\ fs # << >>
      BY <1>1, <2>1
    <3>2. fs[k].last < f.first /\ f.last - fs[k].last >= FrameSpan
      BY <3>1
    <3>3. fs[i].last <= fs[k].last
      <4>1. CASE i = k
        BY <1>1, <2>1, <4>1
      <4>2. CASE i < k
        BY <1>1, <2>1, <3>1, <4>2 DEF OrderedFrames
      <4> QED
        BY <1>1, <2>1, <4>1, <4>2
    <3>4. all[j] = f /\ fs[i].last \in Nat /\ fs[k].last \in Nat
      BY <1>1, <1>2, <2>1, <2>3, <3>1
    <3> HIDE DEF k
    <3> QED
      BY <1>3, <2>1, <3>2, <3>3, <3>4, Numbers
  <2> QED
    BY <1>1, <1>2, <2>2, <2>3
<1>6. OrderedFrames(all)
  BY <1>4, <1>5 DEF OrderedFrames
<1> QED
  BY <1>1, <1>2, <1>6

\* A list that loses its oldest frame keeps its order and its newest one.
LEMMA FrameDropped ==
  ASSUME NEW fs \in Seq(Frames), OrderedFrames(fs), Len(fs) > 1, NEW r, r = Tail(fs)
  PROVE  /\ r \in Seq(Frames) /\ OrderedFrames(r)
         /\ Len(r) = Len(fs) - 1 /\ r[Len(r)] = fs[Len(fs)] /\ r # << >>
<1>1. fs # << >> /\ Len(fs) \in Nat
  OBVIOUS
<1>2. r \in Seq(Frames) /\ Len(r) = Len(fs) - 1 /\ \A i \in 1 .. Len(r) : r[i] = fs[i + 1]
  BY <1>1, HeadTailProperties
<1>3. \A i \in 1 .. Len(r) : i + 1 \in 1 .. Len(fs)
  BY <1>1, <1>2
<1>4. OrderedFrames(r)
  BY <1>1, <1>2, <1>3 DEF OrderedFrames
<1>5. Len(r) \in 1 .. Len(r) /\ Len(r) + 1 = Len(fs)
  BY <1>1, <1>2
<1>6. r # << >>
  BY <1>2, <1>5, EmptySeq
<1> QED
  BY <1>2, <1>4, <1>5, <1>6

-------------------------------------------------------------------------------
(* Steps.                                                                  *)

\* Before the first message nothing is gathered and nothing has died.
LEMMA InitIInv == Init => IInv
<1> SUFFICES ASSUME Init PROVE IInv
  OBVIOUS
<1> USE DEF Init
<1>1. Len(<< >>) = 0 /\ \A S : << >> \in Seq(S)
  BY EmptySeq
<1>2. TypeOK
  BY <1>1 DEF TypeOK
<1>3. ImuInv /\ TarInv /\ PhaseInv /\ ReadyInv
  BY <1>1 DEF ImuInv, TarInv, InOrder, PhaseInv, ReadyInv
<1>5. FrameInv /\ CopyInv
  BY <1>1, Numbers DEF FrameInv, OrderedFrames, CopyInv
<1>4. CrashesForCause /\ InitCovered
  BY DEF CrashesForCause, InitCovered
<1> QED
  BY <1>2, <1>3, <1>4, <1>5 DEF IInv

\* An IMU frame extends a list that has no hole.
LEMMA ImuStep ==
  ASSUME IInv, ~crashed, HandleIMUMessage
  PROVE  IInv'
<1>1. PICK t \in ImuStamps :
        /\ \A i \in 1 .. Len(imuDataSeq) : imuDataSeq[i] < t
        /\ \A u \in ImuStamps : u < t => \E i \in 1 .. Len(imuDataSeq) : imuDataSeq[i] = u
        /\ imuDataSeq' = Append(imuDataSeq, t)
  BY DEF HandleIMUMessage
<1>2. UNCHANGED <<radarEnd, organizerVars, sharedVars, radarVars, smVars, crashed, spoilt>>
  BY DEF HandleIMUMessage
<1> DEFINE q == imuDataSeq
           r == imuDataSeq'
<1>3. q \in Seq(ImuStamps)
  BY DEF IInv, TypeOK
<1>4. /\ r \in Seq(ImuStamps) /\ Len(r) = Len(q) + 1 /\ Len(q) \in Nat
      /\ \A i \in 1 .. Len(q) : r[i] = q[i]
      /\ r[Len(q) + 1] = t
  BY <1>1, <1>3, AppendProperties, LenProperties
<1>5. TypeOK'
  BY <1>2, <1>4 DEF IInv, TypeOK
<1>6. /\ \A i, j \in 1 .. Len(q) : i < j => q[i] < q[j]
      /\ \A i \in 1 .. Len(q) : \A u \in ImuStamps :
           u < q[i] => \E j \in 1 .. Len(q) : q[j] = u
      /\ \A i \in 1 .. Len(q) : q[i] < t
      /\ \A u \in ImuStamps : u < t => \E i \in 1 .. Len(q) : q[i] = u
  BY <1>1 DEF IInv, ImuInv
<1>7. (\E i \in 1 .. Len(q) : q[i] = vset) => \E i \in 1 .. Len(r) : r[i] = vset
  BY <1>4
<1> HIDE DEF q, r
<1>8. ASSUME NEW i \in 1 .. Len(r), NEW j \in 1 .. Len(r), i < j
      PROVE  r[i] < r[j]
  <2>1. i \in 1 .. Len(q) /\ r[i] = q[i]
    BY <1>4, <1>8
  <2>2. CASE j \in 1 .. Len(q)
    BY <1>4, <1>6, <1>8, <2>1, <2>2
  <2>3. CASE j = Len(q) + 1
    BY <1>4, <1>6, <2>1, <2>3
  <2> QED
    BY <1>4, <2>2, <2>3
<1>9. ASSUME NEW i \in 1 .. Len(r), NEW u \in ImuStamps, u < r[i]
      PROVE  \E j \in 1 .. Len(r) : r[j] = u
  <2>1. \E j \in 1 .. Len(q) : q[j] = u
    <3>1. CASE i \in 1 .. Len(q)
      BY <1>4, <1>6, <1>9, <3>1
    <3>2. CASE i = Len(q) + 1
      BY <1>4, <1>6, <1>9, <3>2
    <3> QED
      BY <1>4, <3>1, <3>2
  <2> QED
    BY <1>4, <2>1
<1>10. ImuInv'
  BY <1>8, <1>9 DEF ImuInv, r
<1>11. TarInv' /\ FrameInv' /\ PhaseInv' /\ ReadyInv' /\ CopyInv'
  BY <1>2 DEF IInv, TarInv, FrameInv, OrderedFrames, PhaseInv, ReadyInv, CopyInv
<1>12. CrashesForCause'
  BY <1>2 DEF CrashesForCause
<1>13. InitCovered'
  BY <1>2, <1>7 DEF IInv, InitCovered, q, r
<1> QED
  BY <1>5, <1>10, <1>11, <1>12, <1>13 DEF IInv

\* A scan leaves what is gathered alone until the organizer runs.
LEMMA ScanStep ==
  ASSUME IInv, ~crashed, HandleRadarMessage
  PROVE  IInv'
<1>1. PICK s \in Scans : s.stamp > radarEnd /\ scan' = s /\ radarEnd' = s.stamp
  BY DEF HandleRadarMessage
<1>2. /\ UNCHANGED <<imuDataSeq, organizerVars, sharedVars, smVars, crashed, spoilt>>
      /\ snapReady' = ready /\ pcRadar = "idle"
      /\ pcRadar' = IF initialized THEN "drop" ELSE "organize"
  BY DEF HandleRadarMessage
<1>3. s.stamp \in ScanStamps /\ s.stamp \in Nat
  BY Numbers DEF Scans
<1>4. radarEnd \in Int /\ radarEnd \in ScanStamps \union {None}
  BY Numbers DEF IInv, TypeOK
<1>5. TypeOK'
  BY <1>1, <1>2, <1>3 DEF IInv, TypeOK
<1>6. \A i \in 1 .. Len(tarAry) : tarAry[i] \in Int
  <2>1. tarAry \in Seq(ScanStamps)
    BY DEF IInv, TypeOK
  <2>2. \A i \in 1 .. Len(tarAry) : tarAry[i] \in ScanStamps
    BY <2>1, ElementOfSeq
  <2> QED
    BY <2>2, Numbers
<1>7. TarInv'
  BY <1>1, <1>2, <1>3, <1>4, <1>6 DEF IInv, TarInv, InOrder
<1>8. FrameInv'
  <2>1. scanHeadTime \in Int
    BY Numbers DEF IInv, TypeOK
  <2> QED
    BY <1>1, <1>2, <1>3, <1>4, <2>1 DEF IInv, FrameInv, OrderedFrames
<1>9. ImuInv' /\ PhaseInv' /\ ReadyInv' /\ CopyInv'
  BY <1>2 DEF IInv, ImuInv, PhaseInv, ReadyInv, CopyInv, OrderedFrames
<1>10. CrashesForCause' /\ InitCovered'
  BY <1>2 DEF IInv, CrashesForCause, InitCovered
<1> QED
  BY <1>5, <1>7, <1>8, <1>9, <1>10 DEF IInv

\* What the organizer leaves alone.
LEMMA Organizing ==
  ASSUME IInv, ~crashed, RadarReturn,
         UNCHANGED <<listVars, initialized, vset, snapReady, scan, smVars>>
  PROVE  /\ ImuInv' /\ InitCovered'
         /\ pcRadar = "organize" /\ pcRadar' = "idle"
         /\ radarEnd \in Int
         /\ crashed' = crashed => CrashesForCause'
BY Numbers DEF IInv, TypeOK, RadarReturn, ImuInv, InitCovered, CrashesForCause

\* The organizer may die on an empty vector, which is a cause CrashesForCause names.
LEMMA OrganizeCrashStep ==
  ASSUME IInv, ~crashed, OrganizeCrash
  PROVE  IInv'
<1>1. /\ UNCHANGED <<listVars, organizerVars, sharedVars, snapReady, scan, smVars>>
      /\ RadarReturn /\ crashed' = TRUE /\ spoilt' = TRUE
  BY DEF OrganizeCrash
<1>2. ImuInv' /\ InitCovered' /\ pcRadar = "organize" /\ pcRadar' = "idle"
  BY <1>1, Organizing
<1>3. TypeOK'
  BY <1>1, <1>2 DEF IInv, TypeOK
<1>4. TarInv' /\ FrameInv' /\ PhaseInv'
  BY <1>1, <1>2 DEF IInv, TarInv, FrameInv, OrderedFrames, PhaseInv
<1>5. ReadyInv' /\ CopyInv' /\ CrashesForCause'
  BY <1>1 DEF IInv, ReadyInv, CopyInv, OrderedFrames, CrashesForCause
<1> QED
  BY <1>2, <1>3, <1>4, <1>5 DEF IInv

\* The head time is a stamp once there is a target.
LEMMA HeadTimeIs ==
  ASSUME IInv, pcRadar = "organize", ~ (scanHeadTime = None /\ Gathered = << >>)
  PROVE  /\ HeadTime \in ScanStamps
         /\ radarTarAryForInit # << >> => HeadTime = scanHeadTime
<1>1. scanHeadTime \in ScanStamps \union {None}
  BY DEF IInv, TypeOK
<1>2. Gathered # << >> => Head(Gathered) \in ScanStamps
  <2>1. \A i \in 1 .. Len(Gathered) : Gathered[i] \in ScanStamps
    BY Gathering
  <2>2. Gathered # << >> => Head(Gathered) = Gathered[1] /\ Len(Gathered) > 0 /\ Len(Gathered) \in Nat
    BY Gathering
  <2> QED
    BY <2>1, <2>2
<1>3. HeadTime \in ScanStamps
  BY <1>1, <1>2 DEF HeadTime
<1>4. radarTarAryForInit # << >> => scanHeadTime # None
  <2> SUFFICES ASSUME radarTarAryForInit # << >> PROVE scanHeadTime # None
    OBVIOUS
  <2>1. /\ scanHeadTime = radarTarAryForInit[Len(radarTarAryForInit)].last
        /\ radarTarAryForInit \in Seq(Frames)
    BY DEF IInv, FrameInv, TypeOK
  <2>2. Len(radarTarAryForInit) \in 1 .. Len(radarTarAryForInit)
    BY <2>1, FrameOf
  <2>3. scanHeadTime \in Nat
    BY <2>1, <2>2, FrameOf
  <2> QED
    BY <2>3
<1> QED
  BY <1>3, <1>4 DEF HeadTime

\* The organizer keeps gathering while the frame at hand is too short.
LEMMA OrganizeGatherStep ==
  ASSUME IInv, ~crashed, OrganizeGather
  PROVE  IInv'
<1>1. /\ UNCHANGED <<listVars, sharedVars, snapReady, scan, smVars, crashed, spoilt>>
      /\ RadarReturn /\ tarAry' = Gathered /\ scanHeadTime' = HeadTime
      /\ ~ (scanHeadTime = None /\ Gathered = << >>)
  BY DEF OrganizeGather
<1>2. ImuInv' /\ InitCovered' /\ CrashesForCause' /\ pcRadar = "organize" /\ pcRadar' = "idle"
  BY <1>1, Organizing
<1>3. /\ HeadTime \in ScanStamps
      /\ radarTarAryForInit # << >> => HeadTime = scanHeadTime
  BY <1>1, <1>2, HeadTimeIs
<1>4. /\ Gathered \in Seq(ScanStamps) /\ InOrder(Gathered)
      /\ \A i \in 1 .. Len(Gathered) : Gathered[i] <= radarEnd
      /\ radarTarAryForInit # << >> => \A i \in 1 .. Len(Gathered) : Gathered[i] > scanHeadTime
  BY <1>2, Gathering
<1>5. TypeOK'
  BY <1>1, <1>2, <1>3, <1>4 DEF IInv, TypeOK
<1>6. TarInv'
  BY <1>1, <1>2, <1>4 DEF TarInv, InOrder
<1>7. FrameInv'
  BY <1>1, <1>2, <1>3, <1>4 DEF IInv, FrameInv, OrderedFrames
<1>8. PhaseInv' /\ ReadyInv' /\ CopyInv'
  BY <1>1, <1>2 DEF IInv, PhaseInv, ReadyInv, CopyInv, OrderedFrames
<1> QED
  BY <1>2, <1>5, <1>6, <1>7, <1>8 DEF IInv

\* All frames are thrown away, which spoils the promise of the flag.
LEMMA OrganizeInvalidStep ==
  ASSUME IInv, ~crashed, OrganizeInvalid
  PROVE  IInv'
<1>1. /\ UNCHANGED <<listVars, ready, initialized, vset, snapReady, scan, smVars, crashed>>
      /\ RadarReturn /\ tarAry' = << >> /\ scanHeadTime' = HeadTime
      /\ radarTarAryForInit' = << >> /\ spoilt' = TRUE
      /\ ~ (scanHeadTime = None /\ Gathered = << >>)
  BY DEF OrganizeInvalid
<1>2. ImuInv' /\ InitCovered' /\ CrashesForCause' /\ pcRadar = "organize" /\ pcRadar' = "idle"
  BY <1>1, Organizing
<1>3. HeadTime \in ScanStamps
  BY <1>1, <1>2, HeadTimeIs
<1>4. Len(<< >>) = 0 /\ \A S : << >> \in Seq(S)
  BY EmptySeq
<1>5. TypeOK'
  BY <1>1, <1>2, <1>3, <1>4 DEF IInv, TypeOK
<1>6. TarInv'
  BY <1>1, <1>2, <1>4 DEF TarInv, InOrder
<1>7. FrameInv'
  BY <1>1, <1>4, Numbers DEF FrameInv, OrderedFrames
<1>8. PhaseInv' /\ ReadyInv' /\ CopyInv'
  BY <1>1, <1>2 DEF IInv, PhaseInv, ReadyInv, CopyInv, OrderedFrames
<1> QED
  BY <1>2, <1>5, <1>6, <1>7, <1>8 DEF IInv

\* A frame pushed: it lies behind the others, and the flag, once raised, goes
\* with a full list.
LEMMA OrganizeValidStep ==
  ASSUME IInv, ~crashed, OrganizeValid
  PROVE  IInv'
<1> DEFINE fs == radarTarAryForInit
           G == Gathered
           f == [first |-> Head(G), last |-> Last(G)]
           all == Append(fs, f)
<1>1. /\ UNCHANGED <<listVars, initialized, vset, snapReady, scan, smVars, crashed, spoilt>>
      /\ RadarReturn /\ tarAry' = << >> /\ scanHeadTime' = Last(G)
      /\ radarTarAryForInit' = Kept(all)
      /\ ready' = (ready \/ Len(all) > NumFrames)
      /\ Len(G) >= MinTargets /\ FALSE \in SpanIsShort
  BY DEF OrganizeValid, NextHead
<1>2. ImuInv' /\ InitCovered' /\ CrashesForCause' /\ pcRadar = "organize" /\ pcRadar' = "idle"
  BY <1>1, Organizing
<1>3. /\ Len(G) \in Nat
      /\ \A i \in 1 .. Len(G) : /\ G[i] \in ScanStamps /\ G[i] \in Nat
                                /\ G[i] <= radarEnd
                                /\ fs # << >> => G[i] > scanHeadTime
      /\ InOrder(G)
      /\ G # << >> => Head(G) = G[1] /\ Last(G) = G[Len(G)]
  BY <1>2, Gathering
<1>4. G # << >> /\ Len(G) > 0
  <2>1. Len(G) > 0
    BY <1>1, <1>3, Numbers
  <2>2. Len(<< >>) = 0
    BY EmptySeq
  <2> QED
    BY <2>1, <2>2
<1>5. fs \in Seq(Frames) /\ OrderedFrames(fs) /\ Len(fs) <= NumFrames
  BY DEF IInv, TypeOK, FrameInv
<1>6. ~ (Last(G) - HeadTime < FrameSpan) /\ HeadTime \in ScanStamps
      /\ (fs # << >> => HeadTime = scanHeadTime)
  <2>1. ~ (Last(G) - HeadTime < FrameSpan)
    BY <1>1, <1>4 DEF SpanIsShort
  <2> QED
    BY <1>2, <1>4, <2>1, HeadTimeIs
<1>7. fs # << >> => scanHeadTime = fs[Len(fs)].last
  BY DEF IInv, FrameInv
<1> HIDE DEF G
<1>8. /\ Head(G) \in ScanStamps /\ Last(G) \in ScanStamps /\ Head(G) \in Nat /\ Last(G) \in Nat
      /\ Head(G) <= Last(G) /\ Last(G) <= radarEnd
      /\ fs # << >> => scanHeadTime < Head(G)
  <2>1. 1 \in 1 .. Len(G) /\ Len(G) \in 1 .. Len(G)
    BY <1>3, <1>4
  <2>2. G[1] <= G[Len(G)]
    <3>1. CASE Len(G) = 1
      BY <1>3, <2>1, <3>1
    <3>2. CASE Len(G) # 1
      <4>1. 1 < Len(G)
        <5> DEFINE n == Len(G)
        <5>1. n \in Nat /\ n > 0 /\ n # 1
          BY <1>3, <1>4, <3>2, Zenon
        <5> HIDE DEF n
        <5>2. 1 < n
          BY <5>1
        <5> QED
          BY <5>2 DEF n
      <4>2. \A i, j \in 1 .. Len(G) : i < j => G[i] <= G[j]
        BY <1>3 DEF InOrder
      <4> QED
        BY <2>1, <4>1, <4>2
    <3> QED
      BY <3>1, <3>2
  <2>3. scanHeadTime \in Int
    BY Numbers DEF IInv, TypeOK
  <2> QED
    BY <1>3, <1>4, <2>1, <2>2, <2>3
<1>9. f \in Frames /\ f.first = Head(G) /\ f.last = Last(G)
  BY <1>8 DEF Frames
<1> HIDE DEF f, fs
<1>10. fs # << >> => fs[Len(fs)].last < f.first /\ f.last - fs[Len(fs)].last >= FrameSpan
  <2> SUFFICES ASSUME fs # << >>
               PROVE  fs[Len(fs)].last < f.first /\ f.last - fs[Len(fs)].last >= FrameSpan
    OBVIOUS
  <2>1. scanHeadTime = fs[Len(fs)].last /\ HeadTime = scanHeadTime /\ HeadTime \in Nat
    BY <1>6, <1>7, Numbers
  <2> QED
    BY <1>6, <1>8, <1>9, <2>1, Numbers
<1>11. /\ all \in Seq(Frames) /\ OrderedFrames(all)
       /\ Len(all) = Len(fs) + 1 /\ all[Len(all)] = f /\ Len(fs) \in Nat
  BY <1>5, <1>8, <1>9, <1>10, FramePushed
<1> HIDE DEF all
<1>12. /\ Kept(all) \in Seq(Frames) /\ OrderedFrames(Kept(all))
       /\ Kept(all) # << >> /\ Kept(all)[Len(Kept(all))] = f
       /\ Len(Kept(all)) = IF Len(fs) = NumFrames THEN NumFrames ELSE Len(fs) + 1
  <2>1. CASE Len(all) > NumFrames
    <3>1. Len(all) > 1 /\ Len(fs) = NumFrames
      BY <1>5, <1>11, <2>1, Numbers
    <3>2. Kept(all) = Tail(all)
      BY <2>1 DEF Kept
    <3> DEFINE rest == Tail(all)
    <3>3. /\ rest \in Seq(Frames) /\ OrderedFrames(rest)
          /\ Len(rest) = Len(all) - 1 /\ rest[Len(rest)] = all[Len(all)] /\ rest # << >>
      BY <1>11, <3>1, FrameDropped
    <3>4. Kept(all) = rest
      BY <3>2
    <3> HIDE DEF rest
    <3>5. Len(rest) = NumFrames
      BY <1>11, <3>1, <3>3
    <3> QED
      BY <1>11, <3>1, <3>3, <3>4, <3>5
  <2>2. CASE ~ (Len(all) > NumFrames)
    <3>1. Kept(all) = all /\ Len(fs) # NumFrames
      BY <1>11, <2>2, Numbers DEF Kept
    <3>2. all # << >>
      BY <1>11, EmptySeq
    <3> QED
      BY <1>11, <3>1, <3>2
  <2> QED
    BY <2>1, <2>2
<1>13. Len(Kept(all)) <= NumFrames /\ (Len(all) > NumFrames => Len(fs) = NumFrames)
  BY <1>5, <1>11, <1>12, Numbers
<1>14. Len(<< >>) = 0 /\ \A S : << >> \in Seq(S)
  BY EmptySeq
<1>15. TypeOK'
  <2>1. ready' \in BOOLEAN
    BY <1>1
  <2> QED
    BY <1>1, <1>2, <1>8, <1>12, <1>14, <2>1 DEF IInv, TypeOK
<1>16. TarInv'
  BY <1>1, <1>2, <1>14 DEF TarInv, InOrder
<1>17. FrameInv'
  BY <1>1, <1>2, <1>8, <1>9, <1>12, <1>13, <1>14 DEF FrameInv
<1>18. PhaseInv'
  BY <1>1, <1>2 DEF IInv, PhaseInv
<1>19. ReadyInv'
  <2> SUFFICES ASSUME ~spoilt, (pcSM = "top" /\ ready') \/ pcSM \in {"consume", "copy"}
               PROVE  Len(Kept(all)) = NumFrames
    BY <1>1 DEF ReadyInv
  <2>1. Len(fs) = NumFrames
    <3>1. CASE Len(all) > NumFrames
      BY <1>13, <3>1
    <3>2. CASE ~ (Len(all) > NumFrames)
      <4>1. (pcSM = "top" /\ ready) \/ pcSM \in {"consume", "copy"}
        BY <1>1, <3>2
      <4> QED
        BY <4>1 DEF IInv, ReadyInv, fs
    <3> QED
      BY <3>1, <3>2
  <2> QED
    BY <1>12, <2>1
<1>20. CopyInv'
  BY <1>1 DEF IInv, CopyInv, OrderedFrames
<1> QED
  BY <1>2, <1>15, <1>16, <1>17, <1>18, <1>19, <1>20 DEF IInv

\* Frames are thrown away and the flag toggled only after the initialisation,
\* when the StateManager thread asks for neither.
LEMMA DropStep ==
  ASSUME IInv, ~crashed, RadarDrop
  PROVE  IInv'
<1>1. /\ UNCHANGED <<listVars, organizerVars, ready, initialized, vset, snapReady, scan, smVars, crashed, spoilt>>
      /\ pcRadar = "drop" /\ radarTarAryForInit' = << >>
      /\ pcRadar' = IF snapReady THEN "toggle" ELSE "idle"
  BY DEF RadarDrop
<1>2. initialized /\ pcSM = "running"
  BY <1>1 DEF IInv, PhaseInv
<1>3. Len(<< >>) = 0 /\ \A S : << >> \in Seq(S)
  BY EmptySeq
<1>4. TypeOK'
  BY <1>1, <1>3 DEF IInv, TypeOK
<1>5. TarInv' /\ ImuInv'
  BY <1>1 DEF IInv, TarInv, InOrder, ImuInv
<1>6. FrameInv'
  BY <1>1, <1>3, Numbers DEF FrameInv, OrderedFrames
<1>7. PhaseInv' /\ ReadyInv' /\ CopyInv'
  BY <1>1, <1>2 DEF IInv, PhaseInv, ReadyInv, CopyInv, OrderedFrames
<1>8. CrashesForCause' /\ InitCovered'
  BY <1>1 DEF IInv, CrashesForCause, InitCovered
<1> QED
  BY <1>4, <1>5, <1>6, <1>7, <1>8 DEF IInv

\* The toggle of the radar callback breaks nothing that was promised of the list.
LEMMA ToggleStep ==
  ASSUME IInv, ~crashed, RadarToggle
  PROVE  IInv'
<1>1. /\ UNCHANGED <<listVars, organizerVars, radarTarAryForInit, initialized, vset, snapReady, scan, smVars, crashed, spoilt>>
      /\ pcRadar = "toggle" /\ pcRadar' = "idle" /\ ready' = ~ready
  BY DEF RadarToggle
<1>2. initialized /\ pcSM = "running"
  BY <1>1 DEF IInv, PhaseInv
<1>3. ready' \in BOOLEAN
  BY <1>1
<1>4. TypeOK'
  BY <1>1, <1>3 DEF IInv, TypeOK
<1>5. TarInv' /\ ImuInv' /\ FrameInv'
  BY <1>1 DEF IInv, TarInv, InOrder, ImuInv, FrameInv, OrderedFrames
<1>6. PhaseInv' /\ ReadyInv' /\ CopyInv'
  BY <1>1, <1>2 DEF IInv, PhaseInv, ReadyInv, CopyInv, OrderedFrames
<1>7. CrashesForCause' /\ InitCovered'
  BY <1>1 DEF IInv, CrashesForCause, InitCovered
<1> QED
  BY <1>4, <1>5, <1>6, <1>7 DEF IInv

\* The StateManager thread copies the status word.
LEMMA SnapshotStep ==
  ASSUME IInv, ~crashed, SMSnapshot
  PROVE  IInv'
<1>1. /\ UNCHANGED <<listVars, organizerVars, sharedVars, radarVars, frames, crashed, spoilt>>
      /\ ready /\ pcSM = "top" /\ pcSM' = "consume"
  BY DEF SMSnapshot, SMStep
<1>2. TypeOK'
  BY <1>1 DEF IInv, TypeOK
<1>3. TarInv' /\ ImuInv' /\ FrameInv'
  BY <1>1 DEF IInv, TarInv, InOrder, ImuInv, FrameInv, OrderedFrames
<1>4. PhaseInv' /\ ReadyInv' /\ CopyInv'
  BY <1>1 DEF IInv, PhaseInv, ReadyInv, CopyInv, OrderedFrames
<1>5. CrashesForCause' /\ InitCovered'
  BY <1>1 DEF IInv, CrashesForCause, InitCovered
<1> QED
  BY <1>2, <1>3, <1>4, <1>5 DEF IInv

\* The flag is lowered, and what it promised is still on the list.
LEMMA ConsumeReadyStep ==
  ASSUME IInv, ~crashed, SMConsumeReady
  PROVE  IInv'
<1>1. /\ UNCHANGED <<listVars, organizerVars, radarTarAryForInit, initialized, vset, radarVars, frames, crashed, spoilt>>
      /\ ready' = ~ready /\ pcSM = "consume" /\ pcSM' = "copy"
  BY DEF SMConsumeReady, SMStep
<1>2. ready' \in BOOLEAN
  BY <1>1
<1>3. TypeOK'
  BY <1>1, <1>2 DEF IInv, TypeOK
<1>4. TarInv' /\ ImuInv' /\ FrameInv'
  BY <1>1 DEF IInv, TarInv, InOrder, ImuInv, FrameInv, OrderedFrames
<1>5. PhaseInv' /\ ReadyInv' /\ CopyInv'
  BY <1>1 DEF IInv, PhaseInv, ReadyInv, CopyInv, OrderedFrames
<1>6. CrashesForCause' /\ InitCovered'
  BY <1>1 DEF IInv, CrashesForCause, InitCovered
<1> QED
  BY <1>3, <1>4, <1>5, <1>6 DEF IInv

\* A copy of no frames kills the process, which takes a frame too short.
LEMMA CopyFramesStep ==
  ASSUME IInv, ~crashed, SMCopyFrames
  PROVE  IInv'
<1>1. /\ UNCHANGED <<listVars, organizerVars, sharedVars, radarVars, spoilt>>
      /\ pcSM = "copy" /\ pcSM' = "initialize" /\ frames' = radarTarAryForInit
      /\ crashed' = (radarTarAryForInit = << >>)
  BY DEF SMCopyFrames, SMStep
<1>2. ~initialized
  BY <1>1 DEF IInv, PhaseInv
<1>3. ~spoilt => Len(radarTarAryForInit) = NumFrames
  BY <1>1 DEF IInv, ReadyInv
<1>4. Len(radarTarAryForInit) = NumFrames => radarTarAryForInit # << >>
  BY EmptySeq, Numbers
<1>5. crashed' \in BOOLEAN
  BY <1>1
<1>6. TypeOK'
  BY <1>1, <1>5 DEF IInv, TypeOK
<1>7. TarInv' /\ ImuInv' /\ FrameInv'
  BY <1>1 DEF IInv, TarInv, InOrder, ImuInv, FrameInv, OrderedFrames
<1>8. PhaseInv' /\ ReadyInv'
  BY <1>1, <1>2 DEF IInv, PhaseInv, ReadyInv
<1>9. CopyInv'
  BY <1>1, <1>3 DEF IInv, CopyInv, FrameInv, OrderedFrames
<1>10. CrashesForCause' /\ InitCovered'
  BY <1>1, <1>2, <1>3, <1>4 DEF CrashesForCause, InitCovered
<1> QED
  BY <1>6, <1>7, <1>8, <1>9, <1>10 DEF IInv

\* The ends of the frames copied.
LEMMA CopiedEnds ==
  ASSUME IInv, frames # << >>
  PROVE  /\ frames[1].first \in ScanStamps /\ Last(frames).last \in ScanStamps
         /\ frames[1].first \in Nat /\ Last(frames).last \in Nat
         /\ frames[1].first <= Last(frames).last
         /\ Len(frames) > 1 => Last(frames).last - frames[1].first >= FrameSpan
<1>1. frames \in Seq(Frames) /\ OrderedFrames(frames)
  BY DEF IInv, TypeOK, CopyInv
<1> DEFINE n == Len(frames)
<1>2. n \in Nat /\ n > 0 /\ Last(frames) = frames[n]
  BY <1>1, FrameOf
<1>3. \A i \in 1 .. n : /\ frames[i].first \in ScanStamps /\ frames[i].last \in ScanStamps
                        /\ frames[i].first \in Nat /\ frames[i].last \in Nat
  BY <1>1, FrameOf
<1>4. /\ \A i \in 1 .. n : frames[i].first <= frames[i].last
      /\ \A i, j \in 1 .. n : i < j =>
           frames[i].last < frames[j].first /\ frames[j].last - frames[i].last >= FrameSpan
  BY <1>1 DEF OrderedFrames
<1> HIDE DEF n
<1>5. 1 \in 1 .. n /\ n \in 1 .. n
  BY <1>2
<1>6. n > 1 => frames[n].last - frames[1].last >= FrameSpan
  BY <1>4, <1>5
<1>7. /\ frames[1].first <= frames[1].last
      /\ frames[1].first \in Nat /\ frames[1].last \in Nat /\ frames[n].last \in Nat
      /\ frames[1].first \in ScanStamps /\ frames[n].last \in ScanStamps
  BY <1>3, <1>4, <1>5
<1>8. n > 1 => frames[n].last - frames[1].first >= FrameSpan /\ frames[1].first <= frames[n].last
  BY <1>6, <1>7, Numbers
<1>9. frames[1].first <= frames[n].last
  <2>1. CASE n = 1
    BY <1>7, <2>1
  <2> QED
    BY <1>2, <1>8, <2>1
<1> QED
  BY <1>2, <1>7, <1>8, <1>9 DEF n

\* What the initialisation extracts from a list in time order: nothing only if
\* no stamp lies in the window; else it ends with one that does.
LEMMA Extracted ==
  ASSUME NEW q \in Seq(Int), InOrder(q), NEW s \in Int, NEW e \in Int, s <= e
  PROVE  /\ Extract(q, s, e) = << >> => \A i \in 1 .. Len(q) : ~ (s <= q[i] /\ q[i] < e)
         /\ Extract(q, s, e) # << >> =>
              \E i \in 1 .. Len(q) : /\ Last(Extract(q, s, e)) = q[i]
                                     /\ s <= q[i] /\ q[i] < e
<1> DEFINE a == CountBefore(q, s)
           b == CountBefore(q, e)
           p == Extract(q, s, e)
<1>1. a \in 0 .. Len(q) /\ b \in 0 .. Len(q) /\ Len(q) \in Nat
  BY CountBeforeLast
<1>2. a <= b
  BY CountBeforeMonotone
<1>3. \A i \in 1 .. Len(q) : i \in a + 1 .. b <=> s <= q[i] /\ q[i] < e
  BY ExtractPositions
<1>4. p = SubSeq(q, a + 1, b)
  BY DEF Extract
<1> HIDE DEF a, b, p
<1>5. a \in 0 .. Len(q) /\ b \in a .. Len(q)
  BY <1>1, <1>2
<1>6. /\ p \in Seq(Int) /\ Len(p) = b - a
      /\ \A i \in 1 .. b - a : p[i] = q[a + i]
  BY <1>4, <1>5, Piece
<1>7. ASSUME p = << >>, NEW i \in 1 .. Len(q)
      PROVE  ~ (s <= q[i] /\ q[i] < e)
  <2>1. Len(p) = 0
    BY <1>7
  <2>2. a = b
    BY <1>1, <1>6, <2>1
  <2>3. i \notin a + 1 .. b
    BY <1>1, <2>2
  <2> QED
    BY <1>3, <2>3
<1>8. ASSUME p # << >>
      PROVE  \E i \in 1 .. Len(q) : Last(p) = q[i] /\ s <= q[i] /\ q[i] < e
  <2>1. Len(p) \in Nat /\ Len(p) > 0
    BY <1>6, <1>8, EmptySeq
  <2>2. b - a \in 1 .. b - a /\ b \in a + 1 .. b /\ b \in 1 .. Len(q) /\ a + (b - a) = b
    <3>1. a \in Int /\ b \in Int /\ a >= 0 /\ b <= Len(q) /\ Len(q) \in Nat
      BY <1>1
    <3>2. b - a > 0
      BY <1>6, <2>1
    <3> QED
      BY <3>1, <3>2
  <2>3. Last(p) = p[b - a]
    BY <1>6 DEF Last
  <2>4. p[b - a] = q[b]
    BY <1>6, <2>2
  <2> QED
    BY <1>3, <2>2, <2>3, <2>4
<1> QED
  BY <1>7, <1>8 DEF p

\* The IMU list, as the list operations see it.
LEMMA ImuList ==
  ASSUME IInv
  PROVE  imuDataSeq \in Seq(Int) /\ InOrder(imuDataSeq)
         /\ \A i \in 1 .. Len(imuDataSeq) : imuDataSeq[i] \in ImuStamps /\ imuDataSeq[i] \in Nat
<1>1. imuDataSeq \in Seq(ImuStamps)
  BY DEF IInv, TypeOK
<1>2. /\ \A i \in 1 .. Len(imuDataSeq) : imuDataSeq[i] \in ImuStamps
      /\ Len(imuDataSeq) \in Nat
  BY <1>1, ElementOfSeq, LenProperties
<1>3. \A i \in 1 .. Len(imuDataSeq) : imuDataSeq[i] \in Nat
  BY <1>2, Numbers
<1>4. imuDataSeq \in Seq(Int)
  <2>1. \A i \in 1 .. Len(imuDataSeq) : imuDataSeq[i] \in Int
    BY <1>3
  <2> QED
    BY <1>1, <2>1, IsASeq, SeqDef, LenProperties
<1>5. InOrder(imuDataSeq)
  <2> SUFFICES ASSUME NEW i \in 1 .. Len(imuDataSeq), NEW j \in 1 .. Len(imuDataSeq), i < j
               PROVE  imuDataSeq[i] <= imuDataSeq[j]
    BY DEF InOrder
  <2>1. imuDataSeq[i] < imuDataSeq[j]
    BY DEF IInv, ImuInv
  <2> QED
    BY <1>3, <2>1
<1> QED
  BY <1>2, <1>3, <1>4, <1>5

\* Frames as promised span the time of a frame at least, so the IMU samples
\* within them, and the sample is on the list unless the IMU is behind.
LEMMA InitializeCrashStep ==
  ASSUME IInv, ~crashed, SMInitializeCrash
  PROVE  IInv'
<1>1. /\ UNCHANGED <<listVars, organizerVars, sharedVars, radarVars, frames, spoilt>>
      /\ pcSM = "initialize" /\ pcSM' = "running" /\ InitImu = << >> /\ crashed' = TRUE
  BY DEF SMInitializeCrash, SMStep
<1>2. frames # << >> /\ (~spoilt => Len(frames) = NumFrames)
  BY <1>1 DEF IInv, CopyInv
<1>3. ~initialized
  BY <1>1 DEF IInv, PhaseInv
<1>4. TypeOK'
  BY <1>1 DEF IInv, TypeOK
<1>5. TarInv' /\ ImuInv' /\ FrameInv'
  BY <1>1 DEF IInv, TarInv, InOrder, ImuInv, FrameInv, OrderedFrames
<1>6. PhaseInv' /\ ReadyInv' /\ CopyInv' /\ InitCovered'
  BY <1>1, <1>3 DEF IInv, PhaseInv, ReadyInv, CopyInv, OrderedFrames, InitCovered
<1> DEFINE q == imuDataSeq
           s == frames[1].first
           e == Last(frames).last
<1>7. /\ s \in ScanStamps /\ e \in ScanStamps /\ s \in Nat /\ e \in Nat /\ s <= e
      /\ Len(frames) > 1 => e - s >= FrameSpan
  BY <1>2, CopiedEnds
<1>8. /\ q \in Seq(Int) /\ InOrder(q)
      /\ \A i \in 1 .. Len(q) : q[i] \in ImuStamps /\ q[i] \in Nat
  BY ImuList
<1>9. Extract(q, s, e) = << >>
  BY <1>1 DEF InitImu
<1>10. \A i \in 1 .. Len(q) : \A u \in ImuStamps :
         u < q[i] => \E j \in 1 .. Len(q) : q[j] = u
  BY DEF IInv, ImuInv
<1>11. ~spoilt => \A i \in 1 .. Len(q) : q[i] < s
  <2> HIDE DEF q, s, e
  <2>1. \A i \in 1 .. Len(q) : ~ (s <= q[i] /\ q[i] < e)
    <3>1. s \in Int /\ e \in Int
      BY <1>7
    <3> QED
      BY <1>7, <1>8, <1>9, <3>1, Extracted
  <2> SUFFICES ASSUME ~spoilt, NEW i \in 1 .. Len(q), s <= q[i] PROVE FALSE
    BY <1>7, <1>8
  <2>2. Len(frames) > 1
    BY <1>2, Numbers
  <2>3. PICK u \in ImuStamps : s <= u /\ u < e
    BY <1>7, <2>2, InitAssumption DEF InitAssumption
  <2>4. u \in Nat
    BY Numbers
  <2>5. CASE u < q[i]
    BY <1>10, <2>1, <2>3, <2>5
  <2>6. CASE ~ (u < q[i])
    BY <1>7, <1>8, <2>1, <2>3, <2>4, <2>6
  <2> QED
    BY <2>5, <2>6
<1>12. CrashesForCause'
  BY <1>1, <1>2, <1>11 DEF CrashesForCause
<1> QED
  BY <1>4, <1>5, <1>6, <1>12 DEF IInv

\* The last IMU frame extracted is the earlier end, as it lies in the window.
LEMMA InitializeStep ==
  ASSUME IInv, ~crashed, SMInitialize
  PROVE  IInv'
<1>1. /\ UNCHANGED <<listVars, organizerVars, radarTarAryForInit, ready, radarVars, frames, crashed, spoilt>>
      /\ pcSM = "initialize" /\ pcSM' = "running" /\ InitImu # << >>
      /\ initialized' = TRUE /\ vset' = InitEnd
  BY DEF SMInitialize, SMStep
<1>2. frames # << >>
  BY <1>1 DEF IInv, CopyInv
<1> DEFINE q == imuDataSeq
           s == frames[1].first
           e == Last(frames).last
<1>3. s \in Nat /\ e \in Nat /\ s <= e
  BY <1>2, CopiedEnds
<1>4. /\ q \in Seq(Int) /\ InOrder(q)
      /\ \A i \in 1 .. Len(q) : q[i] \in ImuStamps /\ q[i] \in Nat
  BY ImuList
<1>5. Extract(q, s, e) # << >> /\ InitEnd = Min({Last(Extract(q, s, e)), e})
  BY <1>1 DEF InitImu, InitEnd, InitEnds
<1>6. PICK k \in 1 .. Len(q) :
        Last(Extract(q, s, e)) = q[k] /\ s <= q[k] /\ q[k] < e
  <2> HIDE DEF q, s, e
  <2>1. s \in Int /\ e \in Int
    BY <1>3
  <2> QED
    BY <1>3, <1>4, <1>5, <2>1, Extracted
<1>7. InitEnd = q[k]
  <2> HIDE DEF q, s, e
  <2>1. Min({q[k], e}) = q[k]
    BY <1>3, <1>4, <1>6 DEF Min
  <2> QED
    BY <1>5, <1>6, <2>1
<1>8. vset' \in ImuStamps
  BY <1>1, <1>4, <1>7
<1>9. TypeOK'
  BY <1>1, <1>8 DEF IInv, TypeOK
<1>10. TarInv' /\ ImuInv' /\ FrameInv'
  BY <1>1 DEF IInv, TarInv, InOrder, ImuInv, FrameInv, OrderedFrames
<1>11. PhaseInv' /\ ReadyInv' /\ CopyInv'
  BY <1>1 DEF IInv, PhaseInv, ReadyInv, CopyInv, OrderedFrames
<1>12. CrashesForCause'
  BY <1>1 DEF CrashesForCause
<1>13. InitCovered'
  BY <1>1, <1>6, <1>7 DEF InitCovered
<1> QED
  BY <1>9, <1>10, <1>11, <1>12, <1>13 DEF IInv

\* Every step keeps the invariant.
LEMMA StepIInv ==
  ASSUME IInv, [Next]_vars
  PROVE  IInv'
<1>1. CASE Next
  <2>1. ~crashed /\ Step
    BY <1>1 DEF Next
  <2> QED
    BY <2>1, ImuStep, ScanStep, OrganizeCrashStep, OrganizeGatherStep, OrganizeInvalidStep,
       OrganizeValidStep, DropStep, ToggleStep, SnapshotStep, ConsumeReadyStep, CopyFramesStep,
       InitializeCrashStep, InitializeStep DEF Step
<1>2. CASE UNCHANGED vars
  <2>1. UNCHANGED <<listVars, organizerVars, sharedVars, radarVars, smVars, crashed, spoilt>>
    BY <1>2 DEF vars
  <2>2. TypeOK' /\ ImuInv' /\ TarInv' /\ FrameInv' /\ PhaseInv'
    BY <2>1 DEF IInv, TypeOK, ImuInv, TarInv, InOrder, FrameInv, OrderedFrames, PhaseInv
  <2>3. ReadyInv' /\ CopyInv' /\ CrashesForCause' /\ InitCovered'
    BY <2>1 DEF IInv, ReadyInv, CopyInv, OrderedFrames, CrashesForCause, InitCovered
  <2> QED
    BY <2>2, <2>3 DEF IInv
<1> QED
  BY <1>1, <1>2

\* The invariant holds in every reachable state.
LEMMA Invariance == Spec => []IInv
<1>1. Init => IInv
  BY InitIInv
<1>2. IInv /\ [Next]_vars => IInv'
  BY StepIInv
<1> QED
  BY <1>1, <1>2, PTL DEF Spec

-------------------------------------------------------------------------------
(* Theorems.                                                               *)

\* The radar callback (data_manager.cpp:144-185), its handler and the
\* initialisation (state_manager.cpp:91-106) keep every variable within its type.
THEOREM TypeCorrect == Spec => []TypeOK
<1>1. IInv => TypeOK
  BY DEF IInv
<1> QED
  BY <1>1, Invariance, PTL

\* As long as no frame had too few targets, the StateManager thread, which lowers
\* the ready flag before it copies the frames, copies as many as are meant to
\* be kept, however many frames the radar callback pushes and pops in between
\* (data_manager.cpp:171-185).
THEOREM FramesAreReady == Spec => []FramesReadyWhenConsumed
<1>1. IInv => FramesReadyWhenConsumed
  BY DEF IInv, ReadyInv, FramesReadyWhenConsumed, FramesAsPromised
<1> QED
  BY <1>1, Invariance, PTL

\* The frames the organizer keeps are disjoint, in time order and a frame span
\* apart, also across frames it dropped, as the head time survives them
\* (data_manager.cpp:150-162).
THEOREM FramesAreSpaced == Spec => []FramesSpaced
<1>1. ASSUME IInv PROVE FramesSpaced
  <2> SUFFICES ASSUME NEW i \in 1 .. Len(radarTarAryForInit) - 1
               PROVE  /\ radarTarAryForInit[i].last < radarTarAryForInit[i + 1].first
                      /\ radarTarAryForInit[i + 1].last - radarTarAryForInit[i].last >= FrameSpan
    BY DEF FramesSpaced
  <2>1. Len(radarTarAryForInit) \in Nat
    BY <1>1, FrameOf DEF IInv, TypeOK
  <2>2. /\ i \in 1 .. Len(radarTarAryForInit) /\ i + 1 \in 1 .. Len(radarTarAryForInit)
        /\ i < i + 1
    BY <2>1
  <2>3. \A j, k \in 1 .. Len(radarTarAryForInit) : j < k =>
          /\ radarTarAryForInit[j].last < radarTarAryForInit[k].first
          /\ radarTarAryForInit[k].last - radarTarAryForInit[j].last >= FrameSpan
    BY <1>1 DEF IInv, FrameInv, OrderedFrames
  <2> QED
    BY <2>2, <2>3
<1> QED
  BY <1>1, Invariance, PTL

\* The calls of front() and back() that ask no questions (state_manager.cpp:95-106,
\* data_manager.cpp:151-153) kill the process only after a frame with too few
\* targets, or when the IMU has not reached the first frame.
THEOREM CrashesOnlyForCause == Spec => []CrashesForCause
<1>1. IInv => CrashesForCause
  BY DEF IInv
<1> QED
  BY <1>1, Invariance, PTL

\* The end of validity the initialisation sets is the stamp of an IMU frame on
\* the list, within the frames it copied (state_manager.cpp:105-106).
THEOREM InitIsCovered == Spec => []InitCovered
<1>1. IInv => InitCovered
  BY DEF IInv
<1> QED
  BY <1>1, Invariance, PTL
===============================================================================
