----------------------------- MODULE ImuPreprocess -----------------------------
(***************************************************************************)
(* What HandleIMUMessage makes of a message before it stores it, and how   *)
(* the foot contacts decide on that.  The IMU and the foot callback belong *)
(* to different callback groups and run at the same time; the contact      *)
(* counter is written under FootDataSeqMutex and read under                *)
(* IMUDataSeqMutex, so that nothing orders the two; the main thread erases *)
(* from the list the IMU callback looks back on.  Stamps are stored less   *)
(* GARLILEO_TIME_EPOCH, which the first callback of any topic sets, tested *)
(* and set without a lock; TimeEpoch has all that comes of this.           *)
(*                                                                         *)
(* An IMU frame is the stamp of its message; what the code has put in its  *)
(* place is StampOf.  Of its acceleration we keep which raw measurements   *)
(* it is an average of, of the orientation that is integrated from the     *)
(* gyroscope the time it has been integrated over.                         *)
(***************************************************************************)
EXTENDS SensorQueue

CONSTANTS
  Stamps,       \* the stamps the IMU may produce, in ticks
  Contacts,     \* which feet may be on the ground
  SmaLength,    \* stored frames a new one is averaged with (9)
  StableAfter,  \* the counter must exceed this for a contact to be stable (2)
  EraseLag,     \* IMU frames this much older than the valid time go (0.2 s)
  Others,       \* the topics besides the IMU's; the contacts come on "foot"
  OtherStamps,  \* the stamps of their first messages
  MaxFoot       \* bound: foot messages in a run

ASSUME PreprocessAssumption ==
  /\ Stamps \subseteq Nat
  /\ SmaLength \in Nat \ {0} /\ StableAfter \in Nat /\ EraseLag \in Nat
  /\ "foot" \in Others /\ OtherStamps \subseteq Nat
  /\ MaxFoot \in Nat

VARIABLES
  epoch,            \* GARLILEO_TIME_EPOCH, None for nullopt
  toSet,            \* the stamp a callback, which has found no epoch, sets it to
  footDataSeq,      \* the contacts of the foot frames; nobody erases them
  contactDuration,  \* contact_duration
  imuDataSeq,       \* the list of IMU frames
  shift,            \* [frame -> the epoch that was subtracted from its stamp]
  acce,             \* [frame -> the raw measurements its acceleration averages]
  imuIsCome,        \* imu_is_come
  turned,           \* the time init_orient has been integrated over
  pcImu, frame,     \* the IMU callback and the frame it is working on
  stored,           \* history: every frame ever appended to imuDataSeq
  calm,             \* history: those stored while the last contacts agreed
  epochMoved        \* history: the epoch was set after a frame had been shifted

epochVars == <<epoch, toSet, epochMoved>>
footVars  == <<footDataSeq, contactDuration>>
imuVars   == <<imuDataSeq, shift, acce, imuIsCome, turned, pcImu, frame, stored, calm>>
vars == <<epochVars, footVars, imuVars>>

None == -1

TypeOK ==
  /\ epoch \in Nat \union {None}
  /\ toSet \in [Others -> OtherStamps \union {None}]
  /\ footDataSeq \in Seq(Contacts)
  /\ contactDuration \in Nat
  /\ imuDataSeq \in Seq(Stamps)
  /\ shift \in [Stamps -> Nat]
  /\ acce \in [Stamps -> SUBSET Stamps]
  /\ imuIsCome \in BOOLEAN
  /\ turned \in Int
  /\ pcImu \in {"idle", "set", "shift", "store"}
  /\ frame \in Stamps \union {None}
  /\ stored \in Seq(Stamps)
  /\ calm \in SUBSET Stamps
  /\ epochMoved \in BOOLEAN

Init ==
  /\ epoch = None /\ toSet = [topic \in Others |-> None] /\ epochMoved = FALSE
  /\ footDataSeq = << >> /\ contactDuration = 0
  /\ imuDataSeq = << >> /\ stored = << >>
  /\ shift = [t \in Stamps |-> 0]
  /\ acce = [t \in Stamps |-> {}]
  /\ imuIsCome = FALSE /\ turned = 0
  /\ pcImu = "idle" /\ frame = None
  /\ calm = {}

-------------------------------------------------------------------------------
(* The epoch.                                                              *)

\* A callback of another topic finds no epoch ...
TestEpoch(topic) ==
  /\ epoch = None /\ toSet[topic] = None
  /\ \E stamp \in OtherStamps : toSet' = [toSet EXCEPT ![topic] = stamp]
  /\ UNCHANGED <<epoch, epochMoved, footVars, imuVars>>

\* ... and sets it, whatever has been done by the one another has set meanwhile.
SetEpoch(topic) ==
  /\ toSet[topic] # None
  /\ epoch' = toSet[topic]
  /\ toSet' = [toSet EXCEPT ![topic] = None]
  /\ epochMoved' = (epochMoved \/ stored # << >> \/ pcImu = "store")
  /\ UNCHANGED <<footVars, imuVars>>

-------------------------------------------------------------------------------
(* The foot callback.                                                      *)

\* Mutated: a contact that lasts is counted, one that changes is not noticed.
CountedForever(contact) ==
  IF footDataSeq = << >> THEN contactDuration ELSE contactDuration + 1

\* The first message has nothing to be compared with.
Counted(contact) ==
  IF footDataSeq = << >> THEN contactDuration
  ELSE IF Last(footDataSeq) = contact THEN contactDuration + 1 ELSE 0

\* HandleFootMessage, once there is an epoch.  It alone reads footDataSeq, and it
\* stores contact_duration once: one step, for all the IMU callback can tell.
HandleFootMessage ==
  /\ epoch # None /\ toSet["foot"] = None
  /\ Len(footDataSeq) < MaxFoot
  /\ \E contact \in Contacts :
       /\ contactDuration' = Counted(contact)
       /\ footDataSeq' = Append(footDataSeq, contact)
  /\ UNCHANGED <<epochVars, imuVars>>

-------------------------------------------------------------------------------
(* The IMU callback.                                                       *)

\* The stamp a frame in the list has.
StampOf(t) == t - shift[t]

\* Mutated: a stamp less the epoch taken from one that is not.
DtRaw(t) == t - StampOf(Last(imuDataSeq))

\* dt: the time since the frame at the end of the list, by the epoch of now.
Dt(t) == t - StampOf(Last(imuDataSeq)) - epoch

\* Mutated: the IMU counts on another topic to set the epoch.
AfterTestNothing == "shift"
AfterTest == IF epoch = None THEN "set" ELSE "shift"

\* HandleIMUMessage up to its test of the epoch: the first frame is the
\* reference, every other turns init_orient on.
HandleIMUMessage ==
  /\ pcImu = "idle" /\ pcImu' = AfterTest
  /\ frame' \in Stamps /\ frame' > frame
  /\ imuIsCome' = TRUE
  /\ turned' = IF imuIsCome THEN turned + Dt(frame') ELSE turned
  /\ UNCHANGED <<epochVars, footVars, imuDataSeq, shift, acce, stored, calm>>

ImuSetEpoch ==
  /\ pcImu = "set" /\ pcImu' = "shift"
  /\ epoch' = frame
  /\ UNCHANGED <<toSet, epochMoved, footVars, imuDataSeq, shift, acce, imuIsCome, turned, frame, stored, calm>>

ImuShift ==
  /\ pcImu = "shift" /\ pcImu' = "store"
  /\ shift' = [shift EXCEPT ![frame] = epoch]
  /\ UNCHANGED <<epochVars, footVars, imuDataSeq, acce, imuIsCome, turned, frame, stored, calm>>

\* ApplySMA: the frames at the end of the list, already averaged or held
\* themselves, and the new one.
Recent(q) == {q[i] : i \in {j \in 1 .. Len(q) : j + SmaLength > Len(q)}}
Smoothed(t) == {t} \union UNION {acce[u] : u \in Recent(imuDataSeq)}

\* The acceleration a frame is stored with: averaged if the contact is stable,
\* otherwise that of the frame before; the first one keeps its own.
StoredAcce(t) ==
  IF imuDataSeq = << >> THEN {t}
  ELSE IF contactDuration > StableAfter THEN Smoothed(t)
  ELSE acce[Last(imuDataSeq)]

\* The contacts that StableAfter + 2 messages in a row reported are the same.
Agreeing ==
  /\ Len(footDataSeq) >= StableAfter + 2
  /\ \A i \in (Len(footDataSeq) - StableAfter - 1) .. Len(footDataSeq) :
       footDataSeq[i] = Last(footDataSeq)

\* The rest, under IMUDataSeqMutex.
Store ==
  /\ pcImu = "store" /\ pcImu' = "idle"
  /\ acce' = [acce EXCEPT ![frame] = StoredAcce(frame)]
  /\ calm' = IF Agreeing THEN calm \union {frame} ELSE calm
  /\ imuDataSeq' = Append(imuDataSeq, frame)
  /\ stored' = Append(stored, frame)
  /\ UNCHANGED <<epochVars, footVars, shift, imuIsCome, turned, frame>>

-------------------------------------------------------------------------------
(* The main thread.                                                        *)

\* Mutated: no lag.
EraseBoundNoLag(validTime) == validTime
EraseBound(validTime) == validTime - EraseLag

\* The stamps of the frames in the list.
ListStamps == [i \in 1 .. Len(imuDataSeq) |-> StampOf(imuDataSeq[i])]

\* EraseOldDataPieceSafely, for this list, under IMUDataSeqMutex.  The state is
\* valid until a time that was the end of the list, or before (SensorFlow).  It
\* still is not after the end when the epoch has moved: the initialisation takes
\* a second of data, and is taken to outlast the test and set of the epoch.
MainErase ==
  /\ imuDataSeq # << >>
  /\ \E now \in Stamps :
       LET validTime == now - epoch
       IN /\ validTime <= Last(ListStamps)
          /\ imuDataSeq' = SubSeq(imuDataSeq,
                                  CountBefore(ListStamps, EraseBound(validTime)) + 1,
                                  Len(imuDataSeq))
  /\ UNCHANGED <<epochVars, footVars, shift, acce, imuIsCome, turned, pcImu, frame, stored, calm>>

Next ==
  \/ \E topic \in Others : TestEpoch(topic) \/ SetEpoch(topic)
  \/ HandleFootMessage
  \/ HandleIMUMessage \/ ImuSetEpoch \/ ImuShift \/ Store
  \/ MainErase

Spec == Init /\ [][Next]_vars

-------------------------------------------------------------------------------
(* Safety.                                                                 *)

Frames == {stored[i] : i \in 1 .. Len(stored)}

\* What the counter is for: a measurement taken while the contacts change never
\* enters an acceleration, neither its own frame's nor, through the average over
\* stored frames, a later one's.  The first measurement is the exception: it is
\* stored without a look at the feet, and every later average contains it.
\* A measurement taken while they agree always enters (data_manager.h:201-215,
\* 229-240).
OnlyCalmMeasured ==
  \A t \in Frames : /\ acce[t] \subseteq calm \union {stored[1]}
                    /\ t \in calm => t \in acce[t]

\* The yaw is integrated over the whole time since the first frame, without a
\* gap or an overlap, although it is read off the end of a list that another
\* thread erases from, stamped by an epoch any topic may have set, and frames with
\* unusable accelerations go through (data_manager.h:170): unless another topic,
\* having found no epoch, sets it after the IMU has begun to use one.  Then dt is
\* off by as much as the epoch has moved.
TurnedThroughout ==
  ~ epochMoved /\ pcImu = "idle" /\ stored # << >> => turned = Last(stored) - stored[1]

\* Erasure never shortens the average: as long as the last SmaLength frames
\* span no more than EraseLag (they do from 40 Hz on, and 50 Hz are required),
\* they are all still there, the epoch staying where it is (data_manager.h:131,
\* garlileo.cpp:60).
AverageUndisturbed ==
  LET n == Len(stored)
  IN ~ epochMoved /\ n >= SmaLength /\ stored[n] - stored[n - SmaLength + 1] <= EraseLag
       => Recent(imuDataSeq) = Recent(stored)
===============================================================================
