------------------------------- MODULE TimeEpoch -------------------------------
(***************************************************************************)
(* GARLILEO_TIME_EPOCH.  The first message of any topic sets the epoch, and *)
(* every callback of DataManager subtracts it from the stamps it stores.    *)
(* The four topics have callback groups of their own in a multi-threaded   *)
(* executor, so their callbacks run concurrently, and the epoch has no     *)
(* lock: a callback tests it, sets it, and reads it again for each stamp.  *)
(* An assignment of the epoch is taken to be one step (the payload is      *)
(* stored before the flag of the optional).                                *)
(*                                                                         *)
(* Stamps are ticks of the clock the sensors share.                        *)
(***************************************************************************)
EXTENDS Integers, Sequences, SequencesExt, FiniteSets

CONSTANTS
  Stamps,       \* stamps of messages
  Topics,       \* those of the four topics that are published
  NumTargets,   \* radar targets of a scan
  MaxMessages,  \* bound of the model: messages of each topic
  Offset        \* TIME_OFFSET_RtoB

ASSUME EpochAssumption ==
  /\ Stamps \subseteq Nat
  /\ Topics \subseteq {"imu", "radar", "leg", "foot"} /\ "imu" \in Topics
  /\ NumTargets \in Nat \ {0} /\ MaxMessages \in Nat /\ Offset \in Int

None == -1

VARIABLES
  epoch,        \* GARLILEO_TIME_EPOCH, None for nullopt
  pc, raw,      \* the callback of each topic, and the stamp of its message
  shifted,      \* the stamps it has shifted so far
  stored,       \* what it has stored: [raw, stamp] of every measurement
  received,     \* messages so far
  setters,      \* history: the topics that set the epoch
  dtExact       \* history: the dt of every IMU frame was the time since the last

vars == <<epoch, pc, raw, shifted, stored, received, setters, dtExact>>

TypeOK ==
  /\ epoch \in Stamps \union {None}
  /\ pc \in [Topics -> {"idle", "test", "set", "shift"}]
  /\ raw \in [Topics -> Stamps \union {None}]
  /\ shifted \in [Topics -> Seq(Int)]
  /\ stored \in [Topics -> Seq([raw : Stamps, stamp : Int])]
  /\ received \in [Topics -> 0 .. MaxMessages]
  /\ setters \subseteq Topics
  /\ dtExact \in BOOLEAN

Init ==
  /\ epoch = None
  /\ pc = [t \in Topics |-> "idle"]
  /\ raw = [t \in Topics |-> None]
  /\ shifted = [t \in Topics |-> << >>]
  /\ stored = [t \in Topics |-> << >>]
  /\ received = [t \in Topics |-> 0]
  /\ setters = {}
  /\ dtExact = TRUE

-------------------------------------------------------------------------------
Goto(t, from, to) == pc[t] = from /\ pc' = [pc EXCEPT ![t] = to]

\* Stamps in one message, and what is added to each of them.
Count(t) == IF t = "radar" THEN NumTargets ELSE 1
Delay(t) == IF t = "radar" THEN Offset ELSE 0

\* dt of HandleIMUMessage: to the last frame stored, by the epoch of now.
ImuDt(now) == now - Last(stored["imu"]).stamp - epoch

\* The start of a callback.  From its second message on, HandleIMUMessage
\* first reads the epoch for dt.
Receive(t) ==
  /\ received[t] < MaxMessages
  /\ Goto(t, "idle", "test")
  /\ \E now \in Stamps :
       /\ now > raw[t]
       /\ raw' = [raw EXCEPT ![t] = now]
       /\ dtExact' = IF t = "imu" /\ stored[t] # << >>
                     THEN dtExact /\ ImuDt(now) = now - raw[t]
                     ELSE dtExact
  /\ received' = [received EXCEPT ![t] = @ + 1]
  /\ UNCHANGED <<epoch, shifted, stored, setters>>

\* Mutated: the epoch is never found to be set.
TestNothing(t) ==
  /\ Goto(t, "test", "set")
  /\ UNCHANGED <<epoch, raw, shifted, stored, received, setters, dtExact>>

Test(t) ==
  /\ Goto(t, "test", IF epoch = None THEN "set" ELSE "shift")
  /\ UNCHANGED <<epoch, raw, shifted, stored, received, setters, dtExact>>

\* Mutated: the offset is added to the epoch.
SetOffset(t) ==
  /\ Goto(t, "set", "shift")
  /\ epoch' = raw[t] + Delay(t)
  /\ setters' = setters \union {t}
  /\ UNCHANGED <<raw, shifted, stored, received, dtExact>>

Set(t) ==
  /\ Goto(t, "set", "shift")
  /\ epoch' = raw[t]
  /\ setters' = setters \union {t}
  /\ UNCHANGED <<raw, shifted, stored, received, dtExact>>

\* Mutated: the offset is added to every stamp.
ShiftedByOffset(t) == raw[t] - epoch + Offset
Shifted(t) == raw[t] - epoch + Delay(t)

Shift(t) ==
  /\ pc[t] = "shift"
  /\ Len(shifted[t]) < Count(t)
  /\ shifted' = [shifted EXCEPT ![t] = Append(@, Shifted(t))]
  /\ UNCHANGED <<epoch, pc, raw, stored, received, setters, dtExact>>

\* The measurements are appended to the topic's list, under its mutex.
Store(t) ==
  /\ Len(shifted[t]) = Count(t)
  /\ Goto(t, "shift", "idle")
  /\ stored' = [stored EXCEPT ![t] =
       @ \o [i \in 1 .. Count(t) |-> [raw |-> raw[t], stamp |-> shifted[t][i]]]]
  /\ shifted' = [shifted EXCEPT ![t] = << >>]
  /\ UNCHANGED <<epoch, raw, received, setters, dtExact>>

Next == \E t \in Topics : Receive(t) \/ Test(t) \/ Set(t) \/ Shift(t) \/ Store(t)

Spec == Init /\ [][Next]_vars

-------------------------------------------------------------------------------
(* Safety.                                                                 *)

\* The epoch a stored measurement was shifted by.
EpochOf(t, m) == m.raw + Delay(t) - m.stamp

Measurements(t) == ToSet(stored[t])

AlignedTo(e) == \A t \in Topics : \A m \in Measurements(t) : EpochOf(t, m) = e

\* Time starts anew when the epoch is set, so that a second topic may set it
\* once more is only harmless if nothing is stored by the first: as long as one
\* topic has set it, all measurements share it and every dt of the IMU is right.
AlignedUnlessRaced == Cardinality(setters) < 2 => dtExact /\ AlignedTo(epoch)

\* Every measurement, even one shifted in a race, is shifted by the stamp of a
\* message that found no epoch, the first one of its topic: measurements are
\* never further apart than the topics are when they start.
EpochIsFirstStamp ==
  \A t \in Topics : \A m \in Measurements(t) :
    \E u \in setters :
      EpochOf(t, m) = IF stored[u] = << >> THEN raw[u] ELSE stored[u][1].raw

\* "Aligned the time of targetAry (i.e., radar time) to IMU time"
\* (data_manager.h:265): IMU frames and radar targets share one epoch.
RadarAlignedToImu ==
  \A m \in Measurements("imu"), n \in Measurements("radar") :
    EpochOf("imu", m) = EpochOf("radar", n)
===============================================================================
