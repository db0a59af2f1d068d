------------------------------ MODULE SensorFlow ------------------------------
(***************************************************************************)
(* The measurements from their callbacks to the optimisation windows.      *)
(* Three callbacks of the executor append to the lists of DataManager,     *)
(* each under the list's own mutex; the StateManager thread reads the ends *)
(* of two lists and copies a window out of all three, one mutex at a time; *)
(* the main thread erases consumed measurements from the lists, one mutex  *)
(* at a time, by the valid time of a snapshot it took earlier.             *)
(*                                                                         *)
(* A measurement is its time stamp, in ticks.  Each topic delivers its     *)
(* messages in the order of their stamps, possibly with losses; nothing is *)
(* assumed about how far one topic is behind another.                      *)
(***************************************************************************)
EXTENDS SensorQueue

CONSTANTS
  Stamps,           \* [imu, radar, leg -> the stamps its sensor may produce]
  ScanSizes,        \* how many targets a radar scan may have
  TicksPerSecond,
  MinWindow,        \* 1 / IncrementalOptRate
  EraseLag,         \* 0.2 s
  MinImuRate,       \* 50 Hz
  MinRadarRate,     \* 10 Hz
  SampleLists, SampleTimes \* lists and times on which ListOperations asks; for TLC, few

Sensors == {"imu", "radar", "leg"}

ASSUME FlowAssumption ==
  /\ Stamps \in [Sensors -> SUBSET Nat]
  /\ ScanSizes \subseteq Nat \ {0}
  /\ TicksPerSecond \in Nat \ {0} /\ MinWindow \in Nat \ {0}
  /\ EraseLag \in Nat /\ MinImuRate \in Nat /\ MinRadarRate \in Nat

ASSUME ListAssumption == SampleLists \subseteq Seq(Int) /\ SampleTimes \subseteq Int

VARIABLES
  queue,        \* imuDataSeq, radarDataSeq and legDataSeq
  arrived,      \* history: everything ever appended to each list
  initialized,  \* the HasInitialized bit
  shouldQuit,   \* the ShouldQuit bit
  vset,         \* ValidStateEndTime
  pcSM,         \* the StateManager thread
  sTime, eTime, \* the current window; eTime holds the IMU end for a moment
  batch,        \* the copies taken for the current window
  used,         \* history: what the windows committed so far were made of
  pcMain,       \* the main thread
  snapVset      \* ValidStateEndTime in its StatusPack

flowVars == <<queue, arrived>>
statusVars == <<initialized, shouldQuit, vset>>
smVars   == <<pcSM, sTime, eTime, batch, used>>
mainVars == <<pcMain, snapVset>>
vars == <<flowVars, statusVars, smVars, mainVars>>

None == -1
Times == {None} \union UNION {Stamps[s] : s \in Sensors}

NoData == [s \in Sensors |-> << >>]

TypeOK ==
  /\ queue \in [Sensors -> Seq(Nat)]
  /\ arrived \in [Sensors -> Seq(Nat)]
  /\ initialized \in BOOLEAN /\ shouldQuit \in BOOLEAN
  /\ vset \in Times /\ sTime \in Times /\ eTime \in Times /\ snapVset \in Times
  /\ pcSM \in {"top", "imuEnd", "radarEnd", "imu", "radar", "leg", "judge", "quit", "done"}
  /\ batch \in [Sensors -> Seq(Nat)]
  /\ used \in [Sensors -> Seq(Nat)]
  /\ pcMain \in {"top", "imu", "radar", "leg", "done"}

Init ==
  /\ queue = NoData
  /\ arrived = NoData
  /\ initialized = FALSE /\ shouldQuit = FALSE
  /\ vset = None
  /\ pcSM = "top" /\ sTime = None /\ eTime = None
  /\ batch = NoData
  /\ used = NoData
  /\ pcMain = "top" /\ snapVset = None

-------------------------------------------------------------------------------
(* The callbacks.                                                          *)

\* The executor runs, and the stamp is later than everything the topic
\* delivered before.
Fresh(s, t) ==
  /\ pcMain # "done"
  /\ \A i \in 1 .. Len(arrived[s]) : arrived[s][i] < t

Deliver(s, data) ==
  /\ queue'   = [queue   EXCEPT ![s] = @ \o data]
  /\ arrived' = [arrived EXCEPT ![s] = @ \o data]

\* HandleIMUMessage and HandleLegMessage append one frame.
HandleFrame(s) ==
  /\ \E t \in Stamps[s] : Fresh(s, t) /\ Deliver(s, <<t>>)
  /\ UNCHANGED <<statusVars, smVars, mainVars>>

HandleIMUMessage == HandleFrame("imu")
HandleLegMessage == HandleFrame("leg")

\* HandleRadarMessage appends the targets of a scan, which share its stamp.
HandleRadarMessage ==
  /\ \E t \in Stamps["radar"], n \in ScanSizes :
       Fresh("radar", t) /\ Deliver("radar", [i \in 1 .. n |-> t])
  /\ UNCHANGED <<statusVars, smVars, mainVars>>

-------------------------------------------------------------------------------
(* The StateManager thread.                                                *)

SMStep(from, to) == pcSM = from /\ pcSM' = to

\* TryPerformInitialization, when it succeeds: the radar frames span two
\* scans, there are IMU frames in between, and the state becomes valid until
\* the last of these.  RadarInit models how the frames come about.
SMInitialize ==
  /\ ~initialized
  /\ SMStep("top", "top")
  /\ \E i, j \in 1 .. Len(queue["radar"]) :
       LET imuData == Extract(queue["imu"], queue["radar"][i], queue["radar"][j])
       IN /\ queue["radar"][i] < queue["radar"][j]
          /\ imuData # << >>
          /\ vset' = Last(imuData)
  /\ initialized' = TRUE
  /\ UNCHANGED <<flowVars, shouldQuit, sTime, eTime, batch, used, mainVars>>

SMSnapshot ==
  /\ initialized
  /\ sTime' = vset
  /\ SMStep("top", IF shouldQuit THEN "done" ELSE "imuEnd")
  /\ UNCHANGED <<flowVars, statusVars, eTime, batch, used, mainVars>>

\* GetEndTimeSafely: the end of the IMU list, then that of the radar list.
SMImuEnd ==
  /\ SMStep("imuEnd", "radarEnd")
  /\ eTime' = Last(queue["imu"])
  /\ UNCHANGED <<flowVars, statusVars, sTime, batch, used, mainVars>>

SMRadarEnd ==
  LET m2  == Last(queue["radar"])
      end == IF m2 < eTime THEN m2 ELSE eTime
  IN /\ SMStep("radarEnd", IF end - sTime < MinWindow THEN "top" ELSE "imu")
     /\ eTime' = end
     /\ UNCHANGED <<flowVars, statusVars, sTime, batch, used, mainVars>>

\* Mutated: the overload without an end.
SMExtractRest(s, next) ==
  /\ SMStep(s, next)
  /\ batch' = [batch EXCEPT ![s] = ExtractFrom(queue[s], sTime)]
  /\ UNCHANGED <<flowVars, statusVars, sTime, eTime, used, mainVars>>

SMExtract(s, next) ==
  /\ SMStep(s, next)
  /\ batch' = [batch EXCEPT ![s] = Extract(queue[s], sTime, eTime)]
  /\ UNCHANGED <<flowVars, statusVars, sTime, eTime, used, mainVars>>

SMExtractImu   == SMExtract("imu", "radar")
SMExtractRadar == SMExtract("radar", "leg")
SMExtractLeg   == SMExtract("leg", "judge")

\* n measurements over the window are fewer than rate per second.
TooFew(n, rate) == n * TicksPerSecond < rate * (eTime - sTime)

\* Mutated: the rates swapped.
SMStarvedSwapped ==
  \/ TooFew(Len(batch["imu"]), MinRadarRate)
  \/ TooFew(Len(batch["radar"]), MinImuRate)

SMStarved ==
  \/ TooFew(Len(batch["imu"]), MinImuRate)
  \/ TooFew(Len(batch["radar"]), MinRadarRate)

SMGiveUp ==
  /\ SMStarved
  /\ SMStep("judge", "quit")
  /\ UNCHANGED <<flowVars, statusVars, sTime, eTime, batch, used, mainVars>>

SMQuit ==
  /\ shouldQuit' = TRUE
  /\ SMStep("quit", "top")
  /\ UNCHANGED <<flowVars, initialized, vset, sTime, eTime, batch, used, mainVars>>

\* Mutated: valid until one tick past the window.
SMCommitLate ==
  /\ ~SMStarved
  /\ used' = [s \in Sensors |-> used[s] \o batch[s]]
  /\ vset' = eTime + 1
  /\ SMStep("judge", "top")
  /\ UNCHANGED <<flowVars, initialized, shouldQuit, sTime, eTime, batch, mainVars>>

\* Every measurement of the batch becomes a factor of the window's problem
\* (an IMU frame also has its orientation turned into the world, in place).
SMCommit ==
  /\ ~SMStarved
  /\ used' = [s \in Sensors |-> used[s] \o batch[s]]
  /\ vset' = eTime
  /\ SMStep("judge", "top")
  /\ UNCHANGED <<flowVars, initialized, shouldQuit, sTime, eTime, batch, mainVars>>

SMNext ==
  \/ SMInitialize \/ SMSnapshot \/ SMImuEnd \/ SMRadarEnd
  \/ SMExtractImu \/ SMExtractRadar \/ SMExtractLeg
  \/ SMGiveUp \/ SMQuit \/ SMCommit

-------------------------------------------------------------------------------
(* The main thread.                                                        *)

MainStep(from, to) == pcMain = from /\ pcMain' = to

MainSnapshot ==
  /\ snapVset' = vset
  /\ MainStep("top", IF shouldQuit THEN "done" ELSE IF initialized THEN "imu" ELSE "top")
  /\ UNCHANGED <<flowVars, statusVars, smVars>>

\* Mutated: the lag on the wrong side.
MainEraseAhead(s, next) ==
  /\ MainStep(s, next)
  /\ queue' = [queue EXCEPT ![s] = EraseOld(@, snapVset + EraseLag)]
  /\ UNCHANGED <<arrived, statusVars, smVars, snapVset>>

MainErase(s, next) ==
  /\ MainStep(s, next)
  /\ queue' = [queue EXCEPT ![s] = EraseOld(@, snapVset - EraseLag)]
  /\ UNCHANGED <<arrived, statusVars, smVars, snapVset>>

MainEraseImu   == MainErase("imu", "radar")
MainEraseRadar == MainErase("radar", "leg")
MainEraseLeg   == MainErase("leg", "top")

MainNext == MainSnapshot \/ MainEraseImu \/ MainEraseRadar \/ MainEraseLeg

-------------------------------------------------------------------------------
Terminated == pcSM = "done" /\ pcMain = "done" /\ UNCHANGED vars

Next ==
  \/ HandleIMUMessage \/ HandleRadarMessage \/ HandleLegMessage
  \/ SMNext \/ MainNext \/ Terminated

Spec == Init /\ [][Next]_vars

-------------------------------------------------------------------------------
(* Safety.                                                                 *)

\* The std::copy ranges of every extraction from every list, in or out of time
\* order, are valid; an extraction from a list in time order is the window asked
\* for; and erasing what lies before a window does not change what the window
\* yields (data_manager.cpp:193-251, 308-330).  It is about the operations, not
\* about the state, and asked once, before anything has arrived.
ListOperations ==
  arrived = NoData /\ pcMain = "top" => \A q \in SampleLists : \A s, e \in SampleTimes :
    /\ CopyRangeValid(q, s, e)
    /\ ExtractIsWindow(q, s, e)
    /\ ExtractFromIsWindow(q, s, e)
    /\ \A t \in SampleTimes : EraseSparesWindow(q, t, s, e)

\* The main thread never erases the newest measurement of a list.  This is all
\* that stands behind two calls of back(): GetEndTimeSafely does not ask whether
\* the lists are empty, and the IMU callback reads the last frame without the
\* mutex (data_manager.h:170), before it has stored its own.
EndsKept ==
  initialized => \A s \in {"imu", "radar"} :
    queue[s] # << >> /\ Last(queue[s]) = Last(arrived[s])

\* Each list is what has arrived but for some measurements at the front, all
\* older than the window: nothing is erased before the windows have moved past
\* it, although erasure goes by a stale snapshot and list by list
\* (garlileo.cpp:60, data_manager.cpp:308-330).
UnconsumedKept ==
  initialized => \A s \in Sensors : \E n \in 0 .. Len(arrived[s]) :
    /\ queue[s] = SubSeq(arrived[s], n + 1, Len(arrived[s]))
    /\ \A i \in 1 .. n : arrived[s][i] < vset

\* From the first window on, every IMU frame and radar target is optimised in
\* exactly one window: none was erased, none arrives after its window, and
\* consecutive windows neither overlap nor leave a gap.  (An IMU frame's
\* orientation is turned in place, so twice would be wrong.)  Leg frames may come
\* too late for their window and are then never used, but none is used twice or
\* out of order (state_manager.cpp:513-534, data_manager.cpp:193-330).
Log == INSTANCE MeasurementLog
         WITH log <- arrived, upTo <- vset, Prompt <- {"imu", "radar"}

ImplementsMeasurementLog == Log!Spec

\* Estimation only gives up on a window that starts with a radar scan, and is
\* no longer than the period of the slowest radar accepted, for want of IMU
\* frames.  (A window that starts between two scans, because the IMU topic was
\* behind when the last one ended, may hold no scan and end the program.)
GivesUpForCause ==
  /\ pcSM = "quit"
  /\ \E i \in 1 .. Len(arrived["radar"]) : arrived["radar"][i] = sTime
  /\ MinRadarRate * (eTime - sTime) <= TicksPerSecond
  => TooFew(Len(batch["imu"]), MinImuRate)
===============================================================================
