------------------------------ MODULE RadarInit ------------------------------
(***************************************************************************)
(* How the system gets initialised.  The radar callback gathers scans into *)
(* frames (DataManager::OrganizeRadarTarAryForInit), keeps the latest of   *)
(* them in radarTarAryForInit and raises RadarTarAryForInitIsReady once it *)
(* has more than it keeps; the StateManager thread, polling, lowers the    *)
(* flag and initialises from a copy of the frames and from the IMU frames  *)
(* of the same time (StateManager::TryPerformInitialization).  A frame     *)
(* with too few targets throws all frames away.                            *)
(*                                                                         *)
(* A radar target is its stamp, a scan the number of its targets and the   *)
(* stamp they share, a frame the stamps of its first and last target.      *)
(* Calling front() or back() on an empty container is undefined: on a list *)
(* it reads a null pointer and the process dies; on the vector of targets  *)
(* it reads memory that may hold anything.                                 *)
(***************************************************************************)
EXTENDS SensorQueue

CONSTANTS
  ScanStamps,   \* when the radar may scan
  ScanSizes,    \* how many targets a scan may have
  ImuStamps,    \* when the IMU samples
  FrameSpan,    \* 0.1 s
  MinTargets,   \* 3
  NumFrames     \* 10

\* Two frames at least are kept (ten, in the code), and the IMU samples at least
\* once in the time of a frame: the code takes five times that for too few
\* (state_manager.cpp:513-534).
ASSUME InitAssumption ==
  /\ ScanStamps \subseteq Nat /\ ImuStamps \subseteq Nat
  /\ ScanSizes \subseteq Nat
  /\ FrameSpan \in Nat \ {0} /\ MinTargets \in Nat \ {0}
  /\ NumFrames \in Nat /\ NumFrames > 1
  /\ \A a, b \in ScanStamps : b - a >= FrameSpan => \E u \in ImuStamps : a <= u /\ u < b

None == -1

VARIABLES
  imuDataSeq,       \* the IMU list
  radarEnd,         \* stamp of the last scan delivered, or None
  tarAry,           \* static in the organizer: targets of the frame in the making
  scanHeadTime,     \* static in the organizer; None before its first call
  radarTarAryForInit,
  ready,            \* the RadarTarAryForInitIsReady bit
  initialized,      \* the HasInitialized bit
  vset,             \* ValidStateEndTime
  pcRadar, snapReady,   \* the radar callback; the ready bit of its snapshot
  scan,             \* the message the callback handles
  pcSM,             \* the StateManager thread
  frames,           \* its copy of radarTarAryForInit
  crashed,          \* the process has died
  spoilt            \* history: a frame had too few targets, or a scan killed the process

listVars == <<imuDataSeq, radarEnd>>
organizerVars == <<tarAry, scanHeadTime>>
sharedVars == <<radarTarAryForInit, ready, initialized, vset>>
radarVars == <<pcRadar, snapReady, scan>>
smVars == <<pcSM, frames>>
vars == <<listVars, organizerVars, sharedVars, radarVars, smVars, crashed, spoilt>>

Frames == [first : ScanStamps, last : ScanStamps]
Scans  == [stamp : ScanStamps, size : ScanSizes]
NoScan == [stamp |-> None, size |-> 0]

TypeOK ==
  /\ imuDataSeq \in Seq(ImuStamps)
  /\ radarEnd \in ScanStamps \union {None}
  /\ tarAry \in Seq(ScanStamps)
  /\ scanHeadTime \in ScanStamps \union {None}
  /\ radarTarAryForInit \in Seq(Frames)
  /\ {ready, initialized, snapReady, crashed, spoilt} \subseteq BOOLEAN
  /\ vset \in ImuStamps \union ScanStamps \union {None}
  /\ pcRadar \in {"idle", "organize", "drop", "toggle"}
  /\ scan \in Scans \union {NoScan}
  /\ pcSM \in {"top", "consume", "copy", "initialize", "running"}
  /\ frames \in Seq(Frames)

Init ==
  /\ imuDataSeq = << >> /\ radarEnd = None
  /\ tarAry = << >> /\ scanHeadTime = None
  /\ radarTarAryForInit = << >>
  /\ ready = FALSE /\ initialized = FALSE /\ vset = None
  /\ pcRadar = "idle" /\ snapReady = FALSE /\ scan = NoScan
  /\ pcSM = "top" /\ frames = << >>
  /\ crashed = FALSE /\ spoilt = FALSE

-------------------------------------------------------------------------------
(* The callbacks.                                                          *)

HandleIMUMessage ==
  /\ \E t \in ImuStamps :
       /\ \A i \in 1 .. Len(imuDataSeq) : imuDataSeq[i] < t
       /\ \A u \in ImuStamps : u < t => \E i \in 1 .. Len(imuDataSeq) : imuDataSeq[i] = u
       /\ imuDataSeq' = Append(imuDataSeq, t)
  /\ UNCHANGED <<radarEnd, organizerVars, sharedVars, radarVars, smVars, crashed, spoilt>>

\* HandleRadarMessage up to its snapshot of the status word.
HandleRadarMessage ==
  /\ pcRadar = "idle"
  /\ \E s \in Scans :
       /\ s.stamp > radarEnd
       /\ scan' = s
       /\ radarEnd' = s.stamp
  /\ snapReady' = ready
  /\ pcRadar' = IF initialized THEN "drop" ELSE "organize"
  /\ UNCHANGED <<imuDataSeq, organizerVars, sharedVars, smVars, crashed, spoilt>>

RadarReturn == pcRadar = "organize" /\ pcRadar' = "idle"

\* tarAry once the targets of the scan are appended, and scanHeadTime, which
\* the first call initialises.
Gathered == tarAry \o [i \in 1 .. scan.size |-> scan.stamp]
HeadTime == IF scanHeadTime = None THEN Head(Gathered) ELSE scanHeadTime

\* The outcomes of the test on the time span; either, when there is no target
\* and back() reads memory that may hold anything.
SpanIsShort ==
  IF Gathered = << >> THEN BOOLEAN ELSE {Last(Gathered) - HeadTime < FrameSpan}

OrganizeCrash ==
  /\ RadarReturn
  /\ Gathered = << >>
  /\ crashed' = TRUE /\ spoilt' = TRUE
  /\ UNCHANGED <<listVars, organizerVars, sharedVars, snapReady, scan, smVars>>

\* The time span is too short for a frame yet.
OrganizeGather ==
  /\ RadarReturn
  /\ ~ (scanHeadTime = None /\ Gathered = << >>)
  /\ TRUE \in SpanIsShort
  /\ tarAry' = Gathered
  /\ scanHeadTime' = HeadTime
  /\ UNCHANGED <<listVars, sharedVars, snapReady, scan, smVars, crashed, spoilt>>

\* Long enough, but too few targets: the frame and all frames before it are
\* dropped.  The head time and the ready flag stay as they are.
OrganizeInvalid ==
  /\ RadarReturn
  /\ ~ (scanHeadTime = None /\ Gathered = << >>)
  /\ FALSE \in SpanIsShort
  /\ Len(Gathered) < MinTargets
  /\ tarAry' = << >>
  /\ scanHeadTime' = HeadTime
  /\ radarTarAryForInit' = << >>
  /\ spoilt' = TRUE
  /\ UNCHANGED <<listVars, ready, initialized, vset, snapReady, scan, smVars, crashed>>

\* The frames kept, once a frame is pushed; the head time of the next frame.
KeptAll(all) == all          \* mutated: pop_front() forgotten
Kept(all) == IF Len(all) > NumFrames THEN Tail(all) ELSE all

NextHeadStale == HeadTime                     \* mutated: never reset
NextHeadAhead == Last(Gathered) + FrameSpan   \* mutated: a span too far
NextHead == Last(Gathered)

\* A frame: pushed, and the flag raised when the oldest has to go.
OrganizeValid ==
  /\ RadarReturn
  /\ Len(Gathered) >= MinTargets
  /\ FALSE \in SpanIsShort
  /\ LET all == Append(radarTarAryForInit,
                       [first |-> Head(Gathered), last |-> Last(Gathered)])
     IN /\ radarTarAryForInit' = Kept(all)
        /\ ready' = (ready \/ Len(all) > NumFrames)
  /\ scanHeadTime' = NextHead
  /\ tarAry' = << >>
  /\ UNCHANGED <<listVars, initialized, vset, snapReady, scan, smVars, crashed, spoilt>>

\* Once the snapshot says HasInitialized: clear the frames, lower the flag.
RadarDrop ==
  /\ pcRadar = "drop"
  /\ radarTarAryForInit' = << >>
  /\ pcRadar' = IF snapReady THEN "toggle" ELSE "idle"
  /\ UNCHANGED <<listVars, organizerVars, ready, initialized, vset, snapReady, scan, smVars, crashed, spoilt>>

RadarToggle ==
  /\ pcRadar = "toggle"
  /\ ready' = ~ready
  /\ pcRadar' = "idle"
  /\ UNCHANGED <<listVars, organizerVars, radarTarAryForInit, initialized, vset, snapReady, scan, smVars, crashed, spoilt>>

-------------------------------------------------------------------------------
(* The StateManager thread.                                                *)

SMStep(from, to) == pcSM = from /\ pcSM' = to

\* Run, one turn before initialisation; afterwards see SensorFlow.
\* Mutated: the ready flag is not asked for.
SMSnapshotEager ==
  /\ SMStep("top", "consume")
  /\ UNCHANGED <<listVars, organizerVars, sharedVars, radarVars, frames, crashed, spoilt>>

SMSnapshot ==
  /\ ready
  /\ SMStep("top", "consume")
  /\ UNCHANGED <<listVars, organizerVars, sharedVars, radarVars, frames, crashed, spoilt>>

SMConsumeReady ==
  /\ SMStep("consume", "copy")
  /\ ready' = ~ready
  /\ UNCHANGED <<listVars, organizerVars, radarTarAryForInit, initialized, vset, radarVars, frames, crashed, spoilt>>

\* GetRadarTarAryForInitSafely, then front() and back() of the copy.
SMCopyFrames ==
  /\ SMStep("copy", "initialize")
  /\ frames' = radarTarAryForInit
  /\ crashed' = (radarTarAryForInit = << >>)
  /\ UNCHANGED <<listVars, organizerVars, sharedVars, radarVars, spoilt>>

\* The IMU frames in between, and eTime: the earlier of the two ends.
InitImu == Extract(imuDataSeq, frames[1].first, Last(frames).last)

InitEnds == {Last(InitImu), Last(frames).last}
InitEndMax == Max(InitEnds)   \* mutated: the later end
InitEnd    == Min(InitEnds)

\* front() and back() of no IMU frames.
SMInitializeCrash ==
  /\ SMStep("initialize", "running")
  /\ InitImu = << >>
  /\ crashed' = TRUE
  /\ UNCHANGED <<listVars, organizerVars, sharedVars, radarVars, frames, spoilt>>

\* The rest of TryPerformInitialization.  It can end the process once more, in
\* the query of the covariance, which EstimatorProblem has and this module leaves out.
SMInitialize ==
  /\ SMStep("initialize", "running")
  /\ InitImu # << >>
  /\ initialized' = TRUE
  /\ vset' = InitEnd
  /\ UNCHANGED <<listVars, organizerVars, radarTarAryForInit, ready, radarVars, frames, crashed, spoilt>>

-------------------------------------------------------------------------------
Step ==
  \/ HandleIMUMessage \/ HandleRadarMessage
  \/ OrganizeCrash \/ OrganizeGather \/ OrganizeInvalid \/ OrganizeValid
  \/ RadarDrop \/ RadarToggle
  \/ SMSnapshot \/ SMConsumeReady \/ SMCopyFrames \/ SMInitializeCrash \/ SMInitialize

Next == ~crashed /\ Step

Spec == Init /\ [][Next]_vars

-------------------------------------------------------------------------------
(* Safety.                                                                 *)

\* The ready flag promises as many frames as the list is meant to hold when
\* the StateManager thread copies it (data_manager.h:64) ...
FramesAsPromised ==
  pcSM = "copy" => Len(radarTarAryForInit) = NumFrames

\* ... and, as long as no frame had too few targets, keeps the promise, although
\* the radar callback goes on pushing and popping frames meanwhile.
FramesReadyWhenConsumed == ~spoilt => FramesAsPromised

\* The frames kept for initialisation are disjoint, in time order and at
\* least a frame span apart (data_manager.cpp:155), whatever was dropped
\* between them: the head time survives a dropped frame.
FramesSpaced ==
  \A i \in 1 .. Len(radarTarAryForInit) - 1 :
    LET f == radarTarAryForInit[i]
        g == radarTarAryForInit[i + 1]
    IN /\ f.last < g.first
       /\ g.last - f.last >= FrameSpan

\* front() and back() are called without asking whether there is anything
\* (state_manager.cpp:95-106, data_manager.cpp:151-153).  The initialisation dies
\* of it only if a frame had too few targets, or if the IMU has not yet reached
\* the first radar frame.
CrashesForCause ==
  crashed =>
    \/ spoilt
    \/ frames # << >> /\ \A i \in 1 .. Len(imuDataSeq) : imuDataSeq[i] < frames[1].first

\* The state is first valid until a time that the frames and the IMU data of
\* the initialisation both cover (state_manager.cpp:105-106).
InitCovered ==
  initialized =>
    /\ frames[1].first <= vset /\ vset < Last(frames).last
    /\ \E i \in 1 .. Len(imuDataSeq) : imuDataSeq[i] = vset
===============================================================================
