---------------------------- MODULE StatusProtocol ----------------------------
(***************************************************************************)
(* The three threads of GaRLILEO that talk through the shared status word  *)
(* (GaRLILEOStatus, guarded by StatusMutex):                               *)
(*                                                                         *)
(*   - the main thread starts the others, then, in GaRLILEO::Run,          *)
(*     publishes new states and erases consumed sensor data, and at the    *)
(*     end joins the others and saves;                                     *)
(*   - the StateManager thread, in StateManager::Run, initialises the      *)
(*     splines once and then optimises one window of data after another;   *)
(*   - the radar callback, run by the executor on behalf of                *)
(*     DataManager::HandleRadarMessage, raises and drops the "ready"       *)
(*     flag of the initialisation.                                         *)
(*                                                                         *)
(* Every thread works on a snapshot of the status word that may be stale   *)
(* by the time it acts on it, and flags are lowered with ^=, which RAISES  *)
(* a flag that is already down.  Sensor data is abstracted to the end time *)
(* GetEndTimeSafely returns, any member of Times; SensorFlow and RadarInit *)
(* model the data.  Where the code calls front() or back() of what may be  *)
(* empty, or asks for a covariance that may not exist, the process dies or *)
(* goes on; RadarInit and EstimatorProblem say when.  One action is one    *)
(* critical section of StatusMutex or StatesMutex, or a stretch of code    *)
(* that touches no shared state.                                           *)
(***************************************************************************)
EXTENDS Integers

CONSTANTS
  Times,        \* the time stamps, in ticks
  MinWindow,    \* 1 / IncrementalOptRate: the shortest window optimised
  PublishLag,   \* the published state is this much older than the latest (0.3 s)
  EraseLag      \* data this much older than the latest state is erased (0.2 s)

ASSUME ProtocolAssumption ==
  /\ Times \subseteq Nat
  /\ MinWindow \in Nat \ {0}
  /\ PublishLag \in Nat \ {0}
  /\ EraseLag \in Nat

None == -1      \* ValidStateEndTime, and the time of a spline, before they are set

SMFlags == {"NONE", "HasInitialized", "ShouldQuit",
            "NewStateNeedToDraw", "NewStateNeedToPublish"}
DMFlags == {"NONE", "RadarTarAryForInitIsReady"}

VARIABLES
  smStatus,     \* GaRLILEOStatus::StateManager::CurStatus, the set of its bits
  dmStatus,     \* GaRLILEOStatus::DataManager::CurStatus
  vset,         \* GaRLILEOStatus::StateManager::ValidStateEndTime
  rosOk,        \* rclcpp::ok()
  spinning,     \* the executor's spinning flag
  pcSpin,       \* the thread that runs exec->spin()
  pcMain, snapMain,     \* the main thread and its StatusPack
  prevTime,     \* GaRLILEO::prev_time: stamp of the last published pose, or None
  erasedTo,     \* data older than this has been erased
  pcSM, snapSM, \* the StateManager thread and its StatusPack
  winEnd,       \* eTime of the initialisation or of the current window
  statesLock,   \* the holder of StatesMutex
  splineStart,  \* MinTime of the splines; None while splines is nullptr
  pcRadar, snapRadar    \* the radar callback and its StatusPack

statusVars == <<smStatus, dmStatus, vset>>
spinVars   == <<rosOk, spinning, pcSpin>>
mainVars   == <<pcMain, snapMain, prevTime, erasedTo>>
smVars     == <<pcSM, snapSM, winEnd, splineStart>>
radarVars  == <<pcRadar, snapRadar>>

vars == <<statusVars, spinVars, mainVars, smVars, statesLock, radarVars>>

StatusPacks == [sm : SUBSET SMFlags, dm : SUBSET DMFlags, vset : Times \union {None}]

TypeOK ==
  /\ smStatus \in SUBSET SMFlags
  /\ dmStatus \in SUBSET DMFlags
  /\ vset \in Times \union {None}
  /\ rosOk \in BOOLEAN
  /\ spinning \in BOOLEAN
  /\ pcSpin \in {"none", "created", "spinning", "exited"}
  /\ pcMain \in {"boot", "construct", "executor",
                 "top", "lookup", "reading", "publish", "clear", "erase",
                 "cancel", "join", "save", "exited", "crashed", "terminated", "died"}
  /\ snapMain \in StatusPacks
  /\ prevTime \in Int
  /\ erasedTo \in Int
  /\ pcSM \in {"none", "top", "consume", "initialize", "building", "window",
               "quit", "lock", "optimizing", "done"}
  /\ snapSM \in StatusPacks
  /\ winEnd \in Times \union {None}
  /\ statesLock \in {"free", "main", "sm"}
  /\ splineStart \in Times \union {None}
  /\ pcRadar \in {"idle", "organize", "drop", "toggle"}
  /\ snapRadar \in StatusPacks

-------------------------------------------------------------------------------
(* The status word.                                                        *)

\* GetStatusPackSafely: the whole word, copied under StatusMutex.
StatusPack == [sm |-> smStatus, dm |-> dmStatus, vset |-> vset]

\* CurStatus ^= flag: exclusive or, which lowers a raised flag but raises a
\* lowered one.
Toggle(word, flag) == IF flag \in word THEN word \ {flag} ELSE word \union {flag}

HasInitialized(pack) == "HasInitialized" \in pack.sm
ShouldQuit(pack)     == "ShouldQuit" \in pack.sm
NeedToPublish(pack)  == "NewStateNeedToPublish" \in pack.sm
IsReadyWrongWord(pack) == "RadarTarAryForInitIsReady" \in pack.sm   \* mutated
IsReady(pack)        == "RadarTarAryForInitIsReady" \in pack.dm

NewState == {"NewStateNeedToDraw", "NewStateNeedToPublish"}

Init ==
  /\ smStatus = {"NONE"}
  /\ dmStatus = {"NONE"}
  /\ vset = None
  /\ rosOk = TRUE
  /\ spinning = FALSE
  /\ pcSpin = "none"
  /\ pcMain = "boot"
  /\ snapMain = StatusPack
  /\ prevTime = None
  /\ erasedTo = None
  /\ pcSM = "none"
  /\ snapSM = StatusPack
  /\ winEnd = None
  /\ statesLock = "free"
  /\ splineStart = None
  /\ pcRadar = "idle"
  /\ snapRadar = StatusPack

-------------------------------------------------------------------------------
(* The main thread: main, GaRLILEO's constructor, Run,                     *)
(* PublishGaRLILEOState and Save.                                          *)

MainStep(from, to) == pcMain = from /\ pcMain' = to

\* Mutated: the executor is started along with the StateManager thread.
MainBootSpinning ==
  /\ pcSM' = "top"
  /\ pcSpin' = "created"
  /\ MainStep("boot", "construct")
  /\ UNCHANGED <<statusVars, rosOk, spinning, snapMain, prevTime, erasedTo, snapSM, winEnd, splineStart, statesLock, radarVars>>

\* The configuration is loaded; the members of GaRLILEO are created, the node and
\* its subscriptions first and the StateManager thread, which begins to run at
\* once, last.
MainBoot ==
  /\ pcSM' = "top"
  /\ MainStep("boot", "construct")
  /\ UNCHANGED <<statusVars, spinVars, snapMain, prevTime, erasedTo, snapSM, winEnd, splineStart, statesLock, radarVars>>

\* No configuration, a message type DataManager does not know, or a node that
\* cannot be made any more: main reports it and returns.
MainBootFails ==
  /\ MainStep("boot", "exited")
  /\ UNCHANGED <<statusVars, spinVars, snapMain, prevTime, erasedTo, smVars, statesLock, radarVars>>

\* The body of the constructor: the publishers.
MainConstruct ==
  /\ MainStep("construct", "executor")
  /\ UNCHANGED <<statusVars, spinVars, snapMain, prevTime, erasedTo, smVars, statesLock, radarVars>>

\* The start of Run: the executor and the thread that spins it.
MainExecutor ==
  /\ pcSpin' = "created"
  /\ MainStep("executor", "top")
  /\ UNCHANGED <<statusVars, rosOk, spinning, snapMain, prevTime, erasedTo, smVars, statesLock, radarVars>>

\* Neither publishers nor an executor can be made after an interrupt.  The
\* exception destroys the thread object while it is joinable: std::terminate,
\* which main's handlers never see, and which takes the thread along.
MainThrow ==
  /\ ~rosOk
  /\ MainStep("construct", "terminated") \/ MainStep("executor", "terminated")
  /\ pcSM' = "done"
  /\ UNCHANGED <<statusVars, spinVars, snapMain, prevTime, erasedTo, snapSM, winEnd, splineStart, statesLock, radarVars>>

\* Where one turn of the loop goes once publishing is over.
AfterPublish(pack) == IF HasInitialized(pack) THEN "erase" ELSE "top"

MainStop ==
  /\ ~rosOk
  /\ MainStep("top", "cancel")
  /\ UNCHANGED <<statusVars, spinVars, snapMain, prevTime, erasedTo, smVars, statesLock, radarVars>>

MainSnapshot ==
  /\ rosOk
  /\ snapMain' = StatusPack
  /\ MainStep("top", IF ShouldQuit(StatusPack) THEN "cancel"
                     ELSE IF NeedToPublish(StatusPack) THEN "lookup"
                     ELSE AfterPublish(StatusPack))
  /\ UNCHANGED <<statusVars, spinVars, prevTime, erasedTo, smVars, statesLock, radarVars>>

\* Mutated: GetStatePackSafely without StatesMutex.
MainLookupUnlocked ==
  /\ MainStep("lookup", "reading")
  /\ UNCHANGED <<statusVars, spinVars, snapMain, prevTime, erasedTo, smVars, statesLock, radarVars>>

\* GetStatePackSafely, which holds StatesMutex while it evaluates the splines.
MainLookup ==
  /\ statesLock = "free"
  /\ statesLock' = "main"
  /\ MainStep("lookup", "reading")
  /\ UNCHANGED <<statusVars, spinVars, snapMain, prevTime, erasedTo, smVars, radarVars>>

\* The time published, and TimeInRange: the splines always reach past the
\* latest valid time, so only their start can be missed.
PublishTimeNoLag == snapMain.vset       \* mutated
PublishTime == snapMain.vset - PublishLag
InRange(t)  == splineStart # None /\ splineStart <= t

MainRead ==
  /\ statesLock' = "free"
  /\ MainStep("reading", IF InRange(PublishTime) THEN "publish" ELSE AfterPublish(snapMain))
  /\ UNCHANGED <<statusVars, spinVars, snapMain, prevTime, erasedTo, smVars, radarVars>>

MainPublish ==
  /\ prevTime' = PublishTime
  /\ MainStep("publish", "clear")
  /\ UNCHANGED <<statusVars, spinVars, snapMain, erasedTo, smVars, statesLock, radarVars>>

\* Mutated: the flag is not lowered.
MainClearForgotten ==
  /\ MainStep("clear", AfterPublish(snapMain))
  /\ UNCHANGED <<statusVars, spinVars, snapMain, prevTime, erasedTo, smVars, statesLock, radarVars>>

MainClear ==
  /\ smStatus' = Toggle(smStatus, "NewStateNeedToPublish")
  /\ MainStep("clear", AfterPublish(snapMain))
  /\ UNCHANGED <<dmStatus, vset, spinVars, snapMain, prevTime, erasedTo, smVars, statesLock, radarVars>>

\* EraseOldDataPieceSafely(ValidStateEndTime - 0.2): only how far the erasure
\* reaches; an older bound erases nothing more.
EraseBoundAhead == snapMain.vset + EraseLag     \* mutated
EraseBound == snapMain.vset - EraseLag

MainErase ==
  /\ erasedTo' = IF EraseBound > erasedTo THEN EraseBound ELSE erasedTo
  /\ MainStep("erase", "top")
  /\ UNCHANGED <<statusVars, spinVars, snapMain, prevTime, smVars, statesLock, radarVars>>

\* Mutated: no exec->cancel().
MainCancelForgotten ==
  /\ MainStep("cancel", "join")
  /\ UNCHANGED <<statusVars, spinVars, snapMain, prevTime, erasedTo, smVars, statesLock, radarVars>>

MainCancel ==
  /\ spinning' = FALSE
  /\ MainStep("cancel", "join")
  /\ UNCHANGED <<statusVars, rosOk, pcSpin, snapMain, prevTime, erasedTo, smVars, statesLock, radarVars>>

MainJoin ==
  /\ pcSpin = "exited"
  /\ pcSM = "done"
  /\ MainStep("join", "save")
  /\ UNCHANGED <<statusVars, spinVars, snapMain, prevTime, erasedTo, smVars, statesLock, radarVars>>

\* Save throws, and main reports, when the output directory cannot be made;
\* otherwise it evaluates the splines without a lock, and without asking whether
\* they were ever created.
MainSave ==
  /\ \E created \in BOOLEAN :
       MainStep("save", IF created /\ splineStart = None THEN "crashed" ELSE "exited")
  /\ UNCHANGED <<statusVars, spinVars, snapMain, prevTime, erasedTo, smVars, statesLock, radarVars>>

MainNext ==
  \/ MainBoot \/ MainBootFails \/ MainConstruct \/ MainExecutor \/ MainThrow
  \/ MainStop \/ MainSnapshot \/ MainLookup \/ MainRead \/ MainPublish
  \/ MainClear \/ MainErase \/ MainCancel \/ MainJoin \/ MainSave

-------------------------------------------------------------------------------
(* A thread other than the main one dereferences a null pointer, or calls  *)
(* std::abort: the whole process is gone, with all its threads and locks.  *)

Die ==
  /\ pcMain' = "died" /\ pcSM' = "done" /\ pcSpin' = "exited" /\ pcRadar' = "idle"
  /\ statesLock' = "free"
  /\ UNCHANGED <<statusVars, rosOk, spinning, snapMain, prevTime, erasedTo,
                 snapSM, winEnd, splineStart, snapRadar>>

-------------------------------------------------------------------------------
(* The StateManager thread: Run, TryPerformInitialization and              *)
(* IncrementalOptimization.                                                *)

SMStep(from, to) == pcSM = from /\ pcSM' = to

SMStop ==
  /\ ~rosOk
  /\ SMStep("top", "done")
  /\ UNCHANGED <<statusVars, spinVars, mainVars, snapSM, winEnd, splineStart, statesLock, radarVars>>

SMSnapshot ==
  /\ rosOk
  /\ snapSM' = StatusPack
  /\ SMStep("top", IF ShouldQuit(StatusPack) THEN "done"
                   ELSE IF HasInitialized(StatusPack) THEN "window"
                   ELSE IF IsReady(StatusPack) THEN "consume" ELSE "top")
  /\ UNCHANGED <<statusVars, spinVars, mainVars, winEnd, splineStart, statesLock, radarVars>>

\* Mutated: the flag is toggled in the word of the StateManager.
SMConsumeReadyWrongWord ==
  /\ smStatus' = Toggle(smStatus, "RadarTarAryForInitIsReady")
  /\ SMStep("consume", "initialize")
  /\ UNCHANGED <<dmStatus, vset, spinVars, mainVars, snapSM, winEnd, splineStart, statesLock, radarVars>>

SMConsumeReady ==
  /\ dmStatus' = Toggle(dmStatus, "RadarTarAryForInitIsReady")
  /\ SMStep("consume", "initialize")
  /\ UNCHANGED <<smStatus, vset, spinVars, mainVars, snapSM, winEnd, splineStart, statesLock, radarVars>>

\* CreateSplines(sTime, eTime) and the solves that fill the splines, all of it
\* without StatesMutex.
SMCreateSplines ==
  /\ \E sTime, eTime \in Times :
       /\ sTime <= eTime
       /\ splineStart' = sTime
       /\ winEnd' = eTime
  /\ SMStep("initialize", "building")
  /\ UNCHANGED <<statusVars, spinVars, mainVars, snapSM, statesLock, radarVars>>

\* Initialisation dies with the ready flag consumed: there are no radar frames or no
\* IMU frames among them, or, once the splines exist, UpdateBiasFilters asks for
\* the covariance of a block the estimator does not hold.
SMInitializeDies == pcSM \in {"initialize", "building"} /\ Die

SMFinishInit ==
  /\ smStatus' = smStatus \union {"HasInitialized"} \union NewState
  /\ vset' = winEnd
  /\ SMStep("building", "top")
  /\ UNCHANGED <<dmStatus, spinVars, mainVars, snapSM, winEnd, splineStart, statesLock, radarVars>>

\* The window is too short, has too little data in it, or can be optimised.
\* Which of the last two depends on the data, left open here.
SMWindow ==
  /\ \E eTime \in Times :
       IF eTime - snapSM.vset < MinWindow
       THEN SMStep("window", "top") /\ UNCHANGED winEnd
       ELSE /\ winEnd' = eTime
            /\ SMStep("window", "quit") \/ SMStep("window", "lock")
  /\ UNCHANGED <<statusVars, spinVars, mainVars, snapSM, splineStart, statesLock, radarVars>>

SMQuit ==
  /\ smStatus' = smStatus \union {"ShouldQuit"}
  /\ SMStep("quit", "top")
  /\ UNCHANGED <<dmStatus, vset, spinVars, mainVars, snapSM, winEnd, splineStart, statesLock, radarVars>>

SMLock ==
  /\ statesLock = "free"
  /\ statesLock' = "sm"
  /\ SMStep("lock", "optimizing")
  /\ UNCHANGED <<statusVars, spinVars, mainVars, snapSM, winEnd, splineStart, radarVars>>

\* The status word is updated with StatesMutex still held.
SMCommit ==
  /\ smStatus' = smStatus \union NewState
  /\ vset' = winEnd
  /\ statesLock' = "free"
  /\ SMStep("optimizing", "top")
  /\ UNCHANGED <<dmStatus, spinVars, mainVars, snapSM, winEnd, splineStart, radarVars>>

SMNext ==
  \/ SMStop \/ SMSnapshot \/ SMConsumeReady \/ SMCreateSplines
  \/ SMInitializeDies \/ SMFinishInit
  \/ SMWindow \/ SMQuit \/ SMLock \/ SMCommit

-------------------------------------------------------------------------------
(* The executor and the radar callback: exec->spin(), HandleRadarMessage.  *)
(* The callback group is mutually exclusive: one radar callback at a time. *)

RadarStep(from, to) == pcRadar = from /\ pcRadar' = to

SpinStart ==
  /\ pcSpin = "created"
  /\ pcSpin' = "spinning"
  /\ spinning' = TRUE
  /\ UNCHANGED <<statusVars, rosOk, mainVars, smVars, statesLock, radarVars>>

SpinExit ==
  /\ pcSpin = "spinning"
  /\ pcRadar = "idle"
  /\ ~rosOk \/ ~spinning
  /\ pcSpin' = "exited"
  /\ UNCHANGED <<statusVars, rosOk, spinning, mainVars, smVars, statesLock, radarVars>>

RadarReceive ==
  /\ pcSpin = "spinning"
  /\ rosOk /\ spinning
  /\ snapRadar' = StatusPack
  /\ RadarStep("idle", IF HasInitialized(StatusPack) THEN "drop" ELSE "organize")
  /\ UNCHANGED <<statusVars, spinVars, mainVars, smVars, statesLock>>

\* OrganizeRadarTarAryForInit raises the flag when an eleventh frame arrives.
RadarOrganize ==
  /\ \/ dmStatus' = dmStatus \union {"RadarTarAryForInitIsReady"}
     \/ UNCHANGED dmStatus
  /\ RadarStep("organize", "idle")
  /\ UNCHANGED <<smStatus, vset, spinVars, mainVars, smVars, statesLock, snapRadar>>

\* The first scan, or a scan after a frame, has no targets: front() or back() of none.
RadarOrganizeDies == pcRadar = "organize" /\ Die

\* Mutated: toggled without a test.
RadarDropUntested ==
  /\ RadarStep("drop", "toggle")
  /\ UNCHANGED <<statusVars, spinVars, mainVars, smVars, statesLock, snapRadar>>

\* radarTarAryForInit.clear(), then the test on the snapshot.
RadarDrop ==
  /\ RadarStep("drop", IF IsReady(snapRadar) THEN "toggle" ELSE "idle")
  /\ UNCHANGED <<statusVars, spinVars, mainVars, smVars, statesLock, snapRadar>>

RadarToggle ==
  /\ dmStatus' = Toggle(dmStatus, "RadarTarAryForInitIsReady")
  /\ RadarStep("toggle", "idle")
  /\ UNCHANGED <<smStatus, vset, spinVars, mainVars, smVars, statesLock, snapRadar>>

RadarNext ==
  RadarReceive \/ RadarOrganize \/ RadarOrganizeDies \/ RadarDrop \/ RadarToggle

-------------------------------------------------------------------------------
\* SIGINT: rclcpp::ok() turns false for good.
Interrupt ==
  /\ rosOk
  /\ rosOk' = FALSE
  /\ UNCHANGED <<statusVars, spinning, pcSpin, mainVars, smVars, statesLock, radarVars>>

Died  == pcMain = "died"
Ended == pcMain \in {"exited", "crashed", "terminated"} \/ Died

Terminated == Ended /\ UNCHANGED vars

Next == MainNext \/ SMNext \/ SpinStart \/ SpinExit \/ RadarNext \/ Interrupt \/ Terminated

(* Every thread is scheduled by the operating system, and a callback that  *)
(* has begun runs to its end, or kills the process.  Nothing makes a radar *)
(* message arrive, nor an interrupt.  MainLookup waits for a mutex the     *)
(* StateManager thread takes again and again, but releases for a whole     *)
(* rate.sleep() each time: strong fairness.                                *)
Fairness ==
  /\ WF_vars(MainNext) /\ SF_vars(MainLookup)
  /\ WF_vars(SMNext)
  /\ WF_vars(SpinStart) /\ WF_vars(SpinExit)
  /\ WF_vars(RadarOrganize \/ RadarDrop \/ RadarToggle)

Spec     == Init /\ [][Next]_vars
FairSpec == Spec /\ Fairness

-------------------------------------------------------------------------------
(* Safety.                                                                 *)

\* A ^= is only ever executed on a raised flag, so it always lowers it: the
\* snapshot each toggle relies on was taken earlier, and two threads toggle
\* RadarTarAryForInitIsReady (state_manager.cpp:62, data_manager.h:290,
\* garlileo.cpp:298).
TogglesOnlyLower ==
  /\ pcSM = "consume"   => "RadarTarAryForInitIsReady" \in dmStatus
  /\ pcRadar = "toggle" => "RadarTarAryForInitIsReady" \in dmStatus
  /\ pcMain = "clear"   => "NewStateNeedToPublish" \in smStatus

\* Nobody evaluates the splines while they are created or optimised, although
\* TryPerformInitialization fills them without StatesMutex and Save reads
\* them without it.
SplinesNotSharedWhileWritten ==
  pcMain \in {"reading", "save"} => pcSM \notin {"building", "optimizing"}

\* The main thread erases by the valid time of its own, maybe newer or older,
\* snapshot; no data of the window being optimised is erased meanwhile.
EraseBehindWindow ==
  pcSM \in {"window", "quit", "lock", "optimizing"} => erasedTo <= snapSM.vset

\* The process dies, in Save on a null spline bundle or in its own start-up on a
\* thread nobody joins, only if the user interrupts it before it has
\* initialised, although the StateManager thread runs before GaRLILEO is
\* complete (garlileo.cpp:26-41, 119); and of its data only while the radar
\* callback still works on a word from before the initialisation, which may have
\* ended meanwhile (data_manager.h:280-286).
DiesOnlyUninitialised ==
  /\ pcMain \in {"crashed", "terminated"} => ~rosOk /\ "HasInitialized" \notin smStatus
  /\ Died => ~HasInitialized(snapRadar)

\* Every published pose is later than the one before: a positive dt in the
\* dead reckoning of PublishGaRLILEOState, and no state published twice.
PublishedIncreasing ==
  [][pcMain = "publish" /\ pcMain' = "clear" => prevTime' > prevTime]_vars

\* Seen from a subscriber, all of this is a stream of ever later poses.
Stream == INSTANCE PoseStream
            WITH committed <- vset,
                 published <- IF prevTime = None THEN None ELSE prevTime + PublishLag

ImplementsPoseStream == Stream!Spec

-------------------------------------------------------------------------------
(* Liveness.                                                               *)

Stopping == ~rosOk \/ "ShouldQuit" \in smStatus

\* An interrupt or ShouldQuit stops every thread and ends the program.
Termination == Stopping ~> Ended

\* The promise of enough radar frames is kept, once: the initialisation that
\* consumes the ready flag ends, or takes the process along (state_manager.cpp:
\* 57-66).  RadarInit!CrashesForCause and EstimatorProblem!SolverKnowsBlocks give
\* the causes of the latter.
ReadyLeadsToInit ==
  "RadarTarAryForInitIsReady" \in dmStatus
    ~> "HasInitialized" \in smStatus \/ Stopping \/ Died

\* A new state that the splines cover is published, or overtaken, unless the
\* process stops or dies before.
NewStateServed ==
  ("NewStateNeedToPublish" \in smStatus /\ InRange(vset - PublishLag))
    ~> ("NewStateNeedToPublish" \notin smStatus \/ Stopping \/ Died)
===============================================================================
