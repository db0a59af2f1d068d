------------------------- MODULE StatusProtocol_proofs -------------------------
(***************************************************************************)
(* Proofs about StatusProtocol, for every set of times and every lag.      *)
(***************************************************************************)
EXTENDS StatusProtocol, TLAPS

(* Why a toggle never raises a flag, and why the splines are never read    *)
(* while they are written, is one argument: HasInitialized is set once, by *)
(* the StateManager thread, and divides the life of the program in two.    *)
(* Before it only that thread lowers the ready flag, and no one publishes; *)
(* after it only the radar callback lowers the ready flag.                 *)

\* StatesMutex is held exactly where the code holds it.
LockInv ==
  /\ statesLock = "main" <=> pcMain = "reading"
  /\ statesLock = "sm"   <=> pcSM = "optimizing"

\* What HasInitialized means for the state and for the threads' positions.
PhaseInv ==
  /\ "HasInitialized" \in smStatus => splineStart # None
  /\ "HasInitialized" \in smStatus <=> vset # None
  /\ "NewStateNeedToPublish" \in smStatus => "HasInitialized" \in smStatus
  /\ "ShouldQuit" \in smStatus => "HasInitialized" \in smStatus
  /\ pcSM \in {"consume", "initialize", "building"} => "HasInitialized" \notin smStatus
  /\ pcSM \in {"window", "quit", "lock", "optimizing"} => "HasInitialized" \in smStatus
  /\ pcRadar \in {"drop", "toggle"} => "HasInitialized" \in smStatus
  /\ pcSM = "building" => splineStart # None /\ winEnd # None

\* A flag that a thread is about to lower stays raised until it does.
FlagInv ==
  /\ pcSM = "consume" => "RadarTarAryForInitIsReady" \in dmStatus
  /\ pcRadar = "drop" /\ IsReady(snapRadar) => "RadarTarAryForInitIsReady" \in dmStatus
  /\ pcRadar = "toggle" => "RadarTarAryForInitIsReady" \in dmStatus
  /\ pcMain \in {"lookup", "reading", "publish", "clear"}
       => "NewStateNeedToPublish" \in smStatus

\* Where the valid times stand: snapshots lag behind, windows move on.
WindowInv ==
  /\ snapMain.vset <= vset
  /\ erasedTo <= vset
  /\ pcSM \in {"window", "quit", "lock", "optimizing"} => snapSM.vset = vset
  /\ pcSM \in {"lock", "optimizing"} => winEnd > vset

\* What has been published, and that a request to publish is about news.
PublishInv ==
  /\ pcMain = "publish" => PublishTime \in Nat
  /\ prevTime # None => prevTime + PublishLag <= vset
  /\ prevTime # None /\ pcMain \in {"lookup", "reading", "publish"}
       => prevTime + PublishLag < snapMain.vset
  /\ prevTime # None /\ pcMain \notin {"clear", "died"} /\ "NewStateNeedToPublish" \in smStatus
       => prevTime + PublishLag < vset

\* Until the executor is started nothing is received, and the StateManager
\* thread, which may be running, has nothing to do.
BootInv ==
  /\ pcMain = "boot" => pcSM = "none"
  /\ pcMain \in {"boot", "construct", "executor", "terminated"}
       => /\ pcSpin = "none" /\ pcRadar = "idle"
          /\ "RadarTarAryForInitIsReady" \notin dmStatus
          /\ "HasInitialized" \notin smStatus
          /\ pcSM \in {"none", "top", "done"}

\* How threads end.
EndInv ==
  /\ pcSM = "done" => Stopping \/ Died
  /\ pcMain \in {"save", "crashed", "terminated"} => pcSM = "done"
  /\ pcMain = "exited" => pcSM \in {"none", "done"}
  /\ pcMain = "crashed" => splineStart = None
  /\ pcMain = "terminated" => ~rosOk
  /\ Died => pcSM = "done" /\ pcSpin = "exited" /\ pcRadar = "idle"

\* The organiser only runs, and only dies, on a word from before HasInitialized.
OldWordInv ==
  /\ HasInitialized(snapRadar) => "HasInitialized" \in smStatus
  /\ pcRadar = "organize" \/ Died => ~HasInitialized(snapRadar)

IInv ==
  /\ TypeOK /\ LockInv /\ PhaseInv /\ FlagInv /\ WindowInv /\ PublishInv
  /\ BootInv /\ EndInv /\ OldWordInv

\* The actions of the start-up.
Booting == MainBoot \/ MainBootFails \/ MainConstruct \/ MainExecutor \/ MainThrow

-------------------------------------------------------------------------------
USE DEF statusVars, spinVars, mainVars, smVars, radarVars, None

\* The next-state relation as a list of cases, one per action.
LEMMA NextCases ==
  ASSUME [Next]_vars
  PROVE  \/ MainBoot \/ MainBootFails \/ MainConstruct \/ MainExecutor \/ MainThrow
         \/ MainStop \/ MainSnapshot \/ MainLookup \/ MainRead \/ MainPublish
         \/ MainClear \/ MainErase \/ MainCancel \/ MainJoin \/ MainSave
         \/ SMStop \/ SMSnapshot \/ SMConsumeReady \/ SMCreateSplines \/ SMInitializeDies
         \/ SMFinishInit \/ SMWindow \/ SMQuit \/ SMLock \/ SMCommit
         \/ SpinStart \/ SpinExit
         \/ RadarReceive \/ RadarOrganize \/ RadarOrganizeDies \/ RadarDrop \/ RadarToggle
         \/ Interrupt
         \/ UNCHANGED vars
BY DEF Next, MainNext, SMNext, RadarNext, Terminated

\* A copy of the status word is a StatusPack.
LEMMA PackType ==
  ASSUME TypeOK
  PROVE  StatusPack \in StatusPacks
BY DEF TypeOK, StatusPack, StatusPacks

\* The initial state is well typed.
LEMMA TypeInit == Init => TypeOK
<1> SUFFICES ASSUME Init PROVE TypeOK
  OBVIOUS
<1>1. StatusPack \in StatusPacks
  BY DEF Init, StatusPack, StatusPacks, SMFlags, DMFlags
<1>2. rosOk \in BOOLEAN /\ spinning \in BOOLEAN
  BY Zenon DEF Init
<1>3. smStatus \in SUBSET SMFlags /\ dmStatus \in SUBSET DMFlags
  BY DEF Init, SMFlags, DMFlags
<1> HIDE DEF None
<1> None \in Int
  BY DEF None
<1> QED
  BY <1>1, <1>2, <1>3 DEF Init, TypeOK

\* Every action keeps every variable well typed.
LEMMA TypeNext ==
  ASSUME TypeOK, [Next]_vars
  PROVE  TypeOK'
<1> USE ProtocolAssumption DEF TypeOK
<1> StatusPack \in StatusPacks
  BY PackType
<1>1. CASE MainStop
  BY <1>1 DEF MainStop, MainStep
<1>2. CASE MainSnapshot
  BY <1>2 DEF MainSnapshot, MainStep, AfterPublish
<1>3. CASE MainLookup
  BY <1>3 DEF MainLookup, MainStep
<1>4. CASE MainRead
  BY <1>4 DEF MainRead, MainStep, AfterPublish
<1>5. CASE MainPublish
  BY <1>5 DEF MainPublish, MainStep, PublishTime, StatusPacks
<1>6. CASE MainClear
  BY <1>6 DEF MainClear, MainStep, AfterPublish, Toggle, SMFlags
<1>7. CASE MainErase
  BY <1>7 DEF MainErase, MainStep, EraseBound, StatusPacks
<1>8. CASE MainCancel
  <2>1. spinning' \in BOOLEAN
    BY <1>8, Zenon DEF MainCancel
  <2> QED
    BY <1>8, <2>1 DEF MainCancel, MainStep
<1>9. CASE MainJoin
  BY <1>9 DEF MainJoin, MainStep
<1>10. CASE MainSave
  BY <1>10 DEF MainSave, MainStep
<1>11. CASE SMStop
  BY <1>11 DEF SMStop, SMStep
<1>12. CASE SMSnapshot
  BY <1>12 DEF SMSnapshot, SMStep
<1>13. CASE SMConsumeReady
  BY <1>13 DEF SMConsumeReady, SMStep, Toggle, DMFlags
<1>14. CASE SMCreateSplines
  BY <1>14 DEF SMCreateSplines, SMStep
<1>15. CASE SMFinishInit
  BY <1>15 DEF SMFinishInit, SMStep, NewState, SMFlags
<1>16. CASE SMWindow
  BY <1>16 DEF SMWindow, SMStep
<1>17. CASE SMQuit
  BY <1>17 DEF SMQuit, SMStep, SMFlags
<1>18. CASE SMLock
  BY <1>18 DEF SMLock, SMStep
<1>19. CASE SMCommit
  BY <1>19 DEF SMCommit, SMStep, NewState, SMFlags
<1>20. CASE SpinStart
  BY <1>20 DEF SpinStart
<1>21. CASE SpinExit
  BY <1>21 DEF SpinExit
<1>22. CASE RadarReceive
  BY <1>22 DEF RadarReceive, RadarStep
<1>23. CASE RadarOrganize
  <2>1. dmStatus' \in SUBSET DMFlags
    BY <1>23 DEF RadarOrganize, DMFlags
  <2> QED
    BY <1>23, <2>1 DEF RadarOrganize, RadarStep
<1>24. CASE RadarDrop
  BY <1>24 DEF RadarDrop, RadarStep
<1>25. CASE RadarToggle
  BY <1>25 DEF RadarToggle, RadarStep, Toggle, DMFlags
<1>26. CASE Interrupt
  <2>1. rosOk' \in BOOLEAN
    BY <1>26, Zenon DEF Interrupt
  <2> QED
    BY <1>26, <2>1 DEF Interrupt
<1>27. CASE UNCHANGED vars
  BY <1>27 DEF vars
<1>28. CASE Booting
  BY <1>28 DEF Booting, MainStep, MainBoot, MainBootFails, MainConstruct,
               MainExecutor, MainThrow
<1>29. CASE SMInitializeDies \/ RadarOrganizeDies
  BY <1>29 DEF SMInitializeDies, RadarOrganizeDies, Die
<1> QED
  BY NextCases, <1>29, <1>28, <1>1, <1>2, <1>3, <1>4, <1>5, <1>6, <1>7, <1>8, <1>9, <1>10, <1>11, <1>12, <1>13, <1>14, <1>15, <1>16, <1>17, <1>18, <1>19, <1>20, <1>21, <1>22, <1>23, <1>24, <1>25, <1>26, <1>27 DEF Booting

\* A thread inside a critical section of StatesMutex holds it, and stays its
\* only holder.
LEMMA LockStep ==
  ASSUME IInv, [Next]_vars
  PROVE  LockInv'
<1> USE ProtocolAssumption DEF IInv, LockInv
<1>1. CASE MainNext
  BY <1>1 DEF MainNext, MainBoot, MainBootFails, MainConstruct, MainExecutor, MainThrow, BootInv, MainStep, MainStop, MainSnapshot, MainLookup, MainRead, MainPublish, MainClear, MainErase, MainCancel, MainJoin, MainSave, AfterPublish
<1>2. CASE SMNext
  BY <1>2 DEF SMNext, SMInitializeDies, Die, SMStep, SMStop, SMSnapshot, SMConsumeReady, SMCreateSplines, SMFinishInit, SMWindow, SMQuit, SMLock, SMCommit
<1>3. CASE RadarNext
  BY <1>3 DEF RadarNext, RadarOrganizeDies, Die, RadarStep, RadarReceive, RadarOrganize, RadarDrop, RadarToggle
<1>4. CASE SpinStart \/ SpinExit \/ Interrupt \/ UNCHANGED vars
  BY <1>4 DEF SpinStart, SpinExit, Interrupt, vars
<1> QED
  BY <1>1, <1>2, <1>3, <1>4 DEF Next, Terminated

\* The times a state holds are integers from None on.
LEMMA TimeFacts ==
  ASSUME TypeOK
  PROVE  /\ vset \in Int /\ vset >= None
         /\ winEnd \in Int /\ winEnd >= None
         /\ splineStart \in Int /\ splineStart >= None
         /\ snapMain.vset \in Int /\ snapMain.vset >= None
         /\ snapSM.vset \in Int /\ snapSM.vset >= None
         /\ prevTime \in Int /\ erasedTo \in Int
<1>1. \A t \in Times \union {None} : t \in Int /\ t >= None
  BY ProtocolAssumption
<1> QED
  BY <1>1 DEF TypeOK, StatusPacks

\* How far initialisation has come (splines, HasInitialized, the phase of the
\* StateManager thread) stays consistent across every step.
LEMMA PhaseStep ==
  ASSUME IInv, [Next]_vars
  PROVE  PhaseInv'
<1> USE ProtocolAssumption DEF IInv, PhaseInv
<1>1. CASE MainClear
  <2>1. /\ "HasInitialized" \in smStatus' <=> "HasInitialized" \in smStatus
        /\ "ShouldQuit" \in smStatus' => "ShouldQuit" \in smStatus
        /\ "NewStateNeedToPublish" \notin smStatus'
    BY <1>1 DEF MainClear, MainStep, Toggle, FlagInv
  <2> QED
    BY <1>1, <2>1 DEF MainClear
<1>2. CASE MainStop \/ MainSnapshot \/ MainLookup \/ MainRead \/ MainPublish
           \/ MainErase \/ MainCancel \/ MainJoin \/ MainSave
  BY <1>2 DEF MainStop, MainSnapshot, MainLookup, MainRead, MainPublish,
              MainErase, MainCancel, MainJoin, MainSave
<1>3. CASE SMStop
  BY <1>3 DEF SMStep, SMStop
<1>4. CASE SMSnapshot
  BY <1>4 DEF SMStep, SMSnapshot, StatusPack, HasInitialized, ShouldQuit, IsReady
<1>5. CASE SMConsumeReady
  BY <1>5 DEF SMStep, SMConsumeReady
<1>6. CASE SMCreateSplines
  BY <1>6 DEF SMStep, SMCreateSplines, TypeOK
<1>7. CASE SMFinishInit
  BY <1>7 DEF SMStep, SMFinishInit, NewState, TypeOK
<1>8. CASE SMWindow
  BY <1>8 DEF SMStep, SMWindow
<1>9. CASE SMQuit
  BY <1>9 DEF SMStep, SMQuit
<1>10. CASE SMLock
  BY <1>10 DEF SMStep, SMLock
<1>11. CASE SMCommit
  BY <1>11 DEF SMStep, SMCommit, NewState, TypeOK, WindowInv
<1>12. CASE RadarNext
  BY <1>12 DEF RadarNext, RadarOrganizeDies, Die, RadarStep, RadarReceive, RadarOrganize, RadarDrop, RadarToggle, StatusPack, HasInitialized
<1>13. CASE SpinStart \/ SpinExit \/ Interrupt \/ UNCHANGED vars
  BY <1>13 DEF SpinStart, SpinExit, Interrupt, vars
<1>14. CASE Booting
  BY <1>14 DEF Booting, MainBoot, MainBootFails, MainConstruct, MainExecutor, MainThrow
<1>15. CASE SMInitializeDies
  BY <1>15 DEF SMInitializeDies, Die
<1> QED
  BY NextCases, <1>1, <1>2, <1>3, <1>4, <1>5, <1>6, <1>7, <1>8, <1>9, <1>10, <1>11,
     <1>12, <1>13, <1>14, <1>15
     DEF RadarNext, Booting

\* Nothing happens before the executor is started.
LEMMA BootStep ==
  ASSUME IInv, [Next]_vars
  PROVE  BootInv'
<1> USE DEF IInv, BootInv
<1>1. CASE Booting
  BY <1>1 DEF Booting, MainStep, MainBoot, MainBootFails, MainConstruct, MainExecutor, MainThrow
<1>2. CASE MainStop \/ MainSnapshot \/ MainLookup \/ MainRead \/ MainPublish
           \/ MainClear \/ MainErase \/ MainCancel \/ MainJoin \/ MainSave
  BY <1>2 DEF MainStep, MainStop, MainSnapshot, MainLookup, MainRead, MainPublish,
              MainClear, MainErase, MainCancel, MainJoin, MainSave, AfterPublish
<1>3. CASE SMStop
  BY <1>3 DEF SMStep, SMStop
<1>4. CASE SMSnapshot
  BY <1>4 DEF SMStep, SMSnapshot, StatusPack, HasInitialized, IsReady
<1>5. CASE SMConsumeReady \/ SMCreateSplines \/ SMFinishInit \/ SMWindow
           \/ SMQuit \/ SMLock \/ SMCommit
  BY <1>5 DEF SMStep, SMConsumeReady, SMCreateSplines, SMFinishInit, SMWindow,
              SMQuit, SMLock, SMCommit
<1>6. CASE RadarReceive \/ RadarOrganize \/ RadarDrop \/ RadarToggle
  BY <1>6 DEF RadarStep, RadarReceive, RadarOrganize, RadarDrop, RadarToggle
<1>7. CASE SpinStart \/ SpinExit \/ Interrupt \/ UNCHANGED vars
  BY <1>7 DEF SpinStart, SpinExit, Interrupt, vars
<1>8. CASE SMInitializeDies \/ RadarOrganizeDies
  BY <1>8 DEF SMInitializeDies, RadarOrganizeDies, Die
<1> QED
  BY NextCases, <1>1, <1>2, <1>3, <1>4, <1>5, <1>6, <1>7, <1>8 DEF Booting

\* Each flag a thread is about to lower stays raised until it does.
LEMMA FlagStep ==
  ASSUME IInv, [Next]_vars
  PROVE  FlagInv'
<1> USE ProtocolAssumption DEF IInv, FlagInv, PhaseInv
<1>1. CASE MainSnapshot
  BY <1>1 DEF MainStep, MainSnapshot, StatusPack, NeedToPublish, AfterPublish
<1>2. CASE MainRead
  BY <1>2 DEF MainStep, MainRead, AfterPublish
<1>3. CASE MainClear
  BY <1>3 DEF MainStep, MainClear, Toggle, AfterPublish
<1>4. CASE SMSnapshot
  BY <1>4 DEF SMStep, SMSnapshot, StatusPack, IsReady
<1>5. CASE SMConsumeReady
  BY <1>5 DEF SMStep, SMConsumeReady, Toggle
<1>6. CASE SMFinishInit
  BY <1>6 DEF SMStep, SMFinishInit, NewState
<1>7. CASE SMQuit
  BY <1>7 DEF SMStep, SMQuit
<1>8. CASE SMCommit
  BY <1>8 DEF SMStep, SMCommit, NewState
<1>9. CASE RadarReceive
  BY <1>9 DEF RadarStep, RadarReceive, StatusPack, IsReady, HasInitialized
<1>10. CASE RadarOrganize
  BY <1>10 DEF RadarStep, RadarOrganize, IsReady
<1>11. CASE RadarDrop
  BY <1>11 DEF RadarStep, RadarDrop, IsReady
<1>12. CASE RadarToggle
  BY <1>12 DEF RadarStep, RadarToggle, Toggle
<1>13. CASE MainStop \/ MainLookup \/ MainPublish \/ MainErase \/ MainCancel
           \/ MainJoin \/ MainSave
  BY <1>13 DEF MainStep, MainStop, MainLookup, MainPublish,
              MainErase, MainCancel, MainJoin, MainSave
<1>14. CASE SMStop \/ SMCreateSplines \/ SMWindow \/ SMLock
  BY <1>14 DEF SMStep, SMStop, SMCreateSplines, SMWindow, SMLock
<1>15. CASE SpinStart \/ SpinExit \/ Interrupt \/ UNCHANGED vars
  BY <1>15 DEF SpinStart, SpinExit, Interrupt, vars
<1>16. CASE Booting
  BY <1>16 DEF Booting, MainStep, MainBoot, MainBootFails, MainConstruct,
               MainExecutor, MainThrow
<1>17. CASE SMInitializeDies \/ RadarOrganizeDies
  BY <1>17 DEF SMInitializeDies, RadarOrganizeDies, Die
<1> QED
  BY NextCases, <1>1, <1>2, <1>3, <1>4, <1>5, <1>6, <1>7, <1>8, <1>9, <1>10,
     <1>11, <1>12, <1>13, <1>14, <1>15, <1>16, <1>17 DEF Booting

\* The window being optimised starts at the valid time, and every snapshot and
\* erasure stays at or behind it.
LEMMA WindowStep ==
  ASSUME IInv, [Next]_vars
  PROVE  WindowInv'
<1> USE ProtocolAssumption DEF IInv, WindowInv
<1> USE TimeFacts
<1>1. CASE MainSnapshot
  BY <1>1 DEF MainStep, MainSnapshot, StatusPack
<1>2. CASE MainErase
  BY <1>2 DEF MainStep, MainErase, EraseBound
<1>3. CASE SMSnapshot
  BY <1>3 DEF SMStep, SMSnapshot, StatusPack, HasInitialized
<1>4. CASE SMFinishInit
  BY <1>4 DEF SMStep, SMFinishInit, PhaseInv
<1>5. CASE SMWindow
  BY <1>5 DEF SMStep, SMWindow
<1>6. CASE SMLock
  BY <1>6 DEF SMStep, SMLock
<1>7. CASE SMCommit
  BY <1>7 DEF SMStep, SMCommit
<1>8. CASE MainStop \/ MainLookup \/ MainRead \/ MainPublish \/ MainClear
           \/ MainCancel \/ MainJoin \/ MainSave
  BY <1>8 DEF MainStep, MainStop, MainLookup, MainRead,
              MainPublish, MainClear, MainCancel, MainJoin, MainSave
<1>9. CASE SMStop \/ SMConsumeReady \/ SMCreateSplines \/ SMQuit
  BY <1>9 DEF SMStep, SMStop, SMConsumeReady, SMCreateSplines,
              SMQuit
<1>10. CASE RadarReceive \/ RadarOrganize \/ RadarDrop \/ RadarToggle
           \/ SpinStart \/ SpinExit \/ Interrupt \/ UNCHANGED vars
  BY <1>10 DEF RadarStep, RadarReceive, RadarOrganize,
              RadarDrop, RadarToggle, SpinStart, SpinExit, Interrupt, vars
<1>11. CASE Booting
  BY <1>11 DEF Booting, MainStep, MainBoot, MainBootFails, MainConstruct,
               MainExecutor, MainThrow
<1>12. CASE SMInitializeDies \/ RadarOrganizeDies
  BY <1>12 DEF SMInitializeDies, RadarOrganizeDies, Die
<1> QED
  BY NextCases, <1>1, <1>2, <1>3, <1>4, <1>5, <1>6, <1>7, <1>8, <1>9, <1>10, <1>11, <1>12
     DEF Booting

\* The main thread reaches its end only after the StateManager thread has, and
\* for a reason.
LEMMA EndStep ==
  ASSUME IInv, [Next]_vars
  PROVE  EndInv'
<1> USE ProtocolAssumption DEF IInv, EndInv, PhaseInv, Stopping, Died
<1>1. CASE MainSnapshot
  BY <1>1 DEF MainStep, MainSnapshot, StatusPack, AfterPublish
<1>2. CASE MainRead
  BY <1>2 DEF MainStep, MainRead, AfterPublish
<1>3. CASE MainClear
  BY <1>3 DEF MainStep, MainClear, AfterPublish, Toggle
<1>4. CASE MainJoin
  BY <1>4 DEF MainStep, MainJoin
<1>5. CASE MainSave
  BY <1>5 DEF MainStep, MainSave
<1>6. CASE SMStop
  BY <1>6 DEF SMStep, SMStop
<1>7. CASE SMSnapshot
  BY <1>7 DEF SMStep, SMSnapshot, StatusPack, ShouldQuit
<1>8. CASE MainStop \/ MainLookup \/ MainPublish \/ MainErase \/ MainCancel
  BY <1>8 DEF MainStep, MainStop, MainLookup, MainPublish,
              MainErase, MainCancel
<1>9. CASE SMConsumeReady \/ SMCreateSplines \/ SMFinishInit \/ SMWindow
           \/ SMQuit \/ SMLock \/ SMCommit
  BY <1>9 DEF SMStep, SMConsumeReady, SMCreateSplines,
              SMFinishInit, SMWindow, SMQuit, SMLock, SMCommit
<1>10. CASE RadarReceive \/ RadarOrganize \/ RadarDrop \/ RadarToggle
           \/ SpinStart \/ SpinExit \/ Interrupt \/ UNCHANGED vars
  BY <1>10 DEF RadarStep, RadarReceive, RadarOrganize,
              RadarDrop, RadarToggle, SpinStart, SpinExit, Interrupt, vars
<1>11. CASE Booting
  BY <1>11 DEF Booting, MainStep, MainBoot, MainBootFails, MainConstruct,
               MainExecutor, MainThrow, BootInv
<1>12. CASE SMInitializeDies \/ RadarOrganizeDies
  BY <1>12 DEF SMInitializeDies, RadarOrganizeDies, Die
<1> QED
  BY NextCases, <1>1, <1>2, <1>3, <1>4, <1>5, <1>6, <1>7, <1>8, <1>9, <1>10, <1>11, <1>12
     DEF Booting

\* While a new state waits to be published, nothing as late has been.
LEMMA PublishStep ==
  ASSUME IInv, [Next]_vars
  PROVE  PublishInv'
<1> USE ProtocolAssumption DEF IInv, PublishInv, FlagInv, WindowInv, PublishTime
<1> USE TimeFacts
<1>1. CASE MainSnapshot
  BY <1>1 DEF MainStep, MainSnapshot, StatusPack, NeedToPublish, AfterPublish
<1>2. CASE MainRead
  BY <1>2 DEF MainStep, MainRead, AfterPublish, InRange
<1>3. CASE MainPublish
  BY <1>3 DEF MainStep, MainPublish
<1>4. CASE MainClear
  BY <1>4 DEF MainStep, MainClear, AfterPublish, Toggle
<1>5. CASE SMFinishInit
  BY <1>5 DEF SMStep, SMFinishInit, NewState, PhaseInv
<1>6. CASE SMQuit
  BY <1>6 DEF SMStep, SMQuit
<1>7. CASE SMCommit
  BY <1>7 DEF SMStep, SMCommit, NewState
<1>8. CASE MainStop \/ MainLookup \/ MainErase \/ MainCancel \/ MainJoin
           \/ MainSave
  BY <1>8 DEF MainStep, MainStop, MainLookup, MainErase,
              MainCancel, MainJoin, MainSave
<1>9. CASE SMStop \/ SMSnapshot \/ SMConsumeReady \/ SMCreateSplines
           \/ SMWindow \/ SMLock
  BY <1>9 DEF SMStep, SMStop, SMSnapshot, SMConsumeReady,
              SMCreateSplines, SMWindow, SMLock
<1>10. CASE RadarReceive \/ RadarOrganize \/ RadarDrop \/ RadarToggle
           \/ SpinStart \/ SpinExit \/ Interrupt \/ UNCHANGED vars
  BY <1>10 DEF RadarStep, RadarReceive, RadarOrganize,
              RadarDrop, RadarToggle, SpinStart, SpinExit, Interrupt, vars
<1>11. CASE Booting
  BY <1>11 DEF Booting, MainStep, MainBoot, MainBootFails, MainConstruct,
               MainExecutor, MainThrow
<1>12. CASE SMInitializeDies \/ RadarOrganizeDies
  BY <1>12 DEF SMInitializeDies, RadarOrganizeDies, Die
<1> QED
  BY NextCases, <1>1, <1>2, <1>3, <1>4, <1>5, <1>6, <1>7, <1>8, <1>9, <1>10, <1>11, <1>12
     DEF Booting

\* HasInitialized, once set, stays, and later words show it.
LEMMA OldWordStep ==
  ASSUME IInv, [Next]_vars
  PROVE  OldWordInv'
<1> USE DEF IInv, OldWordInv, HasInitialized, Died
<1>1. CASE MainNext
  BY <1>1 DEF MainNext, MainStep, MainBoot, MainBootFails, MainConstruct, MainExecutor,
              MainThrow, MainStop, MainSnapshot, MainLookup, MainRead, MainPublish,
              MainClear, MainErase, MainCancel, MainJoin, MainSave, AfterPublish, Toggle
<1>2. CASE SMNext /\ ~SMInitializeDies
  BY <1>2 DEF SMNext, SMStep, SMStop, SMSnapshot, SMConsumeReady, SMCreateSplines,
              SMFinishInit, SMWindow, SMQuit, SMLock, SMCommit, NewState, EndInv
<1>3. CASE SMInitializeDies
  BY <1>3 DEF SMInitializeDies, Die, PhaseInv
<1>4. CASE RadarNext
  BY <1>4 DEF RadarNext, RadarStep, RadarReceive, RadarOrganize, RadarOrganizeDies, Die,
              RadarDrop, RadarToggle, StatusPack, EndInv
<1>5. CASE SpinStart \/ SpinExit \/ Interrupt \/ UNCHANGED vars
  BY <1>5 DEF SpinStart, SpinExit, Interrupt, vars
<1> QED
  BY <1>1, <1>2, <1>3, <1>4, <1>5 DEF Next, Terminated

\* IInv is inductive.
THEOREM Inductive == Spec => []IInv
<1>1. Init => IInv
  <2> SUFFICES ASSUME Init PROVE IInv
    OBVIOUS
  <2>1. TypeOK
    BY TypeInit
  <2>2. LockInv /\ FlagInv /\ BootInv /\ EndInv
    BY DEF Init, LockInv, FlagInv, BootInv, EndInv, Died
  <2>3. PhaseInv /\ WindowInv /\ PublishInv /\ OldWordInv
    BY DEF Init, StatusPack, PhaseInv, WindowInv, PublishInv, OldWordInv, HasInitialized,
           Died
  <2> QED
    BY <2>1, <2>2, <2>3 DEF IInv
<1>2. IInv /\ [Next]_vars => IInv'
  <2> SUFFICES ASSUME IInv, [Next]_vars PROVE IInv'
    OBVIOUS
  <2>1. TypeOK
    BY DEF IInv
  <2> QED
    BY <2>1, TypeNext, LockStep, PhaseStep, FlagStep, WindowStep, PublishStep, BootStep, EndStep,
       OldWordStep
    DEF IInv
<1> QED
  BY <1>1, <1>2, PTL DEF Spec

\* Every variable keeps its type: the status words only hold known bits, the
\* times only time stamps, the threads only known positions.
THEOREM TypeCorrect == Spec => []TypeOK
<1>1. IInv => TypeOK
  BY DEF IInv
<1> QED
  BY <1>1, Inductive, PTL

\* No ^= of the three threads ever raises the flag it means to lower.
THEOREM TogglesLower == Spec => []TogglesOnlyLower
<1>1. IInv => TogglesOnlyLower
  BY DEF IInv, FlagInv, TogglesOnlyLower
<1> QED
  BY <1>1, Inductive, PTL

\* The splines are never read by the main thread while the StateManager
\* thread creates or optimises them.
THEOREM SplinesExclusive == Spec => []SplinesNotSharedWhileWritten
<1>1. IInv => SplinesNotSharedWhileWritten
  BY DEF IInv, LockInv, PhaseInv, FlagInv, EndInv, SplinesNotSharedWhileWritten
<1> QED
  BY <1>1, Inductive, PTL

\* Erasure by a stale snapshot never reaches the window being optimised.
THEOREM EraseIsBehind == Spec => []EraseBehindWindow
<1>1. IInv => EraseBehindWindow
  BY DEF IInv, WindowInv, EraseBehindWindow
<1> QED
  BY <1>1, Inductive, PTL

\* In start-up and in Save the process only dies of an interrupt before it has
\* initialised, and of its data only while the radar callback has not seen it
\* initialised.
THEOREM DiesUninitialised == Spec => []DiesOnlyUninitialised
<1>1. IInv => DiesOnlyUninitialised
  BY DEF IInv, PhaseInv, BootInv, EndInv, OldWordInv, Stopping, Died, DiesOnlyUninitialised
<1> QED
  BY <1>1, Inductive, PTL

\* Each published pose is later than the one before it.
THEOREM PublishedIncreases == Spec => PublishedIncreasing
<1>1. IInv /\ [Next]_vars => (pcMain = "publish" /\ pcMain' = "clear" => prevTime' > prevTime)
  <2> SUFFICES ASSUME IInv, [Next]_vars, pcMain = "publish", pcMain' = "clear"
               PROVE  prevTime' > prevTime
    OBVIOUS
  <2>1. MainPublish
    BY NextCases DEF vars, MainBoot, MainBootFails, MainConstruct, MainExecutor, MainThrow,
       MainStop, MainSnapshot, MainLookup, MainRead, MainPublish,
       MainClear, MainErase, MainCancel, MainJoin, MainSave, MainStep,
       SMStop, SMSnapshot, SMConsumeReady, SMCreateSplines, SMInitializeDies, SMFinishInit,
       SMWindow, SMQuit, SMLock, SMCommit, SpinStart, SpinExit, RadarReceive, RadarOrganize,
       RadarOrganizeDies, Die, RadarDrop, RadarToggle, Interrupt
  <2> QED
    BY <2>1, TimeFacts, ProtocolAssumption DEF IInv, PublishInv, MainPublish, PublishTime
<1>2. IInv /\ [Next]_vars
        => [pcMain = "publish" /\ pcMain' = "clear" => prevTime' > prevTime]_vars
  BY <1>1
<1> QED
  BY <1>2, Inductive, PTL DEF Spec, PublishedIncreasing

\* The threads together implement PoseStream: committing a state (at the end
\* of the initialisation or of a window) and publishing one are its two
\* actions, everything else is invisible.
THEOREM Refinement == Spec => ImplementsPoseStream
<1> DEFINE out == IF prevTime = None THEN None ELSE prevTime + PublishLag
<1>1. Init => Stream!Init
  BY DEF Init, Stream!Init, Stream!None
<1>2. IInv /\ IInv' /\ [Next]_vars => [Stream!Next]_<<vset, out>>
  <2> SUFFICES ASSUME IInv, IInv', [Next]_vars
               PROVE  Stream!Commit \/ Stream!Publish \/ UNCHANGED <<vset, out>>
    BY DEF Stream!Next
  <2> USE TimeFacts, ProtocolAssumption
  <2>1. CASE SMFinishInit
    <3>1. winEnd \in Times /\ winEnd > vset
      BY <2>1 DEF SMFinishInit, SMStep, IInv, TypeOK, PhaseInv
    <3> QED
      BY <2>1, <3>1 DEF SMFinishInit, Stream!Commit
  <2>2. CASE SMCommit
    <3>1. winEnd \in Times /\ winEnd > vset
      BY <2>2 DEF SMCommit, SMStep, IInv, TypeOK, WindowInv
    <3> QED
      BY <2>2, <3>1 DEF SMCommit, Stream!Commit
  <2>3. CASE MainPublish
    <3>1. /\ prevTime' # None
          /\ prevTime' + PublishLag = snapMain.vset
          /\ UNCHANGED vset
      BY <2>3 DEF MainPublish, MainStep, PublishTime, IInv, PublishInv
    <3>2. snapMain.vset \in Times /\ snapMain.vset <= vset /\ out < snapMain.vset
      BY <2>3, <3>1 DEF MainPublish, MainStep, PublishTime, IInv, TypeOK, StatusPacks,
                        PublishInv, WindowInv
    <3> QED
      BY <3>1, <3>2 DEF Stream!Publish
  <2>4. CASE ~(SMFinishInit \/ SMCommit \/ MainPublish)
    <3>1. UNCHANGED <<vset, prevTime>>
      BY <2>4, NextCases DEF vars, MainBoot, MainBootFails, MainConstruct, MainExecutor,
         MainThrow, MainStop, MainSnapshot, MainLookup, MainRead,
         MainClear, MainErase, MainCancel, MainJoin, MainSave,
         SMStop, SMSnapshot, SMConsumeReady, SMCreateSplines, SMInitializeDies,
         SMWindow, SMQuit, SMLock, SpinStart, SpinExit, RadarReceive, RadarOrganize,
         RadarOrganizeDies, Die, RadarDrop, RadarToggle, Interrupt
    <3> QED
      BY <3>1
  <2> QED
    BY <2>1, <2>2, <2>3, <2>4
<1> QED
  BY <1>1, <1>2, Inductive, PTL DEF Spec, ImplementsPoseStream, Stream!Spec
================================================================================
