# GaRLILEO in TLA+

GaRLILEO estimates the motion of a legged robot from an IMU, a radar and leg
kinematics.  It is a ROS 2 node of one process: callbacks store measurements,
one thread fits continuous-time splines to a sliding window of them, the main
thread publishes poses and erases old measurements.  The numbers it computes are
out of a model checker's reach.  What these modules are about is everything
around the numbers: which thread may touch what and when, which measurement
ends up in which window, which control point of which spline is optimised,
remembered and folded into the prior.

All paths below are relative to the repository.

## 1. Inventory

| Part | State it keeps | Operations | Talks to |
|---|---|---|---|
| Status word, `include/core/status.h`, `src/core/status.cpp` | two words of flags and `ValidStateEndTime`, under `StatusMutex` | copy of the whole (`GetStatusPackSafely`), `\|=`, `^=` | all threads |
| Main thread, `src/core/garlileo.cpp` | `prev_time`, `pose_path`, first-publish flag | `Run`, `PublishGaRLILEOState`, `Save` | status word, splines (`StatesMutex`), lists (erasure), executor (`cancel`), joins |
| StateManager thread, `src/core/state_manager.cpp` | splines, gravity, biases (`StatesMutex`), prior and its bookkeeping | `Run`, `TryPerformInitialization`, `IncrementalOptimization` | status word, lists (extraction), estimator |
| Sensor callbacks, `include/core/data_manager.h` | four lists, each under its mutex, the time epoch (no lock), contact counter | `HandleIMUMessage`, `HandleRadarMessage`, `HandleLegMessage`, `HandleFootMessage` | executor (four callback groups that run concurrently), status word |
| Measurement lists, `src/core/data_manager.cpp` | | `Extract*DataPieceSafely`, `EraseOldDataPieceSafely`, `GetEndTimeSafely` | both threads |
| Radar frames for initialisation, `src/core/data_manager.cpp` | `radarTarAryForInit` (`RadarInitFramesMutex`), two function-local statics | `OrganizeRadarTarAryForInit` | ready flag, initialisation |
| Estimator, `src/core/estimator.cpp` | a Ceres problem (residuals, blocks, their manifolds and constness) and the recorder of touched knots | one `Add...` per kind of factor | splines, factors |
| Factors, `include/factor` | sizes and offsets of the blocks it reads | `Create`, `operator()` | estimator |
| Bias filters, `src/core/bias_filter.cpp` | state, variance, time | `Prediction`, `UpdateByEstimator` | initialisation, window |
| Program, `exe/main.cpp`, constructor in `src/core/garlileo.cpp` | the objects and threads made so far | load, construct, `Run`, `Save`, exceptions | all threads |

What is hard here, and what correctness means for each part:

* **Status word.**  Each thread copies the word, unlocks, and acts on a copy that
  may be stale.  Flags are lowered with `^=`, which *raises* a flag that is
  already down, and two threads lower the same flag.  Correct: a toggle only
  ever lowers.
* **Splines.**  `StatesMutex` is not held while initialisation creates them,
  nor while `Save` reads them.  Correct: nobody reads what is being written.
* **Publishing.**  Correct: every pose later than the one before, none twice, no
  state left unpublished for ever.
* **Lists.**  Three locks taken one after the other by three sets of threads.
  Correct: a window has all there is, each measurement is used once, erasure
  never gets ahead.
* **Preprocessing of IMU frames.**  An IMU message is worked on first without a
  lock, looking at the end of a list another thread erases from, then under
  one lock with a contact counter that is kept under another.  Averages are
  taken over averages, and times are taken between a stamp and one that was
  stored less the epoch, which any topic may set.  Correct: only measurements
  taken on steady feet get in, the averages are whole, the yaw is integrated
  without a gap for as long as the epoch is the one it began with.
* **Initialisation frames.**  A flag that says "ready" and a list that changes
  after it was raised; function-local statics that survive a reset.  Correct:
  what the flag promised is there when it is read, and the frames are apart.
* **Time epoch.**  Tested and set without a lock by four concurrent callbacks.
  Correct: one epoch for all.
* **Knots and prior.**  Indices and addresses remembered from one window to the
  next.  Correct: no dangling address, no knot lost, none marginalised too
  early, rotation knots refined once and after the measurements are done with
  them.
* **Least-squares problems.**  A factor is put together in three places that the
  compiler does not compare: sizes declared, blocks gathered, offsets read.  What
  a problem holds constant is the sum of what each factor asked for and cannot
  be taken back.  The solver ends the process when asked about a block it does
  not have.  Correct: factors read what they mean to; each problem moves what it
  is meant to move, on the manifold it lives on; the solver is never asked
  amiss; the variances that are inverted are not zero.
* **Start and shutdown.**  One thread is started before the object it belongs to
  is complete; then a cancel, two joins, and `Save` on splines that may not
  exist.  Correct: the program ends; start-up and `Save` end the process only where
  no estimate is lost, the data only while the thread that works on it has not
  seen one.

`PROJECT.json` has the hazards one by one, each at its line.

## 2. Modules

`StatusProtocol` and the modules next to it look at the same program from
different sides.  They share actions by name: `SMSnapshot`, `SMConsumeReady`,
`RadarToggle`, ... are the same steps of the code wherever they appear; a module
keeps only the part of the state its questions are about.

| Module | Models | State ↔ code |
|---|---|---|
| `PoseStream` | abstract: what a subscriber may rely on | `committed`, `published` |
| `StatusProtocol` | the main thread from `main` to `Save`, the StateManager thread, the executor and the radar callback, around the status word | `smStatus`, `dmStatus`, `vset` = the word; `pcX`, `snapX` = place and status copy of thread X; `statesLock` = `StatesMutex`; `splineStart` = whether splines exist and from when; `pcMain = "died"` = another thread took the process along |
| `SensorQueue` | the pure operations on one list | operators on sequences of stamps |
| `MeasurementLog` | abstract: what the estimator may rely on | `log` of each sensor, `upTo` = how far they are consumed, `used` = what the windows were made of |
| `SensorFlow` | three callbacks, extraction, erasure | `queue` = the lists; `batch` = copies of a window; `arrived`, `used` = histories |
| `ImuPreprocess` | what the IMU and the foot callback make of a frame, the epoch between them, and the erasure | `epoch`, `toSet` = the unlocked test and set of `GARLILEO_TIME_EPOCH`; `shift` = the epoch a frame's stamp was shifted by; `imuDataSeq`, `footDataSeq`, `contactDuration`, `imuIsCome` as in the code; `acce` = what an acceleration averages; `turned` = the time `init_orient` was integrated over; `stored`, `calm`, `epochMoved` = histories |
| `RadarInit` | the organizer of radar frames and the start of initialisation | `tarAry`, `scanHeadTime` = the statics; `frames` = the copy |
| `TimeEpoch` | the unlocked epoch | `epoch`; `pc`, `raw`, `shifted` = callbacks in flight; `stored` = the lists |
| `Splines` | indices of knots: creation, extension, ranges | operators on sizes and times |
| `SlidingWindow` | abstract: what a window that slides over splines promises | `front` = first open knot; `touched`, `informed`, `prior` = sets of knots |
| `KnotWindow` | which knots initialisation and windows touch, refine, remember and marginalise | `knots` = sizes; `kept` = `lastKeep*KnotAdd`; `prior` = what `margInfo` points at |
| `BiasFilter` | both bias filters | operators on time and variance |
| `Factors` | every `Add...` that is called and the layout of the factor it adds | a factor is a record: sizes declared, blocks gathered, reads, what it sets |
| `EstimatorProblem` | the problems of initialisation and of a window, one after the other | `problem`, `own` = the Ceres problems; `baFilter`, `bvFilter`; `knots`, `valid`, `updateStart`, `updateEnd` as in the code |
| `*_proofs` | theorems about the module of that name, see 5 | |
| `MC*` | small instances | |

**Steps.**  In `StatusProtocol`, `SensorFlow`, `ImuPreprocess` and `RadarInit` one action is one
critical section, or a stretch of code that touches nothing shared.  The status
word is copied in one action and acted upon in a later one, so every stale
snapshot is in the model.  In `TimeEpoch`, where there is no lock, one action is
one access; an assignment of the `std::optional` is taken to be one step.  In
`KnotWindow` all is one thread under one mutex, and one call is one action.

`EstimatorProblem` is the same thread seen from the solver: one action per
problem, and one for what is done with it afterwards.

`KnotWindow` and `EstimatorProblem` both extend `Splines`.  The first follows the
knots over many windows, the prior and the addresses it holds, and knows of a
factor only which knots it touches; the second takes a factor apart, and
forgets a window when the prior has been made of it.

**Abstract specifications.**  `PoseStream` is the view from behind,
`MeasurementLog` the view from in front: no lists, no locks, no erasure, no list
ends, only logs and a mark that moves on.  `SensorFlow` implements it with `log` read
as the history `arrived` and the mark as `ValidStateEndTime`; the two sensors a
window waits for are the IMU and the radar, and of the leg frames a window takes
those that were there in time.  `SlidingWindow` is what the estimator promises of
its knots; `KnotWindow` implements it with the front at `FirstKnot`, the index
from which a window remembers knots.

**Start of the program.**  `MainBoot` is `main` up to the StateManager thread,
which is the last member `GaRLILEO` creates and runs at once; publishers
(`MainConstruct`) and the executor (`MainExecutor`) come after it.  What can fail
before it (`MainBootFails`: no configuration, an unknown message type) is caught and
reported.  After it only an interrupt makes construction fail, and then the
joinable thread object ends the process (`MainThrow`).

**Undefined behaviour.**  `front()`/`back()` of an empty `std::list` reads a null
element and ends the process (`crashed`).  On the empty `std::vector` of
gathered targets it may read anything: both outcomes of the test on it, or a
crash (`SpanIsShort`, `OrganizeCrash`).  `StatusProtocol`, which has no data, lets the
process die wherever this can happen, and where the solver is asked for a block
it does not have (`SMInitializeDies`, `RadarOrganizeDies`).  `InitializeGravity` takes the mean of a
matrix half of whose rows were never written: its test for rest may come out
either way.  `Save` on null splines is a crash.

**Data.**  A measurement is its stamp.  Radar targets of a scan share the stamp
of the scan.  Which windows have too few measurements is left open in
`StatusProtocol` and computed in `SensorFlow`.  In `KnotWindow` the measurements
of a kind are at consecutive ticks (`Runs`): a gap inside a window does not
touch fewer knots at its ends, where indices are decided.

In `EstimatorProblem` a window has up to `MaxImu` IMU frames, `MaxRadar` radar targets
and `MaxLeg` leg frames, at any of its ticks.  The runs have two, one and one: a
factor has at most two times, and what a problem holds is a union over factors.
The proofs are for any number.  The unit of a variance is what the
random walk adds in a tick; the solver may answer with any variance in a small
range, or with none.

**External code.**  The ROS executor, `rclcpp::ok()`, of the spline library
ranges, metas (which merge segments that share a knot) and indices, and of the
solver that it ends the process when a block it does not know is to be held or
asked for, and that a held block has covariance zero: all modelled from how
`src/` uses them and marked external.  The marginalisation is given the whole
problem and is taken to use it all: a prior is made of every factor still in the
problem, and keeps every knot of it that is not marginalised.  The code takes it
so too, as it removes factors from the problem beforehand that touch no old knot.

Some definitions are preceded by a variant marked *mutated*.  Nothing uses these
but the mutation runs, in which one replaces the definition after it and a
property must then fail.

## 3. Runs

| Run | Question | Bounds |
|---|---|---|
| `status_safety` | do the threads keep the status word, the splines and erasure consistent; is what they publish a `PoseStream` | times 0..4, lag of publishing 2, of erasure 1 |
| `status_liveness` | does the program end, initialise, publish | times 0..2, both lags 1 |
| `sensor_flow` | is what arrives a `MeasurementLog`, each measurement used once and kept until then; do the list operations do what their names say | stamps 0..5, any message lost, 1 or 2 targets per scan; for the operations, all lists of up to 4 stamps from 0..3, in any order |
| `imu_preprocess` | which measurements get into an acceleration, is the average whole, is the yaw integrated over all of the time | stamps 0..5, any message lost; 6 foot messages, two contacts; average over 3 frames, threshold 1, lag 2; one more topic, first stamp of both others 2 |
| `radar_init` | are frames apart, does initialisation find what the flag promised, does it die only for a known reason | stamps 0..9, scans of 0, 1, 3 targets, IMU anywhere |
| `radar_init_thin` | *finding 1* | scans of 1 or 3 targets |
| `time_epoch` | what the unlocked epoch still guarantees | three topics of 2 messages, stamps 0..2, 2 targets, offset 1 |
| `time_epoch_race` | *finding 2* | same |
| `knot_window` | is the bookkeeping of knots and prior consistent | splines of order 3, up to tick 12, windows of 1 to 4 ticks, velocity knots twice as dense |
| `knot_tail` | *finding 3* | same |
| `problems` | are the problems put together as the factors read them, and do they hold, move and ask for what they should | order 3, rotation and gravity knots every 2 ticks, velocity knots every tick; six choices of radar and IMU stamps to begin with, three of leg stamps; windows of 1 to 4 ticks up to tick 8 |
| `problem_gravity` | *finding 4* | same |

Why these bounds are enough for the questions:

* five times are enough for initialisation, two windows, and a stale snapshot
  from before either; a publish lag of 2 lets states be out of the splines'
  range at first and within it later;
* lists of four stamps have every relation of two bounds to runs of equal and of
  decreasing stamps; that the same holds for lists of any length is proved;
* six foot messages make a contact stable, change it and make it stable again;
  six stamps store frames during all of this, with more than an average's
  reach behind the erasure.  The two contacts stand for all: the code only
  compares them.  A first stamp of 2 of the other topics is before, among and
  after those the IMU may begin with, and two other topics can set the epoch twice;
* six ticks and windows of two give two committed windows behind an
  initialisation, with erasure by any of the snapshots of before;
* two frames kept instead of ten, of two ticks each: the ready flag comes up
  with the third frame, and a fourth can follow while it is being consumed;
* the race of the epoch is one of first messages; second ones show what stays;
* with order 3 a knot is touched over three intervals and remembered over five;
  a window of four ticks may add no, one or two rotation knots and up to four
  velocity knots, and three to ten windows follow one another.
  `MinWindow = 1` lets windows be shorter than a knot interval.  `FirstRefined` is 3
  where the code has 5, in proportion to the order.
* in `problems`, two IMU times in a window of four ticks may share all velocity
  knots, some or none, which is what merged metas differ in; the IMU may begin
  before, with or after the radar; leg frames may be there, be out of range or
  be missing.  `MinInit = 2`: initialisation spans a knot interval.  It does as
  long as the IMU is not a second behind the radar.  With less, the gravity
  tail of the first window would take knots 1 to 3 of a spline that has three.
  `FirstRefined` is 2 here, as the few windows there is room for must get past it.

Deadlock is checked in `StatusProtocol`, `SensorFlow`, `KnotWindow` and
`EstimatorProblem` (they end in `Terminated` only).  `RadarInit`, `ImuPreprocess` and
`TimeEpoch` have a finite supply of messages, and the first may die, so they may
stop.  A process that has died in `StatusProtocol` is one that has ended (`Terminated`).

**Fairness** (`FairSpec`).  Each thread runs: weak fairness of `MainNext`, `SMNext`
and the executor's start and exit; a radar callback that has begun ends: weak
fairness of its later steps.  Nothing makes a radar message arrive and nothing
makes an interrupt come.  `MainLookup` waits for `StatesMutex`, which the
StateManager thread takes once per turn and leaves free for the rest of it,
`rate.sleep()` included: strong fairness, since a waiting thread is bound to
find it free in one of these sleeps.

Every property of a passing run has a mutant in `PROJECT.json`: a plausible bug
of the code under which it fails.

## 4. What the runs show

Everything in the tables above that is not called a finding holds.  Some of it
is less obvious than it looks:

* `TogglesOnlyLower` holds although three threads toggle on stale snapshots.
  `HasInitialized` divides the life of the ready flag: before it only the
  StateManager thread lowers it, afterwards only the radar callback does, and a
  callback that began before it can raise but not lower.  Testing the
  snapshot's ready bit in the callback is what this hangs on (mutant
  `RadarDropUntested`).
* `SplinesNotSharedWhileWritten` holds without a lock in initialisation because
  the publish flag and `HasInitialized` rise in the same critical section, after
  the splines are complete; and for `Save` because of the join.
* The publish flag may be lowered for a newer state than the one published.
  That state is then only published if no newer one comes along in time:
  `PoseStream` allows a state to be skipped, and `NewStateServed` says no more
  than the code does.
* `GivesUpForCause` needs its hypothesis that the window begins with a radar
  scan.  Without it, a window that begins between two scans (because the IMU was
  behind when the last one ended) may hold none, and the estimator ends itself
  with every sensor working.
* `ImplementsMeasurementLog` holds although a window is copied out of three lists
  under three locks while measurements arrive: its end is the earlier of the two
  list ends, and nothing stamped before it can still come.  Copying to the end
  of the list instead (mutant `SMExtractRest`) takes measurements twice.
* `EndsKept` is what keeps two calls of `back()` from an empty list.  It hangs on
  the valid time being the end of a list, and on the 0.2 s being subtracted.
* `DiesOnlyUninitialised` is about all the ways the process can die.  Two are control:
  `Save` on null splines, and the StateManager thread, already running, met by an
  exception in the constructor or in `Run`.  Neither can happen once there is an
  estimate, because only the radar callback can lead to one and the executor comes
  last (mutant `MainBootSpinning`).  The others are data: initialisation without radar or
  IMU frames or without leg frames, and the organizer without targets.  The last can
  still happen after initialisation has ended, in a callback that copied the status
  word before: the property says no more than that.
* `ReadyLeadsToInit` therefore promises an initialisation or the death of the process.
  Which it is depends on the data: `CrashesForCause` (`RadarInit`) and `SolverKnowsBlocks`
  (`EstimatorProblem`) give the causes.
* `OnlyCalmMeasured` (of measurements handled while the contacts change: foot stamps are
  not looked at, by the code neither) holds although nothing orders the two callbacks, because the
  counter is only ever written together with the contact it counts, and because
  a frame that is held back takes over an acceleration that was let in earlier.
  It makes one exception: the first frame keeps its measurement unasked,
  and is part of every later average and hold.  Without foot messages
  every frame has that first acceleration.
* `AverageUndisturbed` has the hypothesis that the frames averaged span no more than
  the 0.2 s of the lag: nine frames do from 40 Hz on, and `IncrementalOptimization`
  gives up below 50 Hz.
* `TurnedThroughout` and `AverageUndisturbed` have the hypothesis that the epoch is not set
  once more by another topic after an IMU frame has been shifted by it.  The first is
  false without it: `dt` takes the epoch of now from the difference to a
  stamp that was shifted by the epoch of then, so one yaw step is off by as much as the
  epoch has moved.  The IMU's own set does no such harm, as it comes before its first
  frame is shifted.
* `AlignedUnlessRaced` and `EpochIsFirstStamp` say what the race on the
  epoch can and cannot do: without a race all is aligned; in one, topics are
  apart by no more than the difference of their first stamps; and only the
  first messages can race.
* `ImplementsSlidingWindow` and `PriorTracked` hold with exactly the `2 * SplineOrder` of
  the code: half of it (mutants `OldKnotsHalf`, `MarginShort`) breaks them.  That the
  front is the same index for what is marginalised in one window and for what is
  looked back at in the next is nowhere written down in the code.
* `FactorsFit` holds although `GravityUpdateFactor` computes offsets from
  metas that were merged: taking the second time's knots to follow the first's
  (mutant `GravityUpdateFactorUnmerged`) is wrong only for windows in which they
  overlap.
* `OnManifolds` holds for the gravity tail, which sets no manifold, because its
  knots were just recorded by factors that do.
* `PrioriInvertible` holds although initialisation leaves the filter of the
  accelerometer bias with variance zero: the bias is held constant there, as
  `OPT_BA` is only added to the options after the factors were built by them, and
  the second solve repeats the first.  It is the random walk over the first
  window that makes the variance positive (mutant `PredictionCertain`).
* `SolverKnowsBlocks` names the one case in which the solver is asked for a block
  it does not have: no leg frame in range during initialisation.  The process
  ends then.  The code promises nothing else, so this is stated in the property
  and not listed as a finding.

### Findings

1. `OrganizeRadarTarAryForInit` clears the frames when one has too few targets
   (`src/core/data_manager.cpp:156-162`) but not the ready flag.  The StateManager
   thread then copies fewer than the ten frames the comments promise, maybe
   none, and calls `front()` on the copy (`radar_init_thin`).
2. The callbacks of two topics whose first messages come together may both find
   no epoch and both set it; what the first stored is then on another clock
   (`time_epoch_race`).  It happens in no other way, and is over once each topic has
   stored a measurement (theorems `MisalignedOnlyByRace`, `EpochSettles`).
3. The comment at `src/core/state_manager.cpp:716` wants extrapolation factors
   out of the prior, and those of the velocity and rotation spline are removed.
   Those of the gravity spline (`gravTailIdVec`) are not, and are in the problem that
   the next prior is made of (`knot_tail`).  Whether a factor that touches no
   marginalised knot has any weight in the prior is up to the library, which is not
   part of the repository; the removals the code does make presume that it has.
4. `AddAcceMeasurementWithConstBias` holds the gravity constant whatever the
   options say (`src/core/estimator.cpp:343`), and constness sticks.
   `InitializeVelSpline` asks for `OPT_GRAVITY` and the log calls the outcome the
   "refined gravity vector"; it is the one of `InitializeGravity`
   (`problem_gravity`).  No measurements make it otherwise (theorem `GravityNeverRefined`),
   and no later problem moves it either (`GravityAlwaysMovedOnce`).

Two more disagreements were met on the way, of less weight, and have no run.
The tails "handle the poor observability of the last few knots"
(`src/core/state_manager.cpp:649`), but that of the gravity spline is put on the
first knots the window recorded.  And initialisation marginalises
`size - 2 * SplineOrder + 1` rotation knots but logs `size - SplineOrder` of them
(`src/core/state_manager.cpp:434`, `:450`).

## 5. What is proved

Every state property, action property and refinement that a passing run checks is
a theorem for all constants.  Only model-checked is liveness (`Termination`,
`ReadyLeadsToInit`, `NewStateServed`), which is out of the prover's reach.  Some
theorems state what no run checks: how far a finding goes, and what else the
inductive invariants say of the program.

Each proof follows one pattern: an inductive invariant `IInv`, a lemma per action
that it is preserved, `Invariance == Spec => []IInv`, and the theorems from it.

### What is assumed of the constants

| Assumption | Says | Why the code justifies it |
|---|---|---|
| `ProtocolAssumption` | times are numbers, lags too | |
| `PreprocessAssumption` | stamps are numbers, averages are over one frame at least, the contacts come on one of the other topics | literals in the code |
| `FlowAssumption` | stamps are numbers, a scan has a target, windows have a positive length, rates and lags are numbers | literals and a rate in the configuration.  Nothing is assumed of which stamps a sensor has |
| `ListAssumption` | the lists and times that `ListOperations` asks about are lists of numbers and numbers | stamps are numbers.  TLC is given a few of them, the theorem is about any |
| `InitAssumption` | more than one frame is kept; between two scans that are a frame span apart the IMU samples | ten frames; 0.1 s without an IMU frame is five times what `IncrementalOptimization` gives up for.  It limits when the IMU *samples*: how far its messages lag behind is open |
| `EpochAssumption` | stamps are numbers, one of the topics is the IMU's | |
| `SplineAssumption`, `KnotAssumption` | knot distances fit one another, order 3 or more, the first window ends past the first knot, refinement starts at knot 2 or later | the configurations; initialisation covers a second; literal 5 |
| `ProblemAssumption` | order 3 or more; initialisation spans a knot interval, windows are not empty; refinement starts at knot 2 or later; the radar and the IMU have stamps when initialisation starts; bias variances start positive | as above; `RadarInit`.  That initialisation spans a knot is what `OnManifolds` needs: the gravity tail takes a first knot of 0 for none |

### `StatusProtocol_proofs`

The type invariant, the other four state properties of
`status_safety`, `PublishedIncreasing`, and that `StatusProtocol` implements
`PoseStream`.  All follow from one inductive invariant `IInv`, the conjunction of

* `TypeOK`;
* `BootInv`: until the executor runs, no callback has, and nothing is initialised;
* `LockInv`: the holder of `StatesMutex` is in a place where it holds it;
* `PhaseInv`: where each thread can be, by whether `HasInitialized` is set and by
  what its snapshot says of it; this is where the life of the ready flag is
  divided in two;
* `FlagInv`: the toggles' preconditions, from `PhaseInv`;
* `WindowInv`: snapshots are never newer than the word, the window begins at the
  valid time and ends later, erasure is behind every snapshot;
* `PublishInv`: a raised publish flag, or a publisher on its way, stands for a
  state newer than the one published last;
* `EndInv`: what must be true of the threads when the main thread is past its
  joins, or the process has died;
* `OldWordInv`: the organizer works on a word from before the initialisation.

None of the state properties is inductive by itself: `TogglesOnlyLower` needs to
know that no other thread can lower the flag between test and toggle, which is
`PhaseInv`; `PublishedIncreasing` needs that nobody else lowers the publish flag
and that commits increase, which is `PublishInv` with `WindowInv`.  `IInv` was
checked with TLC before it was proved.

### `SensorQueue_proofs`

For lists of any length.  The iterators of an extraction are in order for lists
in any order (`CopyRangesAreValid`).  From a list in time order an extraction yields
the window, once each and in order (`ExtractPositions` by positions, and
`ExtractionsAreWindows` against `SelectSeq`); the overloads without an end yield the
window that nothing on the list is beyond (`ExtractionsToTheEnd`).  Erasing what lies
before a window does not change what the window yields, and leaves nothing old
(`ErasureSparesWindows`), again for lists in any order.  `ListOperationsHold`
in `SensorFlow_proofs` puts them together.  They rest on what the search from the
end returns (`CountBefore...` lemmas).  That a `SelectSeq` whose test holds on a run
of positions is that run (`Selection`) is proved for conjunctive tests,
which is what `Within` has.

### `SensorFlow_proofs`

Type correctness, `ListOperations`, `EndsKept`, `UnconsumedKept`, `GivesUpForCause`, and that the
flow implements `MeasurementLog`.  The invariant conjoins

* `OrderInv`: what has arrived is in time order;
* `RestInv`: each list is what has arrived without some front of it, which is older
  than the valid time.  It is what links a list that is erased from behind the
  StateManager thread's back to the history;
* `MarkInv`: the sensors a window waits for have reached the valid time;
* `WindowInv`: where the window at hand starts and that its end has been reached;
* `BatchInv`: a copy taken earlier is the window *of the history as it is now*, for
  the IMU and the radar, and the beginning of it for the legs;
* `QuitInv`: the thread quits for what it saw.

`BatchInv` is the heart: three copies are taken under three locks, and the log is
consumed in one step, at the commit.  It is preserved by the callbacks because the
window ends at a stamp both sensors have reached (`WindowInv`, lemma `GrownCount`), and by
erasure because that stays before the window (`RestInv`, lemma `ExtractDropped`).
`UnconsumedKept` says that a list is what arrived less a front of measurements older
than the valid time: nothing is lost, out of place or doubled.
`GivesUpForCause` needs `BatchInv` for the copy of the radar list: the scan the window
starts with is in it, one target is enough for the rate asked of a window so short,
and what is left to blame is the IMU.

### `ImuPreprocess_proofs`

All four properties of `imu_preprocess`, from an inductive
invariant that conjoins

* `CountInv`: the counter is the length, less one, of the run of equal contacts
  that `footDataSeq` ends in.  This makes the counter say what `calm` says by looking
  at the contacts themselves (`CountMeasures`);
* `OrderInv`: frames are stored in the order of their stamps;
* `EpochInv`: there is an epoch once a frame is being shifted, the IMU is only about to set
  it before its first frame is stored, and as long as it has not moved every
  frame has been shifted by the epoch of now;
* `SuffixInv`: the list is the end of all that was ever stored, never empty again
  once it is not, and, if the epoch has not moved, all that is missing is older than
  the newest by more than the lag;
* `TurnInv`: how far the orientation has been integrated, before and after the frame
  at hand is stored, if the epoch has not moved;
* `AcceInv`: `OnlyCalmMeasured`, and that frames called calm have been stored.

`OnlyCalmMeasured` needs `SuffixInv`, since averages are taken over what is in the
list, and `CountInv`; the other two follow from `OrderInv`, `EpochInv` and `SuffixInv`.
`NoGapUnlessMoved` is `TurnedThroughout`, and `FullAverage` is `AverageUndisturbed`, each with the
epoch staying where it is.  `CalmOnly` needs nothing of the epoch.  What an erasure
takes off the list comes from the lemmas of `SensorQueue_proofs` (`ErasedFront`).  It rests on
`MainErase`, which takes the valid time to be no later than the stamp at the end of the
list: it was the stamp of a list's end, less the same epoch, as long as the
initialisation, which covers a second of data, outlasts the test and set of the epoch.

### `RadarInit_proofs`

All five properties of `radar_init`.  The invariant conjoins

* `ImuInv`: the IMU list has no hole before its last frame;
* `TarInv`: targets are gathered in time order, before the scan at hand;
* `FrameInv`: the frames are in order and apart, any two of them, and the head
  time, a function-local static, is where the last of them ended.  This is why
  frames dropped in between do no harm;
* `PhaseInv`: scans are only dropped, and the flag only toggled, by the callback
  once the StateManager thread asks for neither;
* `ReadyInv`: from when the flag is raised until the frames are copied, the list is
  full, as long as no frame was invalid: pushing to a full list drops one;
* `CopyInv`: the same of the copy;
* `CrashesForCause` and `InitCovered` themselves.

`CrashesForCause` is proved from `InitAssumption`: a full copy spans the time of a frame
at least, the IMU samples within it, and by `ImuInv` that sample is on the list if
anything past the first radar frame is.

### `TimeEpoch_proofs`

All three properties of `time_epoch`, for any topics, any number of messages and of
targets.  `EpochInv` says whose stamp the epoch is, `SetterInv` that a topic sets it with its
first message or never, `HandInv` what a callback has in its hands, `ShiftedInv` and `StoredInv`
that each stamp, stored or about to be, is shifted by the first stamp of some
topic that set the epoch, and `UnracedInv` that it is *the* epoch if one topic has.

Two more theorems bound the race of finding 2.  `MisalignedOnlyByRace`: IMU frames
and radar targets have one epoch, as the comment at
`include/core/data_manager.h:265` wants it, unless two topics have set it.
`EpochSettles`: the epoch only changes while some topic has stored nothing, as no
topic that has stored is on its way to set it (`SetterInv`).

### `KnotWindow_proofs`

All properties of `knot_window`, `ImplementsSlidingWindow` included, for every order from 3
on, all distances, and windows of any length.  The invariant conjoins

* `SizeInv`: no spline reaches more than a knot past the valid end, and the gravity
  spline is as long as the rotation spline;
* `EmptyInv`: before initialisation there is nothing;
* `KeptInv`: addresses are remembered from the front on, and the prior only points at
  those;
* `SeenInv`: information is in the prior from the front on, and folded behind it;
* `RefinedInv`: what is refined ends two knots before the last window began.

The arithmetic is linear but for the division of a time by a knot distance,
which lemma `Division` reduces to its bounds.  `NoKnotForgotten` needs `SizeInv`: that a
window touches no knot before the front of the *last* one is what `2 * SplineOrder`
is for.

Finding 3 has no theorem: every window that puts a tail on the gravity spline has it
in the prior it leaves, by what is taken of the library.

### `EstimatorProblem_proofs`

All seven properties of `problems`, with `Factors`, `Splines` and `BiasFilter`
under it: for every order from 3 on, all knot distances that fit one another, any
number of measurements at any stamps, and windows of any length without end.  The
argument goes from the inside out:

* `MetaOfOne`, `MetaOfTwo`: a meta for one time or for two holds the knots for these times,
  each once, where `SplineIndex` says they are, whether the library merges the
  two runs of knots or not (`SharedKnots`, `TwoRuns`).  No factor has more than two
  times, so the folds are unfolded (`SplineMetaOf`, `KnotsDataOf`, `NumParametersOf`) and no
  induction over data is needed.  `MetaOfTwo` asks for the earlier time first, which
  `AddGravityRotConstraint` and `AddRotPrior` keep to;
* `FitMeta`, `FitJoined`, `FitMetas`: blocks gathered from metas, one after the other, are of the
  sizes declared and read where the classes of the factors read them (`Fit`);
* one lemma `Of...` for each `Add...`: the factor is `Sound`, that is it fits and its knots exist,
  it has manifolds for its blocks on spheres (`Added`), and it holds constant what
  its options say.  Three need more than the code asks: `OfLeg` that the rotation spline
  reaches the leg frame, `OfRotPrior` that the second time is in range, `OfGravTail` that
  its knots exist;
* `ProblemSound`: a problem of such factors has knots that exist, and manifolds.

The inductive invariant conjoins `ProblemSound` for both problems (`SoundInv`) with

* `SizeInv`: in the initialisation a time in reach of the velocity spline is in reach
  of the rotation spline (lemma `Created`: this is where knot distances must fit one
  another); in a window all of it is in reach of every spline (`Grown`);
* `TimeInv`, `DataInv`: the splines start at an IMU frame; the measurements of a window lie in
  the window, and past the first knot interval;
* `FilterInv`: no filter is ahead of the data it was given, which makes `PrioriInvertible`
  true whatever the solver answered before;
* `HaveInv`: the blocks that the solver is going to be asked for are in the problem,
  and the index kept for the next window is that of a knot;
* `EmptyInv`, `FreeAsMeant`, `SolverKnowsBlocks`.

On top of `IInv` there is a second inductive invariant, `WindowInv`, of which blocks a
problem has.  It needs the lemmas `Of...` to say where on the splines a factor is,
and that the indices kept for the refinement are where the recorded knots begin
(`WindowBlocks`, `TailsAreLate`).  It yields four theorems that no run states:

* `WindowKnotsAlwaysLive`: measurements, tails and the rotation priors of
  `PreOptimization` are on no knot before the first that the valid time needs;
* `AlwaysRefinesElsewhere`: `PostOptimization`, which runs after a window is solved and
  before its prior is made, shares no block with the window's factors, so that
  each is linearised where it was solved.  The old prior is left out here, and it
  may keep a knot that `PostOptimization` refines;
* `GravityAlwaysMovedOnce`: the gravity constant is free in the problem of
  `InitializeGravity` and in no other;
* `GravityNeverRefined`: finding 4 in every behaviour that gets to the end of
  `InitializeVelSpline`.  There is always an IMU frame at the start of the splines,
  and its factor holds the gravity.

`NeverBack` is an action property: the valid time, the end of the data, the lengths
of the splines and the times of the bias filters never decrease.

`OnManifolds` is the property with the longest reason: the tail of the gravity spline
is put on three knots from the first one recorded, sets no manifold, and takes 0 for
"none recorded".  Lemma `GravRun` shows that the first one recorded is where some IMU
frame's knots begin, that it is not 0, and that the three knots are among that
frame's, whose factor has set their manifold.

## 6. Plan

Order: what could corrupt the estimate silently first.

1. done: `StatusProtocol` with `PoseStream`, proofs; `SensorQueue` with proofs;
   `SensorFlow`; `RadarInit`; `TimeEpoch`; `KnotWindow`; `BiasFilter`, `Factors` and
   `EstimatorProblem`.
2. done: `ImuPreprocess` with proofs; the start of the program and its exceptions,
   in `StatusProtocol`, where the threads are; `MeasurementLog`; `SlidingWindow`.
3. done: theorems about `SensorFlow`, `RadarInit`, `TimeEpoch` and `KnotWindow`,
   refinements included; theorems about `EstimatorProblem` with all it is built from.
4. done: `ListOperations` for any lists; how far findings 2 and 4 go; what the
   problems of a window move and what they leave alone.
5. Left: the prior as a factor of `EstimatorProblem`, which would join it to
   `KnotWindow` and say which refined knots an old prior still holds; an abstract
   specification of the problems, if they come to promise more than their
   invariants say; weaker assumptions on constants where a proof does not need them.

## 7. Not modelled

* What residuals compute, solves, and the values of states: real numbers.
  `AlignInitializedStates` for the same reason.
* `InitGravitySpline`, `BiasFilter::Update`, `AddGyroBiasPriori`, `GetHessianMatrix`: never
  called.
* Sensor messages and their unpackers: stateless conversions.
* Configuration and calibration: read once, by serialisation templates over lists
  of names; that reading may fail is `MainBootFails`, and what the code needs of them is an
  assumption on constants (`SplineAssumption`: the code does not check that the
  knot distances fit one another).
* The dashboard, logging and the trajectory file: pure output.
* The draw flag `NewStateNeedToDraw` is raised and never read; it is in the
  word for completeness.
* In `ImuPreprocess`: gyroscope rates and angles (numbers), and the flag `contact`,
  which is written and never read.
* Unbounded growth of `footDataSeq`, `pose_path` and the filters' records.
