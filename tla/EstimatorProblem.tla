--------------------------- MODULE EstimatorProblem ---------------------------
(***************************************************************************)
(* The least-squares problems the StateManager thread poses, one after the *)
(* other: three in the initialisation, and in each window one before and   *)
(* one after the problem proper.  Each is built by an Estimator of its own *)
(* from the factors of the measurements, solved, asked for the covariance  *)
(* of the two biases, and given up when the prior has been made from it.   *)
(* What is solved is left out; so is the prior, which KnotWindow follows.  *)
(* The solver (Ceres) is external: it ends the process when it is asked to *)
(* set constant, or for the covariance of, a block it does not have, and   *)
(* takes a constant block to have variance zero.                           *)
(*                                                                         *)
(* Times are ticks since the start of the splines.  All of it runs in one  *)
(* thread; an action is what happens between two points at which something *)
(* can be said of a problem: when it is solved, and when it is given up.   *)
(***************************************************************************)
EXTENDS Factors, BiasFilter

CONSTANTS
  RadarStamps, ImuStamps, LegStamps,   \* sets of stamps the initialisation may begin with
  MinInit,      \* the least the initialisation spans: the IMU is not that far behind
  MinWindow, MaxWindow, MaxTime,       \* the windows; the last two are bounds of the model
  MaxImu, MaxRadar, MaxLeg,            \* bounds on the measurements of a window
  RotPriorGap,  \* dt of PreOptimization
  FirstRefined, \* 5: PostOptimization leaves the first knots alone
  InitVar,      \* of the biases, before anything is known
  MaxVar        \* a bound on what the solver may answer

\* The initialisation covers ten radar frames of 0.1 s, less what the IMU is
\* behind, and knots are 0.05 s apart: it spans a knot at least, else the tail of
\* the gravity spline would be put on knots that no measurement touches.
\* PostOptimization, which looks two knots back, starts at knot 5.
ASSUME ProblemAssumption ==
  /\ Order >= 3     \* the tail factors take three of the last Order knots
  /\ KnotDist["so3"] <= MinInit /\ FirstRefined > 1
  /\ {RadarStamps, ImuStamps, LegStamps} \subseteq SUBSET SUBSET Nat
  /\ \A stamps \in RadarStamps \union ImuStamps : stamps # {} /\ IsFiniteSet(stamps)
  /\ {MinInit, MinWindow, MaxWindow, MaxTime, RotPriorGap, FirstRefined} \subseteq Nat
  /\ MinWindow > 0
  /\ InitVar \in Nat \ {0} /\ MaxVar \in Nat \ {0}

VARIABLES
  place,        \* how far TryPerformInitialization or IncrementalOptimization is
  data,         \* stamps of the IMU frames, radar targets and leg frames it uses
  knots,        \* how many knots each spline has
  valid,        \* ValidStateEndTime; None before the initialisation
  eTime,        \* the end of the data in use
  problem,      \* the problem of the present estimator
  own,          \* the problem of PreOptimization or PostOptimization
  baFilter, bvFilter,
  updateStart, updateEnd    \* update_start_index, update_end_index

filters == <<baFilter, bvFilter>>
indices == <<updateStart, updateEnd>>
vars == <<place, data, knots, valid, eTime, problem, own, filters, indices>>

None == -1
NoData == [imu |-> {}, radar |-> {}, leg |-> {}]

-------------------------------------------------------------------------------
(* Problems.  Factors can be removed; the blocks they brought, and what    *)
(* was said of the blocks, stay.                                           *)

Problem(factors) ==
  [residuals  |-> factors,
   blocks     |-> UNION {ToSet(f.blocks) : f \in factors},
   onManifold |-> UNION {f.onManifold : f \in factors},
   fixed      |-> UNION {f.fixed : f \in factors}]

NoProblem == Problem({})

SetParameterBlockConstant(p, b) == [p EXCEPT !.fixed = @ \union {b}]

RemoveResidualBlocks(p, kinds) ==
  [p EXCEPT !.residuals = {f \in @ : f.kind \notin kinds}]

Kinds(p) == {f.kind : f \in p.residuals}

\* knotRecoder: the knots of a spline that went through Add*KnotsData.
Recorded(p, s) ==
  {b[2] : b \in {c \in UNION {ToSet(f.blocks) :
                               f \in {g \in p.residuals : g.kind \notin {"velTail", "so3Tail", "gravTail"}}} :
                 c[1] = s}}

TypeOK ==
  /\ place \in {"uninitialised", "created", "so3Solved", "gravitySolved", "velSolved", "ready",
                "extended", "preSolved", "solved", "updated", "postSolved",
                "noFrontKnot", "noCovariance"}
  /\ data \in [{"imu", "radar", "leg"} -> SUBSET Int]
  /\ knots \in [Splines -> Nat]
  /\ {valid, updateStart, updateEnd} \subseteq Nat \union {None} /\ eTime \in Nat
  /\ \A f \in {baFilter, bvFilter} : f \in [time : Nat, var : Nat]

Init ==
  /\ place = "uninitialised"
  /\ data = NoData
  /\ knots = [s \in Splines |-> 0]
  /\ valid = None /\ eTime = 0
  /\ problem = NoProblem /\ own = NoProblem
  /\ baFilter = StatePack(0, InitVar) /\ bvFilter = StatePack(0, InitVar)
  /\ updateStart = None /\ updateEnd = None

-------------------------------------------------------------------------------
(* The bias filters.                                                       *)

\* The filter of block b after the solver was asked for its covariance: it may
\* be at a loss, and then the filter stays as it is.  With a prior on b that
\* is in the problem, b is no less certain than that.
Updated(filter, b, p) ==
  LET variances == IF b \in p.fixed THEN {0}
                   ELSE IF Kinds(p) \intersect {"baPriori", "bvPriori"} # {}
                        THEN {1, Prediction(filter, eTime).var}
                        ELSE {1, MaxVar}
  IN {UpdateByEstimator(filter, StatePack(eTime, v)) : v \in variances}
       \union (IF b \in p.fixed THEN {} ELSE {filter})

\* UpdateBiasFilters, on the way to a place.
UpdateBiasFilters(p, next) ==
  IF {Ba, Bv} \subseteq p.blocks
  THEN /\ baFilter' \in Updated(baFilter, Ba, p)
       /\ bvFilter' \in Updated(bvFilter, Bv, p)
       /\ place' = next
  ELSE /\ place' = "noCovariance"
       /\ UNCHANGED filters

-------------------------------------------------------------------------------
(* TryPerformInitialization.                                               *)

StartTimeOfRadar(radar, imu) == Min(radar)      \* mutated: the IMU begins later
StartTime(radar, imu) == Max({Min(radar), Min(imu)})

\* Without any IMU frame between the radar frames the process dies (RadarInit).
TryPerformInitialization ==
  /\ place = "uninitialised"
  /\ \E radar \in RadarStamps, imuData \in ImuStamps, legData \in LegStamps :
       LET Piece(stamps) == {t \in stamps : Min(radar) <= t /\ t < Max(radar)}
           imu == Piece(imuData)
           sTime == StartTime(radar, imu)
           Since(stamps) == {t - sTime : t \in stamps}
       IN /\ imu # {}
          /\ data' = [imu |-> Since(imu), radar |-> Since(radar), leg |-> Since(Piece(legData))]
          /\ eTime' = Min({Max(radar), Max(imu)}) - sTime
          /\ eTime' >= MinInit
          /\ knots' = [s \in Splines |-> CreateSpline(s, eTime')]
  /\ baFilter' = StatePack(0, InitVar) /\ bvFilter' = StatePack(0, InitVar)
  /\ place' = "created"
  /\ UNCHANGED <<valid, problem, own, indices>>

\* "make this problem fun rank": the front rotation knot is held.
HoldFrontKnot(p, next) ==
  IF Knot("so3", 0) \in p.blocks
  THEN problem' = SetParameterBlockConstant(p, Knot("so3", 0)) /\ place' = next
  ELSE problem' = p /\ place' = "noFrontKnot"

InitializeSO3Spline ==
  /\ place = "created"
  /\ HoldFrontKnot(
       Problem(UNION {AddGyroMeasurementWithConstBias(knots, t, {"SO3"}) : t \in data.imu}),
       "so3Solved")
  /\ UNCHANGED <<data, knots, valid, eTime, own, filters, indices>>

\* Every other pair of radar frames in range, as i is incremented twice.
\* Whether the system is at rest is read off a matrix with rows that were never
\* written: it may come out either way.
InitializeGravity ==
  /\ place = "so3Solved"
  /\ LET inRange == {t \in data.radar : InRange("so3", knots, t)}
         pim == IF Cardinality(inRange) < 2 THEN {} ELSE {AddVelPIMForGravityRecovery({"GRAVITY"})}
     IN \E stationary \in {{}, {AddStationaryGravity}} : problem' = Problem(pim \union stationary)
  /\ place' = "gravitySolved"
  /\ UNCHANGED <<data, knots, valid, eTime, own, filters, indices>>

\* OPT_BA is added to the options after the factors have been built by them.
InitializeVelSpline ==
  LET opt == {"SO3", "VEL", "GRAVITY"}
  IN /\ place = "gravitySolved"
     /\ HoldFrontKnot(
          Problem(UNION (
              {AddGyroMeasurementWithConstBias(knots, t, opt) : t \in data.imu}
                \union {AddAcceMeasurementWithConstBias(knots, t, opt) : t \in data.imu}
                \union {AddRadarMeasurement(knots, t, opt) : t \in data.radar}
                \union {AddLegMeasurement(knots, t, opt) : t \in data.leg}
                \union {AddVelSplineTailConstraint(knots, opt), AddSo3SplineTailConstraint(knots, opt)})),
          "velSolved")
     /\ UNCHANGED <<data, knots, valid, eTime, own, filters, indices>>

\* The tails are removed, the filters updated, the prior made.
FinishInitialization ==
  LET p == RemoveResidualBlocks(problem, {"velTail", "so3Tail"})
  IN /\ place = "velSolved"
     /\ UpdateBiasFilters(p, "ready")
     /\ IF place' = "ready"
        THEN valid' = eTime /\ problem' = NoProblem /\ data' = NoData
        ELSE problem' = p /\ UNCHANGED <<valid, data>>
     /\ UNCHANGED <<knots, eTime, own, indices>>

-------------------------------------------------------------------------------
(* IncrementalOptimization.                                                *)

\* The window and its data: IMU frames and radar targets there are, as both
\* rates are positive.  They may be at any times.
AtMost(bound, stamps) == {T \in SUBSET stamps : Cardinality(T) <= bound}

ExtendSplines ==
  /\ place = "ready"
  /\ \E end \in valid + MinWindow .. Min({MaxTime, valid + MaxWindow}) :
       LET window == valid .. end - 1
       IN \E imu \in AtMost(MaxImu, window) \ {{}}, radar \in AtMost(MaxRadar, window) \ {{}},
             leg \in AtMost(MaxLeg, window) :
            /\ data' = [imu |-> imu, radar |-> radar, leg |-> leg]
            /\ eTime' = end
            /\ knots' = Extended(knots, end)
  /\ place' = "extended"
  /\ UNCHANGED <<valid, problem, own, filters, indices>>

PreOptimization ==
  /\ place = "extended"
  /\ own' = Problem(UNION (
       {AddGyroMeasurementWithConstBias(knots, t, {"SO3"}) : t \in data.imu}
         \union {AddSo3SplineTailConstraint(knots, {"SO3"})}
         \union {AddRotPrior(knots, t, RotPriorGap) : t \in valid .. eTime - RotPriorGap - 1}))
  /\ place' = "preSolved"
  /\ UNCHANGED <<data, knots, valid, eTime, problem, filters, indices>>

WindowOptionsSparse == {"VEL", "BA"}     \* mutated: OPT_SO3 is missing
WindowOptions == {"SO3", "VEL", "BA"}

\* The gravity tail is put on three knots from the first one recorded; a first
\* one of 0 is taken for "none yet".
FirstGravKnot(recorded) == IF recorded \subseteq {0} THEN 0 ELSE Min(recorded \ {0})

WindowFactors(opt) ==
  UNION ({AddGravitySplineConstraint(knots, t) : t \in data.imu}
           \union {AddGyroMeasurementWithConstBias(knots, t, opt) : t \in data.imu}
           \union {AddGravityRotConstraint(knots, p[1], p[2]) :
                     p \in {q \in data.imu \X data.imu : q[1] < q[2]}}
           \union {{AddAcceBiasPriori(opt), AddVelBiasPriori(opt)}}
           \union {AddRadarMeasurement(knots, t, opt) : t \in data.radar}
           \union {AddLegMeasurement(knots, t, opt) : t \in data.leg})

SolveWindow ==
  LET opt     == WindowOptions
      factors == WindowFactors(opt)
      first   == FirstGravKnot(Recorded(Problem(factors), "grav"))
  IN /\ place = "preSolved"
     /\ problem' = Problem(factors \union AddGravSplineTailConstraint(first, opt)
                             \union AddVelSplineTailConstraint(knots, opt)
                             \union AddSo3SplineTailConstraint(knots, opt))
     /\ own' = NoProblem
     /\ place' = "solved"
     /\ UNCHANGED <<data, knots, valid, eTime, filters, indices>>

UpdateFilters ==
  /\ place = "solved"
  /\ updateStart' = updateEnd
  /\ updateEnd' = Min(Recorded(problem, "so3"))
  /\ UpdateBiasFilters(problem, "updated")
  /\ UNCHANGED <<data, knots, valid, eTime, problem, own>>

PostOptimization ==
  /\ place = "updated"
  /\ own' = IF updateStart < FirstRefined THEN NoProblem
            ELSE Problem({AddRotRefine(idx) : idx \in updateStart - 2 .. updateEnd - 3})
  /\ place' = "postSolved"
  /\ UNCHANGED <<data, knots, valid, eTime, problem, filters, indices>>

\* The prior is made, from what KnotWindow says, and the problem given up.
FinishWindow ==
  /\ place = "postSolved"
  /\ valid' = eTime
  /\ problem' = NoProblem /\ own' = NoProblem /\ data' = NoData
  /\ place' = "ready"
  /\ UNCHANGED <<knots, eTime, filters, indices>>

-------------------------------------------------------------------------------
\* The process is gone, or the bound of the model is reached.
Terminated ==
  /\ \/ place \in {"noFrontKnot", "noCovariance"}
     \/ place = "ready" /\ valid + MinWindow > MaxTime
  /\ UNCHANGED vars

Next ==
  \/ TryPerformInitialization \/ InitializeSO3Spline \/ InitializeGravity
  \/ InitializeVelSpline \/ FinishInitialization
  \/ ExtendSplines \/ PreOptimization \/ SolveWindow \/ UpdateFilters
  \/ PostOptimization \/ FinishWindow
  \/ Terminated

Spec == Init /\ [][Next]_vars

-------------------------------------------------------------------------------
(* Safety.                                                                 *)

Problems == {problem, own}
Residuals == problem.residuals \union own.residuals

\* The three places a factor is put together in agree.  It declares to its cost
\* function, one by one, the sizes of the blocks it then hands over; and at each
\* offset its class computes (include/factor) it finds what it means to read,
\* although it computes the offset from the metas and the blocks are gathered
\* from the splines, and although two times may share knots.
FactorsFit ==
  \A f \in Residuals :
    /\ f.declared = [i \in DOMAIN f.blocks |-> SizeOf[f.blocks[i][1]]]
    /\ \A r \in f.reads :
         /\ r.at + Len(r.want) <= Len(f.blocks)
         /\ SubSeq(f.blocks, r.at + 1, r.at + Len(r.want)) = r.want

\* No factor is given a block twice (the solver would refuse it), nor a knot
\* its spline does not have, be it by a tail, by a rotation prior whose second
\* time nobody tests (estimator.cpp:612), or by an index from the last window.
BlocksExistOnce ==
  /\ \A f \in Residuals : Cardinality(ToSet(f.blocks)) = Len(f.blocks)
  /\ \A p \in Problems : \A b \in p.blocks : b[1] \in Splines => b[2] \in 0 .. knots[b[1]] - 1

\* Whatever a problem moves on a sphere it moves on a manifold: rotation knots,
\* gravity knots and the gravity.  The tail of the gravity spline sets none and
\* counts on its knots being touched by measurements (estimator.cpp:410-438).
OnManifolds ==
  \A p \in Problems : {b \in p.blocks : b[1] \in {"so3", "grav", "gravity"}} \subseteq p.onManifold

\* Constness sticks to a block, whichever factor asked for it.  Initialisation
\* holds at most the front rotation knot, the accelerometer bias and the
\* gravity; a window and its PreOptimization hold nothing; PostOptimization
\* moves rotation knots and nothing else (state_manager.cpp:493-510).
FreeAsMeant ==
  /\ problem.fixed \subseteq {Knot("so3", 0), Ba, Gravity}
  /\ place \in {"solved", "updated", "postSolved"} => problem.fixed = {}
  /\ place = "preSolved" => own.fixed = {}
  /\ place = "postSolved" => \A b \in own.blocks : b \notin own.fixed <=> b[1] = "so3"

\* The solver is asked about blocks without asking it first whether it has
\* them.  The front rotation knot, which the initialisation holds, is always
\* there, as the splines start at an IMU frame (state_manager.cpp:105); the two
\* biases, whose covariance is asked for, are there unless no leg frame was in
\* range in the initialisation.
SolverKnowsBlocks ==
  /\ place # "noFrontKnot"
  /\ place = "noCovariance" =>
       valid = None /\ \A t \in data.leg : ~ InRange("vel", knots, t)

\* The variances of the biases that go into a window are inverted (BiasFactor,
\* VelBiasFactor): they are positive, although initialisation, which holds the
\* accelerometer bias constant, leaves its filter with variance zero.
PrioriInvertible ==
  place \in {"preSolved", "solved"} =>
    \A f \in {baFilter, bvFilter} : Prediction(f, eTime).var > 0

\* "refined gravity vector" (state_manager.cpp:167): after InitializeVelSpline,
\* whose options ask for OPT_GRAVITY, the gravity has been free.
GravityRefined == place = "velSolved" => Gravity \notin problem.fixed
===============================================================================
