------------------------------ MODULE KnotWindow ------------------------------
(***************************************************************************)
(* The control points (knots) of the three splines while the StateManager  *)
(* thread slides its window over them.  Initialisation and each call of    *)
(* IncrementalOptimization extend the splines, add factors that touch the  *)
(* knots around each measurement, solve, refine the rotation knots the     *)
(* window has left behind, and marginalise: old knots are folded into a    *)
(* prior (margInfo), the others are remembered by index (lastKeep*KnotAdd) *)
(* because extending a spline moves its knots in memory and the prior      *)
(* points at them.                                                         *)
(*                                                                         *)
(* Times are ticks since the start of the splines.  All of it runs in one  *)
(* thread under StatesMutex, so one call is one action.  Values of knots   *)
(* are left out.  The spline and marginalisation library is external.  It  *)
(* is given the whole problem (estimator.get()), and is taken to use it    *)
(* all: the prior is made of every factor still in the problem and holds   *)
(* every knot of the problem that is not marginalised.  The code takes it  *)
(* the same way: it removes from the problem beforehand what the prior is  *)
(* not to be made of, factors that touch no old knot among it.             *)
(***************************************************************************)
EXTENDS Splines, FiniteSets

CONSTANTS
  InitEnds,     \* eTime of the initialisation
  MinWindow, MaxWindow, MaxTime,    \* the windows; the last two are bounds of the model
  FirstRefined  \* 5: PostOptimization leaves the first knots alone

\* The initialisation covers ten radar frames of 0.1 s, less what the IMU is
\* behind, and knots are 0.05 s apart: the window after it ends past the first
\* knot, else the spline has not all knots of the tail constraint, which is on
\* three.  PostOptimization, which looks two knots back, starts at knot 5.
ASSUME KnotAssumption ==
  /\ InitEnds \subseteq Nat /\ \A eTime \in InitEnds : KnotDist["so3"] <= eTime + MinWindow
  /\ {MinWindow, MaxWindow, MaxTime, FirstRefined} \subseteq Nat /\ MinWindow > 0
  /\ Order > 2 /\ FirstRefined > 1

VARIABLES
  valid,        \* ValidStateEndTime; None before the initialisation
  knots,        \* how many knots each spline has
  prior,        \* the knots margInfo keeps, and so points at
  kept,         \* indices in lastKeepSo3KnotAdd, lastKeepVelKnotAdd, lastKeepGravKnotAdd
  folded,       \* kinds of factors margInfo was made of
  updateStart, updateEnd,   \* update_start_index, update_end_index
  touched,      \* the knots touched by measurements of the last window
  refined,      \* the rotation knots PostOptimization refined after it
  seen, marginalised, refinedBefore     \* histories

vars == <<valid, knots, prior, kept, folded, updateStart, updateEnd, touched,
          refined, seen, marginalised, refinedBefore>>

None == -1
NoKnots == [s \in Splines |-> {}]
KnotSets == [Splines -> SUBSET Nat]

TypeOK ==
  /\ valid \in Nat \union {None}
  /\ knots \in [Splines -> Nat]
  /\ {prior, kept, touched, seen, marginalised} \subseteq KnotSets
  /\ folded \subseteq {"measurements", "extrapolation"}
  /\ {updateStart, updateEnd} \subseteq Nat \union {None}
  /\ refined \subseteq Nat /\ refinedBefore \subseteq Nat

Init ==
  /\ valid = None
  /\ knots = [s \in Splines |-> 0]
  /\ prior = NoKnots /\ kept = NoKnots /\ touched = NoKnots
  /\ folded = {}
  /\ updateStart = None /\ updateEnd = None
  /\ refined = {} /\ refinedBefore = {}
  /\ seen = NoKnots /\ marginalised = NoKnots

-------------------------------------------------------------------------------
\* The knots a spline is evaluated from at time t: Add*KnotsData.
KnotsAt(s, t) == LET master == ComputeTIndex(s, t) IN master .. master + Order - 1

-------------------------------------------------------------------------------
(* Factors: the times at which a factor evaluates each spline.  Each Add*  *)
(* of the estimator adds at most one, and none unless the times are in the *)
(* range of the splines it asks about; not all ask about every spline they *)
(* evaluate.  n is how many knots each spline has.                         *)

At(so3, vel, grav) == [so3 |-> so3, vel |-> vel, grav |-> grav]

AddGyroMeasurementWithConstBias(n, t) ==
  {f \in {At({t}, {}, {})} : InRange("so3", n, t)}

AddAcceMeasurementWithConstBias(n, t) ==
  {f \in {At({t}, {t}, {})} : InRange("so3", n, t) /\ InRange("vel", n, t)}

AddRadarMeasurement(n, t) ==
  {f \in {At({t}, {t}, {})} : InRange("so3", n, t) /\ InRange("vel", n, t)}

AddLegMeasurement(n, t) ==
  {f \in {At({t}, {t}, {})} : InRange("vel", n, t)}

AddGravitySplineConstraint(n, t) ==
  {f \in {At({t}, {}, {t})} : InRange("grav", n, t)}

AddGravityRotConstraint(n, st, et) ==
  {f \in {At({}, {st, et}, {st})} :
     \A s \in {"vel", "grav"} : InRange(s, n, st) /\ InRange(s, n, et)}

\* The factors of InitializeVelSpline and of IncrementalOptimization, for IMU
\* frames, radar targets and leg frames at the given times.
InitFactors(n, imu, radar, leg) ==
  UNION ({AddGyroMeasurementWithConstBias(n, t) : t \in imu}
           \union {AddAcceMeasurementWithConstBias(n, t) : t \in imu}
           \union {AddRadarMeasurement(n, t) : t \in radar}
           \union {AddLegMeasurement(n, t) : t \in leg})

WindowFactors(n, imu, radar, leg) ==
  UNION ({AddGravitySplineConstraint(n, t) : t \in imu}
           \union {AddGyroMeasurementWithConstBias(n, t) : t \in imu}
           \union {AddGravityRotConstraint(n, p[1], p[2]) : p \in {q \in imu \X imu : q[1] < q[2]}}
           \union {AddRadarMeasurement(n, t) : t \in radar}
           \union {AddLegMeasurement(n, t) : t \in leg})

TouchedBy(factors) ==
  [s \in Splines |-> UNION {KnotsAt(s, t) : t \in UNION {f[s] : f \in factors}}]

-------------------------------------------------------------------------------
(* Marginalisation of the knots from first on, n being there by now.       *)

OldKnotsHalf(n) == 0 .. n - Order     \* mutated: once the order, not twice
OldKnots(n) == 0 .. n - 2 * Order     \* i <= size - 2 * SplineOrder

MarginShort == Order - 1    \* mutated
Margin == 2 * Order - 1

\* The first knot a window looks at, oldN having been there before.
FirstKnot(oldN) == Max({0, oldN - Margin})

MargSet(first, n) == (first .. n - 1) \intersect OldKnots(n)

KeepSetLate(first, n) == (first + 1 .. n - 1) \ OldKnots(n)     \* mutated
KeepSet(first, n) == (first .. n - 1) \ OldKnots(n)

\* margInfo and the maps after a problem with the knots of the old prior, of
\* the measurements (now), and of factors no measurement stands behind (tail), as
\* far as they have not been removed from it.
Marginalise(first, n, now, tail) ==
  LET marg == [s \in Splines |-> MargSet(first[s], n[s])]
  IN /\ prior' = [s \in Splines |-> (prior[s] \union now[s] \union tail[s]) \ marg[s]]
     /\ kept'  = [s \in Splines |-> KeepSet(first[s], n[s])]
     /\ folded' = {"measurements"} \union
          {kind \in {"extrapolation"} : \E s \in Splines : tail[s] # {}}
     /\ marginalised' = [s \in Splines |-> marginalised[s] \union marg[s]]
     /\ seen' = [s \in Splines |-> seen[s] \union now[s]]

-------------------------------------------------------------------------------
(* TryPerformInitialization: the splines from 0 to eTime, and factors on   *)
(* the rotation and velocity splines.                                      *)

\* Measurements are at consecutive ticks: two that are further apart touch the
\* knots between them as well, unless the gap is longer than a window.
Runs(from, to) == {lo .. hi : lo, hi \in from .. to} \ {{}}

\* Leg frames are everywhere or nowhere: they touch what radar targets touch.
LegRuns(from, to) == {{}, from .. to}

\* Radar targets and leg frames may go on after eTime, when the IMU is behind.
TryPerformInitialization ==
  /\ valid = None
  /\ \E eTime \in InitEnds :
       \E imu \in Runs(0, eTime), radar \in Runs(0, eTime + 1), leg \in LegRuns(0, eTime + 1) :
         LET n   == [s \in Splines |-> CreateSpline(s, eTime)]
             now == TouchedBy(InitFactors(n, imu, radar, leg))
         IN /\ valid' = eTime
            /\ knots' = n
            /\ touched' = now
            \* MarginalizationInInit knows nothing of the gravity spline
            /\ Marginalise([s \in Splines |-> IF s = "grav" THEN n[s] ELSE 0], n, now, NoKnots)
  /\ UNCHANGED <<updateStart, updateEnd, refined, refinedBefore>>

-------------------------------------------------------------------------------
(* IncrementalOptimization of the window [valid, eTime).                   *)

\* AddGravSplineTailConstraint on three knots from the first one recorded; a
\* first one of 0 is taken for "none yet".
GravTail(now) ==
  LET first == Min(now["grav"] \ {0})
  IN [NoKnots EXCEPT !["grav"] = first .. first + 2]

\* PostOptimization(update_start_index, update_end_index).
RefinedEager(start, end) == start - 2 .. end - 3     \* mutated: no test
RefinedUpTo(start, end)  == IF start < FirstRefined THEN {} ELSE start - 2 .. end - 2    \* mutated
Refined(start, end) == IF start < FirstRefined THEN {} ELSE start - 2 .. end - 3

\* Both rates are positive, so there are IMU frames and radar targets.
IncrementalOptimization ==
  /\ valid # None
  /\ \E eTime \in valid + MinWindow .. Min({MaxTime, valid + MaxWindow}) :
       \E imu, radar \in Runs(valid, eTime - 1), leg \in LegRuns(valid, eTime - 1) :
         LET n   == Extended(knots, eTime)
             now == TouchedBy(WindowFactors(n, imu, radar, leg))
         IN /\ valid' = eTime
            /\ knots' = n
            /\ touched' = now
            /\ updateStart' = updateEnd
            /\ updateEnd' = Min(now["so3"])
            /\ refined' = Refined(updateEnd, updateEnd')
            /\ Marginalise([s \in Splines |-> FirstKnot(knots[s])], n, now, GravTail(now))
  /\ refinedBefore' = refinedBefore \union refined

Terminated == valid # None /\ valid + MinWindow > MaxTime /\ UNCHANGED vars

Next == TryPerformInitialization \/ IncrementalOptimization \/ Terminated

Spec == Init /\ [][Next]_vars

-------------------------------------------------------------------------------
(* Safety.                                                                 *)

\* Every knot the prior points at is in the maps by which its address is
\* brought up to date when a spline grows (state_manager.cpp:582-592): no
\* pointer of the prior dangles.
PriorTracked == \A s \in Splines : prior[s] \subseteq kept[s]

\* No knot that carried information is dropped: it is in the prior's maps, or
\* folded into the prior (state_manager.cpp:685-710).
NoKnotForgotten == \A s \in Splines : seen[s] \subseteq kept[s] \union marginalised[s]

\* The windows slide: behind the index from which a window remembers knots
\* (state_manager.cpp:690-705) no measurement ever touches one again, and the
\* prior has none; from that index on the prior has every knot that any window
\* touched.  The ranges that marginalise, remember and look back fit each other
\* for windows of whatever length, those that add no knot included.
Window == INSTANCE SlidingWindow
            WITH front <- [s \in Splines |-> FirstKnot(knots[s])], informed <- seen

ImplementsSlidingWindow == Window!Spec

\* PostOptimization refines a rotation knot once, and only when no measurement
\* of this or of a later window touches it (state_manager.cpp:671-678).
RefinedOnceSettled ==
  /\ refined \intersect refinedBefore = {}
  /\ (refined \union refinedBefore) \intersect touched["so3"] = {}

\* "Remove linear extrapolation factor as they are not come from real-sensor
\* measurements" (state_manager.cpp:716): the prior is made of measurements.
NoExtrapolationInPrior == folded \subseteq {"measurements"}
===============================================================================
