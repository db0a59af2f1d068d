------------------------------- MODULE Splines -------------------------------
(***************************************************************************)
(* The indices of control points (knots) of the rotation, velocity and     *)
(* gravity splines.  Times are ticks since the start of the splines.  The  *)
(* spline library is external: what it does with times and indices is      *)
(* taken from how the code uses it.                                        *)
(***************************************************************************)
EXTENDS Integers, FiniteSetsExt

CONSTANTS
  KnotDist,     \* [so3, vel, grav -> distance of the knots]
  Order         \* Configor::Prior::SplineOrder

Splines == {"so3", "vel", "grav"}

\* The code needs, without asking, what the configurations have (all distances
\* are 0.05 there): the gravity spline is indexed by knots of the rotation
\* spline, and a leg frame in reach of the velocity spline must be in reach of
\* the rotation spline.
ASSUME SplineAssumption ==
  /\ KnotDist \in [Splines -> Nat \ {0}]
  /\ KnotDist["grav"] = KnotDist["so3"]
  /\ KnotDist["so3"] % KnotDist["vel"] = 0
  /\ Order \in Nat /\ Order > 1

\* MaxTime() of a spline of n knots.
MaxTimeOf(s, n) == (n - Order + 1) * KnotDist[s]

\* A new spline has the fewest knots with MaxTime() >= eTime.
CreateSpline(s, eTime) ==
  Max({Order, Order - 1 + (eTime + KnotDist[s] - 1) \div KnotDist[s]})

\* LinearExtendKnotTo(eTime + 1E-6) of a spline of n knots: the fewest with
\* MaxTime() > eTime.
LinearExtendKnotTo(s, n, eTime) == Max({n, Order + eTime \div KnotDist[s]})

\* The gravity spline is then given as many knots as the rotation spline.
Extended(n, eTime) ==
  [s \in Splines |-> LET like == IF s = "grav" THEN "so3" ELSE s
                     IN LinearExtendKnotTo(like, n[like], eTime)]

\* The first of the Order knots a spline is evaluated from at time t.
ComputeTIndex(s, t) == t \div KnotDist[s]

\* Splines of n[s] knots can be evaluated at time t.
InRange(s, n, t) == 0 <= t /\ t < MaxTimeOf(s, n[s])
===============================================================================
