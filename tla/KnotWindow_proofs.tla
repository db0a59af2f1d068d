--------------------------- MODULE KnotWindow_proofs ---------------------------
(***************************************************************************)
(* Proofs about KnotWindow, for all distances of knots, all orders of the  *)
(* splines from 3 on, and windows of whatever length, one after another    *)
(* without end.                                                            *)
(***************************************************************************)
EXTENDS KnotWindow, WellFoundedInduction, TLAPS

\* How long the splines are: none reaches further than a knot past the valid
\* end, and the gravity spline is as long as the rotation spline.
SizeInv ==
  IF valid = None
  THEN knots = [s \in Splines |-> 0]
  ELSE /\ \E eTime \in InitEnds : eTime <= valid
       /\ knots["grav"] = knots["so3"]
       /\ \A s \in Splines : Order <= knots[s] /\ knots[s] <= Order + valid \div KnotDist[s]

\* Before the initialisation there is nothing.
EmptyInv ==
  valid = None => /\ prior = NoKnots /\ seen = NoKnots
                  /\ updateEnd = None /\ refined = {} /\ refinedBefore = {}

\* What is remembered lies between the front and the end of the spline.
KeptInv ==
  \A s \in Splines : /\ prior[s] \subseteq kept[s]
                     /\ kept[s] \subseteq FirstKnot(knots[s]) .. knots[s] - 1

\* Information is in the prior from the front on, and folded behind it.
SeenInv ==
  \A s \in Splines : \A k \in seen[s] :
    IF k >= FirstKnot(knots[s]) THEN k \in prior[s] ELSE k \in marginalised[s]

\* Refined knots end two knots before the first knot of the last window, and
\* no window to come starts before that one.
RefinedInv ==
  /\ updateEnd = None => refined = {} /\ refinedBefore = {}
  /\ updateEnd # None =>
       /\ valid # None /\ updateEnd <= valid \div KnotDist["so3"]
       /\ \A k \in touched["so3"] : updateEnd <= k
       /\ \A k \in refined \union refinedBefore : k <= updateEnd - 3
  /\ refined \intersect refinedBefore = {}

IInv == TypeOK /\ SizeInv /\ EmptyInv /\ KeptInv /\ SeenInv /\ RefinedInv

-------------------------------------------------------------------------------
(* Numbers.                                                                *)

\* The community modules' Max, of two numbers.
LEMMA MaxOfTwo ==
  ASSUME NEW a \in Int, NEW b \in Int
  PROVE  Max({a, b}) = IF a >= b THEN a ELSE b
BY DEF Max

\* Every set of numbers that is not empty has a least one.
LEMMA MinOfNats ==
  ASSUME NEW S \in SUBSET Nat, S # {}
  PROVE  Min(S) \in S /\ \A x \in S : Min(S) <= x
<1> DEFINE R == OpToRel(<, Nat)
<1>1. IsWellFoundedOn(R, Nat)
  BY NatLessThanWellFounded
<1>2. \A x \in Nat, y \in Nat : y < x => <<y, x>> \in R
  BY DEF OpToRel
<1> HIDE DEF R
<1>3. PICK x \in S : \A y \in S : ~ (<<y, x>> \in R)
  BY <1>1, WFMin
<1>4. ASSUME NEW y \in S PROVE x <= y
  <2>1. x \in Nat /\ y \in Nat
    OBVIOUS
  <2>2. ~ (y < x)
    BY <1>2, <1>3, <2>1, Zenon
  <2> QED
    BY <2>1, <2>2
<1> QED
  BY <1>4 DEF Min

\* Division rounds down, keeps the order and stays below a bound.
LEMMA Division ==
  ASSUME NEW t \in Int, NEW d \in Nat \ {0}
  PROVE  /\ t \div d \in Int /\ d * (t \div d) <= t /\ t < d * (t \div d) + d
         /\ t >= 0 => t \div d \in Nat
         /\ t >= d => t \div d >= 1
         /\ (t + d - 1) \div d <= t \div d + 1
OBVIOUS

\* A later time is in no earlier knot interval.
LEMMA DivisionMonotonic ==
  ASSUME NEW t \in Int, NEW u \in Int, NEW d \in Nat \ {0}, t <= u
  PROVE  t \div d <= u \div d
OBVIOUS

\* A time is before the beginning of interval q iff its interval is.
LEMMA DivisionBelow ==
  ASSUME NEW t \in Int, NEW d \in Nat \ {0}, NEW q \in Int
  PROVE  t < q * d <=> t \div d < q
OBVIOUS

-------------------------------------------------------------------------------
(* Knots and the times they stand for.                                     *)

USE DEF None, Splines

\* The constants, in one place.
LEMMA Constants ==
  /\ \A s \in Splines : KnotDist[s] \in Nat \ {0}
  /\ KnotDist["grav"] = KnotDist["so3"]
  /\ Order \in Nat /\ Order > 2
  /\ {MinWindow, MaxWindow, MaxTime, FirstRefined} \subseteq Nat
  /\ MinWindow > 0 /\ FirstRefined > 1
  /\ \A eTime \in InitEnds : eTime \in Nat /\ KnotDist["so3"] <= eTime + MinWindow
BY SplineAssumption, KnotAssumption

\* A time in the range of a spline is evaluated from knots the spline has, the
\* first of which is the quotient of time and distance.
LEMMA KnotsInRange ==
  ASSUME NEW s \in Splines, NEW n \in [Splines -> Nat], NEW t \in Int, InRange(s, n, t)
  PROVE  /\ KnotsAt(s, t) \subseteq 0 .. n[s] - 1
         /\ KnotsAt(s, t) = t \div KnotDist[s] .. t \div KnotDist[s] + Order - 1
         /\ t \div KnotDist[s] \in 0 .. n[s] - Order
<1> DEFINE d == KnotDist[s]
           q == t \div KnotDist[s]
<1>1. d \in Nat \ {0} /\ Order \in Nat /\ n[s] \in Nat
  BY Constants
<1>2. q < n[s] - Order + 1
  BY <1>1, DivisionBelow DEF InRange, MaxTimeOf
<1>3. q \in Nat
  BY <1>1, Division DEF InRange
<1>4. KnotsAt(s, t) = q .. q + Order - 1
  BY DEF KnotsAt, ComputeTIndex
<1> HIDE DEF d, q
<1> QED
  BY <1>1, <1>2, <1>3, <1>4 DEF q

\* The front moves with the length of the spline.
LEMMA Fronts ==
  ASSUME NEW n \in Nat
  PROVE  /\ FirstKnot(n) = IF n >= 2 * Order - 1 THEN n - 2 * Order + 1 ELSE 0
         /\ FirstKnot(n) \in Nat
         /\ \A m \in Nat : n <= m => FirstKnot(n) <= FirstKnot(m)
<1>1. Order \in Nat
  BY Constants
<1>2. \A m \in Nat : FirstKnot(m) = IF 0 >= m - Margin THEN 0 ELSE m - Margin
  BY <1>1, MaxOfTwo DEF FirstKnot, Margin
<1> QED
  BY <1>1, <1>2 DEF Margin

\* Marginalising from an earlier front leaves the knots from the new front on.
LEMMA Split ==
  ASSUME NEW m \in Nat, NEW n \in Nat, m <= n
  PROVE  /\ KeepSet(FirstKnot(m), n) = FirstKnot(n) .. n - 1
         /\ MargSet(FirstKnot(m), n) = FirstKnot(m) .. FirstKnot(n) - 1
<1>1. Order \in Nat /\ Order > 2
  BY Constants
<1>2. FirstKnot(m) = IF m >= 2 * Order - 1 THEN m - 2 * Order + 1 ELSE 0
  BY Fronts
<1>3. FirstKnot(n) = IF n >= 2 * Order - 1 THEN n - 2 * Order + 1 ELSE 0
  BY Fronts
<1> QED
  BY <1>1, <1>2, <1>3 DEF KeepSet, MargSet, OldKnots

-------------------------------------------------------------------------------
(* What measurements touch.                                                *)

\* A factor of a window evaluates splines at times of measurements only.
LEMMA WindowTimes ==
  ASSUME NEW n, NEW imu, NEW radar, NEW leg,
         NEW f \in WindowFactors(n, imu, radar, leg), NEW s \in Splines
  PROVE  f[s] \subseteq imu \union radar \union leg
BY DEF WindowFactors, At, AddGravitySplineConstraint, AddGyroMeasurementWithConstBias,
       AddGravityRotConstraint, AddRadarMeasurement, AddLegMeasurement

\* A window touches only knots that one of its measurements is under.
LEMMA WindowTouches ==
  ASSUME NEW n, NEW imu, NEW radar, NEW leg, NEW s \in Splines,
         NEW k \in TouchedBy(WindowFactors(n, imu, radar, leg))[s]
  PROVE  \E t \in imu \union radar \union leg : k \in KnotsAt(s, t)
<1> DEFINE factors == WindowFactors(n, imu, radar, leg)
<1>1. k \in UNION {KnotsAt(s, t) : t \in UNION {f[s] : f \in factors}}
  BY DEF TouchedBy
<1> HIDE DEF factors
<1>2. PICK f \in factors : \E t \in f[s] : k \in KnotsAt(s, t)
  BY <1>1
<1> QED
  BY <1>2, WindowTimes DEF factors

\* An IMU frame touches its knots of the gravity and of the rotation spline.
LEMMA ImuTouches ==
  ASSUME NEW n, NEW imu, NEW radar, NEW leg, NEW t \in imu,
         InRange("grav", n, t), InRange("so3", n, t), NEW s \in {"grav", "so3"}
  PROVE  KnotsAt(s, t) \subseteq TouchedBy(WindowFactors(n, imu, radar, leg))[s]
<1> DEFINE factors == WindowFactors(n, imu, radar, leg)
           f == At({t}, {}, {t})
<1>1. f \in AddGravitySplineConstraint(n, t)
  BY DEF AddGravitySplineConstraint
<1>2. f \in factors
  BY <1>1 DEF WindowFactors
<1>3. t \in f[s]
  BY DEF At
<1> HIDE DEF f, factors
<1>4. KnotsAt(s, t) \subseteq UNION {KnotsAt(s, u) : u \in UNION {g[s] : g \in factors}}
  BY <1>2, <1>3
<1> QED
  BY <1>4 DEF TouchedBy, factors

\* The initialisation touches knots that are there, none of them of gravity.
LEMMA InitTouches ==
  ASSUME NEW n, NEW imu, NEW radar, NEW leg, NEW s \in Splines,
         \A t \in imu \union radar \union leg : InRange("vel", n, t) => InRange("so3", n, t),
         NEW k \in TouchedBy(InitFactors(n, imu, radar, leg))[s]
  PROVE  s # "grav" /\ \E t \in imu \union radar \union leg :
                         InRange(s, n, t) /\ k \in KnotsAt(s, t)
<1> DEFINE factors == InitFactors(n, imu, radar, leg)
<1>1. k \in UNION {KnotsAt(s, t) : t \in UNION {f[s] : f \in factors}}
  BY DEF TouchedBy
<1>2. ASSUME NEW f \in factors, NEW t \in f[s]
      PROVE  s # "grav" /\ t \in imu \union radar \union leg /\ InRange(s, n, t)
  BY <1>2 DEF InitFactors, At, AddGyroMeasurementWithConstBias,
              AddAcceMeasurementWithConstBias, AddRadarMeasurement, AddLegMeasurement
<1> HIDE DEF factors
<1>3. PICK f \in factors : \E t \in f[s] : k \in KnotsAt(s, t)
  BY <1>1
<1> QED
  BY <1>2, <1>3

-------------------------------------------------------------------------------
(* How splines grow.                                                       *)

\* New splines: a time in reach of the velocity spline is in reach of the
\* rotation spline.
LEMMA Created ==
  ASSUME NEW eTime \in Nat, NEW n, n = [s \in Splines |-> CreateSpline(s, eTime)]
  PROVE  /\ n \in [Splines -> Nat] /\ n["grav"] = n["so3"]
         /\ \A s \in Splines : Order <= n[s] /\ n[s] <= Order + eTime \div KnotDist[s]
         /\ \A t \in Int : InRange("vel", n, t) => InRange("so3", n, t)
<1>1. ASSUME NEW s \in Splines
      PROVE  LET up == (eTime + KnotDist[s] - 1) \div KnotDist[s]
             IN  /\ up \in Nat /\ up <= eTime \div KnotDist[s] + 1
                 /\ n[s] = IF up >= 1 THEN Order - 1 + up ELSE Order
  <2> DEFINE d == KnotDist[s]
             up == (eTime + d - 1) \div d
  <2>1. d \in Nat \ {0} /\ Order \in Nat
    BY Constants
  <2>2. up \in Nat /\ up <= eTime \div d + 1
    BY <2>1, Division
  <2>3. n[s] = Max({Order, Order - 1 + up})
    BY DEF CreateSpline
  <2> HIDE DEF up, d
  <2>4. n[s] = IF up >= 1 THEN Order - 1 + up ELSE Order
    BY <2>1, <2>2, <2>3, MaxOfTwo
  <2> QED
    BY <2>2, <2>4 DEF up, d
<1>2. ASSUME NEW s \in Splines
      PROVE  n[s] \in Nat /\ Order <= n[s] /\ n[s] <= Order + eTime \div KnotDist[s]
  <2> DEFINE d == KnotDist[s]
             up == (eTime + d - 1) \div d
             q == eTime \div d
  <2>1. d \in Nat \ {0} /\ Order \in Nat
    BY Constants
  <2>2. up \in Nat /\ up <= q + 1 /\ n[s] = IF up >= 1 THEN Order - 1 + up ELSE Order
    BY <1>1
  <2>3. q \in Nat
    BY <2>1, Division
  <2> HIDE DEF up, q
  <2>4. n[s] \in Nat /\ Order <= n[s] /\ n[s] <= Order + q
    BY <2>1, <2>2, <2>3
  <2> QED
    BY <2>4 DEF q
<1>3. n["grav"] = n["so3"]
  BY Constants DEF CreateSpline
<1>4. ASSUME NEW t \in Int, InRange("vel", n, t) PROVE InRange("so3", n, t)
  <2> DEFINE dv == KnotDist["vel"]
             ds == KnotDist["so3"]
             uv == (eTime + dv - 1) \div dv
             us == (eTime + ds - 1) \div ds
             cv == n["vel"] - Order + 1
             cs == n["so3"] - Order + 1
             q == ds \div dv
  <2>1. dv \in Nat \ {0} /\ ds \in Nat \ {0} /\ ds % dv = 0 /\ Order \in Nat
    BY Constants, SplineAssumption
  <2>2. /\ uv \in Nat /\ cv = IF uv >= 1 THEN uv ELSE 1
        /\ us \in Nat /\ cs = IF us >= 1 THEN us ELSE 1
    BY <1>1, <2>1
  <2>3. q \in Nat /\ ds = dv * q
    BY <2>1
  <2>4. eTime <= ds * us
    BY <2>1, Division
  <2>5. \A m \in Nat : eTime <= m * dv => uv <= m
    <3> SUFFICES ASSUME NEW m \in Nat, eTime <= m * dv PROVE uv < m + 1
      BY <2>2
    <3>1. eTime + dv - 1 < (m + 1) * dv
      BY <2>1
    <3> QED
      BY <2>1, <3>1, DivisionBelow
  <2> HIDE DEF dv, ds, uv, us, cv, cs, q
  <2>6. q >= 1 /\ cs \in Nat \ {0} /\ cv \in Nat \ {0}
    BY <2>1, <2>2, <2>3
  <2>7. eTime <= ds * cs
    BY <2>1, <2>2, <2>4, <2>6
  <2> DEFINE m == q * cs
  <2>8. m \in Nat \ {0} /\ m * dv = cs * ds
    BY <2>1, <2>3, <2>6
  <2> HIDE DEF m
  <2>9. cv <= m
    BY <2>1, <2>2, <2>5, <2>7, <2>8, <2>6
  <2>10. cv * dv <= cs * ds
    BY <2>1, <2>6, <2>8, <2>9
  <2>11. 0 <= t /\ t < cv * dv
    BY <1>4 DEF InRange, MaxTimeOf, cv, dv
  <2>12. cv * dv \in Int /\ cs * ds \in Int
    BY <2>1, <2>6
  <2>13. 0 <= t /\ t < cs * ds
    BY <2>10, <2>11, <2>12
  <2> QED
    BY <2>13 DEF InRange, MaxTimeOf, cs, ds
<1> QED
  BY <1>2, <1>3, <1>4

\* Splines extended for a window reach all of it, and the window lies past the
\* front.
LEMMA Grown ==
  ASSUME IInv, valid # None, NEW eTime \in Int, valid + MinWindow <= eTime,
         NEW n, n = Extended(knots, eTime)
  PROVE  /\ valid \in Nat /\ eTime \in Nat /\ valid < eTime
         /\ n \in [Splines -> Nat] /\ n["grav"] = n["so3"] /\ Order < n["grav"]
         /\ \A s \in Splines : /\ n[s] = Order + eTime \div KnotDist[s]
                               /\ knots[s] \in Nat /\ knots[s] <= n[s]
         /\ \A s \in Splines, t \in valid .. eTime - 1 :
              InRange(s, n, t) /\ FirstKnot(knots[s]) <= t \div KnotDist[s]
<1>1. /\ valid \in Nat /\ eTime \in Nat /\ valid < eTime /\ KnotDist["so3"] <= eTime
      /\ Order \in Nat /\ Order > 2 /\ knots["grav"] = knots["so3"]
  BY Constants DEF IInv, TypeOK, SizeInv
<1>2. ASSUME NEW s \in Splines
      PROVE  /\ n[s] = Order + eTime \div KnotDist[s] /\ n[s] \in Nat
             /\ knots[s] \in Nat /\ knots[s] <= n[s]
             /\ \A t \in valid .. eTime - 1 :
                  InRange(s, n, t) /\ FirstKnot(knots[s]) <= t \div KnotDist[s]
  <2> DEFINE d == KnotDist[s]
             q == eTime \div d
             p == valid \div d
  <2>1. d \in Nat \ {0}
    BY Constants
  <2>2. q \in Nat /\ p \in Nat /\ p <= q /\ eTime < (q + 1) * d
    <3>1. valid \in Int /\ eTime \in Int /\ valid <= eTime /\ 0 <= valid /\ 0 <= eTime
      BY <1>1
    <3>2. p <= q
      BY <2>1, <3>1, DivisionMonotonic
    <3>3. q \in Nat /\ p \in Nat /\ eTime < d * q + d
      BY <2>1, <3>1, Division
    <3> HIDE DEF p, q, d
    <3> QED
      BY <2>1, <3>2, <3>3
  <2>3. knots[s] \in Nat /\ Order <= knots[s] /\ knots[s] <= Order + p
    BY DEF IInv, TypeOK, SizeInv
  <2>4. n[s] = Max({knots[s], Order + q})
    <3>1. s = "grav" => knots[s] = knots["so3"] /\ d = KnotDist["so3"]
      BY <1>1, Constants
    <3> QED
      BY <3>1 DEF Extended, LinearExtendKnotTo
  <2> HIDE DEF q, p, d
  <2>5. n[s] = Order + q
    BY <1>1, <2>2, <2>3, <2>4, MaxOfTwo
  <2>6. ASSUME NEW t \in valid .. eTime - 1
        PROVE  InRange(s, n, t) /\ FirstKnot(knots[s]) <= t \div d
    <3>1. p <= t \div d /\ t \div d \in Int
      BY <1>1, <2>1, Division, DivisionMonotonic DEF p
    <3>2. FirstKnot(knots[s]) <= p
      BY <1>1, <2>2, <2>3, Fronts
    <3>3. 0 <= t /\ t < (q + 1) * d
      <4>1. (q + 1) * d \in Int
        BY <2>1, <2>2
      <4> QED
        BY <1>1, <2>2, <4>1
    <3>4. n[s] - Order + 1 = q + 1
      BY <1>1, <2>2, <2>5
    <3>5. InRange(s, n, t)
      BY <3>3, <3>4 DEF InRange, MaxTimeOf, d
    <3>6. FirstKnot(knots[s]) \in Nat /\ p \in Nat
      BY <2>2, <2>3, Fronts
    <3> QED
      BY <3>1, <3>2, <3>5, <3>6
  <2> QED
    BY <1>1, <2>2, <2>3, <2>5, <2>6 DEF q, d
<1>3. n["grav"] = n["so3"] /\ Order < n["grav"]
  <2>1. KnotDist["grav"] = KnotDist["so3"] /\ KnotDist["grav"] \in Nat \ {0}
    BY Constants
  <2>2. eTime \div KnotDist["grav"] >= 1 /\ eTime \div KnotDist["grav"] \in Int
    BY <1>1, <2>1, Division
  <2> QED
    BY <1>1, <1>2, <2>1, <2>2
<1>4. n \in [Splines -> Nat]
  BY <1>2 DEF Extended
<1> QED
  BY <1>1, <1>2, <1>3, <1>4

\* The measurements of a kind are some times of the window.
LEMMA RunOf ==
  ASSUME NEW from \in Int, NEW to \in Int, NEW run \in Runs(from, to)
  PROVE  run \subseteq from .. to /\ run # {}
<1>1. run # {}
  BY DEF Runs
<1>2. PICK lo \in from .. to, hi \in from .. to : run = lo .. hi
  BY DEF Runs
<1>3. lo .. hi \subseteq from .. to
  OBVIOUS
<1> QED
  BY <1>1, <1>2, <1>3

\* What a window touches, tail constraint included, lies between the front and
\* the end, and the first knots it touches belong to times of the window.
LEMMA Touched ==
  ASSUME IInv, valid # None, NEW eTime \in Int, valid + MinWindow <= eTime,
         NEW imu \in Runs(valid, eTime - 1), NEW radar \in Runs(valid, eTime - 1),
         NEW leg \in LegRuns(valid, eTime - 1), NEW n, n = Extended(knots, eTime),
         NEW now, now = TouchedBy(WindowFactors(n, imu, radar, leg))
  PROVE  /\ now \in KnotSets /\ GravTail(now) \in KnotSets
         /\ \A s \in Splines : /\ now[s] \subseteq FirstKnot(knots[s]) .. n[s] - 1
                               /\ GravTail(now)[s] \subseteq FirstKnot(knots[s]) .. n[s] - 1
         /\ Min(now["so3"]) \in Nat
         /\ \A k \in now["so3"] : Min(now["so3"]) <= k
         /\ valid \div KnotDist["so3"] <= Min(now["so3"])
         /\ Min(now["so3"]) <= eTime \div KnotDist["so3"]
         /\ GravTail(now)["so3"] = {} /\ GravTail(now)["vel"] = {}
         /\ \A k \in GravTail(now)["grav"] : valid \div KnotDist["grav"] <= k
<1>1. /\ valid \in Nat /\ eTime \in Nat /\ valid < eTime
      /\ n \in [Splines -> Nat] /\ n["grav"] = n["so3"] /\ Order < n["grav"]
      /\ \A s \in Splines : knots[s] \in Nat /\ knots[s] <= n[s]
      /\ \A s \in Splines, t \in valid .. eTime - 1 :
           InRange(s, n, t) /\ FirstKnot(knots[s]) <= t \div KnotDist[s]
  BY Grown
<1>2. imu \union radar \union leg \subseteq valid .. eTime - 1 /\ imu # {}
  <2>1. ASSUME NEW run \in Runs(valid, eTime - 1) PROVE run \subseteq valid .. eTime - 1 /\ run # {}
    BY <1>1, RunOf
  <2>2. leg \subseteq valid .. eTime - 1
    BY DEF LegRuns
  <2> QED
    BY <2>1, <2>2
<1>3. Order \in Nat /\ Order > 2 /\ \A s \in Splines : KnotDist[s] \in Nat \ {0}
  BY Constants
\* every touched knot belongs to a time of the window
<1>4. ASSUME NEW s \in Splines, NEW k \in now[s]
      PROVE  \E t \in valid .. eTime - 1 :
               /\ t \div KnotDist[s] \in 0 .. n[s] - Order
               /\ FirstKnot(knots[s]) <= t \div KnotDist[s]
               /\ k \in t \div KnotDist[s] .. t \div KnotDist[s] + Order - 1
  <2>1. PICK t \in valid .. eTime - 1 : k \in KnotsAt(s, t)
    BY <1>2, WindowTouches
  <2>2. t \in Int /\ InRange(s, n, t) /\ FirstKnot(knots[s]) <= t \div KnotDist[s]
    BY <1>1
  <2>3. /\ KnotsAt(s, t) = t \div KnotDist[s] .. t \div KnotDist[s] + Order - 1
        /\ t \div KnotDist[s] \in 0 .. n[s] - Order
    BY <1>1, <2>2, KnotsInRange
  <2> QED
    BY <2>1, <2>2, <2>3
<1>5. ASSUME NEW s \in Splines PROVE now[s] \subseteq FirstKnot(knots[s]) .. n[s] - 1
  <2> SUFFICES ASSUME NEW k \in now[s] PROVE k \in FirstKnot(knots[s]) .. n[s] - 1
    OBVIOUS
  <2>1. PICK q \in 0 .. n[s] - Order : FirstKnot(knots[s]) <= q /\ k \in q .. q + Order - 1
    BY <1>4
  <2>2. FirstKnot(knots[s]) \in Nat /\ n[s] \in Nat
    BY <1>1, Fronts
  <2> QED
    BY <1>3, <2>1, <2>2
<1>6. \A s \in Splines : FirstKnot(knots[s]) \in Nat /\ n[s] \in Nat
  BY <1>1, Fronts
<1>7. now \in KnotSets
  <2>1. \A s \in Splines : now[s] \subseteq Nat
    BY <1>5, <1>6
  <2>2. now = [s \in Splines |-> now[s]]
    BY DEF TouchedBy
  <2> QED
    BY <2>1, <2>2 DEF KnotSets
\* the knots of some IMU frame
<1>8. PICK t \in valid .. eTime - 1 :
        \A s \in {"grav", "so3"} :
          /\ t \div KnotDist[s] \in 0 .. n[s] - Order
          /\ t \div KnotDist[s] .. t \div KnotDist[s] + Order - 1 \subseteq now[s]
  <2>1. PICK t \in imu : TRUE
    BY <1>2
  <2>2. t \in Int /\ t \in valid .. eTime - 1
    BY <1>2
  <2>3. \A s \in {"grav", "so3"} : InRange(s, n, t)
    BY <1>1, <2>2
  <2>4. \A s \in {"grav", "so3"} : KnotsAt(s, t) \subseteq now[s]
    BY <2>1, <2>3, ImuTouches
  <2> QED
    BY <1>1, <2>2, <2>3, <2>4, KnotsInRange
<1> DEFINE u == Min(now["so3"])
<1>9. u \in Nat /\ u \in now["so3"] /\ \A k \in now["so3"] : u <= k
  <2>1. now["so3"] # {} /\ now["so3"] \in SUBSET Nat
    BY <1>3, <1>7, <1>8 DEF KnotSets
  <2> QED
    BY <2>1, MinOfNats
<1> HIDE DEF u
<1>10. u <= eTime \div KnotDist["so3"]
  <2>1. t \div KnotDist["so3"] \in now["so3"] /\ t \div KnotDist["so3"] \in Int
    BY <1>3, <1>8
  <2>2. t \div KnotDist["so3"] <= eTime \div KnotDist["so3"]
    <3>1. t \in Int /\ eTime \in Int /\ t <= eTime /\ KnotDist["so3"] \in Nat \ {0}
      BY <1>1, <1>3
    <3> QED
      BY <3>1, DivisionMonotonic
  <2>3. eTime \div KnotDist["so3"] \in Int
    BY <1>1, <1>3, Division
  <2> QED
    BY <1>9, <2>1, <2>2, <2>3
<1>11. valid \div KnotDist["so3"] <= u
  <2>1. PICK v \in valid .. eTime - 1 :
          /\ v \div KnotDist["so3"] \in 0 .. n["so3"] - Order
          /\ u \in v \div KnotDist["so3"] .. v \div KnotDist["so3"] + Order - 1
    BY <1>4, <1>9
  <2>2. valid \div KnotDist["so3"] <= v \div KnotDist["so3"]
    <3>1. v \in Int /\ valid \in Int /\ valid <= v /\ KnotDist["so3"] \in Nat \ {0}
      BY <1>1, <1>3
    <3> QED
      BY <3>1, DivisionMonotonic
  <2>3. valid \div KnotDist["so3"] \in Int
    BY <1>1, <1>3, Division
  <2> QED
    BY <1>9, <2>1, <2>2, <2>3
<1> DEFINE first == Min(now["grav"] \ {0})
<1>12. first \in Nat /\ first \in now["grav"] /\ \A k \in now["grav"] \ {0} : first <= k
  <2>1. t \div KnotDist["grav"] + 1 \in now["grav"] \ {0}
    BY <1>3, <1>8
  <2>2. now["grav"] \ {0} # {} /\ now["grav"] \ {0} \in SUBSET Nat
    BY <1>7, <2>1 DEF KnotSets
  <2> QED
    BY <2>2, MinOfNats
<1> HIDE DEF first
<1>13. first .. first + 2 \subseteq FirstKnot(knots["grav"]) .. n["grav"] - 1
  <2>1. first + 2 <= n["grav"] - 1
    <3>1. PICK q \in 0 .. n["grav"] - Order :
            \A k \in q .. q + Order - 1 : k \in now["grav"]
      BY <1>8
    <3>2. CASE q = 0
      <4>1. 1 \in now["grav"] \ {0}
        BY <1>3, <3>1, <3>2
      <4> QED
        BY <1>1, <1>3, <1>6, <1>12, <4>1
    <3>3. CASE q # 0
      <4>1. q \in now["grav"] \ {0}
        BY <1>3, <3>1, <3>3
      <4> QED
        BY <1>3, <1>6, <1>12, <3>1, <4>1
    <3> QED
      BY <3>2, <3>3
  <2> QED
    BY <1>5, <1>6, <1>12, <2>1
<1>14. GravTail(now) = [s \in Splines |-> IF s = "grav" THEN first .. first + 2 ELSE {}]
  BY DEF GravTail, NoKnots, first
<1>15. GravTail(now) \in KnotSets
  BY <1>12, <1>14 DEF KnotSets
<1>16. \A k \in first .. first + 2 : valid \div KnotDist["grav"] <= k
  <2>1. PICK v \in valid .. eTime - 1 :
          /\ v \div KnotDist["grav"] \in 0 .. n["grav"] - Order
          /\ first \in v \div KnotDist["grav"] .. v \div KnotDist["grav"] + Order - 1
    BY <1>4, <1>12
  <2>2. valid \div KnotDist["grav"] <= v \div KnotDist["grav"]
    <3>1. v \in Int /\ valid \in Int /\ valid <= v /\ KnotDist["grav"] \in Nat \ {0}
      BY <1>1, <1>3
    <3> QED
      BY <3>1, DivisionMonotonic
  <2>3. valid \div KnotDist["grav"] \in Int
    BY <1>1, <1>3, Division
  <2> QED
    BY <1>12, <2>1, <2>2, <2>3
<1>17. /\ GravTail(now)["so3"] = {} /\ GravTail(now)["vel"] = {}
       /\ \A k \in GravTail(now)["grav"] : valid \div KnotDist["grav"] <= k
  BY <1>14, <1>16
<1> QED
  BY <1>5, <1>7, <1>9, <1>10, <1>11, <1>13, <1>14, <1>15, <1>17 DEF u

-------------------------------------------------------------------------------
(* Marginalisation keeps what the maps and the histories promise.          *)

\* What folding the old knots does to the sets of knots remembered.
LEMMA MarginaliseKeeps ==
  ASSUME TypeOK, KeptInv, SeenInv,
         NEW first, NEW n \in [Splines -> Nat], NEW now \in KnotSets, NEW tail \in KnotSets,
         Marginalise(first, n, now, tail), knots' = n,
         \A s \in Splines :
           /\ knots[s] <= n[s]
           /\ \/ /\ first[s] = FirstKnot(knots[s])
                 /\ now[s] \subseteq FirstKnot(knots[s]) .. n[s] - 1
                 /\ tail[s] \subseteq FirstKnot(knots[s]) .. n[s] - 1
              \/ /\ first[s] = n[s] /\ now[s] = {} /\ tail[s] = {}
                 /\ prior[s] = {} /\ seen[s] = {}
  PROVE  /\ {prior', kept', seen', marginalised'} \subseteq KnotSets
         /\ folded' \subseteq {"measurements", "extrapolation"}
         /\ KeptInv' /\ SeenInv'
         /\ seen' = [s \in Splines |-> seen[s] \union now[s]]
<1> DEFINE old(s) == FirstKnot(knots[s])
           new(s) == FirstKnot(n[s])
           marg(s) == MargSet(first[s], n[s])
<1>1. /\ prior' = [s \in Splines |-> (prior[s] \union now[s] \union tail[s]) \ marg(s)]
      /\ kept' = [s \in Splines |-> KeepSet(first[s], n[s])]
      /\ marginalised' = [s \in Splines |-> marginalised[s] \union marg(s)]
      /\ seen' = [s \in Splines |-> seen[s] \union now[s]]
  BY DEF Marginalise
<1>2. folded' \subseteq {"measurements", "extrapolation"}
  BY DEF Marginalise
<1>3. ASSUME NEW s \in Splines
      PROVE  /\ knots[s] \in Nat /\ n[s] \in Nat
             /\ old(s) \in Nat /\ new(s) \in Nat /\ old(s) <= new(s)
             /\ prior[s] \subseteq Nat /\ seen[s] \subseteq Nat /\ marginalised[s] \subseteq Nat
             /\ now[s] \subseteq Nat /\ tail[s] \subseteq Nat
  BY Fronts DEF TypeOK, KnotSets
\* what is kept and folded, whether the spline has been looked at or not
<1>4. ASSUME NEW s \in Splines
      PROVE  \/ /\ KeepSet(first[s], n[s]) = new(s) .. n[s] - 1
                /\ marg(s) = old(s) .. new(s) - 1
                /\ now[s] \subseteq old(s) .. n[s] - 1 /\ tail[s] \subseteq old(s) .. n[s] - 1
             \/ /\ KeepSet(first[s], n[s]) = {} /\ marg(s) = {}
                /\ now[s] = {} /\ tail[s] = {} /\ prior[s] = {} /\ seen[s] = {}
  <2>1. knots[s] \in Nat /\ n[s] \in Nat
    BY <1>3
  <2>2. CASE first[s] = n[s] /\ now[s] = {} /\ tail[s] = {} /\ prior[s] = {} /\ seen[s] = {}
    BY <2>1, <2>2 DEF KeepSet, MargSet
  <2>3. CASE /\ first[s] = old(s)
             /\ now[s] \subseteq old(s) .. n[s] - 1
             /\ tail[s] \subseteq old(s) .. n[s] - 1
    BY <2>1, <2>3, Split
  <2> QED
    BY <2>2, <2>3
<1>5. ASSUME NEW s \in Splines
      PROVE  /\ prior[s] \subseteq old(s) .. n[s] - 1
             /\ \A k \in seen[s] : IF k >= old(s) THEN k \in prior[s] ELSE k \in marginalised[s]
  BY <1>3 DEF KeptInv, SeenInv
<1> HIDE DEF old, new, marg
<1>6. ASSUME NEW s \in Splines
      PROVE  /\ prior'[s] \subseteq kept'[s] /\ kept'[s] \subseteq new(s) .. n[s] - 1
             /\ \A k \in seen'[s] : IF k >= new(s) THEN k \in prior'[s]
                                    ELSE k \in marginalised'[s]
  <2>1. /\ prior'[s] = (prior[s] \union now[s] \union tail[s]) \ marg(s)
        /\ kept'[s] = KeepSet(first[s], n[s])
        /\ marginalised'[s] = marginalised[s] \union marg(s)
        /\ seen'[s] = seen[s] \union now[s]
    BY <1>1
  <2>2. old(s) \in Nat /\ new(s) \in Nat /\ n[s] \in Nat /\ old(s) <= new(s)
    BY <1>3
  <2>3. seen[s] \subseteq Nat /\ now[s] \subseteq Nat
    BY <1>3
  <2>4. CASE /\ KeepSet(first[s], n[s]) = new(s) .. n[s] - 1
             /\ marg(s) = old(s) .. new(s) - 1
             /\ now[s] \subseteq old(s) .. n[s] - 1 /\ tail[s] \subseteq old(s) .. n[s] - 1
    <3>1. \A k \in prior[s] \union now[s] \union tail[s] : k \in old(s) .. n[s] - 1
      BY <1>5, <2>4
    <3>2. \A k \in old(s) .. n[s] - 1 : k \in new(s) .. n[s] - 1 <=> k \notin old(s) .. new(s) - 1
      BY <2>2
    <3>3. prior'[s] \subseteq kept'[s] /\ kept'[s] \subseteq new(s) .. n[s] - 1
      BY <2>1, <2>4, <3>1, <3>2
    <3>4. ASSUME NEW k \in seen'[s], k >= new(s) PROVE k \in prior'[s]
      <4>1. k \in Nat /\ k >= old(s) /\ k \notin marg(s)
        BY <2>1, <2>2, <2>3, <2>4, <3>4
      <4> QED
        BY <1>5, <2>1, <4>1
    <3>5. ASSUME NEW k \in seen'[s], ~ (k >= new(s)) PROVE k \in marginalised'[s]
      <4>1. k \in Nat
        BY <2>1, <2>3
      <4>2. CASE k >= old(s)
        BY <2>1, <2>2, <2>4, <3>5, <4>1, <4>2
      <4>3. CASE ~ (k >= old(s))
        <5>1. k \notin now[s]
          BY <2>2, <2>4, <4>1, <4>3
        <5> QED
          BY <1>5, <2>1, <4>3, <5>1
      <4> QED
        BY <4>2, <4>3
    <3> QED
      BY <3>3, <3>4, <3>5
  <2>5. CASE /\ KeepSet(first[s], n[s]) = {} /\ marg(s) = {}
             /\ now[s] = {} /\ tail[s] = {} /\ prior[s] = {} /\ seen[s] = {}
    BY <2>1, <2>5
  <2> QED
    BY <1>4, <2>4, <2>5
<1>7. ASSUME NEW s \in Splines
      PROVE  /\ prior'[s] \subseteq Nat /\ kept'[s] \subseteq Nat
             /\ marginalised'[s] \subseteq Nat /\ seen'[s] \subseteq Nat
  <2>1. kept'[s] \subseteq Nat
    BY <1>3, <1>6
  <2>2. marg(s) \subseteq Nat
    <3>1. old(s) \in Nat /\ new(s) \in Nat
      BY <1>3
    <3> QED
      BY <1>4, <3>1
  <2> QED
    BY <1>1, <1>3, <1>6, <2>1, <2>2
<1>8. {prior', kept', seen', marginalised'} \subseteq KnotSets
  BY <1>1, <1>7 DEF KnotSets
<1> QED
  BY <1>1, <1>2, <1>6, <1>8 DEF KeptInv, SeenInv, new

-------------------------------------------------------------------------------
(* The invariant.                                                          *)

\* Nothing is remembered before the initialisation.
LEMMA InitIInv == Init => IInv
<1> SUFFICES ASSUME Init PROVE IInv
  OBVIOUS
<1>1. NoKnots \in KnotSets
  BY DEF NoKnots, KnotSets
<1>2. TypeOK
  BY <1>1 DEF Init, TypeOK
<1> QED
  BY <1>2 DEF Init, IInv, SizeInv, EmptyInv, KeptInv, SeenInv, RefinedInv, NoKnots

\* Both kinds of calls touch and forget knots in the same way.
LEMMA StepTouches ==
  ASSUME IInv, TryPerformInitialization \/ IncrementalOptimization
  PROVE  /\ IInv'
         /\ \A s \in Splines : /\ touched'[s] \subseteq Nat
                               /\ FirstKnot(knots[s]) <= FirstKnot(knots'[s])
                               /\ \A k \in touched'[s] : k >= FirstKnot(knots[s])
         /\ touched' \in KnotSets
         /\ seen' = [s \in Splines |-> seen[s] \union touched'[s]]
<1>1. CASE TryPerformInitialization
  <2>1. /\ valid = None /\ updateEnd = None
        /\ knots = [s \in Splines |-> 0] /\ prior = NoKnots /\ seen = NoKnots
        /\ refined = {} /\ refinedBefore = {}
    BY <1>1 DEF TryPerformInitialization, IInv, SizeInv, EmptyInv
  <2> DEFINE Effect(eTime, imu, radar, leg, n, now) ==
        /\ n = [s \in Splines |-> CreateSpline(s, eTime)]
        /\ now = TouchedBy(InitFactors(n, imu, radar, leg))
        /\ valid' = eTime /\ knots' = n /\ touched' = now
        /\ Marginalise([s \in Splines |-> IF s = "grav" THEN n[s] ELSE 0], n, now, NoKnots)
  <2>a. PICK eTime \in InitEnds :
          \E imu \in Runs(0, eTime), radar \in Runs(0, eTime + 1), leg \in LegRuns(0, eTime + 1) :
            \E n, now : Effect(eTime, imu, radar, leg, n, now)
    BY <1>1 DEF TryPerformInitialization
  <2>b. PICK imu \in Runs(0, eTime), radar \in Runs(0, eTime + 1), leg \in LegRuns(0, eTime + 1) :
          \E n, now : Effect(eTime, imu, radar, leg, n, now)
    BY <2>a
  <2>2. PICK n, now : Effect(eTime, imu, radar, leg, n, now)
    BY <2>b
  <2>3. /\ updateStart' = updateStart /\ updateEnd' = updateEnd
        /\ refined' = refined /\ refinedBefore' = refinedBefore
    BY <1>1 DEF TryPerformInitialization
  <2>4. eTime \in Nat
    BY Constants
  <2>5. /\ n \in [Splines -> Nat] /\ n["grav"] = n["so3"]
        /\ \A s \in Splines : Order <= n[s] /\ n[s] <= Order + eTime \div KnotDist[s]
        /\ \A t \in Int : InRange("vel", n, t) => InRange("so3", n, t)
    BY <2>2, <2>4, Created
  <2>6. imu \subseteq Int /\ radar \subseteq Int /\ leg \subseteq Int
    BY <2>4 DEF Runs, LegRuns
  <2>7. ASSUME NEW s \in Splines
        PROVE  now[s] \subseteq 0 .. n[s] - 1 /\ (s = "grav" => now[s] = {})
    <3>1. ASSUME NEW k \in now[s] PROVE s # "grav" /\ k \in 0 .. n[s] - 1
      <4>1. k \in TouchedBy(InitFactors(n, imu, radar, leg))[s]
        BY <2>2, <3>1
      <4>2. /\ s # "grav"
            /\ \E t \in imu \union radar \union leg : InRange(s, n, t) /\ k \in KnotsAt(s, t)
        <5>1. \A t \in imu \union radar \union leg : InRange("vel", n, t) => InRange("so3", n, t)
          BY <2>5, <2>6
        <5> QED
          BY <4>1, <5>1, InitTouches
      <4> QED
        BY <2>5, <2>6, <4>2, KnotsInRange
    <3> QED
      BY <3>1
  <2>8. now \in KnotSets
    <3>1. now = [s \in Splines |-> now[s]]
      BY <2>2 DEF TouchedBy
    <3> QED
      BY <2>5, <2>7, <3>1 DEF KnotSets
  <2>9. NoKnots \in KnotSets /\ \A s \in Splines : NoKnots[s] = {}
    BY DEF NoKnots, KnotSets
  <2>10. FirstKnot(0) = 0
    BY Constants, Fronts
  <2> DEFINE first == [s \in Splines |-> IF s = "grav" THEN n[s] ELSE 0]
  <2>11. \A s \in Splines :
           /\ knots[s] <= n[s]
           /\ \/ /\ first[s] = FirstKnot(knots[s])
                 /\ now[s] \subseteq FirstKnot(knots[s]) .. n[s] - 1
                 /\ NoKnots[s] \subseteq FirstKnot(knots[s]) .. n[s] - 1
              \/ /\ first[s] = n[s] /\ now[s] = {} /\ NoKnots[s] = {}
                 /\ prior[s] = {} /\ seen[s] = {}
    BY <2>1, <2>5, <2>7, <2>9, <2>10
  <2>12. Marginalise(first, n, now, NoKnots) /\ knots' = n
    BY <2>2
  <2> HIDE DEF first
  <2>13. /\ {prior', kept', seen', marginalised'} \subseteq KnotSets
         /\ folded' \subseteq {"measurements", "extrapolation"}
         /\ KeptInv' /\ SeenInv'
         /\ seen' = [s \in Splines |-> seen[s] \union now[s]]
    <3>1. TypeOK /\ KeptInv /\ SeenInv /\ n \in [Splines -> Nat]
      BY <2>5 DEF IInv
    <3> QED
      BY <2>8, <2>9, <2>11, <2>12, <3>1, MarginaliseKeeps
  <2>14. TypeOK'
    BY <2>2, <2>3, <2>4, <2>5, <2>8, <2>13 DEF IInv, TypeOK
  <2>15. SizeInv'
    BY <2>2, <2>4, <2>5 DEF SizeInv
  <2>16. EmptyInv' /\ RefinedInv'
    BY <2>1, <2>2, <2>3, <2>4 DEF EmptyInv, RefinedInv
  <2>17. ASSUME NEW s \in Splines
         PROVE  /\ touched'[s] \subseteq Nat
                /\ FirstKnot(knots[s]) <= FirstKnot(knots'[s])
                /\ \A k \in touched'[s] : k >= FirstKnot(knots[s])
    BY <2>1, <2>2, <2>5, <2>7, <2>10, Fronts
  <2> QED
    BY <2>2, <2>8, <2>13, <2>14, <2>15, <2>16, <2>17 DEF IInv
<1>2. CASE IncrementalOptimization
  <2>1. valid # None /\ valid \in Nat /\ knots \in [Splines -> Nat]
    BY <1>2 DEF IncrementalOptimization, IInv, TypeOK
  <2> DEFINE Ends == valid + MinWindow .. Min({MaxTime, valid + MaxWindow})
             Effect(eTime, imu, radar, leg, n, now) ==
        /\ n = Extended(knots, eTime)
        /\ now = TouchedBy(WindowFactors(n, imu, radar, leg))
        /\ valid' = eTime /\ knots' = n /\ touched' = now
        /\ updateStart' = updateEnd /\ updateEnd' = Min(now["so3"])
        /\ refined' = Refined(updateEnd, updateEnd')
        /\ Marginalise([s \in Splines |-> FirstKnot(knots[s])], n, now, GravTail(now))
  <2>a. PICK eTime \in Ends :
          \E imu, radar \in Runs(valid, eTime - 1), leg \in LegRuns(valid, eTime - 1) :
            \E n, now : Effect(eTime, imu, radar, leg, n, now)
    BY <1>2 DEF IncrementalOptimization
  <2>b. PICK imu \in Runs(valid, eTime - 1), radar \in Runs(valid, eTime - 1),
             leg \in LegRuns(valid, eTime - 1) :
          \E n, now : Effect(eTime, imu, radar, leg, n, now)
    BY <2>a
  <2>2. PICK n, now : Effect(eTime, imu, radar, leg, n, now)
    BY <2>b
  <2>3. refinedBefore' = refinedBefore \union refined
    BY <1>2 DEF IncrementalOptimization
  <2>4. eTime \in Int /\ valid + MinWindow <= eTime
    PROOF OBVIOUS
  <2>5. /\ eTime \in Nat /\ valid < eTime
        /\ n \in [Splines -> Nat] /\ n["grav"] = n["so3"]
        /\ \A s \in Splines : /\ n[s] = Order + eTime \div KnotDist[s]
                              /\ knots[s] \in Nat /\ knots[s] <= n[s]
    BY <2>1, <2>2, <2>4, Grown
  <2> DEFINE u == Min(now["so3"])
  <2>6. /\ now \in KnotSets /\ GravTail(now) \in KnotSets
        /\ \A s \in Splines : /\ now[s] \subseteq FirstKnot(knots[s]) .. n[s] - 1
                              /\ GravTail(now)[s] \subseteq FirstKnot(knots[s]) .. n[s] - 1
        /\ u \in Nat /\ \A k \in now["so3"] : u <= k
        /\ valid \div KnotDist["so3"] <= u /\ u <= eTime \div KnotDist["so3"]
    BY <2>1, <2>2, <2>4, Touched
  <2> HIDE DEF u
  <2> DEFINE first == [s \in Splines |-> FirstKnot(knots[s])]
  <2>7. \A s \in Splines : first[s] = FirstKnot(knots[s])
    OBVIOUS
  <2>8. Marginalise(first, n, now, GravTail(now)) /\ knots' = n
    BY <2>2
  <2> HIDE DEF first
  <2>9. /\ {prior', kept', seen', marginalised'} \subseteq KnotSets
        /\ folded' \subseteq {"measurements", "extrapolation"}
        /\ KeptInv' /\ SeenInv'
        /\ seen' = [s \in Splines |-> seen[s] \union now[s]]
    <3>1. TypeOK /\ KeptInv /\ SeenInv
      BY DEF IInv
    <3> QED
      BY <2>5, <2>6, <2>7, <2>8, <3>1, MarginaliseKeeps
  <2>10. SizeInv'
    <3>1. Order \in Nat /\ \A s \in Splines : eTime \div KnotDist[s] \in Nat
      BY <2>5, Constants, Division
    <3>2. \E e \in InitEnds : e <= eTime
      <4>1. PICK e \in InitEnds : e <= valid
        BY <2>1 DEF IInv, SizeInv
      <4>2. e \in Nat
        BY Constants
      <4> QED
        BY <2>1, <2>5, <4>1, <4>2
    <3>3. \A s \in Splines : Order <= n[s] /\ n[s] <= Order + eTime \div KnotDist[s]
      BY <2>5, <3>1
    <3> QED
      BY <2>2, <2>5, <3>2, <3>3 DEF SizeInv
  <2>11. RefinedInv' /\ refined' \subseteq Nat
    <3>1. /\ updateEnd \in Nat \union {None}
          /\ updateEnd = None => refined = {} /\ refinedBefore = {}
          /\ updateEnd # None =>
               /\ updateEnd <= valid \div KnotDist["so3"]
               /\ \A k \in refined \union refinedBefore : k <= updateEnd - 3
          /\ refined \subseteq Nat /\ refinedBefore \subseteq Nat
      BY DEF IInv, TypeOK, RefinedInv
    <3>2. updateEnd' = u /\ touched' = now /\ valid' = eTime /\ u \in Nat
      BY <2>2, <2>6 DEF u
    <3>3. refined' = IF updateEnd < FirstRefined THEN {} ELSE updateEnd - 2 .. u - 3
      BY <2>2, <3>2 DEF Refined
    <3>4. FirstRefined \in Nat /\ FirstRefined > 1
      BY Constants
    <3>5. valid \div KnotDist["so3"] \in Int
      BY <2>1, Constants, Division
    <3>6. CASE updateEnd = None
      <4>1. refined' = {} /\ refinedBefore' = {}
        BY <2>3, <3>1, <3>3, <3>4, <3>6
      <4> QED
        BY <2>5, <2>6, <3>2, <4>1 DEF RefinedInv
    <3>7. CASE updateEnd # None
      <4>1. updateEnd \in Nat /\ updateEnd <= u
        BY <2>6, <3>1, <3>2, <3>5, <3>7
      <4>2. \A k \in refinedBefore' : k \in Nat /\ k <= updateEnd - 3
        BY <2>3, <3>1, <3>7
      <4>3. \A k \in refined' : k \in Nat /\ updateEnd - 2 <= k /\ k <= u - 3
        BY <3>2, <3>3, <3>4, <4>1
      <4>4. refined' \intersect refinedBefore' = {}
        BY <4>1, <4>2, <4>3
      <4>5. \A k \in refined' \union refinedBefore' : k <= u - 3
        BY <3>2, <4>1, <4>2, <4>3
      <4> QED
        BY <2>5, <2>6, <3>2, <4>3, <4>4, <4>5 DEF RefinedInv
    <3> QED
      BY <3>6, <3>7
  <2>12. TypeOK'
    <3>1. refinedBefore' \subseteq Nat
      BY <2>3 DEF IInv, TypeOK
    <3> QED
      BY <2>2, <2>5, <2>6, <2>9, <2>11, <3>1 DEF IInv, TypeOK, u
  <2>13. EmptyInv'
    BY <2>2, <2>5 DEF EmptyInv
  <2>14. ASSUME NEW s \in Splines
         PROVE  /\ touched'[s] \subseteq Nat
                /\ FirstKnot(knots[s]) <= FirstKnot(knots'[s])
                /\ \A k \in touched'[s] : k >= FirstKnot(knots[s])
    <3>1. FirstKnot(knots[s]) \in Nat /\ FirstKnot(knots[s]) <= FirstKnot(n[s])
      BY <2>5, Fronts
    <3>2. now[s] \subseteq FirstKnot(knots[s]) .. n[s] - 1 /\ n[s] \in Nat
      BY <2>5, <2>6
    <3> QED
      BY <2>2, <3>1, <3>2
  <2> QED
    BY <2>2, <2>6, <2>9, <2>10, <2>11, <2>12, <2>13, <2>14 DEF IInv
<1> QED
  BY <1>1, <1>2

\* Every step keeps the invariant.
LEMMA StepIInv == IInv /\ [Next]_vars => IInv'
<1> SUFFICES ASSUME IInv, [Next]_vars PROVE IInv'
  OBVIOUS
<1>1. CASE UNCHANGED vars
  BY <1>1 DEF vars, IInv, TypeOK, SizeInv, EmptyInv, KeptInv, SeenInv, RefinedInv
<1>2. CASE Terminated
  BY <1>1, <1>2 DEF Terminated
<1>3. CASE TryPerformInitialization \/ IncrementalOptimization
  BY <1>3, StepTouches
<1> QED
  BY <1>1, <1>2, <1>3 DEF Next

\* The invariant holds in every reachable state.
LEMMA Invariance == Spec => []IInv
<1> QED
  BY InitIInv, StepIInv, PTL DEF Spec

-------------------------------------------------------------------------------
(* What the runs check, for all constants.                                 *)

\* The sets of knots, the lengths and the indices have their types: no index
\* the code computes is negative.
THEOREM TypeCorrect == Spec => []TypeOK
<1>1. IInv => TypeOK
  BY DEF IInv
<1> QED
  BY <1>1, Invariance, PTL

\* The prior never points at a knot whose address is not kept
\* (state_manager.cpp:582-592).
THEOREM PriorIsTracked == Spec => []PriorTracked
<1>1. IInv => PriorTracked
  BY DEF IInv, KeptInv, PriorTracked
<1> QED
  BY <1>1, Invariance, PTL

\* No knot that carried information is dropped without being folded into the
\* prior (state_manager.cpp:685-710).
THEOREM NothingForgotten == Spec => []NoKnotForgotten
<1>1. IInv => NoKnotForgotten
  BY DEF IInv, KeptInv, SeenInv, NoKnotForgotten
<1> QED
  BY <1>1, Invariance, PTL

\* PostOptimization refines a knot at most once, when no window touches it any
\* more (state_manager.cpp:671-678).
THEOREM RefinedOnce == Spec => []RefinedOnceSettled
<1>1. IInv => RefinedOnceSettled
  <2> SUFFICES ASSUME IInv PROVE RefinedOnceSettled
    OBVIOUS
  <2>1. touched["so3"] \subseteq Nat /\ updateEnd \in Nat \union {None}
    BY DEF IInv, TypeOK, KnotSets
  <2>2. CASE updateEnd = None
    BY <2>2 DEF IInv, RefinedInv, RefinedOnceSettled
  <2>3. CASE updateEnd # None
    <3>1. \A k \in refined \union refinedBefore : k \notin touched["so3"]
      BY <2>1, <2>3 DEF IInv, TypeOK, RefinedInv
    <3> QED
      BY <3>1 DEF IInv, RefinedInv, RefinedOnceSettled
  <2> QED
    BY <2>2, <2>3
<1> QED
  BY <1>1, Invariance, PTL

\* The calls of IncrementalOptimization implement the abstract sliding window:
\* behind the front knots are final, from the front on the prior has all that
\* carry information (state_manager.cpp:685-710).
THEOREM ImplementsWindow == Spec => ImplementsSlidingWindow
<1>1. Init => Window!Init
  <2>1. FirstKnot(0) = 0
    BY Constants, Fronts
  <2> QED
    BY <2>1 DEF Init, Window!Init, NoKnots
<1>2. ASSUME IInv, Next, ~ UNCHANGED vars PROVE Window!Slide
  <2>1. CASE TryPerformInitialization \/ IncrementalOptimization
    <3>1. /\ IInv'
          /\ \A s \in Splines : /\ touched'[s] \subseteq Nat
                                /\ FirstKnot(knots[s]) <= FirstKnot(knots'[s])
                                /\ \A k \in touched'[s] : k >= FirstKnot(knots[s])
          /\ touched' \in KnotSets
          /\ seen' = [s \in Splines |-> seen[s] \union touched'[s]]
      BY <1>2, <2>1, StepTouches
    <3>2. ASSUME NEW s \in Splines
          PROVE  /\ FirstKnot(knots[s]) <= FirstKnot(knots'[s])
                 /\ FirstKnot(knots'[s]) \in Nat
                 /\ Window!Open(touched'[s], FirstKnot(knots[s])) = touched'[s]
                 /\ Window!Open(prior'[s], FirstKnot(knots'[s])) = prior'[s]
                 /\ Window!Open(seen'[s], FirstKnot(knots'[s])) \subseteq prior'[s]
      <4>1. knots'[s] \in Nat /\ FirstKnot(knots'[s]) \in Nat
        BY <3>1, Fronts DEF IInv, TypeOK
      <4>2. \A k \in prior'[s] : k >= FirstKnot(knots'[s])
        BY <3>1, <4>1 DEF IInv, KeptInv
      <4>3. \A k \in seen'[s] : k >= FirstKnot(knots'[s]) => k \in prior'[s]
        BY <3>1 DEF IInv, SeenInv
      <4> QED
        BY <3>1, <4>1, <4>2, <4>3 DEF Window!Open
    <3> QED
      BY <3>1, <3>2 DEF Window!Slide, KnotSets
  <2>2. CASE Terminated
    BY <1>2, <2>2 DEF Terminated
  <2> QED
    BY <1>2, <2>1, <2>2 DEF Next
<1>3. IInv /\ [Next]_vars => Window!Slide \/ UNCHANGED <<knots, touched, seen, prior>>
  BY <1>2 DEF vars
<1>4. UNCHANGED <<knots, touched, seen, prior>> =>
        UNCHANGED <<[s \in Splines |-> FirstKnot(knots[s])], touched, seen, prior>>
  OBVIOUS
<1> QED
  BY <1>1, <1>3, <1>4, Invariance, PTL DEF Spec, ImplementsSlidingWindow, Window!Spec

===============================================================================
