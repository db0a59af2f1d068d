------------------------------- MODULE Factors -------------------------------
(***************************************************************************)
(* The factors the Estimator adds to a least-squares problem.  A factor is *)
(* put together in three places that must agree.  Add* declares the sizes  *)
(* of its parameter blocks to the cost function, and, separately, gathers  *)
(* pointers to the blocks (paramBlockVec); the class of the factor         *)
(* computes at which offsets in that vector it will read.                  *)
(*                                                                         *)
(* A block is <<"so3", i>>, <<"vel", i>> or <<"grav", i>>, the i-th knot   *)
(* of a spline, or one of the vectors Ba, Bv and Gravity.  n[s] is how     *)
(* many knots spline s has, opt the GaRLILEO_Opt of what is to be          *)
(* estimated.  Each Add* gives the set of factors it adds: none unless the *)
(* times are in the range of the splines it asks about.                    *)
(***************************************************************************)
EXTENDS Splines, Sequences, SequencesExt, FiniteSets

Ba      == <<"ba", 0>>
Bv      == <<"bv", 0>>
Gravity == <<"gravity", 0>>

SizeOf == [so3 |-> 4, vel |-> 3, grav |-> 3, ba |-> 3, bv |-> 2, gravity |-> 3]

Knot(s, i) == <<s, i>>

-------------------------------------------------------------------------------
(* Spline metas: the segments [first knot, number of knots] that some      *)
(* evaluation times need.  The library merges segments that share a knot.  *)

AddSegment(s, segments, t) ==
  LET i == ComputeTIndex(s, t)
      k == Len(segments)
  IN IF k = 0 \/ i >= segments[k].first + segments[k].n
     THEN Append(segments, [first |-> i, n |-> Order])
     ELSE [segments EXCEPT ![k].n = Max({@, i + Order - segments[k].first})]

SplineMeta(s, times) ==
  FoldLeft(LAMBDA segments, t : AddSegment(s, segments, t), <<>>, times)

NumParameters(meta) == FoldLeft(LAMBDA sum, seg : sum + seg.n, 0, meta)

\* ComputeSplineIndex: where in the blocks of the meta the knots for t begin.
SplineIndex(s, meta, t) ==
  LET Holds(seg) == ComputeTIndex(s, t) \in seg.first .. seg.first + seg.n - Order
      k == SelectInSeq(meta, Holds)
  IN NumParameters(SubSeq(meta, 1, k - 1)) + ComputeTIndex(s, t) - meta[k].first

\* AddSo3KnotsData, AddRdKnotsData, AddGravKnotsData: the blocks of a meta.
KnotsData(s, meta) ==
  FoldLeft(LAMBDA blocks, seg : blocks \o [j \in 1 .. seg.n |-> Knot(s, seg.first + j - 1)],
           <<>>, meta)

-------------------------------------------------------------------------------
(* What the classes of the factors read: at an offset in the blocks, the   *)
(* knots of a spline for a time, or one vector.                            *)

Read(at, want) == [at |-> at, want |-> want]
ReadSpline(at, s, t) ==
  Read(at, [j \in 1 .. Order |-> Knot(s, ComputeTIndex(s, t) + j - 1)])

IMUGyroFactorWithConstBias(so3Meta, t) == {ReadSpline(SplineIndex("so3", so3Meta, t), "so3", t)}

IMUAcceFactorWithConstBias(so3Meta, velMeta, t) ==
  LET ba == NumParameters(so3Meta) + NumParameters(velMeta)
  IN {ReadSpline(SplineIndex("so3", so3Meta, t), "so3", t),
      ReadSpline(NumParameters(so3Meta) + SplineIndex("vel", velMeta, t), "vel", t),
      Read(ba, <<Ba>>), Read(ba + 1, <<Gravity>>)}

RadarFactor(so3Meta, velMeta, t) ==
  {ReadSpline(SplineIndex("so3", so3Meta, t), "so3", t),
   ReadSpline(NumParameters(so3Meta) + SplineIndex("vel", velMeta, t), "vel", t)}

LegVelFactor(so3Meta, velMeta, t) ==
  {ReadSpline(NumParameters(so3Meta) + SplineIndex("vel", velMeta, t), "vel", t),
   ReadSpline(SplineIndex("so3", so3Meta, t), "so3", t),
   Read(NumParameters(so3Meta) + NumParameters(velMeta), <<Bv>>)}

GravitySplineFactor(gravMeta, so3Meta, t) ==
  {ReadSpline(SplineIndex("grav", gravMeta, t), "grav", t),
   ReadSpline(NumParameters(gravMeta) + SplineIndex("so3", so3Meta, t), "so3", t)}

\* Mutated: the second velocity is taken to follow the first one's knots.
GravityUpdateFactorUnmerged(gravMeta, velMeta, st, et) ==
  {ReadSpline(SplineIndex("grav", gravMeta, st), "grav", st),
   ReadSpline(NumParameters(gravMeta) + SplineIndex("vel", velMeta, st), "vel", st),
   ReadSpline(NumParameters(gravMeta) + Order, "vel", et)}

GravityUpdateFactor(gravMeta, velMeta, st, et) ==
  {ReadSpline(SplineIndex("grav", gravMeta, st), "grav", st),
   ReadSpline(NumParameters(gravMeta) + SplineIndex("vel", velMeta, st), "vel", st),
   ReadSpline(NumParameters(gravMeta) + SplineIndex("vel", velMeta, et), "vel", et)}

RotPriorFactor(so3Meta, stime, dt) ==
  {ReadSpline(SplineIndex("so3", so3Meta, stime), "so3", stime),
   ReadSpline(SplineIndex("so3", so3Meta, stime + dt), "so3", stime + dt)}

RotRefineFactor(idx) ==
  {Read(0, <<Knot("so3", idx)>>), Read(1, <<Knot("grav", idx)>>), Read(2, <<Gravity>>)}

GravityFactor           == {Read(0, <<Gravity>>)}
GravityStationaryFactor == {Read(0, <<Gravity>>)}
BiasFactor              == {Read(0, <<Ba>>)}
VelBiasFactor           == {Read(0, <<Bv>>)}

\* A tail factor is a second difference: of three knots in a row.
TailFactor(s, first) == {Read(0, [i \in 1 .. 3 |-> Knot(s, first + i - 1)])}

-------------------------------------------------------------------------------
(* Adding a factor: the sizes declared for the cost function, the blocks   *)
(* gathered, the reads, the blocks whose manifold is set, and the blocks   *)
(* that are set constant (neither can be taken back in a problem).         *)

Factor(kind, declared, blocks, reads, onManifold, fixed) ==
  [kind |-> kind, declared |-> declared, blocks |-> blocks, reads |-> reads,
   onManifold |-> onManifold, fixed |-> fixed]

Sizes(size, meta) == [i \in 1 .. NumParameters(meta) |-> size]

FixUnless(option, opt, blocks) == IF option \in opt THEN {} ELSE ToSet(blocks)

AddGyroMeasurementWithConstBias(n, t, opt) ==
  LET so3Meta == SplineMeta("so3", <<t>>)
      so3     == KnotsData("so3", so3Meta)
  IN {f \in {Factor("gyro", Sizes(4, so3Meta), so3, IMUGyroFactorWithConstBias(so3Meta, t),
                    ToSet(so3), FixUnless("SO3", opt, so3))} : InRange("so3", n, t)}

\* The gravity is set constant whatever the option says (estimator.cpp:343).
AddAcceMeasurementWithConstBias(n, t, opt) ==
  LET so3Meta == SplineMeta("so3", <<t>>)
      velMeta == SplineMeta("vel", <<t>>)
      so3     == KnotsData("so3", so3Meta)
      vel     == KnotsData("vel", velMeta)
  IN {f \in {Factor("acce", Sizes(4, so3Meta) \o Sizes(3, velMeta) \o <<3, 3>>,
                    so3 \o vel \o <<Ba, Gravity>>,
                    IMUAcceFactorWithConstBias(so3Meta, velMeta, t),
                    ToSet(so3) \union {Gravity},
                    FixUnless("SO3", opt, so3) \union FixUnless("VEL", opt, vel)
                      \union FixUnless("BA", opt, <<Ba>>) \union {Gravity})} :
        InRange("so3", n, t) /\ InRange("vel", n, t)}

AddRadarMeasurement(n, t, opt) ==
  LET so3Meta == SplineMeta("so3", <<t>>)
      velMeta == SplineMeta("vel", <<t>>)
      so3     == KnotsData("so3", so3Meta)
      vel     == KnotsData("vel", velMeta)
  IN {f \in {Factor("radar", Sizes(4, so3Meta) \o Sizes(3, velMeta), so3 \o vel,
                    RadarFactor(so3Meta, velMeta, t), ToSet(so3),
                    FixUnless("SO3", opt, so3) \union FixUnless("VEL", opt, vel))} :
        InRange("so3", n, t) /\ InRange("vel", n, t)}

\* Frames with a vertical velocity over 0.75 are not handed on by the models.
AddLegMeasurement(n, t, opt) ==
  LET so3Meta == SplineMeta("so3", <<t>>)
      velMeta == SplineMeta("vel", <<t>>)
      so3     == KnotsData("so3", so3Meta)
      vel     == KnotsData("vel", velMeta)
  IN {f \in {Factor("leg", Sizes(4, so3Meta) \o Sizes(3, velMeta) \o <<2>>,
                    so3 \o vel \o <<Bv>>, LegVelFactor(so3Meta, velMeta, t),
                    ToSet(so3), FixUnless("VEL", opt, vel))} : InRange("vel", n, t)}

AddGravitySplineConstraint(n, t) ==
  LET so3Meta  == SplineMeta("so3", <<t>>)
      gravMeta == SplineMeta("grav", <<t>>)
      so3      == KnotsData("so3", so3Meta)
      grav     == KnotsData("grav", gravMeta)
  IN {f \in {Factor("gravSpline", Sizes(3, gravMeta) \o Sizes(4, so3Meta), grav \o so3,
                    GravitySplineFactor(gravMeta, so3Meta, t),
                    ToSet(grav) \union ToSet(so3), {})} : InRange("grav", n, t)}

AddGravityRotConstraint(n, st, et) ==
  LET gravMeta == SplineMeta("grav", <<st>>)
      velMeta  == SplineMeta("vel", <<st, et>>)
      grav     == KnotsData("grav", gravMeta)
      vel      == KnotsData("vel", velMeta)
  IN {f \in {Factor("gravRot", Sizes(3, gravMeta) \o Sizes(3, velMeta), grav \o vel,
                    GravityUpdateFactor(gravMeta, velMeta, st, et), ToSet(grav), {})} :
        \A s \in {"vel", "grav"} : InRange(s, n, st) /\ InRange(s, n, et)}

AddRotPrior(n, st, dt) ==
  LET so3Meta == SplineMeta("so3", <<st, st + dt>>)
      so3     == KnotsData("so3", so3Meta)
  IN {f \in {Factor("rotPrior", Sizes(4, so3Meta), so3, RotPriorFactor(so3Meta, st, dt),
                    ToSet(so3), {})} : InRange("so3", n, st)}

AddRotRefine(idx) ==
  Factor("rotRefine", <<4, 3, 3>>, <<Knot("so3", idx), Knot("grav", idx), Gravity>>,
         RotRefineFactor(idx), {Knot("so3", idx), Knot("grav", idx), Gravity},
         {Knot("grav", idx), Gravity})

AddVelPIMForGravityRecovery(opt) ==
  Factor("velPIM", <<3>>, <<Gravity>>, GravityFactor, {Gravity},
         FixUnless("GRAVITY", opt, <<Gravity>>))

AddStationaryGravity ==
  Factor("stationary", <<3>>, <<Gravity>>, GravityStationaryFactor, {Gravity}, {})

AddAcceBiasPriori(opt) ==
  Factor("baPriori", <<3>>, <<Ba>>, BiasFactor, {}, FixUnless("BA", opt, <<Ba>>))

AddVelBiasPriori(opt) ==
  Factor("bvPriori", <<2>>, <<Bv>>, VelBiasFactor, {}, FixUnless("BA", opt, <<Bv>>))

TailKnotsLate(s, n, j) == [i \in 1 .. 3 |-> Knot(s, j + i + n[s] - Order)]    \* mutated

\* The three knots of the j-th tail factor of spline s, j in 0 .. Order - 3.
TailKnots(s, n, j) == [i \in 1 .. 3 |-> Knot(s, j + i - 1 + n[s] - Order)]

AddVelSplineTailConstraint(n, opt) ==
  {LET knots == TailKnots("vel", n, j)
   IN Factor("velTail", <<3, 3, 3>>, knots, TailFactor("vel", j + n["vel"] - Order),
             {}, FixUnless("VEL", opt, knots)) : j \in 0 .. Order - 3}

\* Mutated: the manifold is left to the factors of measurements.
AddSo3SplineTailConstraintFlat(n, opt) ==
  {LET knots == TailKnots("so3", n, j)
   IN Factor("so3Tail", <<4, 4, 4>>, knots, TailFactor("so3", j + n["so3"] - Order),
             {}, FixUnless("SO3", opt, knots)) : j \in 0 .. Order - 3}

AddSo3SplineTailConstraint(n, opt) ==
  {LET knots == TailKnots("so3", n, j)
   IN Factor("so3Tail", <<4, 4, 4>>, knots, TailFactor("so3", j + n["so3"] - Order),
             ToSet(knots), FixUnless("SO3", opt, knots)) : j \in 0 .. Order - 3}

\* The factors of the gravity spline, all the same one.
AddGravSplineTailConstraint(old, opt) ==
  {LET knots == [i \in 1 .. 3 |-> Knot("grav", old + i - 1)]
   IN Factor("gravTail", <<3, 3, 3>>, knots, TailFactor("grav", old),
             {}, FixUnless("VEL", opt, knots)) : j \in 0 .. Order - 3}
===============================================================================
