-------------------------- MODULE MCEstimatorProblem --------------------------
(* A small instance of EstimatorProblem for TLC: rotation and gravity knots *)
(* every 2 ticks, velocity knots every tick, windows of up to 4 ticks.      *)
EXTENDS EstimatorProblem

MCKnotDist == [so3 |-> 2, vel |-> 1, grav |-> 2]
MCRadarStamps == {{1, 3, 5}, {0, 6}}
MCImuStamps == {0 .. 6, {2, 5}, {0, 3, 4}}
MCLegStamps == {{}, {2}, {0, 5}}
===============================================================================
