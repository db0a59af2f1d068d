----------------------------- MODULE MCKnotWindow -----------------------------
(* A small instance of KnotWindow for TLC: rotation and gravity knots every  *)
(* 2 ticks, velocity knots every tick, windows of up to 4 ticks.            *)
EXTENDS KnotWindow

MCKnotDist == [so3 |-> 2, vel |-> 1, grav |-> 2]
MCInitEnds == {5, 6}
===============================================================================
