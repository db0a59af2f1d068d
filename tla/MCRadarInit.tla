------------------------------ MODULE MCRadarInit ------------------------------
(* Small instances of RadarInit for TLC: frames of 2 ticks, 2 frames kept. *)
EXTENDS RadarInit

CONSTANT MaxStamp

MCStamps    == 0 .. MaxStamp
MCScans     == {0, 1, 3}        \* none at all, too few, enough
MCThinScans == {1, 3}           \* too few, but never none
===============================================================================
