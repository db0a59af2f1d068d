---------------------------- MODULE MCImuPreprocess ----------------------------
(* A small instance of ImuPreprocess for TLC: an average over three stored   *)
(* frames and the new one, every IMU message possibly lost.                  *)
EXTENDS ImuPreprocess, TLC

CONSTANTS MaxStamp, stance, swing

MCStamps == 0 .. MaxStamp
MCContacts == {stance, swing}
MCOthers == {"foot", "radar"}
MCOtherStamps == {2}
Symmetry == Permutations(MCContacts)
===============================================================================
