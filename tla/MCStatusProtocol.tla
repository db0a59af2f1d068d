--------------------------- MODULE MCStatusProtocol ---------------------------
(* Small instances of StatusProtocol for TLC. *)
EXTENDS StatusProtocol

MCTimes     == 0 .. 4
MCTimesLive == 0 .. 2
===============================================================================
