------------------------------ MODULE MCTimeEpoch ------------------------------
(* Small instances of TimeEpoch for TLC. *)
EXTENDS TimeEpoch

MCStamps == 0 .. 2
MCTopics == {"imu", "radar", "leg"}
===============================================================================
