----------------------------- MODULE MCSensorFlow -----------------------------
(* A small instance of SensorFlow for TLC: ticks of 10 ms, an IMU of 100 Hz, *)
(* a radar of 50 Hz, a leg topic of 50 Hz, every message possibly lost.      *)
EXTENDS SensorFlow

CONSTANTS
  MaxStamp,
  MaxLen        \* of the lists on which the operations are compared

MCStamps == [imu   |-> 0 .. MaxStamp,
             radar |-> {t \in 0 .. MaxStamp : t % 2 = 1},
             leg   |-> {t \in 2 .. MaxStamp : t % 2 = 0}]
MCScanSizes == {1, 2}

\* In and out of time order.
MCSampleLists  == UNION {[1 .. n -> 0 .. 3] : n \in 0 .. MaxLen}
MCSampleTimes == 0 .. 4
===============================================================================
