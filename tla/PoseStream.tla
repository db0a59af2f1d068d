------------------------------ MODULE PoseStream ------------------------------
(***************************************************************************)
(* What the odometry output promises a subscriber, with every thread of    *)
(* the estimator hidden.  Estimation commits states with ever later        *)
(* "valid until" times; a publisher hands on the latest one it has seen.   *)
(* A committed state may be skipped (the next one overtakes it), but none  *)
(* is published twice, out of order, or before it is committed: each leg   *)
(* of the dead-reckoned path has a positive duration.                      *)
(***************************************************************************)
EXTENDS Integers

CONSTANT Times      \* the times a state can be valid until: naturals

None == -1          \* nothing committed, or nothing published, yet

VARIABLES
  committed,        \* valid-until time of the latest committed state
  published         \* valid-until time of the state published last

TypeOK ==
  /\ committed \in Times \union {None}
  /\ published \in Times \union {None}

Init ==
  /\ committed = None
  /\ published = None

Commit ==
  \E t \in Times :
    /\ t > committed
    /\ committed' = t
    /\ UNCHANGED published

Publish ==
  \E t \in Times :
    /\ published < t
    /\ t <= committed
    /\ published' = t
    /\ UNCHANGED committed

Next == Commit \/ Publish

Spec == Init /\ [][Next]_<<committed, published>>
===============================================================================
