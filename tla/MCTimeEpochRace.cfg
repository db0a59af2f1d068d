CONSTANTS
  Stamps <- MCStamps
  Topics <- MCTopics
  NumTargets = 2
  MaxMessages = 2
  Offset = 1

SPECIFICATION Spec

INVARIANTS
  RadarAlignedToImu


\* Each topic delivers a bounded number of messages.
CHECK_DEADLOCK FALSE
