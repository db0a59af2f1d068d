CONSTANTS
  MaxStamp = 9
  ScanStamps <- MCStamps
  ScanSizes <- MCScans
  ImuStamps <- MCStamps
  FrameSpan = 2
  MinTargets = 3
  NumFrames = 2

SPECIFICATION Spec

INVARIANTS
  TypeOK
  FramesReadyWhenConsumed
  FramesSpaced
  CrashesForCause
  InitCovered

\* The scans are finite, and the process may die.
CHECK_DEADLOCK FALSE
