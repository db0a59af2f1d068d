CONSTANTS
  MaxStamp = 8
  ScanStamps <- MCStamps
  ScanSizes <- MCThinScans
  ImuStamps <- MCStamps
  FrameSpan = 2
  MinTargets = 3
  NumFrames = 2

SPECIFICATION Spec

INVARIANTS
  FramesAsPromised

\* The scans are finite, and the process may die.
CHECK_DEADLOCK FALSE
