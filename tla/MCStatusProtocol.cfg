CONSTANTS
  Times <- MCTimes
  MinWindow = 1
  PublishLag = 2
  EraseLag = 1

SPECIFICATION Spec

INVARIANTS
  TypeOK
  TogglesOnlyLower
  SplinesNotSharedWhileWritten
  EraseBehindWindow
  DiesOnlyUninitialised

PROPERTIES
  PublishedIncreasing
  ImplementsPoseStream
