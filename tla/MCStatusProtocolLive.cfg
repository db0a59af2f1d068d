CONSTANTS
  Times <- MCTimesLive
  MinWindow = 1
  PublishLag = 1
  EraseLag = 1

SPECIFICATION FairSpec

PROPERTIES
  Termination
  ReadyLeadsToInit
  NewStateServed
