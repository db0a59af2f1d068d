CONSTANTS
  MaxStamp = 5
  MaxLen = 4
  Stamps <- MCStamps
  ScanSizes <- MCScanSizes
  TicksPerSecond = 100
  MinWindow = 2
  EraseLag = 1
  MinImuRate = 50
  MinRadarRate = 10
  SampleLists <- MCSampleLists
  SampleTimes <- MCSampleTimes

SPECIFICATION Spec

INVARIANTS
  TypeOK
  ListOperations
  EndsKept
  UnconsumedKept
  GivesUpForCause

PROPERTIES
  ImplementsMeasurementLog
