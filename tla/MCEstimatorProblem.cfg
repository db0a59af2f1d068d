CONSTANTS
  KnotDist <- MCKnotDist
  Order = 3
  RadarStamps <- MCRadarStamps
  ImuStamps <- MCImuStamps
  LegStamps <- MCLegStamps
  MinInit = 2
  MinWindow = 1
  MaxWindow = 4
  MaxTime = 8
  MaxImu = 2
  MaxRadar = 1
  MaxLeg = 1
  RotPriorGap = 2
  FirstRefined = 2
  InitVar = 1
  MaxVar = 1

SPECIFICATION Spec

INVARIANTS
  TypeOK
  FactorsFit
  BlocksExistOnce
  OnManifolds
  FreeAsMeant
  SolverKnowsBlocks
  PrioriInvertible
