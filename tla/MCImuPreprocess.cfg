CONSTANTS
  MaxStamp = 5
  Stamps <- MCStamps
  stance = stance
  swing = swing
  Contacts <- MCContacts
  SmaLength = 3
  StableAfter = 1
  EraseLag = 2
  Others <- MCOthers
  OtherStamps <- MCOtherStamps
  MaxFoot = 6

SPECIFICATION Spec

SYMMETRY Symmetry

INVARIANTS
  TypeOK
  OnlyCalmMeasured
  TurnedThroughout
  AverageUndisturbed

\* The supply of messages is bounded.
CHECK_DEADLOCK FALSE
