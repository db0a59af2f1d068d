CONSTANTS
  KnotDist <- MCKnotDist
  Order = 3
  InitEnds <- MCInitEnds
  MinWindow = 1
  MaxWindow = 4
  MaxTime = 12
  FirstRefined = 3

SPECIFICATION Spec

INVARIANTS
  TypeOK
  PriorTracked
  NoKnotForgotten
  RefinedOnceSettled

PROPERTIES
  ImplementsSlidingWindow
