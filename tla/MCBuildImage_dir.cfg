SPECIFICATION Spec
CONSTANTS
  AppleChosen <- Chosen93
  Packages <- ThreePackages
  Options <- SomeOptions
  ByHand <- SomeKernels
  DefaultPhys = 1191182336
  BarSpan = 1073741824
  MaxRuns = 3
  Cuts = {0, 2000}
  Missing = Missing
  Partial = Partial
CHECK_DEADLOCK FALSE
INVARIANT TypeOK
INVARIANT HandsOver
INVARIANT Coherent
INVARIANT TreeHolds
