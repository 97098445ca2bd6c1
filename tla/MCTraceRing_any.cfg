SPECIFICATION RingSpec
CONSTANTS
  f1 = f1
  f2 = f2
  f3 = f3
  Flows <- ThreeFlows
  Ring = 2
  MaxBlocks = 5
  Nothing = Nothing
SYMMETRY Symmetry
CHECK_DEADLOCK FALSE
INVARIANT RingTypeOK
INVARIANT NeverAhead
INVARIANT InRing
INVARIANT KeepsLast
INVARIANT KeepsFirst
