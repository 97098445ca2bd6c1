SPECIFICATION Spec
CONSTANTS
  p1 = p1
  p2 = p2
  x = x
  y = y
  Procs <- TwoProcs
  Addrs <- TwoAddrs
  Programs <- Kept
  Zero = Zero
CHECK_DEADLOCK FALSE
INVARIANTS TypeOK NotBothMiss
PROPERTY ImplementsGuest
