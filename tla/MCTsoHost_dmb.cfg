SPECIFICATION Spec
CONSTANTS
  p1 = p1
  p2 = p2
  x = x
  y = y
  Procs <- TwoProcs
  Addrs <- TwoAddrs
  Programs <- StoreBuffering
  Zero = Zero
CHECK_DEADLOCK FALSE
INVARIANT NotBothMiss
