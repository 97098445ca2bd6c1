SPECIFICATION Spec
CHECK_DEADLOCK FALSE
CONSTANTS
  Guest <- MCGuest
  SysRegs <- MCSysRegs
  Instrs <- MCInstrs
  Starts <- MCStarts
  OnlySafe = TRUE
  MaxInstrs = 2
INVARIANT TypeOK
INVARIANT AccessKept
PROPERTY NoStrayStore
