SPECIFICATION Spec
CHECK_DEADLOCK FALSE
CONSTANTS
  Guest <- MCGuest
  SysRegs <- MCSysRegs
  Instrs <- MCExtended
  Starts <- MCStarts
  OnlySafe = FALSE
  MaxInstrs = 1
INVARIANT AccessKept
