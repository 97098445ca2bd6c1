SPECIFICATION Spec
CONSTANTS
  Guest <- TwoRegs
  Size = 4
  And <- TwoBitAnd
  Instrs <- Selecting
  OnlySafe = FALSE
INVARIANT RegistersAgree
