SPECIFICATION Spec
CONSTANTS
  Guest <- TwoRegs
  Size = 4
  And <- TwoBitAnd
  Instrs <- Every
  OnlySafe = TRUE
INVARIANTS RegistersAgree SameWay FlagsAgree
