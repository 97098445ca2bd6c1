SPECIFICATION Spec
CONSTANTS
  Guest <- TwoRegs
  Word <- W
  Instrs <- AliasInstrs
  Arm <- MCArm
  X86 <- MCX86
  Lo <- LowBit
  NoInstr = NoInstr
  StackTop = 2
INVARIANT MeaningPreserved
