SPECIFICATION Spec
CONSTANTS
  Guest <- SpilledRegs
  Word <- W
  Instrs <- SafeComputing
  Arm <- MCArm
  X86 <- MCX86
  Lo <- LowBit
  NoInstr = NoInstr
  StackTop = 2
INVARIANTS TypeOK Encodable
PROPERTY ImplementsOracle
