SPECIFICATION MonSpec
CHECK_DEADLOCK FALSE
CONSTANTS
  Guest <- MCGuest
  Word <- W
  Instrs <- MCInstrs
  Arm <- MCArm
  X86 <- MCX86
  Lo <- LowBit
  NoInstr = NoInstr
  Programs <- MCPrograms
  PayloadBytes <- MCPayloadBytes
  ReadLimit = 64
  Cases <- MCCases
  Files <- MCFiles
  Lines <- MCLines
  WordLen = 2
  Base = 4
  Digit <- MCDigit
  Unmapped = {"F1"}
  Count = 10
  Nibbles = 4
  MaxCommands = 4
INVARIANT MonTypeOK
INVARIANT EntersLongMode
INVARIANT Echoes
INVARIANT Reports
PROPERTY RegistersKept
