SPECIFICATION BCSpec
CONSTANTS
  N = 7
  Boots = 3
CHECK_DEADLOCK FALSE
INVARIANT SettlesExactly
