SPECIFICATION Spec
CONSTANTS
  Table <- MCTable
  Anchor = 4
  Text <- MCText
  CtorCalls <- MCCalls
  MaxCrashes = 1
  Nobody = Nobody
CHECK_DEADLOCK FALSE
INVARIANTS TypeOK HitsGenuine Complete
PROPERTY Terminates
