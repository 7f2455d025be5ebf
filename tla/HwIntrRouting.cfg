CONSTANTS
  Line = {4, 5, 11}
SPECIFICATION HISpec
CHECK_DEADLOCK FALSE
INVARIANTS
  ScanStaysBelow
