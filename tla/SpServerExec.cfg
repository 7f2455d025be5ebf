CONSTANTS
  MAXCLI = 3
  rumpsp_maxworker = 2
  rumpsp_idleworker = 1
  Worker = {w1, w2}
  MaxConn = 3
  MaxCall = 3
SPECIFICATION SSSpec
CHECK_DEADLOCK FALSE
INVARIANT ExecGoesOn
