CONSTANTS
  SpThread = {t1, t2}
  HDRSZ = 2
  MaxReq = 2
  MAXCLI = 3
  rumpsp_maxworker = 2
  rumpsp_idleworker = 1
  Worker = {w1, w2}
  MaxConn = 3
  MaxCall = 3
  NProg = 3
  Modes = {"", "BACKGROUND", "PIPE"}
  Lwps = {l1, l2, l3}
  mainlwp = l1
  NoLwp = nolwp
  LMaxId = 4
  Client = {k1}
  UserWatch = {uw}
  NR_REQS = 2
  ReqRing = 1
  RspRing = 1
  MaxFires = 1
  Port = {0, 1, 2}
  PortsPerWord = 2
SPECIFICATION Spec
SYMMETRY WorkersAlike
CHECK_DEADLOCK FALSE
INVARIANTS
  ConnectionSound
  ServerSound
  ProgramsReaped
  UnparksArrive
  XenbusSound
  DeviceQueueLive
  NoEventLost
