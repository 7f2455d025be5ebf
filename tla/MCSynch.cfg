CONSTANTS
  Thread = {main, a, b}
  Main = main
  Nobody = nobody
  Infinite = infinite
  Deadline = {}
  IntrWoken = {a}
  Delay = {1}
  MaxTime = 1
  Mtx = {m, n}
  CvMtx = {m}
  HeldAsleep = {n}
  Cv = {c}
  WaitList = {m, n, c}
SPECIFICATION FairSpec
CHECK_DEADLOCK FALSE
INVARIANTS
  LocksSound
  SleepersKept
PROPERTIES
  CvWaitEnds
