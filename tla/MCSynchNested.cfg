CONSTANTS
  Thread = {main, a, b}
  Main = main
  Nobody = nobody
  Infinite = infinite
  Deadline = {}
  IntrWoken = {}
  Delay = {1}
  MaxTime = 1
  Mtx = {m, n}
  CvMtx = {m}
  HeldAsleep = {m, n}
  Cv = {c}
  WaitList = {m, n, c}
SPECIFICATION Spec
CHECK_DEADLOCK FALSE
INVARIANTS
  NowrapSucceeds
