CONSTANTS
  Thread = {main, a, b}
  Main = main
  Nobody = nobody
  Infinite = infinite
  Deadline = {}
  IntrWoken = {a}
  Delay = {0}
  MaxTime = 0
  WaitList = {"rwait", "wwait"}
  MaxV = 2
SPECIFICATION Spec
CHECK_DEADLOCK FALSE
INVARIANTS
  RwSound
