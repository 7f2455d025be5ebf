CONSTANTS
  Thread = {main, a, isr}
  Main = main
  IntrWoken = {isr}
  ThreadWoken = {main, a}
  ExtStack = {main}
  Deadline = {1, 2}
  MaxTime = 2
  BLOCKTIME_MAX = 2
SPECIFICATION FairSpec
INVARIANTS
  IInv
  JoinHandshake
PROPERTIES
  RunqFifo
  KeepsContract
  RunnableRuns
  TimedWaitEnds
  JoinCompletes
