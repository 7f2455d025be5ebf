CONSTANTS
  Thread = {main, isr}
  Main = main
  IntrWoken = {isr}
  ThreadWoken = {isr}
  ExtStack = {main}
  Deadline = {1}
  MaxTime = 1
  BLOCKTIME_MAX = 1
SPECIFICATION Spec
PROPERTIES
  RunnableWakeNoEffect
