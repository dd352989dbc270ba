SPECIFICATION MCSpec
CONSTANTS
  Task = {1, 2, 3, 4}
  NULL = NULL
  None = None
  Reader = {1, 2}
  Writer = {3}
  PAGE_SIZE = 3
  Byte = {0, 1}
  MaxCount = 2
  Faults = {{}, {1, 3}}
  TtyWriter = {1, 2}
  TTY_SIZE = 3
  MARGIN = 0
  ROOM = 2
  STARTUP = 1
  MaxTyped = 3
  MaxCalls = 3
  TtyReader = 4
  Uart = 3
INVARIANT DataIsLines
INVARIANT ReadInOrder
PROPERTY ImplementsWaitSet
PROPERTY ImplementsFifo
PROPERTY NobodyForgotten
 
CHECK_DEADLOCK FALSE
