SPECIFICATION MCSpec
CONSTANTS
  NR = 2
  Priority = 1
  MaxPriority = 2
  MaxAlarm = 1
  Alarmed = {1}
  Niced = {2}
  NR_TASKS = 4
  Sig = {1, 9, 17}
  SigActs <- SomeActs
  Groups = {2}
  Calls <- SomeCalls
  Sleeper = {1, 2, 3}
  NULL = NULL
INVARIANT WaiterIsTold
PROPERTY SchedulerServes
PROPERTY AlarmWakes
 
PROPERTY SignalledGroupLeaves
CHECK_DEADLOCK FALSE
