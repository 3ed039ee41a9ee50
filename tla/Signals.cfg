SPECIFICATION FairSignals
CONSTANTS
  TASK_SLOTS <- MCTaskSlots
  SERVER_SLOTS <- MCServerSlots
  USERS = {2, 3}
  INIT_PROC_NR = 2
  MAX_EVENTS = 4
INVARIANTS
  SignalsCounted
  ReadyThroughSignals
  TasksDoNotWait
PROPERTIES
  SignalsEnd
CHECK_DEADLOCK FALSE
