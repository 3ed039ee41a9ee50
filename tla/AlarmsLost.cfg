SPECIFICATION AlarmsSpec
CONSTANTS
  TASK_SLOTS <- MCTaskSlots
  SERVER_SLOTS <- MCServerSlots
  USERS = {2, 3}
  INIT_PROC_NR = 2
  CLIENTS = {0, 1}
  DELAYS = {0, 1}
  MAX_TIME = 2
INVARIANT AlarmReachesClient
CHECK_DEADLOCK FALSE
