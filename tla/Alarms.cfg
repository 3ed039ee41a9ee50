SPECIFICATION FairAlarms
CONSTANTS
  TASK_SLOTS <- MCTaskSlots
  SERVER_SLOTS <- MCLateServerSlots
  USERS = {2, 3, 5}
  INIT_PROC_NR = 2
  CLIENTS = {0, 4}
  DELAYS = {0, 1}
  MAX_TIME = 2
INVARIANTS
  NoAlarmMissed
  AwakeWithWork
PROPERTIES
  AlarmsGoOff
CHECK_DEADLOCK FALSE
