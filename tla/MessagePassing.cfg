SPECIFICATION MessagesSpec
CONSTANTS
  TASK_SLOTS <- MCTaskSlots
  SERVER_SLOTS <- MCServerSlots
  USERS = {2, 3}
  INIT_PROC_NR = 2
  INTERRUPTED <- MCInterrupted
INVARIANTS
  MessagesTypeOK
  ReadyAreRunnable
  CallersQueued
  NoSendRing
  NoneWaitsInVain
  InterruptsKept
CHECK_DEADLOCK FALSE
