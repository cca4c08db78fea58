SPECIFICATION MutexSpec
CONSTANTS
  NTASKS = 4
  Priority <- MCPriority4
  WORD = 16
  MaxJiffies = 4
  JIFFY = 10
  SleepMs <- MCSleepMs
  WaitLists <- MCLists
  UserLabels <- MutexLabels
  Syscalls <- MCSyscalls
  MaxDepth = 2
PROPERTY FifoHandoff
CHECK_DEADLOCK FALSE
