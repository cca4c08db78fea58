SPECIFICATION Spec
CONSTANTS
  NTASKS = 3
  Priority <- MCPriority
  WORD = 8
  MaxJiffies = 8
  JIFFY = 10
  SleepMs <- MCSleepMs
  WaitLists <- MCNone
  UserLabels <- MCNone
  Syscalls <- MCYieldSleep
PROPERTY SleepNotCutShort
