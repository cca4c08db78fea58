SPECIFICATION Spec
CONSTANTS
  NTASKS = 3
  Priority <- MCPriority
  WORD = 16
  MaxJiffies = 6
  JIFFY = 10
  SleepMs <- MCSleepMs
  WaitLists <- MCNone
  UserLabels <- MCNone
  Syscalls <- MCSyscalls
PROPERTY IdleOnlyWhenNothingReady
CHECK_DEADLOCK FALSE
