SPECIFICATION FairSpec
CONSTANTS
  NTASKS = 3
  Priority <- MCPriority
  WORD = 5
  MaxJiffies = 5
  JIFFY = 10
  SleepMs <- MCSleepMs
  WaitLists <- MCNone
  UserLabels <- MCNone
  Syscalls <- MCSyscalls
INVARIANTS TypeOK OneRunning ListsMatchStates SlotIsBlocked NoOverdueSleeper
PROPERTIES DueSleepersWake SleeperWakes
