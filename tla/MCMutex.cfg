SPECIFICATION MutexSpec
CONSTANTS
  NTASKS = 4
  Priority <- MCPriority4
  WORD = 16
  MaxJiffies = 5
  JIFFY = 10
  SleepMs <- MCSleepMs
  WaitLists <- MCLists
  UserLabels <- MutexLabels
  Syscalls <- MCSyscalls
  MaxDepth = 2
INVARIANTS LockTypeOK MutualExclusion ValueMatchesOwner HolderAgrees NoLostWakeup InterruptsRestored
PROPERTY ImplementsReentrantLock
CHECK_DEADLOCK FALSE
