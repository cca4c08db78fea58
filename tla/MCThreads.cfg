SPECIFICATION ThreadsSpec
CONSTANTS
  NTASKS = 3
  Priority <- MCShort
  WORD = 4
  MaxJiffies = 4
  JIFFY = 10
  SleepMs <- MCNone
  WaitLists <- MCLists
  UserLabels <- ThreadLabels
  Syscalls <- MCNone
  MaxDepth = 1
INVARIANTS MutualExclusion LockInitialisedBeforeUse LogIntact
PROPERTY WaiterWoken
