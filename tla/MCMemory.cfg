SPECIFICATION Spec
CONSTANTS
  BASE = 4
  KPAGES = 12
  PER_PAGE = 8
  ENTRIES = 6
  ArdsTables <- MCArdsTables
  MaxCount = 3
INVARIANTS TypeOK NoPageTwice KernelPagesMapped BitmapMatchesHolders ScanIsFirstFit FreePagesSuffice
CHECK_DEADLOCK FALSE
