------------------------------- MODULE MCMutex -------------------------------
EXTENDS Mutex

MCPriority3 == <<1, 2, 2, 0>>
MCPriority4 == <<1, 2, 2, 2, 0>>
MCSleepMs   == {0}
MCSyscalls  == {"sleep"}
MCLists     == {"waiters"}
=============================================================================
