------------------------------- MODULE MCTask -------------------------------
\* Idle, two tasks and the boot context.
EXTENDS Task

MCPriority == <<1, 2, 2, 0>>
MCSleepMs  == {0, 25}
MCSyscalls == {"yield", "sleep", "test"}
MCSleep    == {"sleep"}
MCYieldSleep == {"yield", "sleep"}
MCNone     == {}
=============================================================================
