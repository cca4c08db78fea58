------------------------------ MODULE MCThreads ------------------------------
\* The three tasks of task_init, with slices of 1 and 2 for their 1 and 5, and the boot context.
EXTENDS Threads

MCShort    == <<1, 2, 2, 0>>
MCNone     == {}
MCLists    == {"waiters"}
=============================================================================
