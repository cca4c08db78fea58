---------------------------- MODULE ThreadsProofs ----------------------------
(***************************************************************************)
(* The program of thread.c, for every slice length and every interleaving: *)
(* the scheduler's first choice is init, which initialises the lock before *)
(* anybody takes it, and the log lines stay whole under that lock.         *)
(***************************************************************************)
EXTENDS Threads, MutexProofs

\* From kernel_init's sti to spin_init: the CPU is in kernel_init, or in init
\* with IF = 0, and nothing has touched a list, the lock or a task's fields.
StartInv ==
    /\ initialised <=> pc[InitTask] # "start"
    /\ ~initialised =>
        /\ ~value /\ holder = NULL /\ repeat = 0
        /\ lists = [l \in ListNames |-> <<>>]
        /\ \A t \in Tasks : pc[t] = "start" /\ trap[t] = "none" /\ depth[t] = 0
        /\ \/ /\ current = Boot
              /\ pc[Boot] = "spin" /\ trap[Boot] \in {"none", "irq"}
              /\ ticks[Boot] = 1
              /\ \A t \in Tasks : /\ state[t] = "ready"
                                  /\ ticks[t] = Priority[t] /\ last[t] = 0
           \/ current = InitTask /\ ~intr

\* LOGK runs under the lock, and its buffers hold what its thread put there.
LogInv ==
    \A t \in Users :
        /\ pc[t] \in {"printk", "console"} => depth[t] > 0
        /\ pc[t] = "printk" => debug_buf = t
        /\ pc[t] = "console" => printk_buf = t

ThreadsInv ==
    /\ MutexInv
    /\ StartInv
    /\ LogInv

\* The three tasks, as the steps need them.
LEMMA ThreadsConstants ==
    /\ Tasks = {Idle, InitTask, TestTask} /\ Users = {InitTask, TestTask}
    /\ Threads = {Idle, InitTask, TestTask, Boot}
    /\ InitTask \in Users /\ InitTask # Idle /\ TestTask # Idle /\ InitTask # TestTask
    /\ Boot \notin Tasks
    /\ {"printk", "console"} \subseteq Labels
    /\ Priority[Idle] < Priority[InitTask] /\ Priority[TestTask] <= Priority[InitTask]
    /\ \A t \in Threads : Priority[t] \in Int
BY ThreadsAssumption, TaskAssumption
DEF Tasks, Users, Threads, Idle, InitTask, TestTask, Boot, Labels, ThreadLabels

\* kernel_init has created the tasks, and sets IF.
LEMMA ThreadsInvInit == ThreadsInit => ThreadsInv
<1> SUFFICES ASSUME ThreadsInit
             PROVE  ThreadsInv
    OBVIOUS
<1>1. MutexInv
    BY MutexInvInit DEF ThreadsInit
<1>2. /\ pc[Boot] = "spin" /\ ticks[Boot] = 1
      /\ \A t \in Tasks : /\ pc[t] = "start" /\ state[t] = "ready"
                          /\ ticks[t] = Priority[t] /\ last[t] = 0
    BY Constants DEF ThreadsInit, MutexInit, Init, FirstTask, BootTask, Created
<1>3. StartInv
    BY <1>2, Constants, ThreadsConstants
    DEF ThreadsInit, MutexInit, Init, LockInit, StartInv
<1>4. LogInv
    BY <1>2, LockConstants DEF LogInv
<1> QED
    BY <1>1, <1>3, <1>4 DEF ThreadsInv

-----------------------------------------------------------------------------
(* Until init has run *)

\* The loop of task_search over idle, init and test when all three are ready:
\* init beats idle by its ticks, test does not beat init.
LEMMA FirstChoice ==
    ASSUME NEW st, NEW tk, NEW la,
           \A t \in Tasks : Candidate(st, t) /\ tk[t] = Priority[t] /\ la[t] = 0
    PROVE  TaskSearch(st, tk, la) = InitTask
<1> DEFINE best == Scan(st, tk, la)
<1>1. NTASKS = 3 /\ Tasks = 1 .. 3
    BY ThreadsAssumption DEF Tasks
<1>2. /\ best[0] = NULL
      /\ \A i \in 1 .. 3 : best[i] = IF Prefers(tk, la, best[i - 1], i)
                                     THEN i ELSE best[i - 1]
    BY <1>1, ScanUnfolds
<1> HIDE DEF best
<1>3. /\ best[1] = IF Prefers(tk, la, best[0], 1) THEN 1 ELSE best[0]
      /\ best[2] = IF Prefers(tk, la, best[1], 2) THEN 2 ELSE best[1]
      /\ best[3] = IF Prefers(tk, la, best[2], 3) THEN 3 ELSE best[2]
    BY <1>2
<1>4. best[1] = Idle
    BY <1>2, <1>3 DEF Prefers, Idle
<1>5. best[2] = InitTask
    BY <1>3, <1>4, ThreadsConstants DEF Prefers, InitTask
<1>6. best[3] = InitTask
    <2>1. ~Prefers(tk, la, InitTask, TestTask)
        BY ThreadsConstants DEF Prefers, NULL, InitTask, TestTask
    <2> QED
        BY <1>3, <1>5, <2>1 DEF TestTask
<1> QED
    BY <1>1, <1>6 DEF TaskSearch, best, NULL, InitTask

\* The one clock interrupt of the boot context ends its only tick.
LEMMA BootIsPreempted ==
    ASSUME ThreadsInv, ~initialised, current = Boot, ClockHandler
    PROVE  current' = InitTask
<1> DEFINE st == [t \in Threads |-> IF t \in Woken THEN "ready" ELSE state[t]]
           tk == [t \in Threads |->
                      IF t = current THEN (ticks[t] - 1) % WORD
                      ELSE IF t \in Woken THEN 0 ELSE ticks[t]]
           la == [last EXCEPT ![current] = (jiffies + 1) % WORD]
<1>1. /\ lists["sleep"] = <<>> /\ ticks[Boot] = 1
      /\ \A t \in Tasks : state[t] = "ready" /\ ticks[t] = Priority[t] /\ last[t] = 0
      /\ last \in [Threads -> 0 .. WORD - 1]
    BY Constants, ThreadsConstants DEF ThreadsInv, MutexInv, LockTypeOK, TypeOK, StartInv
<1>2. Woken = {}
    <2>1. WakeCount \in 0 .. Len(lists["sleep"])
        BY WakeCountRange DEF ThreadsInv, MutexInv, LockTypeOK
    <2> QED
        BY <1>1, <2>1 DEF Woken
<1>3. tk[current] = 0
    <2>1. (1 - 1) % WORD = 0
        BY Constants
    <2> QED
        BY <1>1, <2>1, Constants
<1>4. \A t \in Tasks : Candidate(st, t) /\ tk[t] = Priority[t] /\ la[t] = 0
    BY <1>1, <1>2, Constants DEF Candidate
<1>5. Schedule(st, tk, la)
    <2>1. IF tk[current] = 0 THEN Schedule(st, tk, la)
          ELSE state' = st /\ ticks' = tk /\ last' = la /\ UNCHANGED current
        BY DEF ClockHandler
    <2> HIDE DEF st, tk, la
    <2> QED
        BY <1>3, <2>1
<1> HIDE DEF st, tk, la
<1> QED
    BY <1>4, <1>5, FirstChoice DEF Schedule

\* What the CPU can execute before init has: the interrupt that ends the boot
\* context's tick, and init's first statements.
LEMMA BeforeInit ==
    ASSUME ThreadsInv, ~initialised, ThreadsNext
    PROVE  \/ current = Boot /\ TimerInterrupt
           \/ current = Boot /\ ClockHandler /\ UNCHANGED <<lockVars, logVars>>
           \/ current = InitTask /\ InitThreadStart
<1>1. /\ \A t \in Tasks : pc[t] = "start" /\ trap[t] = "none"
      /\ \/ current = Boot /\ trap[Boot] \in {"none", "irq"}
         \/ current = InitTask /\ ~intr
    BY DEF ThreadsInv, StartInv
<1>2. CASE TimerInterrupt
    BY <1>1, <1>2 DEF TimerInterrupt, AcceptInterrupt
<1>3. CASE KernelStep
    <2>1. ~Halt /\ ~IdleYield
        BY <1>1, ThreadsConstants DEF Halt, IdleYield, AtLabel
    <2>2. \A t \in Threads : ~InterruptExit(t)
        BY <1>1, ThreadsConstants DEF InterruptExit
    <2>3. ClockHandler /\ UNCHANGED <<lockVars, logVars>>
        BY <1>3, <2>1, <2>2 DEF KernelStep
    <2> QED
        BY <1>1, <2>3, ThreadsConstants DEF ClockHandler
<1>4. ASSUME NEW t \in Tasks, ThreadStep(t)
      PROVE  current = InitTask /\ InitThreadStart
    <2>1. \A label : AtLabel(t, label) => current = InitTask /\ t = InitTask /\ label = "start"
        BY <1>1, ThreadsConstants DEF AtLabel
    <2>2. \E label : AtLabel(t, label)
        BY <1>4, Zenon DEF ThreadStep, InitThreadStart, ThreadStart, Start, LoopLock, SpinTest,
           Debugk, Printk, ConsoleWrite, LoopUnlock, SpinUnlock, LockStep,
           MutexLock, MutexWait, MutexFree, MutexTake, MutexUnlock, MutexRelease,
           MutexRestore, SpinAgain, SpinAgainStore, SpinOwn, SpinAssert, SpinFirst,
           SpinCount, SpinDown, SpinDownStore, SpinLast, SpinDisown, SpinReset
    <2>3. \A label \in MutexLabels \cup {"user", "printk", "console"} : ~AtLabel(t, label)
        BY <2>1 DEF MutexLabels, CountLabels
    <2> QED
        BY <1>4, <2>1, <2>2, <2>3
        DEF ThreadStep, ThreadStart, Start, LoopLock, SpinTest, Debugk, Printk,
            ConsoleWrite, LoopUnlock, SpinUnlock, LockStep, MutexLock, MutexWait,
            MutexFree, MutexTake, MutexUnlock, MutexRelease, MutexRestore, SpinAgain,
            SpinAgainStore, SpinOwn, SpinAssert, SpinFirst, SpinCount, SpinDown,
            SpinDownStore, SpinLast, SpinDisown, SpinReset, MutexLabels, CountLabels
<1> QED
    BY <1>2, <1>3, <1>4 DEF ThreadsNext

\* The switch from the boot context to init, and the interrupt that leads to it.
LEMMA StartInvBoot ==
    ASSUME ThreadsInv, ~initialised, current = Boot,
           AcceptInterrupt \/ ClockHandler, UNCHANGED <<lockVars, logVars>>
    PROVE  StartInv'
<1>1. /\ \A t \in Tasks : pc[t] = "start" /\ trap[t] = "none" /\ depth[t] = 0
      /\ pc[Boot] = "spin" /\ ~value /\ holder = NULL /\ repeat = 0
      /\ ticks[Boot] = 1 /\ lists = [l \in ListNames |-> <<>>]
      /\ \A t \in Tasks : state[t] = "ready" /\ ticks[t] = Priority[t] /\ last[t] = 0
    BY ThreadsConstants DEF ThreadsInv, StartInv
<1>2. /\ trap \in [Threads -> {"none", "irq", "iret"}] /\ intr \in BOOLEAN
      /\ trap[current] # "none" => ~intr
    BY DEF ThreadsInv, MutexInv, LockTypeOK, TypeOK, InterruptInv
<1>3. UNCHANGED <<value, holder, repeat, read, saved, depth, initialised>>
    BY DEF lockVars, logVars
<1>4. CASE AcceptInterrupt
    <2>1. /\ UNCHANGED <<current, state, ticks, last, lists, pc>>
          /\ trap' = [trap EXCEPT ![Boot] = "irq"]
        BY <1>1, <1>4 DEF AcceptInterrupt, taskVars
    <2>2. trap'[Boot] = "irq" /\ \A t \in Tasks : trap'[t] = trap[t]
        BY <1>2, <2>1, Constants
    <2> QED
        BY <1>1, <1>3, <2>1, <2>2, ThreadsConstants DEF StartInv
<1>5. CASE ClockHandler
    <2>1. /\ trap[Boot] = "irq" /\ UNCHANGED <<intr, pc>> /\ current' = InitTask
          /\ trap' = [trap EXCEPT ![Boot] = "iret"]
          /\ lists' = [lists EXCEPT !["sleep"] =
                           SubSeq(@, WakeCount + 1, Len(@))]
        BY <1>5, BootIsPreempted DEF ClockHandler
    <2>2. ~intr' /\ \A t \in Tasks : trap'[t] = trap[t]
        BY <1>2, <2>1, Constants
    <2>3. lists' = [l \in ListNames |-> <<>>]
        <3>1. WakeCount \in 0 .. Len(lists["sleep"]) /\ lists["sleep"] = <<>>
            BY <1>1, WakeCountRange, Constants DEF ThreadsInv, MutexInv, LockTypeOK
        <3>2. WakeCount = 0
            BY <3>1
        <3>3. SubSeq(lists["sleep"], WakeCount + 1, Len(lists["sleep"])) = <<>>
            BY <3>1, <3>2
        <3> QED
            BY <1>1, <2>1, <3>1, <3>3
    <2> QED
        BY <1>1, <1>3, <2>1, <2>2, <2>3, ThreadsConstants DEF StartInv
<1> QED
    BY <1>4, <1>5

\* spin_init finds the lock as the zeroed memory left it.
LEMMA ThreadsInvInitThreadStart ==
    ASSUME ThreadsInv, InitThreadStart
    PROVE  ThreadsInv'
<1>1. /\ AtLabel(InitTask, "start") /\ Goto(InitTask, "user")
      /\ UNCHANGED <<current, state, ticks, last, jiffies, blocked, in_service,
                     trap, read, saved, depth, debug_buf, printk_buf, logged>>
      /\ initialised' /\ intr'
    BY DEF InitThreadStart
<1>2. ~initialised /\ current = InitTask
    BY <1>1 DEF ThreadsInv, StartInv, AtLabel
<1>3. /\ \A t \in Tasks : pc[t] = "start" /\ depth[t] = 0
      /\ lists = [l \in ListNames |-> <<>>] /\ ~value /\ holder = NULL /\ repeat = 0
    BY <1>2 DEF ThreadsInv, StartInv
<1>4. UNCHANGED <<value, holder, repeat, lists>>
    <2>1. value \in BOOLEAN
        BY DEF ThreadsInv, MutexInv, LockTypeOK
    <2>2. [lists EXCEPT !["waiters"] = <<>>] = lists
        BY <1>3
    <2> QED
        BY <1>3, <2>1, <2>2 DEF InitThreadStart
<1>5. MutexInv /\ InitTask \in Users
    BY ThreadsConstants DEF ThreadsInv
<1>6. pc'[InitTask] = "user" /\ \A t \in Threads \ {InitTask} : pc'[t] = pc[t]
    BY <1>1, <1>5, MutexInvUnfold DEF Goto
<1>7. TaskInv'
    <2>1. Undisturbed /\ intr' \in BOOLEAN
        BY <1>1, <1>4 DEF Undisturbed, taskVars
    <2> QED
        BY <1>1, <1>3, <1>5, <2>1, PlainStep, LockConstants DEF AtLabel, MutexInv
<1>8. LockTypeOK'
    BY <1>1, <1>4, <1>5, <1>7 DEF MutexInv, LockTypeOK, TaskInv
<1>9. InterruptInv'
    BY <1>1, <1>2, <1>5, <1>6, ThreadsConstants
    DEF MutexInv, InterruptInv, AtLabel, Closed
<1>10. LockInv'
    <2>1. \A t \in Users : ~Inside(t) /\ ~Inside(t)' /\ depth'[t] = 0
                           /\ pc'[t] \in {"start", "user"}
        BY <1>1, <1>3, <1>6, ThreadsConstants DEF Inside
    <2> QED
        BY <1>3, <1>4, <2>1 DEF LockInv, CountLabels
<1>11. StartInv'
    BY <1>1, <1>6 DEF StartInv
<1>12. LogInv'
    BY <1>3, <1>6, ThreadsConstants DEF LogInv
<1> QED
    BY <1>7, <1>8, <1>9, <1>10, <1>11, <1>12 DEF ThreadsInv, MutexInv

-----------------------------------------------------------------------------
(* The loop of init and test *)

\* A step of LOGK moves one thread along its code and touches neither the
\* scheduler nor the lock.
LEMMA MutexInvLog ==
    ASSUME MutexInv, NEW t \in Users,
           NEW from \in {"user", "printk", "console"},
           NEW to \in {"user", "printk", "console"},
           AtLabel(t, from), Goto(t, to), Undisturbed, UNCHANGED <<intr, lockVars>>
    PROVE  MutexInv'
<1>1. pc[t] = from /\ to \in Labels /\ from \notin Closed /\ to \notin Closed
    BY ThreadsConstants, LockConstants DEF AtLabel, Closed
<1>2. TaskInv' /\ InterruptInv'
    BY <1>1, PlainStep, OpenStep, MutexInvUnfold DEF lockVars
<1>3. LockTypeOK'
    BY <1>2 DEF MutexInv, TaskInv, LockTypeOK, lockVars
<1>4. pc'[t] = to /\ \A u \in Users \ {t} : pc'[u] = pc[u]
    BY MutexInvUnfold, LockConstants DEF Goto
<1>5. \A u \in Users : Inside(u)' <=> Inside(u)
    BY <1>1, <1>4 DEF Inside, lockVars
<1>6. LockInv'
    BY <1>1, <1>4, <1>5, MutexInvUnfold
    DEF LockInv, lockVars, MutexLabels, CountLabels
<1> QED
    BY <1>2, <1>3, <1>6 DEF MutexInv

\* No step of the scheduler takes a thread into LOGK, out of it, or back to
\* its first statement.
LEMMA LogLabelsKept ==
    ASSUME TypeOK, Next, NEW t \in Users
    PROVE  pc'[t] \in {"start", "printk", "console"} => pc'[t] = pc[t]
<1>1. pc \in [Threads -> Labels] /\ t \in Threads /\ t # Idle
    BY LockConstants DEF TypeOK
<1>2. CASE UNCHANGED pc
    BY <1>2
<1>3. CASE AcceptInterrupt
    BY <1>1, <1>3 DEF AcceptInterrupt
<1>4. ASSUME NEW u \in Tasks, Start(u)
      PROVE  pc'[t] \in {"start", "printk", "console"} => pc'[t] = pc[t]
    BY <1>1, <1>4 DEF Start, Goto
<1>5. CASE Halt
    BY <1>1, <1>5 DEF Halt, Goto
<1>6. CASE IdleYield
    BY <1>1, <1>6 DEF IdleYield, Goto
<1> QED
    BY <1>2, <1>3, <1>4, <1>5, <1>6
    DEF Next, CpuStep, SystemCall, InterruptExit, ClockHandler, TaskYield,
        TaskSleep, TestBlock, TestUnblock

\* A step of the lock leads into LOGK, or to a first statement, no more than a
\* step of the scheduler; and it changes nothing another thread knows.
LEMMA LockStepKeeps ==
    ASSUME MutexInv, NEW t \in Users, LockStep(t) \/ SpinTest(t) \/ SpinUnlock(t)
    PROVE  /\ pc'[t] \notin {"start", "printk", "console"}
           /\ \A u \in Users \ {t} : pc'[u] = pc[u] /\ depth'[u] = depth[u]
<1> DEFINE Kept == /\ pc'[t] \notin {"start", "printk", "console"}
                   /\ \A u \in Users \ {t} : pc'[u] = pc[u]
           Counted == \A u \in Users \ {t} : depth'[u] = depth[u]
<1>0. /\ pc \in [Threads -> Labels] /\ depth \in [Threads -> 0 .. MaxDepth]
      /\ t \in Threads /\ Users \subseteq Threads
    BY MutexInvUnfold, LockConstants
<1>1. ASSUME NEW label, Goto(t, label), label \notin {"start", "printk", "console"}
      PROVE  Kept
    BY <1>0, <1>1 DEF Goto
<1>2. ASSUME UNCHANGED pc, pc[t] \notin {"start", "printk", "console"}
      PROVE  Kept
    BY <1>2
<1>3. CASE SpinTest(t)
    BY <1>1, <1>3 DEF SpinTest, lockVars
<1>4. CASE \/ SpinUnlock(t) \/ SpinAgain(t) \/ SpinAssert(t) \/ SpinCount(t)
           \/ SpinDown(t)
    <2>1. Counted
        BY <1>4 DEF SpinUnlock, SpinAgain, SpinAssert, SpinCount, SpinDown, lockVars
    <2>2. Kept
        BY <1>1, <1>4 DEF SpinUnlock, SpinAgain, SpinAssert, SpinCount, SpinDown
    <2> QED
        BY <2>1, <2>2
<1>5. CASE SpinAgainStore(t) \/ SpinFirst(t) \/ SpinDownStore(t) \/ SpinLast(t)
    <2>1. Counted
        BY <1>0, <1>5 DEF SpinAgainStore, SpinFirst, SpinDownStore, SpinLast
    <2>2. Kept
        BY <1>1, <1>5 DEF SpinAgainStore, SpinFirst, SpinDownStore, SpinLast
    <2> QED
        BY <2>1, <2>2
<1>6. CASE MutexWait(t)
    BY <1>2, <1>6 DEF MutexWait, AtLabel, lockVars
<1>7. CASE \/ MutexLock(t) \/ MutexFree(t) \/ MutexTake(t) \/ MutexUnlock(t)
           \/ MutexRelease(t) \/ MutexRestore(t) \/ SpinOwn(t) \/ SpinDisown(t)
           \/ SpinReset(t)
    <2>1. Counted
        BY <1>7 DEF MutexLock, MutexFree, MutexTake, MutexUnlock, MutexRelease,
                    MutexRestore, SpinOwn, SpinDisown, SpinReset, lockVars
    <2>2. Kept
        BY <1>1, <1>7 DEF MutexLock, MutexFree, MutexTake, MutexUnlock, MutexRelease,
                          MutexRestore, SpinOwn, SpinDisown, SpinReset
    <2> QED
        BY <2>1, <2>2
<1> QED
    BY <1>3, <1>4, <1>5, <1>6, <1>7 DEF LockStep

\* The scheduler's steps, next to LOGK's.
LEMMA ThreadsInvNext ==
    ASSUME ThreadsInv, initialised, Next, UNCHANGED <<lockVars, logVars>>
    PROVE  ThreadsInv'
<1>1. MutexInv'
    BY MutexInvStep DEF ThreadsInv, MutexNext
<1>2. \A t \in Users : pc'[t] \in {"start", "printk", "console"} => pc'[t] = pc[t]
    BY LogLabelsKept DEF ThreadsInv, MutexInv, LockTypeOK
<1>3. StartInv'
    BY <1>2, ThreadsConstants DEF ThreadsInv, StartInv, logVars
<1>4. LogInv'
    BY <1>2 DEF ThreadsInv, LogInv, logVars, lockVars
<1> QED
    BY <1>1, <1>3, <1>4 DEF ThreadsInv

\* The steps of spin_lock and spin_unlock: whoever is inside LOGK has the lock,
\* so it is not the thread that moves.
LEMMA ThreadsInvLock ==
    ASSUME ThreadsInv, initialised, NEW t \in Users,
           LockStep(t) \/ SpinTest(t) \/ SpinUnlock(t),
           UNCHANGED <<initialised, debug_buf, printk_buf>>
    PROVE  ThreadsInv'
<1>1. MutexInv'
    BY MutexInvStep DEF ThreadsInv, MutexNext
<1>2. /\ pc'[t] \notin {"start", "printk", "console"}
      /\ \A u \in Users \ {t} : pc'[u] = pc[u] /\ depth'[u] = depth[u]
    BY LockStepKeeps DEF ThreadsInv
<1>3. StartInv'
    BY <1>2, ThreadsConstants DEF ThreadsInv, StartInv
<1>4. LogInv'
    BY <1>2 DEF ThreadsInv, LogInv
<1> QED
    BY <1>1, <1>3, <1>4 DEF ThreadsInv

\* The steps of LOGK: its buffers belong to the one thread that has the lock.
LEMMA ThreadsInvLog ==
    ASSUME ThreadsInv, initialised, NEW t \in Users,
           Debugk(t) \/ Printk(t) \/ ConsoleWrite(t)
    PROVE  ThreadsInv'
<1>1. PICK from, to \in {"user", "printk", "console"} :
        /\ AtLabel(t, from) /\ Goto(t, to) /\ Undisturbed
        /\ UNCHANGED <<intr, lockVars, initialised>>
    BY DEF Debugk, Printk, ConsoleWrite
<1>2. MutexInv'
    BY <1>1, MutexInvLog DEF ThreadsInv
<1>3. /\ pc'[t] = to /\ pc[t] = from /\ \A u \in Users \ {t} : pc'[u] = pc[u]
      /\ depth' = depth
    BY <1>1, MutexInvUnfold, LockConstants DEF ThreadsInv, Goto, AtLabel, lockVars
<1>4. depth[t] > 0
    BY DEF Debugk, Printk, ConsoleWrite, AtLabel, ThreadsInv, LogInv
<1>5. \A u \in Users \ {t} : pc[u] \notin {"printk", "console"}
    <2>1. \A u \in Users \ {t} : ~(depth[u] > 0)
        BY <1>4 DEF ThreadsInv, MutexInv, LockInv, Inside
    <2> QED
        BY <2>1 DEF ThreadsInv, LogInv
<1>6. StartInv'
    BY <1>1, <1>3, ThreadsConstants DEF ThreadsInv, StartInv
<1>7. LogInv'
    <2>1. \A u \in Users \ {t} : pc'[u] \notin {"printk", "console"}
        BY <1>3, <1>5
    <2>2. CASE Debugk(t)
        BY <1>3, <1>4, <2>1, <2>2, MutexInvUnfold
        DEF Debugk, Goto, LogInv, ThreadsInv
    <2>3. CASE Printk(t)
        BY <1>3, <1>4, <2>1, <2>3, MutexInvUnfold
        DEF Printk, AtLabel, Goto, LogInv, ThreadsInv
    <2>4. CASE ConsoleWrite(t)
        BY <1>3, <1>4, <2>1, <2>4, MutexInvUnfold
        DEF ConsoleWrite, Goto, LogInv, ThreadsInv
    <2> QED
        BY <2>2, <2>3, <2>4
<1> QED
    BY <1>2, <1>6, <1>7 DEF ThreadsInv

\* No step of thread.c, of the lock or of the scheduler breaks it.
LEMMA ThreadsInvStep == ThreadsInv /\ [ThreadsNext]_threadVars => ThreadsInv'
<1> SUFFICES ASSUME ThreadsInv, [ThreadsNext]_threadVars
             PROVE  ThreadsInv'
    OBVIOUS
<1>1. CASE UNCHANGED threadVars
    <2>1. UNCHANGED mutexVars /\ UNCHANGED logVars
        BY <1>1 DEF threadVars
    <2>2. MutexInv'
        BY <2>1, MutexInvStep DEF ThreadsInv
    <2> QED
        BY <2>1, <2>2
        DEF ThreadsInv, StartInv, LogInv, mutexVars, vars, lockVars, logVars
<1>2. CASE ThreadsNext /\ ~initialised
    <2>1. CASE current = InitTask /\ InitThreadStart
        BY <2>1, ThreadsInvInitThreadStart
    <2>2. CASE /\ current = Boot
               /\ AcceptInterrupt \/ ClockHandler
               /\ UNCHANGED <<lockVars, logVars>>
        <3>1. Next
            BY <2>2 DEF Next, CpuStep
        <3>2. MutexInv'
            BY <2>2, <3>1, MutexInvStep DEF ThreadsInv, MutexNext
        <3>3. StartInv'
            BY <1>2, <2>2, StartInvBoot
        <3>4. LogInv'
            BY <2>2, <3>1, LogLabelsKept
            DEF ThreadsInv, MutexInv, LockTypeOK, LogInv, lockVars, logVars
        <3> QED
            BY <3>2, <3>3, <3>4 DEF ThreadsInv
    <2> QED
        BY <1>2, <2>1, <2>2, BeforeInit DEF TimerInterrupt
<1>3. CASE ThreadsNext /\ initialised
    <2>1. CASE TimerInterrupt
        BY <1>3, <2>1, ThreadsInvNext DEF TimerInterrupt, Next
    <2>2. CASE KernelStep
        BY <1>3, <2>2, ThreadsInvNext DEF KernelStep, Next, CpuStep
    <2>3. ASSUME NEW t \in Tasks, ThreadStep(t)
          PROVE  ThreadsInv'
        <3>1. CASE InitThreadStart
            BY <3>1, ThreadsInvInitThreadStart
        <3>2. CASE ThreadStart(t)
            BY <1>3, <3>2, ThreadsInvNext DEF ThreadStart, Next, CpuStep
        <3>3. CASE /\ t \in Users
                   /\ \/ LockStep(t) /\ UNCHANGED logVars
                      \/ LoopLock(t) \/ LoopUnlock(t)
            BY <1>3, <3>3, ThreadsInvLock DEF LoopLock, LoopUnlock, logVars
        <3>4. CASE t \in Users /\ (Debugk(t) \/ Printk(t) \/ ConsoleWrite(t))
            BY <1>3, <3>4, ThreadsInvLog
        <3> QED
            BY <2>3, <3>1, <3>2, <3>3, <3>4 DEF ThreadStep
    <2> QED
        BY <1>3, <2>1, <2>2, <2>3 DEF ThreadsNext
<1> QED
    BY <1>1, <1>2, <1>3

-----------------------------------------------------------------------------
(* The theorems *)

\* The lock, the start of init and the log hold together throughout.
THEOREM ThreadsInvariant == ThreadsSpec => []ThreadsInv
BY ThreadsInvInit, ThreadsInvStep, PTL DEF ThreadsSpec

\* test never calls spin_lock on a lock that init has not initialised, although
\* nothing in thread.c orders the two.
THEOREM LockIsReadyInTime == ThreadsSpec => []LockInitialisedBeforeUse
<1>1. ThreadsInv => LockInitialisedBeforeUse
    BY ThreadsConstants DEF ThreadsInv, StartInv, LockInitialisedBeforeUse
<1> QED
    BY <1>1, ThreadsInvariant, PTL

\* init and test exclude each other between spin_lock and spin_unlock.
THEOREM ThreadsExclude == ThreadsSpec => []MutualExclusion
<1>1. ThreadsInv => MutualExclusion
    BY DEF ThreadsInv, MutexInv, LockInv, MutualExclusion
<1> QED
    BY <1>1, ThreadsInvariant, PTL

\* In the running kernel too, no assert of mutex.c fails: the lock that
\* spin_init has just set up is the one its callers go on with.
THEOREM ThreadsHolderAgrees == ThreadsSpec => []HolderAgrees
<1>1. ThreadsInv => HolderAgrees
    BY MutexInvHolder DEF ThreadsInv
<1> QED
    BY <1>1, ThreadsInvariant, PTL

\* A line reaches the console as its thread formatted it.
THEOREM LinesStayWhole == ThreadsSpec => []LogIntact
<1>1. ThreadsInv => LogIntact
    BY DEF ThreadsInv, LogInv, LogIntact
<1> QED
    BY <1>1, ThreadsInvariant, PTL

-----------------------------------------------------------------------------
(* The program uses the lock as Mutex has it *)

\* A step of the program is a step of Mutex, or takes one thread from a place
\* outside the lock to another and leaves the lock alone: LOGK does, and so
\* does spin_init, which finds what it writes.
LEMMA ThreadsStep ==
    ASSUME ThreadsInv, [ThreadsNext]_threadVars
    PROVE  \/ [MutexNext]_mutexVars
           \/ \E t \in Users : \E from, to \in {"start", "user", "printk", "console"} :
                /\ AtLabel(t, from) /\ Goto(t, to)
                /\ UNCHANGED <<state, lists, value, depth>>
<1>1. CASE UNCHANGED threadVars
    BY <1>1 DEF threadVars
<1>2. CASE TimerInterrupt \/ KernelStep
    BY <1>2 DEF TimerInterrupt, KernelStep, MutexNext, Next, CpuStep
<1>3. ASSUME NEW t \in Tasks, ThreadStep(t), ~(t = InitTask /\ InitThreadStart)
      PROVE  \/ MutexNext
             \/ t \in Users /\ (Debugk(t) \/ Printk(t) \/ ConsoleWrite(t))
    BY <1>3 DEF ThreadStep, ThreadStart, LoopLock, LoopUnlock, MutexNext, Next, CpuStep
<1>4. ASSUME NEW t \in Users, Debugk(t) \/ Printk(t) \/ ConsoleWrite(t)
      PROVE  \E from, to \in {"start", "user", "printk", "console"} :
                /\ AtLabel(t, from) /\ Goto(t, to)
                /\ UNCHANGED <<state, lists, value, depth>>
    BY <1>4 DEF Debugk, Printk, ConsoleWrite, Undisturbed, taskVars, lockVars
<1>5. CASE InitThreadStart
    <2>1. AtLabel(InitTask, "start") /\ Goto(InitTask, "user") /\ UNCHANGED <<state, depth>>
        BY <1>5 DEF InitThreadStart
    <2>2. ~initialised
        BY <2>1 DEF ThreadsInv, StartInv, AtLabel
    <2>3. lists = [l \in ListNames |-> <<>>] /\ ~value
        BY <2>2 DEF ThreadsInv, StartInv
    <2>4. value \in BOOLEAN
        BY DEF ThreadsInv, MutexInv, LockTypeOK
    <2>5. UNCHANGED <<lists, value>>
        <3>1. [lists EXCEPT !["waiters"] = <<>>] = lists
            BY <2>3
        <3> QED
            BY <1>5, <2>3, <2>4, <3>1 DEF InitThreadStart
    <2> QED
        BY <2>1, <2>5, ThreadsConstants
<1> QED
    BY <1>1, <1>2, <1>3, <1>4, <1>5 DEF ThreadsNext

\* init and test wake each other: whenever the mutex is free and one of them
\* waits, the other, or one that has been woken, is on its way to the test.
THEOREM ThreadsLoseNoWakeup == ThreadsSpec => []NoLostWakeup
<1>1. ThreadsInit => WakeupInv
    <2> SUFFICES ASSUME ThreadsInit
                 PROVE  lists["waiters"] = <<>>
        BY DEF WakeupInv, NoLostWakeup, ToSet
    <2> QED
        BY LockConstants DEF ThreadsInit, MutexInit, Init
<1>2. ThreadsInv /\ WakeupInv /\ [ThreadsNext]_threadVars => WakeupInv'
    <2> SUFFICES ASSUME ThreadsInv, WakeupInv, [ThreadsNext]_threadVars
                 PROVE  WakeupInv'
        OBVIOUS
    <2>1. MutexInv
        BY DEF ThreadsInv
    <2>2. CASE [MutexNext]_mutexVars
        BY <2>1, <2>2, WakeupInvStep
    <2>3. ASSUME NEW t \in Users, NEW from \in {"start", "user", "printk", "console"}, NEW to,
                 AtLabel(t, from), Goto(t, to), UNCHANGED <<state, lists, value, depth>>
          PROVE  WakeupInv'
        <3>1. AtLabel(t, pc[t]) /\ pc[t] \notin {"m_test", "m_take"}
            BY <2>3 DEF AtLabel
        <3> QED
            BY <2>1, <2>3, <3>1, WakeupInvPlain
    <2> QED
        BY <2>2, <2>3, ThreadsStep
<1>3. WakeupInv => NoLostWakeup
    BY DEF WakeupInv
<1> QED
    BY <1>1, <1>2, <1>3, ThreadsInvariant, PTL DEF ThreadsSpec

\* To init and test the spinlock is the reentrant lock, from the boot on.
THEOREM ThreadsUseReentrantLock == ThreadsSpec => ImplementsReentrantLock
<1>1. ThreadsInv /\ ThreadsInv' /\ [ThreadsNext]_threadVars
        => [Abstract!Next]_(Abstract!lockVars)
    <2> SUFFICES ASSUME ThreadsInv, ThreadsInv', [ThreadsNext]_threadVars
                 PROVE  [Abstract!Next]_(Abstract!lockVars)
        OBVIOUS
    <2>1. MutexInv /\ MutexInv'
        BY DEF ThreadsInv
    <2>2. CASE [MutexNext]_mutexVars
        BY <2>1, <2>2, RefinesNext
    <2>3. ASSUME NEW t \in Users,
                 NEW from \in {"start", "user", "printk", "console"},
                 NEW to \in {"start", "user", "printk", "console"},
                 AtLabel(t, from), Goto(t, to), UNCHANGED <<state, lists, value, depth>>
          PROVE  UNCHANGED Abstract!lockVars
        <3>1. /\ pc'[t] = to /\ pc[t] = from
              /\ \A u \in Users \ {t} : pc'[u] = pc[u]
            BY <2>1, <2>3, MutexInvUnfold, LockConstants DEF Goto, AtLabel
        <3>2. \A u \in Users : u \in Wanting' <=> u \in Wanting
            BY <3>1 DEF Wanting
        <3> QED
            BY <2>3, <3>2, Stutter
    <2> QED
        BY <2>2, <2>3, ThreadsStep
<1>2. ThreadsInit => Abstract!Init
    BY RefinesInit DEF ThreadsInit
<1> QED
    BY <1>1, <1>2, ThreadsInvariant, PTL
    DEF ThreadsSpec, ImplementsReentrantLock, Abstract!Spec

=============================================================================
