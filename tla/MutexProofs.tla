----------------------------- MODULE MutexProofs -----------------------------
(***************************************************************************)
(* Mutual exclusion for every number of tasks, every depth of re-entry and *)
(* every interleaving of interrupts and switches; spin_lock and            *)
(* spin_unlock implement the reentrant lock of module ReentrantLock.       *)
(***************************************************************************)
EXTENDS Mutex, TaskProofs

\* The labels at which a thread runs with IF = 0.
Closed == {"start", "m_test", "m_take", "m_release", "m_restore"}

\* Where a thread that is not running was left: in an interrupt or a system
\* call, before its first statement, or in the task_block or task_yield of
\* mutex_lock and mutex_unlock.
InterruptInv ==
    /\ trap[current] # "none" => ~intr
    /\ trap[current] = "none" => (intr <=> pc[current] \notin Closed)
    /\ \A t \in Threads \ {current} :
            \/ trap[t] = "iret"
            \/ trap[t] = "none" /\ pc[t] \in {"start", "m_test", "m_restore"}
    /\ \A t \in Threads :
            /\ pc[t] \in Closed => trap[t] = "none"
            /\ pc[t] \in Closed \ {"start"} => saved[t]

\* What each place in spin_lock and spin_unlock says of the lock.
LockInv ==
    /\ \A t, u \in Users : Inside(t) /\ Inside(u) => t = u
    /\ value <=> \E t \in Users : Inside(t)
    /\ ~value => holder = NULL /\ repeat = 0
    /\ \A t \in Users :
        /\ depth[t] > 0 => /\ pc[t] \notin MutexLabels \ CountLabels
                           /\ holder = t /\ repeat = depth[t]
        /\ pc[t] \in CountLabels => depth[t] > 0
        /\ pc[t] \in {"again", "again_store"} => depth[t] < MaxDepth
        /\ pc[t] \in {"again_store", "count_store"} => read[t] = repeat
        /\ pc[t] \in {"count_down", "count_store"} => repeat > 1
        /\ pc[t] = "m_take" => ~value
        /\ pc[t] = "own" => holder = NULL /\ repeat = 0
        /\ pc[t] \in {"own_assert", "own_repeat"} => holder = t /\ repeat = 0
        /\ pc[t] \in {"last", "clear"} => holder = t /\ repeat = 1
        /\ pc[t] = "clear_repeat" => holder = NULL
        /\ pc[t] \in {"m_unlock", "m_release"} => holder = NULL /\ repeat = 0

MutexInv ==
    /\ LockTypeOK
    /\ TaskInv
    /\ InterruptInv
    /\ LockInv

\* The assumptions on the constants, for the lock.
LEMMA LockConstants ==
    /\ MaxDepth \in Nat /\ MaxDepth < WORD /\ 0 \in 0 .. MaxDepth /\ 1 \in 0 .. MaxDepth
    /\ "waiters" \in ListNames \ {"sleep", "block"}
    /\ MutexLabels \subseteq Labels /\ CountLabels \subseteq Labels /\ "user" \in Labels
    /\ Users \subseteq Tasks /\ Users \subseteq Threads
    /\ Idle \notin Users /\ NULL \notin Users
<1>1. "waiters" \in ListNames \ {"sleep", "block"}
    BY MutexAssumption, TaskAssumption DEF ListNames
<1> QED
    BY <1>1, MutexAssumption, Constants DEF Labels, Users, MutexLabels

\* Before anybody has called spin_lock.
LEMMA MutexInvInit == MutexInit => MutexInv
<1> SUFFICES ASSUME MutexInit
             PROVE  MutexInv
    OBVIOUS
<1>1. TaskInv
    BY TaskInvInit DEF MutexInit
<1>2. LockTypeOK
    BY <1>1, Constants, LockConstants DEF MutexInit, LockInit, LockTypeOK, TaskInv
<1>3. \A t \in Threads : /\ pc[t] \in {"spin", "start"} /\ trap[t] = "none"
                         /\ pc[t] = "spin" <=> t = Boot
    BY DEF MutexInit, Init, FirstTask, BootTask, Created
<1>4. InterruptInv
    BY <1>3, Constants DEF MutexInit, Init, InterruptInv, Closed
<1>5. LockInv
    BY <1>3, LockConstants DEF MutexInit, LockInit, LockInv, Inside, CountLabels
<1> QED
    BY <1>1, <1>2, <1>4, <1>5 DEF MutexInv

-----------------------------------------------------------------------------
(* Steps of the scheduler: they leave the lock alone *)

\* No interrupt and no system call moves a thread within spin_lock or
\* spin_unlock.
LEMMA LockLabelsKept ==
    ASSUME TypeOK, Next, NEW t \in Users
    PROVE  /\ \A label \in MutexLabels : pc'[t] = label <=> pc[t] = label
           /\ pc[t] = "user" => pc'[t] = "user"
<1>1. pc \in [Threads -> Labels] /\ t \in Threads /\ t # Idle
    BY LockConstants DEF TypeOK
<1>2. CASE UNCHANGED pc
    BY <1>2
<1>3. CASE AcceptInterrupt
    BY <1>1, <1>3 DEF AcceptInterrupt, MutexLabels, CountLabels
<1>4. ASSUME NEW u \in Tasks, Start(u)
      PROVE  /\ \A label \in MutexLabels : pc'[t] = label <=> pc[t] = label
             /\ pc[t] = "user" => pc'[t] = "user"
    BY <1>1, <1>4 DEF Start, AtLabel, Goto, MutexLabels, CountLabels
<1>5. CASE Halt
    BY <1>1, <1>5 DEF Halt, Goto
<1>6. CASE IdleYield
    BY <1>1, <1>6 DEF IdleYield, Goto
<1> QED
    BY <1>2, <1>3, <1>4, <1>5, <1>6
    DEF Next, CpuStep, SystemCall, InterruptExit, ClockHandler, TaskYield,
        TaskSleep, TestBlock, TestUnblock

\* A system call or the clock's handler ends in a return through the trap
\* frame of the thread it served, whichever thread runs next.
LEMMA InterruptInvSwitch ==
    ASSUME TypeOK, InterruptInv, current' \in Threads, ~intr', UNCHANGED saved,
           pc[current] \notin Closed, pc'[current] \notin Closed,
           trap' = [trap EXCEPT ![current] = "iret"],
           \A t \in Threads \ {current} : pc'[t] = pc[t]
    PROVE  InterruptInv'
<1>1. trap'[current] = "iret" /\ \A t \in Threads \ {current} : trap'[t] = trap[t]
    BY DEF TypeOK
<1>2. \A t \in Threads :
        \/ trap'[t] = "iret"
        \/ trap'[t] = "none" /\ pc'[t] \in {"start", "m_test", "m_restore"}
    BY <1>1 DEF InterruptInv
<1> QED
    BY <1>1, <1>2 DEF InterruptInv, Closed

\* Where the steps of the scheduler may leave the CPU.
LEMMA NextCurrent ==
    ASSUME NEW st, NEW tk, NEW la, Schedule(st, tk, la)
    PROVE  current' \in Threads
BY TaskSearchResult, Constants DEF Schedule

\* No step of the scheduler breaks what is known of IF and of the switched-out
\* threads.
LEMMA InterruptInvNext ==
    ASSUME TypeOK, InterruptInv, Next, UNCHANGED saved
    PROVE  InterruptInv'
<1>0. /\ pc \in [Threads -> Labels] /\ trap \in [Threads -> {"none", "irq", "iret"}]
      /\ current \in Threads /\ intr \in BOOLEAN
    BY DEF TypeOK
<1>1. CASE AcceptInterrupt
    <2>1. trap[current] = "none" /\ pc[current] \notin Closed
        BY <1>0, <1>1 DEF AcceptInterrupt, InterruptInv
    <2>2. pc'[current] \notin Closed /\ \A t \in Threads \ {current} : pc'[t] = pc[t]
        BY <1>0, <1>1, <2>1 DEF AcceptInterrupt, Closed
    <2>3. trap'[current] = "irq" /\ \A t \in Threads \ {current} : trap'[t] = trap[t]
        BY <1>0, <1>1 DEF AcceptInterrupt
    <2> QED
        BY <1>0, <1>1, <2>2, <2>3 DEF AcceptInterrupt, InterruptInv
<1>2. ASSUME NEW t \in Tasks, Start(t)
      PROVE  InterruptInv'
    <2>1. pc'[t] \notin Closed /\ \A u \in Threads \ {t} : pc'[u] = pc[u]
        BY <1>0, <1>2, Constants DEF Start, Goto, Closed
    <2> QED
        BY <1>0, <1>2, <2>1, Constants DEF Start, AtLabel, InterruptInv, taskVars
<1>3. ASSUME NEW t \in Threads, InterruptExit(t)
      PROVE  InterruptInv'
    <2>1. trap'[t] = "none" /\ \A u \in Threads \ {t} : trap'[u] = trap[u]
        BY <1>0, <1>3 DEF InterruptExit
    <2> QED
        BY <1>0, <1>3, <2>1 DEF InterruptExit, InterruptInv
<1>4. CASE Halt
    <2>1. pc'[Idle] = "hlt" /\ \A u \in Threads \ {Idle} : pc'[u] = pc[u]
        BY <1>0, <1>4, Constants DEF Halt, Goto
    <2> QED
        BY <1>0, <1>4, <2>1, Constants DEF Halt, AtLabel, InterruptInv, Closed
<1>5. CASE IdleYield
    <2>1. pc'[Idle] = "idle" /\ \A u \in Threads \ {Idle} : pc'[u] = pc[u]
        BY <1>0, <1>5, Constants DEF IdleYield, Goto
    <2>2. current = Idle /\ pc[Idle] = "yield"
        BY <1>5 DEF IdleYield, AtLabel
    <2>3. ~intr' /\ trap' = [trap EXCEPT ![current] = "iret"] /\ current' \in Threads
        BY <1>5, <2>2, NextCurrent DEF IdleYield, Int80
    <2> QED
        BY <2>1, <2>2, <2>3, InterruptInvSwitch DEF Closed
<1>6. ASSUME NEW t \in Tasks, SystemCall(t)
      PROVE  InterruptInv'
    <2>1. current = t /\ pc[t] = "user" /\ Int80(t) /\ pc' = pc
        BY <1>6 DEF SystemCall, TaskYield, TaskSleep, TestBlock, TestUnblock, AtLabel
    <2>2. current' \in Threads
        BY <1>0, <1>6, NextCurrent
        DEF SystemCall, TaskYield, TaskSleep, TestBlock, TestUnblock, TaskBlock
    <2>3. ~intr' /\ trap' = [trap EXCEPT ![current] = "iret"]
        BY <2>1 DEF Int80
    <2> QED
        BY <2>1, <2>2, <2>3, InterruptInvSwitch DEF Closed
<1>7. CASE ClockHandler
    <2>1. /\ trap[current] = "irq" /\ trap' = [trap EXCEPT ![current] = "iret"]
          /\ UNCHANGED <<intr, pc>>
        BY <1>7 DEF ClockHandler
    <2>2. current' \in Threads
        BY <1>0, <1>7, NextCurrent DEF ClockHandler
    <2>3. ~intr' /\ pc[current] \notin Closed
        BY <1>0, <2>1 DEF InterruptInv
    <2> QED
        BY <2>1, <2>2, <2>3, InterruptInvSwitch
<1> QED
    BY <1>1, <1>2, <1>3, <1>4, <1>5, <1>6, <1>7 DEF Next, CpuStep

\* The scheduler as a whole, next to a lock that it does not touch.
LEMMA MutexInvNext ==
    ASSUME MutexInv, Next, UNCHANGED lockVars
    PROVE  MutexInv'
<1>1. TaskInv'
    BY TaskInvStep DEF MutexInv
<1>2. LockTypeOK'
    BY <1>1 DEF MutexInv, TaskInv, LockTypeOK, lockVars
<1>3. InterruptInv'
    BY InterruptInvNext DEF MutexInv, TaskInv, lockVars
<1>4. LockInv'
    <2>1. \A t \in Users : /\ \A label \in MutexLabels : pc'[t] = label <=> pc[t] = label
                           /\ pc[t] = "user" => pc'[t] = "user"
        BY LockLabelsKept DEF MutexInv, TaskInv
    <2>2. \A t \in Users : Inside(t)' <=> Inside(t)
        BY <2>1 DEF Inside, lockVars, MutexLabels
    <2>3. \A t \in Users :
            /\ pc'[t] \in MutexLabels \ CountLabels => pc[t] \in MutexLabels \ CountLabels
            /\ pc'[t] \in CountLabels => pc[t] \in CountLabels
            /\ \A label \in CountLabels \cup
                            {"m_take", "own", "own_assert", "own_repeat", "clear",
                             "clear_repeat", "m_unlock", "m_release"} :
                    pc'[t] = label => pc[t] = label
        BY <2>1 DEF MutexLabels, CountLabels
    <2> QED
        BY <2>2, <2>3 DEF MutexInv, LockInv, lockVars, CountLabels
<1> QED
    BY <1>1, <1>2, <1>3, <1>4 DEF MutexInv

-----------------------------------------------------------------------------
(* Steps of the lock *)

\* What a step of thread t inside mutex.c sees of the scheduler.
LEMMA PlainStep ==
    ASSUME TaskInv, NEW t \in Users, AtLabel(t, pc[t]), NEW label \in Labels,
           Goto(t, label), Undisturbed, intr' \in BOOLEAN
    PROVE  TaskInv'
<1>1. pc' \in [Threads -> Labels]
    BY DEF TaskInv, TypeOK, Goto
<1> QED
    BY <1>1, TaskInvLocal DEF TaskInv, TypeOK, Undisturbed, taskVars

\* A step with interrupts on: from one open label to another.
LEMMA OpenStep ==
    ASSUME TypeOK, InterruptInv, NEW t \in Users, NEW label,
           Goto(t, label), label \notin Closed,
           AtLabel(t, pc[t]), pc[t] \notin Closed,
           Undisturbed, UNCHANGED <<intr, saved>>
    PROVE  InterruptInv'
<1>1. pc'[t] = label /\ \A u \in Threads \ {t} : pc'[u] = pc[u]
    BY LockConstants DEF TypeOK, Goto
<1> QED
    BY <1>1, LockConstants DEF InterruptInv, AtLabel, Undisturbed

\* The remaining facts about pc and its reader: at most one thread is inside,
\* and a step of t moves no other.
LEMMA MutexInvUnfold ==
    ASSUME MutexInv, NEW t \in Users
    PROVE  /\ TypeOK /\ TaskInv /\ InterruptInv /\ LockInv
           /\ pc \in [Threads -> Labels] /\ t \in Threads
           /\ trap \in [Threads -> {"none", "irq", "iret"}]
           /\ value \in BOOLEAN /\ holder \in Tasks \cup {NULL}
           /\ repeat \in 0 .. WORD - 1 /\ repeat \in Int
           /\ read \in [Threads -> 0 .. WORD - 1] /\ saved \in [Threads -> BOOLEAN]
           /\ depth \in [Threads -> 0 .. MaxDepth] /\ depth[t] \in 0 .. MaxDepth
           /\ intr \in BOOLEAN
           /\ \A u \in Users : depth[u] \in Int
<1>1. t \in Threads /\ MaxDepth \in Nat /\ WORD \in Nat
    BY LockConstants, Constants
<1>2. /\ pc \in [Threads -> Labels] /\ intr \in BOOLEAN
      /\ trap \in [Threads -> {"none", "irq", "iret"}]
    BY DEF MutexInv, LockTypeOK, TypeOK
<1>3. /\ depth \in [Threads -> 0 .. MaxDepth] /\ repeat \in 0 .. WORD - 1
    BY DEF MutexInv, LockTypeOK
<1>4. \A u \in Users : depth[u] \in 0 .. MaxDepth
    BY <1>3, LockConstants
<1>5. repeat \in Int /\ \A u \in Users : depth[u] \in Int
    BY <1>1, <1>3, <1>4
<1> QED
    BY <1>1, <1>2, <1>3, <1>4, <1>5 DEF MutexInv, LockTypeOK

\* spin_lock's read of holder: a thread finds itself there exactly when the
\* lock is its own.
LEMMA MutexInvSpinTest ==
    ASSUME MutexInv, NEW t \in Users, SpinTest(t) PROVE MutexInv'
<1>1. PICK label \in {"m_lock", "again"} :
        /\ Goto(t, label)
        /\ label = "again" <=> holder = t
    BY DEF SpinTest
<1>2. /\ AtLabel(t, pc[t]) /\ pc[t] = "user" /\ depth[t] < MaxDepth
      /\ Undisturbed /\ UNCHANGED <<intr, lockVars>>
    BY DEF SpinTest, AtLabel
<1>3. label \in Labels /\ label \notin Closed
    BY LockConstants DEF MutexLabels, CountLabels, Closed
<1>4. TaskInv'
    BY <1>1, <1>2, <1>3, PlainStep, MutexInvUnfold
<1>5. LockTypeOK'
    BY <1>2, <1>4 DEF MutexInv, TaskInv, LockTypeOK, lockVars
<1>6. InterruptInv'
    BY <1>1, <1>2, <1>3, OpenStep, MutexInvUnfold DEF lockVars, Closed
<1>7. LockInv'
    <2>1. pc'[t] = label /\ \A u \in Users \ {t} : pc'[u] = pc[u]
        BY <1>1, MutexInvUnfold, LockConstants DEF Goto
    <2>2. holder = t => depth[t] > 0
        BY <1>2, MutexInvUnfold, LockConstants DEF LockInv, Inside
    <2>3. \A u \in Users : Inside(u)' <=> Inside(u)
        BY <1>2, <2>1 DEF Inside, lockVars
    <2> QED
        BY <1>1, <1>2, <2>1, <2>2, <2>3, MutexInvUnfold
        DEF LockInv, lockVars, MutexLabels, CountLabels
<1> QED
    BY <1>4, <1>5, <1>6, <1>7 DEF MutexInv

\* A step of the holder on its way through repeat++ or spin_unlock that writes
\* neither holder nor repeat: what it has read of repeat stays true, for nobody
\* else writes it.
LEMMA MutexInvCounting ==
    ASSUME MutexInv, NEW t \in Users, AtLabel(t, pc[t]), pc[t] \in CountLabels \cup {"user"},
           depth[t] > 0, NEW label \in CountLabels, Goto(t, label),
           Undisturbed, UNCHANGED <<intr, value, holder, repeat, saved, depth>>,
           read' \in [Threads -> 0 .. WORD - 1],
           \A u \in Threads \ {t} : read'[u] = read[u],
           label \in {"again", "again_store"} => depth[t] < MaxDepth,
           label \in {"again_store", "count_store"} => read'[t] = repeat,
           label \in {"count_down", "count_store"} => repeat > 1,
           label = "last" => repeat = 1
    PROVE  MutexInv'
<1>1. label \in Labels /\ label \notin Closed /\ pc[t] \notin Closed
    BY LockConstants DEF Closed, CountLabels
<1>2. TaskInv' /\ InterruptInv'
    BY <1>1, PlainStep, OpenStep, MutexInvUnfold
<1>3. LockTypeOK'
    BY <1>2 DEF MutexInv, TaskInv, LockTypeOK
<1>4. LockInv'
    <2>1. /\ pc'[t] = label
          /\ \A u \in Users \ {t} : pc'[u] = pc[u] /\ read'[u] = read[u]
        BY MutexInvUnfold, LockConstants DEF Goto
    <2>2. \A u \in Users : Inside(u)' <=> Inside(u)
        BY <2>1 DEF Inside
    <2>3. /\ holder = t /\ repeat = depth[t]
          /\ \A u \in Users \ {t} : ~(depth[u] > 0)
        BY MutexInvUnfold DEF LockInv, Inside
    <2> QED
        BY <2>1, <2>2, <2>3, MutexInvUnfold DEF LockInv, MutexLabels, CountLabels
<1> QED
    BY <1>2, <1>3, <1>4 DEF MutexInv

\* The read of lock->repeat++.
LEMMA MutexInvSpinAgain ==
    ASSUME MutexInv, NEW t \in Users, SpinAgain(t) PROVE MutexInv'
<1>1. /\ AtLabel(t, pc[t]) /\ pc[t] = "again" /\ Goto(t, "again_store")
      /\ read' = [read EXCEPT ![t] = repeat]
      /\ Undisturbed /\ UNCHANGED <<intr, value, holder, repeat, saved, depth>>
    BY DEF SpinAgain, AtLabel
<1>2. depth[t] > 0 /\ depth[t] < MaxDepth
    BY <1>1, MutexInvUnfold DEF LockInv, CountLabels
<1>3. /\ read' \in [Threads -> 0 .. WORD - 1] /\ read'[t] = repeat
      /\ \A u \in Threads \ {t} : read'[u] = read[u]
    BY <1>1, MutexInvUnfold
<1> QED
    BY <1>1, <1>2, <1>3, MutexInvCounting DEF CountLabels

\* Its write: the holder counts its own calls, and repeat is below MaxDepth
\* before, so that the u32 does not wrap.
LEMMA MutexInvSpinAgainStore ==
    ASSUME MutexInv, NEW t \in Users, SpinAgainStore(t) PROVE MutexInv'
<1>1. /\ AtLabel(t, pc[t]) /\ pc[t] = "again_store" /\ Goto(t, "user")
      /\ repeat' = (read[t] + 1) % WORD /\ read' = [read EXCEPT ![t] = 0]
      /\ depth' = [depth EXCEPT ![t] = @ + 1]
      /\ Undisturbed /\ UNCHANGED <<intr, value, holder, saved>>
    BY DEF SpinAgainStore, AtLabel
<1>2. /\ depth[t] > 0 /\ depth[t] < MaxDepth /\ holder = t
      /\ repeat = depth[t] /\ read[t] = depth[t]
    BY <1>1, MutexInvUnfold DEF LockInv, CountLabels
<1>3. /\ depth'[t] = depth[t] + 1 /\ repeat' = depth[t] + 1
      /\ \A u \in Threads \ {t} : depth'[u] = depth[u] /\ read'[u] = read[u]
      /\ depth' \in [Threads -> 0 .. MaxDepth] /\ repeat' \in 0 .. WORD - 1
      /\ read' \in [Threads -> 0 .. WORD - 1]
    <2>1. depth[t] + 1 \in 0 .. MaxDepth /\ depth[t] + 1 \in 0 .. WORD - 1
        BY <1>2, MutexInvUnfold, LockConstants, Constants
    <2>2. (depth[t] + 1) % WORD = depth[t] + 1
        BY <2>1, Constants
    <2>3. 0 \in 0 .. WORD - 1
        BY Constants
    <2> QED
        BY <1>1, <1>2, <2>1, <2>2, <2>3, MutexInvUnfold
<1>4. TaskInv' /\ InterruptInv'
    BY <1>1, PlainStep, OpenStep, MutexInvUnfold, LockConstants DEF Closed
<1>5. LockTypeOK'
    BY <1>1, <1>3, <1>4 DEF MutexInv, TaskInv, LockTypeOK
<1>6. LockInv'
    <2>1. /\ pc'[t] = "user"
          /\ \A u \in Users \ {t} : pc'[u] = pc[u] /\ depth'[u] = depth[u] /\ read'[u] = read[u]
        BY <1>1, <1>3, MutexInvUnfold, LockConstants DEF Goto
    <2>2. Inside(t) /\ Inside(t)' /\ \A u \in Users \ {t} : Inside(u)' <=> Inside(u)
        BY <1>2, <1>3, <2>1, MutexInvUnfold DEF Inside
    <2>3. \A u \in Users \ {t} : ~Inside(u)
        BY <2>2, MutexInvUnfold DEF LockInv
    <2> QED
        BY <1>1, <1>2, <1>3, <2>1, <2>2, <2>3, MutexInvUnfold
        DEF LockInv, Inside, MutexLabels, CountLabels
<1> QED
    BY <1>4, <1>5, <1>6 DEF MutexInv

\* lock->holder = current, after the mutex has been taken.
LEMMA MutexInvSpinOwn ==
    ASSUME MutexInv, NEW t \in Users, SpinOwn(t) PROVE MutexInv'
<1>1. /\ AtLabel(t, pc[t]) /\ pc[t] = "own" /\ Goto(t, "own_assert")
      /\ holder' = t
      /\ Undisturbed /\ UNCHANGED <<intr, value, repeat, read, saved, depth>>
    BY DEF SpinOwn, AtLabel
<1>2. "own_assert" \in Labels
    BY LockConstants DEF MutexLabels
<1>3. TaskInv' /\ InterruptInv'
    BY <1>1, <1>2, PlainStep, OpenStep, MutexInvUnfold DEF Closed
<1>4. LockTypeOK'
    BY <1>1, <1>3, LockConstants DEF MutexInv, TaskInv, LockTypeOK
<1>5. LockInv'
    <2>1. pc'[t] = "own_assert" /\ \A u \in Users \ {t} : pc'[u] = pc[u]
        BY <1>1, MutexInvUnfold, LockConstants DEF Goto
    <2>2. Inside(t) /\ Inside(t)' /\ \A u \in Users \ {t} : Inside(u)' <=> Inside(u)
        BY <1>1, <2>1 DEF Inside
    <2>3. \A u \in Users \ {t} : ~Inside(u)
        BY <2>2, MutexInvUnfold DEF LockInv
    <2> QED
        BY <1>1, <2>1, <2>2, <2>3, MutexInvUnfold DEF LockInv, Inside, CountLabels
<1> QED
    BY <1>3, <1>4, <1>5 DEF MutexInv

\* assert(lock->repeat == 0).
LEMMA MutexInvSpinAssert ==
    ASSUME MutexInv, NEW t \in Users, SpinAssert(t) PROVE MutexInv'
<1>1. /\ AtLabel(t, pc[t]) /\ pc[t] = "own_assert" /\ Goto(t, "own_repeat")
      /\ Undisturbed /\ UNCHANGED <<intr, lockVars>>
    BY DEF SpinAssert, AtLabel
<1>2. "own_repeat" \in Labels
    BY LockConstants DEF MutexLabels
<1>3. TaskInv' /\ InterruptInv'
    BY <1>1, <1>2, PlainStep, OpenStep, MutexInvUnfold DEF Closed, lockVars
<1>4. LockTypeOK'
    BY <1>1, <1>3 DEF MutexInv, TaskInv, LockTypeOK, lockVars
<1>5. LockInv'
    <2>1. pc'[t] = "own_repeat" /\ \A u \in Users \ {t} : pc'[u] = pc[u]
        BY <1>1, MutexInvUnfold, LockConstants DEF Goto
    <2>2. \A u \in Users : Inside(u)' <=> Inside(u)
        BY <1>1, <2>1 DEF Inside, lockVars
    <2> QED
        BY <1>1, <2>1, <2>2, MutexInvUnfold DEF LockInv, lockVars, MutexLabels, CountLabels
<1> QED
    BY <1>3, <1>4, <1>5 DEF MutexInv

\* lock->repeat = 1: nobody else has touched the count since it was reset.
LEMMA MutexInvSpinFirst ==
    ASSUME MutexInv, NEW t \in Users, SpinFirst(t) PROVE MutexInv'
<1>1. /\ AtLabel(t, pc[t]) /\ pc[t] = "own_repeat" /\ Goto(t, "user")
      /\ repeat' = 1 /\ depth' = [depth EXCEPT ![t] = @ + 1]
      /\ Undisturbed /\ UNCHANGED <<intr, value, holder, read, saved>>
    BY DEF SpinFirst, AtLabel
<1>2. holder = t /\ depth[t] = 0
    BY <1>1, MutexInvUnfold, LockConstants DEF LockInv, MutexLabels, CountLabels
<1>3. /\ depth'[t] = 1 /\ \A u \in Threads \ {t} : depth'[u] = depth[u]
      /\ depth' \in [Threads -> 0 .. MaxDepth]
    BY <1>1, <1>2, MutexInvUnfold, LockConstants
<1>4. TaskInv' /\ InterruptInv'
    BY <1>1, PlainStep, OpenStep, MutexInvUnfold, LockConstants DEF Closed
<1>5. LockTypeOK'
    BY <1>1, <1>3, <1>4, Constants DEF MutexInv, TaskInv, LockTypeOK
<1>6. LockInv'
    <2>1. pc'[t] = "user" /\ \A u \in Users \ {t} : pc'[u] = pc[u] /\ depth'[u] = depth[u]
        BY <1>1, <1>3, MutexInvUnfold, LockConstants DEF Goto
    <2>2. Inside(t) /\ Inside(t)' /\ \A u \in Users \ {t} : Inside(u)' <=> Inside(u)
        BY <1>1, <1>3, <2>1 DEF Inside
    <2>3. \A u \in Users \ {t} : ~Inside(u)
        BY <2>2, MutexInvUnfold DEF LockInv
    <2> QED
        BY <1>1, <1>2, <1>3, <2>1, <2>2, <2>3, MutexInvUnfold DEF LockInv, Inside, MutexLabels, CountLabels
<1> QED
    BY <1>4, <1>5, <1>6 DEF MutexInv

\* assert(lock->holder == current).
LEMMA MutexInvSpinUnlock ==
    ASSUME MutexInv, NEW t \in Users, SpinUnlock(t) PROVE MutexInv'
<1>1. /\ AtLabel(t, pc[t]) /\ pc[t] = "user" /\ depth[t] > 0 /\ Goto(t, "count")
      /\ Undisturbed /\ UNCHANGED <<intr, lockVars>>
    BY DEF SpinUnlock, AtLabel
<1> QED
    BY <1>1, MutexInvUnfold, MutexInvCounting DEF CountLabels, lockVars

\* The test of repeat: the call to be undone is an inner one or the last.
LEMMA MutexInvSpinCount ==
    ASSUME MutexInv, NEW t \in Users, SpinCount(t) PROVE MutexInv'
<1>1. /\ AtLabel(t, pc[t]) /\ pc[t] = "count"
      /\ Undisturbed /\ UNCHANGED <<intr, lockVars>>
    BY DEF SpinCount, AtLabel
<1>2. depth[t] > 0 /\ repeat = depth[t] /\ depth[t] \in Int
    BY <1>1, MutexInvUnfold DEF LockInv, CountLabels
<1>3. PICK label \in {"count_down", "last"} :
        /\ Goto(t, label)
        /\ label = "count_down" => repeat > 1
        /\ label = "last" => repeat = 1
    BY <1>2 DEF SpinCount
<1> QED
    BY <1>1, <1>2, <1>3, MutexInvUnfold, MutexInvCounting DEF CountLabels, lockVars

\* The read of lock->repeat--.
LEMMA MutexInvSpinDown ==
    ASSUME MutexInv, NEW t \in Users, SpinDown(t) PROVE MutexInv'
<1>1. /\ AtLabel(t, pc[t]) /\ pc[t] = "count_down" /\ Goto(t, "count_store")
      /\ read' = [read EXCEPT ![t] = repeat]
      /\ Undisturbed /\ UNCHANGED <<intr, value, holder, repeat, saved, depth>>
    BY DEF SpinDown, AtLabel
<1>2. depth[t] > 0 /\ repeat > 1
    BY <1>1, MutexInvUnfold DEF LockInv, CountLabels
<1>3. /\ read' \in [Threads -> 0 .. WORD - 1] /\ read'[t] = repeat
      /\ \A u \in Threads \ {t} : read'[u] = read[u]
    BY <1>1, MutexInvUnfold
<1> QED
    BY <1>1, <1>2, <1>3, MutexInvCounting DEF CountLabels

\* Its write: one call less, and at least one left.
LEMMA MutexInvSpinDownStore ==
    ASSUME MutexInv, NEW t \in Users, SpinDownStore(t) PROVE MutexInv'
<1>1. /\ AtLabel(t, pc[t]) /\ pc[t] = "count_store" /\ Goto(t, "user")
      /\ repeat' = (read[t] - 1) % WORD /\ read' = [read EXCEPT ![t] = 0]
      /\ depth' = [depth EXCEPT ![t] = @ - 1]
      /\ Undisturbed /\ UNCHANGED <<intr, value, holder, saved>>
    BY DEF SpinDownStore, AtLabel
<1>2. /\ depth[t] > 1 /\ holder = t /\ repeat = depth[t] /\ read[t] = depth[t]
    BY <1>1, MutexInvUnfold DEF LockInv, CountLabels
<1>3. /\ depth'[t] = depth[t] - 1 /\ repeat' = depth[t] - 1 /\ depth[t] - 1 > 0
      /\ \A u \in Threads \ {t} : depth'[u] = depth[u] /\ read'[u] = read[u]
      /\ depth' \in [Threads -> 0 .. MaxDepth] /\ repeat' \in 0 .. WORD - 1
      /\ read' \in [Threads -> 0 .. WORD - 1]
    <2>1. /\ depth[t] - 1 \in 0 .. MaxDepth /\ depth[t] - 1 \in 0 .. WORD - 1
          /\ depth[t] - 1 > 0
        BY <1>2, MutexInvUnfold, LockConstants, Constants
    <2>2. (depth[t] - 1) % WORD = depth[t] - 1
        BY <2>1, Constants
    <2>3. 0 \in 0 .. WORD - 1
        BY Constants
    <2> QED
        BY <1>1, <1>2, <2>1, <2>2, <2>3, MutexInvUnfold
<1>4. TaskInv' /\ InterruptInv'
    BY <1>1, PlainStep, OpenStep, MutexInvUnfold, LockConstants DEF Closed
<1>5. LockTypeOK'
    BY <1>1, <1>3, <1>4 DEF MutexInv, TaskInv, LockTypeOK
<1>6. LockInv'
    <2>1. /\ pc'[t] = "user"
          /\ \A u \in Users \ {t} : pc'[u] = pc[u] /\ depth'[u] = depth[u] /\ read'[u] = read[u]
        BY <1>1, <1>3, MutexInvUnfold, LockConstants DEF Goto
    <2>2. Inside(t) /\ Inside(t)' /\ \A u \in Users \ {t} : Inside(u)' <=> Inside(u)
        BY <1>1, <1>3, <2>1, MutexInvUnfold DEF Inside, LockInv, CountLabels
    <2>3. \A u \in Users \ {t} : ~Inside(u)
        BY <2>2, MutexInvUnfold DEF LockInv
    <2> QED
        BY <1>1, <1>2, <1>3, <2>1, <2>2, <2>3, MutexInvUnfold
        DEF LockInv, Inside, MutexLabels, CountLabels
<1> QED
    BY <1>4, <1>5, <1>6 DEF MutexInv

\* assert(lock->repeat == 1): the last call begins to be undone.
LEMMA MutexInvSpinLast ==
    ASSUME MutexInv, NEW t \in Users, SpinLast(t) PROVE MutexInv'
<1>1. /\ AtLabel(t, pc[t]) /\ pc[t] = "last" /\ Goto(t, "clear")
      /\ depth' = [depth EXCEPT ![t] = @ - 1]
      /\ Undisturbed /\ UNCHANGED <<intr, value, holder, repeat, read, saved>>
    BY DEF SpinLast, AtLabel
<1>2. "clear" \in Labels
    BY LockConstants DEF MutexLabels
<1>3. holder = t /\ repeat = 1 /\ depth[t] = 1
    BY <1>1, MutexInvUnfold DEF LockInv, CountLabels
<1>4. /\ depth'[t] = 0 /\ \A u \in Threads \ {t} : depth'[u] = depth[u]
      /\ depth' \in [Threads -> 0 .. MaxDepth]
    BY <1>1, <1>3, MutexInvUnfold, LockConstants
<1>5. TaskInv' /\ InterruptInv'
    BY <1>1, <1>2, PlainStep, OpenStep, MutexInvUnfold DEF Closed
<1>6. LockTypeOK'
    BY <1>1, <1>4, <1>5 DEF MutexInv, TaskInv, LockTypeOK
<1>7. LockInv'
    <2>1. pc'[t] = "clear" /\ \A u \in Users \ {t} : pc'[u] = pc[u] /\ depth'[u] = depth[u]
        BY <1>1, <1>4, MutexInvUnfold, LockConstants DEF Goto
    <2>2. Inside(t) /\ Inside(t)' /\ \A u \in Users \ {t} : Inside(u)' <=> Inside(u)
        BY <1>3, <2>1 DEF Inside
    <2>3. \A u \in Users \ {t} : ~Inside(u)
        BY <2>2, MutexInvUnfold DEF LockInv
    <2> QED
        BY <1>1, <1>3, <1>4, <2>1, <2>2, <2>3, MutexInvUnfold
        DEF LockInv, Inside, MutexLabels, CountLabels
<1> QED
    BY <1>5, <1>6, <1>7 DEF MutexInv

\* lock->holder = NULL, while the mutex still keeps the others out.
LEMMA MutexInvSpinDisown ==
    ASSUME MutexInv, NEW t \in Users, SpinDisown(t) PROVE MutexInv'
<1>1. /\ AtLabel(t, pc[t]) /\ pc[t] = "clear" /\ Goto(t, "clear_repeat")
      /\ holder' = NULL
      /\ Undisturbed /\ UNCHANGED <<intr, value, repeat, read, saved, depth>>
    BY DEF SpinDisown, AtLabel
<1>2. "clear_repeat" \in Labels
    BY LockConstants DEF MutexLabels
<1>3. TaskInv' /\ InterruptInv'
    BY <1>1, <1>2, PlainStep, OpenStep, MutexInvUnfold DEF Closed
<1>4. LockTypeOK'
    BY <1>1, <1>3 DEF MutexInv, TaskInv, LockTypeOK
<1>5. LockInv'
    <2>1. pc'[t] = "clear_repeat" /\ \A u \in Users \ {t} : pc'[u] = pc[u]
        BY <1>1, MutexInvUnfold, LockConstants DEF Goto
    <2>2. Inside(t) /\ Inside(t)' /\ \A u \in Users \ {t} : Inside(u)' <=> Inside(u)
        BY <1>1, <2>1 DEF Inside
    <2>3. \A u \in Users \ {t} : ~Inside(u)
        BY <2>2, MutexInvUnfold DEF LockInv, CountLabels
    <2> QED
        BY <1>1, <2>1, <2>2, <2>3, MutexInvUnfold DEF LockInv, Inside, MutexLabels, CountLabels
<1> QED
    BY <1>3, <1>4, <1>5 DEF MutexInv

\* lock->repeat = 0, before mutex_unlock lets anybody else in.
LEMMA MutexInvSpinReset ==
    ASSUME MutexInv, NEW t \in Users, SpinReset(t) PROVE MutexInv'
<1>1. /\ AtLabel(t, pc[t]) /\ pc[t] = "clear_repeat" /\ Goto(t, "m_unlock")
      /\ repeat' = 0
      /\ Undisturbed /\ UNCHANGED <<intr, value, holder, read, saved, depth>>
    BY DEF SpinReset, AtLabel
<1>2. "m_unlock" \in Labels
    BY LockConstants DEF MutexLabels
<1>3. TaskInv' /\ InterruptInv'
    BY <1>1, <1>2, PlainStep, OpenStep, MutexInvUnfold DEF Closed
<1>4. LockTypeOK'
    BY <1>1, <1>3, Constants DEF MutexInv, TaskInv, LockTypeOK
<1>5. LockInv'
    <2>1. pc'[t] = "m_unlock" /\ \A u \in Users \ {t} : pc'[u] = pc[u]
        BY <1>1, MutexInvUnfold, LockConstants DEF Goto
    <2>2. Inside(t) /\ Inside(t)' /\ \A u \in Users \ {t} : Inside(u)' <=> Inside(u)
        BY <1>1, <2>1 DEF Inside
    <2>3. \A u \in Users \ {t} : ~Inside(u)
        BY <2>2, MutexInvUnfold DEF LockInv, CountLabels
    <2> QED
        BY <1>1, <2>1, <2>2, <2>3, MutexInvUnfold DEF LockInv, Inside, MutexLabels, CountLabels
<1> QED
    BY <1>3, <1>4, <1>5 DEF MutexInv

\* A step into or out of the part with interrupts off.
LEMMA FlagStep ==
    ASSUME TypeOK, InterruptInv, NEW t \in Users, NEW label,
           Goto(t, label), AtLabel(t, pc[t]), Undisturbed,
           intr' <=> label \notin Closed,
           label \in Closed => saved'[t],
           \A u \in Threads \ {t} : saved'[u] = saved[u]
    PROVE  InterruptInv'
<1>1. pc'[t] = label /\ \A u \in Threads \ {t} : pc'[u] = pc[u]
    BY LockConstants DEF TypeOK, Goto
<1> QED
    BY <1>1, LockConstants DEF InterruptInv, AtLabel, Undisturbed

\* interrupt_disable of mutex_lock: the thread called with IF = 1.
LEMMA MutexInvMutexLock ==
    ASSUME MutexInv, NEW t \in Users, MutexLock(t) PROVE MutexInv'
<1>1. /\ AtLabel(t, pc[t]) /\ pc[t] = "m_lock" /\ Goto(t, "m_test")
      /\ saved' = [saved EXCEPT ![t] = intr] /\ intr' = FALSE
      /\ Undisturbed /\ UNCHANGED <<value, holder, repeat, read, depth>>
    BY DEF MutexLock, InterruptDisable, AtLabel
<1>2. "m_test" \in Labels
    BY LockConstants DEF MutexLabels
<1>3. intr
    BY <1>1, MutexInvUnfold DEF InterruptInv, AtLabel, Closed
<1>4. /\ saved'[t] /\ \A u \in Threads \ {t} : saved'[u] = saved[u]
      /\ saved' \in [Threads -> BOOLEAN]
    BY <1>1, <1>3, MutexInvUnfold
<1>5. TaskInv' /\ InterruptInv'
    BY <1>1, <1>2, <1>4, PlainStep, FlagStep, MutexInvUnfold DEF Closed
<1>6. LockTypeOK'
    BY <1>1, <1>4, <1>5 DEF MutexInv, TaskInv, LockTypeOK
<1>7. LockInv'
    <2>1. pc'[t] = "m_test" /\ \A u \in Users \ {t} : pc'[u] = pc[u]
        BY <1>1, MutexInvUnfold, LockConstants DEF Goto
    <2>2. \A u \in Users : Inside(u)' <=> Inside(u)
        BY <1>1, <2>1 DEF Inside
    <2> QED
        BY <1>1, <2>1, <2>2, MutexInvUnfold DEF LockInv, MutexLabels, CountLabels
<1> QED
    BY <1>5, <1>6, <1>7 DEF MutexInv

\* The test of mutex_lock finds the mutex free; IF = 0 keeps it so.
LEMMA MutexInvMutexFree ==
    ASSUME MutexInv, NEW t \in Users, MutexFree(t) PROVE MutexInv'
<1>1. /\ AtLabel(t, pc[t]) /\ pc[t] = "m_test" /\ ~value /\ Goto(t, "m_take")
      /\ Undisturbed /\ UNCHANGED <<intr, lockVars>>
    BY DEF MutexFree, AtLabel
<1>2. "m_take" \in Labels
    BY LockConstants DEF MutexLabels
<1>3. ~intr /\ saved[t]
    BY <1>1, MutexInvUnfold DEF InterruptInv, AtLabel, Closed
<1>4. TaskInv' /\ InterruptInv'
    BY <1>1, <1>2, <1>3, PlainStep, FlagStep, MutexInvUnfold DEF Closed, lockVars
<1>5. LockTypeOK'
    BY <1>1, <1>4 DEF MutexInv, TaskInv, LockTypeOK, lockVars
<1>6. LockInv'
    <2>1. pc'[t] = "m_take" /\ \A u \in Users \ {t} : pc'[u] = pc[u]
        BY <1>1, MutexInvUnfold, LockConstants DEF Goto
    <2>2. \A u \in Users : Inside(u)' <=> Inside(u)
        BY <1>1, <2>1 DEF Inside, lockVars
    <2> QED
        BY <1>1, <2>1, <2>2, MutexInvUnfold DEF LockInv, lockVars, CountLabels
<1> QED
    BY <1>4, <1>5, <1>6 DEF MutexInv

\* mutex->value++: no other thread is between its test and its update.
LEMMA MutexInvMutexTake ==
    ASSUME MutexInv, NEW t \in Users, MutexTake(t) PROVE MutexInv'
<1>1. /\ AtLabel(t, pc[t]) /\ pc[t] = "m_take" /\ ~value /\ Goto(t, "own")
      /\ value' = TRUE /\ intr' = saved[t]
      /\ Undisturbed /\ UNCHANGED <<holder, repeat, read, saved, depth>>
    BY DEF MutexTake, AtLabel
<1>2. "own" \in Labels
    BY LockConstants DEF MutexLabels
<1>3. saved[t] = TRUE
    BY <1>1, MutexInvUnfold DEF InterruptInv, Closed
<1>4. TaskInv' /\ InterruptInv'
    BY <1>1, <1>2, <1>3, PlainStep, FlagStep, MutexInvUnfold DEF Closed
<1>5. LockTypeOK'
    BY <1>1, <1>4 DEF MutexInv, TaskInv, LockTypeOK
<1>6. LockInv'
    <2>1. pc'[t] = "own" /\ \A u \in Users \ {t} : pc'[u] = pc[u]
        BY <1>1, MutexInvUnfold, LockConstants DEF Goto
    <2>2. \A u \in Users \ {t} : ~Inside(u) /\ ~Inside(u)'
        BY <1>1, <2>1, MutexInvUnfold DEF LockInv, Inside, CountLabels
    <2>3. Inside(t)' /\ holder' = NULL /\ repeat' = 0 /\ depth[t] = 0
        BY <1>1, <2>1, MutexInvUnfold DEF LockInv, Inside, CountLabels
    <2>4. \A u \in Users \ {t} : pc[u] # "m_take"
        BY <1>1, MutexInvUnfold, LockConstants DEF InterruptInv, AtLabel, Closed
    <2> QED
        BY <1>1, <2>1, <2>2, <2>3, <2>4, MutexInvUnfold DEF LockInv, Inside, CountLabels
<1> QED
    BY <1>4, <1>5, <1>6 DEF MutexInv

\* interrupt_disable of mutex_unlock.
LEMMA MutexInvMutexUnlock ==
    ASSUME MutexInv, NEW t \in Users, MutexUnlock(t) PROVE MutexInv'
<1>1. /\ AtLabel(t, pc[t]) /\ pc[t] = "m_unlock" /\ Goto(t, "m_release")
      /\ saved' = [saved EXCEPT ![t] = intr] /\ intr' = FALSE
      /\ Undisturbed /\ UNCHANGED <<value, holder, repeat, read, depth>>
    BY DEF MutexUnlock, InterruptDisable, AtLabel
<1>2. "m_release" \in Labels
    BY LockConstants DEF MutexLabels
<1>3. intr
    BY <1>1, MutexInvUnfold DEF InterruptInv, AtLabel, Closed
<1>4. /\ saved'[t] /\ \A u \in Threads \ {t} : saved'[u] = saved[u]
      /\ saved' \in [Threads -> BOOLEAN]
    BY <1>1, <1>3, MutexInvUnfold
<1>5. TaskInv' /\ InterruptInv'
    BY <1>1, <1>2, <1>4, PlainStep, FlagStep, MutexInvUnfold DEF Closed
<1>6. LockTypeOK'
    BY <1>1, <1>4, <1>5 DEF MutexInv, TaskInv, LockTypeOK
<1>7. LockInv'
    <2>1. pc'[t] = "m_release" /\ \A u \in Users \ {t} : pc'[u] = pc[u]
        BY <1>1, MutexInvUnfold, LockConstants DEF Goto
    <2>2. \A u \in Users : Inside(u)' <=> Inside(u)
        BY <1>1, <2>1 DEF Inside
    <2> QED
        BY <1>1, <2>1, <2>2, MutexInvUnfold DEF LockInv, CountLabels
<1> QED
    BY <1>5, <1>6, <1>7 DEF MutexInv

\* set_interrupt_state at the end of mutex_unlock.
LEMMA MutexInvMutexRestore ==
    ASSUME MutexInv, NEW t \in Users, MutexRestore(t) PROVE MutexInv'
<1>1. /\ AtLabel(t, pc[t]) /\ pc[t] = "m_restore" /\ Goto(t, "user")
      /\ intr' = saved[t] /\ Undisturbed /\ UNCHANGED lockVars
    BY DEF MutexRestore, AtLabel
<1>2. saved[t] = TRUE
    BY <1>1, MutexInvUnfold DEF InterruptInv, Closed
<1>3. TaskInv' /\ InterruptInv'
    BY <1>1, <1>2, PlainStep, FlagStep, MutexInvUnfold, LockConstants
    DEF Closed, lockVars
<1>4. LockTypeOK'
    BY <1>1, <1>3 DEF MutexInv, TaskInv, LockTypeOK, lockVars
<1>5. LockInv'
    <2>1. pc'[t] = "user" /\ \A u \in Users \ {t} : pc'[u] = pc[u]
        BY <1>1, MutexInvUnfold, LockConstants DEF Goto
    <2>2. \A u \in Users : Inside(u)' <=> Inside(u)
        BY <1>1, <2>1 DEF Inside, lockVars
    <2>3. depth[t] = 0
        BY <1>1, MutexInvUnfold DEF LockInv, MutexLabels, CountLabels
    <2> QED
        BY <1>1, <2>1, <2>2, <2>3, MutexInvUnfold DEF LockInv, lockVars, CountLabels
<1> QED
    BY <1>3, <1>4, <1>5 DEF MutexInv

\* A switch out of mutex_lock or mutex_unlock, at which IF stays off.
LEMMA QuietSwitch ==
    ASSUME TypeOK, InterruptInv, NEW t \in Users, AtLabel(t, pc[t]),
           pc[t] \in Closed \ {"start"}, current' \in Threads,
           UNCHANGED <<intr, trap, saved>>,
           pc'[t] \in {"m_test", "m_restore"},
           \A u \in Threads \ {t} : pc'[u] = pc[u]
    PROVE  InterruptInv'
BY LockConstants DEF InterruptInv, AtLabel, Closed, TypeOK

\* task_block in mutex_lock: the caller joins the waiters.
LEMMA MutexInvMutexWait ==
    ASSUME MutexInv, NEW t \in Users, MutexWait(t) PROVE MutexInv'
<1>1. /\ AtLabel(t, pc[t]) /\ pc[t] = "m_test" /\ current = t
      /\ TaskBlock("waiters", "blocked")
      /\ UNCHANGED <<jiffies, blocked, intr, in_service, trap, pc, lockVars>>
    BY DEF MutexWait, AtLabel
<1>2. /\ TypeOK /\ OneRunning /\ ListsMatchStates /\ SlotIsBlocked /\ IdleCanRun
    BY DEF MutexInv, TaskInv
<1>3. /\ current' \in Tasks
      /\ state' \in [Threads -> States]
      /\ ticks' \in [Threads -> 0 .. WORD - 1]
      /\ last' \in [Threads -> 0 .. WORD - 1]
      /\ lists' \in [ListNames -> Seq(Tasks)]
      /\ \A l \in ListNames \ {"waiters"} : lists'[l] = lists[l]
      /\ OneRunning' /\ IdleCanRun' /\ ListsMatchStates'
    BY <1>1, <1>2, LockConstants, TaskBlockStep
<1>4. SlotIsBlocked'
    <2>1. lists'["block"] = lists["block"]
        BY <1>3, LockConstants, Constants
    <2> QED
        BY <1>1, <1>2, <2>1 DEF SlotIsBlocked
<1>5. TypeOK'
    BY <1>1, <1>2, <1>3, Constants DEF TypeOK
<1>6. TaskInv'
    BY <1>3, <1>4, <1>5 DEF TaskInv
<1>7. LockTypeOK'
    BY <1>1, <1>5 DEF MutexInv, LockTypeOK, lockVars
<1>8. InterruptInv'
    BY <1>1, <1>3, QuietSwitch, MutexInvUnfold, Constants DEF Closed, lockVars
<1>9. LockInv'
    BY <1>1 DEF MutexInv, LockInv, Inside, lockVars
<1> QED
    BY <1>6, <1>7, <1>8, <1>9 DEF MutexInv

\* task_unblock(the first waiter) and task_yield.
LEMMA WakeStep ==
    ASSUME TaskInv, WakeFirstWaiter, lists["waiters"] # <<>>,
           UNCHANGED <<jiffies, blocked, intr, in_service, trap>>,
           pc' \in [Threads -> Labels]
    PROVE  TaskInv' /\ current' \in Threads
<1> DEFINE w  == FirstWaiter
           st == [state EXCEPT ![w] = "ready"]
<1>1. /\ TypeOK /\ OneRunning /\ ListsMatchStates /\ SlotIsBlocked /\ IdleCanRun
      /\ lists' = [l \in ListNames |-> RemoveFirst(lists[l], w)]
      /\ Schedule(st, ticks, last)
    BY DEF TaskInv, WakeFirstWaiter, ListRemove
<1>2. w \in Tasks /\ w \in ToSet(lists["waiters"])
    <2> DEFINE q == lists["waiters"]
    <2>1. q \in Seq(Tasks) /\ q # <<>>
        BY <1>1, LockConstants DEF TypeOK
    <2>2. w = q[Len(q)]
        BY DEF FirstWaiter, Last
    <2> HIDE DEF q, w
    <2>3. Len(q) \in 1 .. Len(q) /\ q[Len(q)] \in Tasks
        BY <2>1
    <2>4. w \in ToSet(q)
        BY <2>1, <2>2, <2>3, ToSetByIndex
    <2> QED
        BY <2>2, <2>3, <2>4 DEF q
<1> HIDE DEF w
<1>3. state[w] = "blocked" /\ w # Idle
    BY <1>1, <1>2, LockConstants DEF ListsMatchStates, IdleCanRun
<1>4. /\ st \in [Threads -> States]
      /\ st[w] = "ready"
      /\ \A u \in Threads \ {w} : st[u] = state[u]
    BY <1>1, <1>2, Constants DEF TypeOK, States
<1> HIDE DEF st
<1>5. /\ current' \in Tasks
      /\ state' \in [Threads -> States]
      /\ ticks' \in [Threads -> 0 .. WORD - 1]
      /\ last' \in [Threads -> 0 .. WORD - 1]
      /\ OneRunning' /\ IdleCanRun'
      /\ \A u \in Tasks : /\ state'[u] = "sleeping" <=> st[u] = "sleeping"
                          /\ state'[u] = "blocked" <=> st[u] = "blocked"
    <2>1. \A u \in Tasks : st[u] = "running" => u = current
        BY <1>1, <1>4, Constants DEF OneRunning
    <2>2. st[Idle] \in {"ready", "running"}
        BY <1>1, <1>3, <1>4, Constants DEF IdleCanRun
    <2> QED
        BY <1>1, <1>4, <2>1, <2>2, ScheduleStep DEF TypeOK
<1>6. \A l \in ListNames : /\ lists'[l] \in Seq(Tasks)
                           /\ ToSet(lists'[l]) = ToSet(lists[l]) \ {w}
                           /\ IsInjective(lists'[l])
    <2> SUFFICES ASSUME NEW l \in ListNames
                 PROVE  /\ RemoveFirst(lists[l], w) \in Seq(Tasks)
                        /\ ToSet(RemoveFirst(lists[l], w)) = ToSet(lists[l]) \ {w}
                        /\ IsInjective(RemoveFirst(lists[l], w))
        BY <1>1
    <2>1. lists[l] \in Seq(Tasks) /\ IsInjective(lists[l])
        BY <1>1 DEF TypeOK, ListsMatchStates
    <2> QED
        BY <2>1, RemoveFirstProperties
<1>7. ListsMatchStates'
    <2>1. {w} \in SUBSET Tasks
        BY <1>2
    <2>2. \A u \in Tasks \ {w} :
            /\ state'[u] = "sleeping" <=> state[u] = "sleeping"
            /\ state'[u] = "blocked" <=> state[u] = "blocked"
        BY <1>4, <1>5, Constants
    <2>3. state'[w] \notin {"sleeping", "blocked"}
        BY <1>2, <1>4, <1>5
    <2> QED
        BY <1>1, <1>6, <2>1, <2>2, <2>3, LeaveLists
<1>8. SlotIsBlocked'
    <2>1. w \notin ToSet(lists["block"])
        BY <1>1, <1>2, LockConstants, Constants DEF ListsMatchStates
    <2>2. ToSet(lists'["block"]) = ToSet(lists["block"])
        BY <1>6, <2>1, Constants
    <2> QED
        BY <1>1, <2>2 DEF SlotIsBlocked
<1>9. lists' \in [ListNames -> Seq(Tasks)]
    BY <1>1, <1>6
<1>10. TypeOK'
    BY <1>1, <1>5, <1>9, Constants DEF TypeOK
<1> QED
    BY <1>5, <1>7, <1>8, <1>10, Constants DEF TaskInv

\* mutex->value--: the lock is free before anybody is woken for it.
LEMMA MutexInvMutexRelease ==
    ASSUME MutexInv, NEW t \in Users, MutexRelease(t) PROVE MutexInv'
<1>1. /\ AtLabel(t, pc[t]) /\ pc[t] = "m_release" /\ Goto(t, "m_restore")
      /\ value' = FALSE /\ WakeFirstWaiter
      /\ UNCHANGED <<jiffies, blocked, intr, in_service, trap, holder, repeat,
                     read, saved, depth>>
    BY DEF MutexRelease, AtLabel
<1>2. /\ pc' \in [Threads -> Labels] /\ pc'[t] = "m_restore"
      /\ \A u \in Threads \ {t} : pc'[u] = pc[u]
    BY <1>1, MutexInvUnfold, LockConstants DEF Goto, MutexLabels
<1>3. TaskInv' /\ current' \in Threads
    <2>1. CASE lists["waiters"] = <<>>
        <3>1. UNCHANGED <<current, taskVars, jiffies>>
            BY <1>1, <2>1 DEF WakeFirstWaiter, taskVars
        <3> QED
            BY <1>1, <1>2, <3>1, TaskInvLocal, MutexInvUnfold DEF TypeOK
    <2>2. CASE lists["waiters"] # <<>>
        BY <1>1, <1>2, <2>2, WakeStep, MutexInvUnfold
    <2> QED
        BY <2>1, <2>2
<1>4. LockTypeOK'
    BY <1>1, <1>3 DEF MutexInv, TaskInv, LockTypeOK
<1>5. InterruptInv'
    BY <1>1, <1>2, <1>3, QuietSwitch, MutexInvUnfold DEF Closed
<1>6. LockInv'
    <2>1. Inside(t) /\ holder = NULL /\ repeat = 0 /\ depth[t] = 0
        BY <1>1, MutexInvUnfold DEF LockInv, Inside, CountLabels
    <2>2. \A u \in Users : ~Inside(u)'
        BY <1>1, <1>2, <2>1, MutexInvUnfold, LockConstants DEF LockInv, Inside, CountLabels
    <2> QED
        BY <1>1, <1>2, <2>1, <2>2, MutexInvUnfold, LockConstants DEF LockInv, Inside, CountLabels
<1> QED
    BY <1>3, <1>4, <1>5, <1>6 DEF MutexInv

-----------------------------------------------------------------------------
(* The theorems *)

\* No step of the lock, of the scheduler or of an interrupt breaks MutexInv.
LEMMA MutexInvStep == MutexInv /\ [MutexNext]_mutexVars => MutexInv'
<1> SUFFICES ASSUME MutexInv, [MutexNext]_mutexVars
             PROVE  MutexInv'
    OBVIOUS
<1>1. CASE UNCHANGED mutexVars
    <2>1. UNCHANGED vars /\ UNCHANGED lockVars
        BY <1>1 DEF mutexVars
    <2>2. TaskInv'
        BY <2>1, TaskInvStep DEF MutexInv
    <2>3. LockTypeOK'
        BY <2>1, <2>2 DEF MutexInv, TaskInv, LockTypeOK, lockVars
    <2> QED
        BY <2>1, <2>2, <2>3 DEF vars, lockVars, MutexInv, InterruptInv, LockInv, Inside
<1>2. CASE Next /\ UNCHANGED lockVars
    BY <1>2, MutexInvNext
<1>3. ASSUME NEW t \in Users, LockStep(t)
      PROVE  MutexInv'
    BY <1>3, MutexInvMutexLock, MutexInvMutexWait, MutexInvMutexFree,
       MutexInvMutexTake, MutexInvMutexUnlock, MutexInvMutexRelease,
       MutexInvMutexRestore, MutexInvSpinAgain, MutexInvSpinAgainStore,
       MutexInvSpinOwn, MutexInvSpinAssert, MutexInvSpinFirst, MutexInvSpinCount,
       MutexInvSpinDown, MutexInvSpinDownStore, MutexInvSpinLast,
       MutexInvSpinDisown, MutexInvSpinReset DEF LockStep
<1>4. ASSUME NEW t \in Users, SpinTest(t) \/ SpinUnlock(t)
      PROVE  MutexInv'
    BY <1>4, MutexInvSpinTest, MutexInvSpinUnlock
<1> QED
    BY <1>1, <1>2, <1>3, <1>4 DEF MutexNext

\* MutexInv holds throughout.
THEOREM MutexInvariant == MutexSpec => []MutexInv
BY MutexInvInit, MutexInvStep, PTL DEF MutexSpec

\* The types of the lock, of its count and of the flags saved around it.
THEOREM LockTypeCorrect == MutexSpec => []LockTypeOK
<1>1. MutexInv => LockTypeOK
    BY DEF MutexInv
<1> QED
    BY <1>1, MutexInvariant, PTL

\* At most one thread is between its spin_lock and the end of its spin_unlock.
THEOREM MutexExcludes == MutexSpec => []MutualExclusion
<1>1. MutexInv => MutualExclusion
    BY DEF MutexInv, LockInv, MutualExclusion
<1> QED
    BY <1>1, MutexInvariant, PTL

\* mutex->value is set exactly while some thread is inside.
THEOREM ValueIsHeld == MutexSpec => []ValueMatchesOwner
<1>1. MutexInv => ValueMatchesOwner
    BY DEF MutexInv, LockInv, ValueMatchesOwner
<1> QED
    BY <1>1, MutexInvariant, PTL

\* Whoever sees itself as the holder is inside, with a count of its own that
\* stays as the thread has read it.
LEMMA MutexInvHolder == MutexInv => HolderAgrees
<1> SUFFICES ASSUME MutexInv, NEW t \in Users
             PROVE  /\ pc[t] = "m_take" => ~value
                    /\ pc[t] = "m_release" => value
                    /\ holder = t => Inside(t)
                    /\ depth[t] > 0 => holder = t /\ repeat = depth[t]
                    /\ pc[t] \in CountLabels => depth[t] > 0
                    /\ pc[t] \in {"again_store", "count_store"} => read[t] = repeat
                    /\ pc[t] \in {"count_down", "count_store"} => repeat > 1
                    /\ pc[t] \in {"own", "own_assert", "own_repeat"} => repeat = 0
                    /\ pc[t] \in {"last", "clear"} => holder = t /\ repeat = 1
    BY DEF HolderAgrees
<1>1. pc[t] = "m_release" => value
    BY DEF MutexInv, LockInv, Inside
<1>2. holder = t => Inside(t)
    BY LockConstants DEF MutexInv, LockInv, Inside
<1> QED
    BY <1>1, <1>2 DEF MutexInv, LockInv

\* No unlocked access to holder or repeat misleads, a clock interrupt before any
\* of them notwithstanding, and no assert of mutex.c fails.
THEOREM HolderIsOwner == MutexSpec => []HolderAgrees
BY MutexInvHolder, MutexInvariant, PTL

\* IF is off from interrupt_disable to set_interrupt_state, over every switch,
\* and on again in the thread that called.
THEOREM InterruptsAreRestored == MutexSpec => []InterruptsRestored
<1>1. MutexInv => InterruptsRestored
    BY DEF MutexInv, InterruptInv, InterruptsRestored, Closed
<1> QED
    BY <1>1, MutexInvariant, PTL

-----------------------------------------------------------------------------
(* No wake-up is lost *)

Awake == {"ready", "running"}

\* Who waits is back at the test when it is woken; and while the mutex is free
\* and somebody waits, one who has been woken is on its way there.
WakeupInv ==
    /\ \A u \in ToSet(lists["waiters"]) : u \in Users /\ pc[u] = "m_test"
    /\ NoLostWakeup

\* schedule() puts nobody to sleep.
LEMMA ScheduleAwake ==
    ASSUME NEW st \in [Threads -> States], NEW tk, NEW la, Schedule(st, tk, la),
           NEW u \in Threads, st[u] \in Awake
    PROVE  state'[u] \in Awake
<1> DEFINE next == TaskSearch(st, tk, la)
<1>1. next \in Threads
    BY TaskSearchResult, Constants
<1>2. state' = [Preempted(st) EXCEPT ![next] = "running"]
    BY DEF Schedule
<1> HIDE DEF next
<1>3. /\ Preempted(st) \in [Threads -> States] /\ Preempted(st)[u] \in Awake
    BY DEF Preempted, States, Awake
<1> QED
    BY <1>1, <1>2, <1>3 DEF Awake

\* A step of the scheduler takes no thread that waits for the mutex off its
\* list, and a thread at the test stays awake: it is not in a system call.
LEMMA NextKeepsWaiters ==
    ASSUME MutexInv, WakeupInv, Next
    PROVE  /\ lists'["waiters"] = lists["waiters"]
           /\ \A u \in Users : state[u] \in Awake /\ pc[u] \in {"m_test", "m_take"}
                                 => state'[u] \in Awake
<1>0. /\ TypeOK /\ TaskInv
      /\ state \in [Threads -> States] /\ Users \subseteq Threads /\ Tasks \subseteq Threads
      /\ lists \in [ListNames -> Seq(Tasks)]
      /\ "waiters" \in ListNames \ {"sleep", "block"}
    BY LockConstants, Constants DEF MutexInv, TaskInv, TypeOK
<1> DEFINE Goal == /\ lists'["waiters"] = lists["waiters"]
                   /\ \A u \in Users :
                        state[u] \in Awake /\ pc[u] \in {"m_test", "m_take"}
                            => state'[u] \in Awake
<1>1. CASE UNCHANGED <<state, lists>>
    BY <1>1
<1>2. ASSUME NEW tk, NEW la, Schedule(state, tk, la), UNCHANGED lists
      PROVE  Goal
    BY <1>0, <1>2, ScheduleAwake
<1>3. ASSUME NEW t \in Tasks, NEW ms \in SleepMs, TaskSleep(t, ms)
      PROVE  Goal
    <2> DEFINE st == [state EXCEPT ![t] = "sleeping"]
    <2>1. lists'["waiters"] = lists["waiters"]
        BY <1>0, <1>3 DEF TaskSleep
    <2>2. PICK tk : Schedule(st, tk, last) /\ pc[t] = "user"
        BY <1>3 DEF TaskSleep, AtLabel
    <2>3. st \in [Threads -> States] /\ \A u \in Users \ {t} : st[u] = state[u]
        BY <1>0 DEF States
    <2> HIDE DEF st
    <2>4. \A u \in Users : state[u] \in Awake /\ pc[u] \in {"m_test", "m_take"}
                             => state'[u] \in Awake
        BY <1>0, <2>2, <2>3, ScheduleAwake
    <2> QED
        BY <2>1, <2>4
<1>4. ASSUME NEW t \in Tasks, TestBlock(t)
      PROVE  Goal
    <2> DEFINE st == [state EXCEPT ![current] = "blocked"]
    <2>1. /\ lists' = [lists EXCEPT !["block"] = <<current>> \o @]
          /\ Schedule(st, ticks, last) /\ pc[current] = "user" /\ current = t
        BY <1>4 DEF TestBlock, TaskBlock, AtLabel
    <2>2. lists'["waiters"] = lists["waiters"]
        BY <1>0, <2>1
    <2>3. st \in [Threads -> States] /\ \A u \in Users \ {current} : st[u] = state[u]
        BY <1>0, <2>1 DEF States
    <2> HIDE DEF st
    <2>4. \A u \in Users : state[u] \in Awake /\ pc[u] \in {"m_test", "m_take"}
                             => state'[u] \in Awake
        BY <1>0, <2>1, <2>3, ScheduleAwake
    <2> QED
        BY <2>2, <2>4
<1>5. ASSUME NEW t \in Tasks, TestUnblock(t)
      PROVE  Goal
    <2>1. /\ lists' = ListRemove(blocked) /\ state' = [state EXCEPT ![blocked] = "ready"]
          /\ blocked # NULL
        BY <1>5 DEF TestUnblock
    <2>2. blocked \in ToSet(lists["block"])
        BY <1>0, <2>1 DEF TaskInv, SlotIsBlocked
    <2>3. blocked \notin ToSet(lists["waiters"])
        BY <1>0, <2>2, Constants DEF TaskInv, ListsMatchStates
    <2>4. lists["waiters"] \in Seq(Tasks)
        BY <1>0
    <2>5. RemoveFirst(lists["waiters"], blocked) = lists["waiters"]
        BY <2>3, <2>4, RemoveFirstAbsent
    <2>6. lists'["waiters"] = lists["waiters"]
        BY <1>0, <2>1, <2>5 DEF ListRemove
    <2>7. \A u \in Users : state[u] \in Awake => state'[u] \in Awake
        BY <1>0, <2>1 DEF Awake
    <2> QED
        BY <2>6, <2>7
<1>6. CASE ClockHandler
    <2> DEFINE st == [t \in Threads |-> IF t \in Woken THEN "ready" ELSE state[t]]
    <2>1. lists'["waiters"] = lists["waiters"]
        BY <1>0, <1>6 DEF ClockHandler
    <2>2. st \in [Threads -> States] /\ \A u \in Users : state[u] \in Awake => st[u] \in Awake
        BY <1>0 DEF States, Awake
    <2>3. state' = st \/ \E tk, la : Schedule(st, tk, la)
        BY <1>6, Zenon DEF ClockHandler
    <2> HIDE DEF st
    <2>4. \A u \in Users : state[u] \in Awake => state'[u] \in Awake
        BY <1>0, <2>2, <2>3, ScheduleAwake
    <2> QED
        BY <2>1, <2>4
<1>7. CASE IdleYield
    BY <1>2, <1>7 DEF IdleYield
<1>8. ASSUME NEW t \in Tasks, TaskYield(t)
      PROVE  Goal
    BY <1>2, <1>8 DEF TaskYield
<1> HIDE DEF Goal
<1>9. Goal
    BY <1>1, <1>3, <1>4, <1>5, <1>6, <1>7, <1>8
    DEF Next, CpuStep, SystemCall, AcceptInterrupt, Start, InterruptExit, Halt,
        taskVars, Goal
<1> QED
    BY <1>9 DEF Goal

\* A step of a thread in the lock that neither waits nor wakes: it loses no
\* wake-up if it leaves the test for the update only, and the update with the
\* mutex held.
LEMMA WakeupInvPlain ==
    ASSUME MutexInv, WakeupInv, NEW t \in Users, AtLabel(t, pc[t]),
           NEW label, Goto(t, label) \/ UNCHANGED pc,
           UNCHANGED <<state, lists>>,
           value' = value \/ value',
           pc[t] = "m_test" => label = "m_take",
           pc[t] = "m_take" => value'
    PROVE  WakeupInv'
<1>1. /\ pc \in [Threads -> Labels] /\ t \in Threads /\ Users \subseteq Threads
      /\ t = current /\ t \in Tasks
    BY MutexInvUnfold, LockConstants DEF AtLabel
<1>2. /\ \A u \in Users \ {t} : pc'[u] = pc[u]
      /\ pc'[t] = label \/ pc'[t] = pc[t]
    BY <1>1 DEF Goto
<1>3. t \notin ToSet(lists["waiters"])
    <2>1. state[t] = "running"
        BY <1>1 DEF MutexInv, TaskInv, OneRunning
    <2> QED
        BY <1>1, <2>1, LockConstants DEF MutexInv, TaskInv, ListsMatchStates
<1>4. \A u \in ToSet(lists'["waiters"]) : u \in Users /\ pc'[u] = "m_test"
    BY <1>2, <1>3 DEF WakeupInv
<1>5. NoLostWakeup'
    <2> SUFFICES ASSUME ~value', lists'["waiters"] # <<>>
                 PROVE  \E u \in Users : /\ state'[u] \in {"ready", "running"}
                                         /\ pc'[u] \in {"m_test", "m_take"}
        BY DEF NoLostWakeup
    <2>1. PICK u \in Users : /\ state[u] \in {"ready", "running"}
                             /\ pc[u] \in {"m_test", "m_take"}
        BY DEF WakeupInv, NoLostWakeup
    <2>2. pc'[u] \in {"m_test", "m_take"}
        BY <1>2, <2>1
    <2> QED
        BY <2>1, <2>2
<1> QED
    BY <1>4, <1>5 DEF WakeupInv

\* mutex_lock goes to sleep only while the mutex is held.
LEMMA WakeupInvMutexWait ==
    ASSUME MutexInv, WakeupInv, NEW t \in Users, MutexWait(t)
    PROVE  WakeupInv'
<1>1. /\ value /\ UNCHANGED <<pc, value>> /\ current = t /\ pc[t] = "m_test"
      /\ lists' = [lists EXCEPT !["waiters"] = <<current>> \o @]
    BY DEF MutexWait, AtLabel, TaskBlock, lockVars
<1>2. /\ lists \in [ListNames -> Seq(Tasks)] /\ t \in Tasks /\ "waiters" \in ListNames
    BY LockConstants DEF MutexInv, TaskInv, TypeOK
<1> DEFINE q == lists["waiters"]
<1>3. q \in Seq(Tasks) /\ lists'["waiters"] = <<t>> \o q
    BY <1>1, <1>2
<1>4. \A u \in ToSet(q) : u \in Users /\ pc[u] = "m_test"
    BY DEF WakeupInv
<1> HIDE DEF q
<1>5. ToSet(<<t>> \o q) = ToSet(q) \cup {t}
    <2>1. t \notin ToSet(q)
        <3>1. state[t] = "running"
            BY <1>1, <1>2 DEF MutexInv, TaskInv, OneRunning
        <3> QED
            BY <1>2, <3>1, LockConstants DEF MutexInv, TaskInv, ListsMatchStates, q
    <2>2. IsInjective(q)
        BY <1>2 DEF MutexInv, TaskInv, ListsMatchStates, q
    <2> QED
        BY <1>2, <1>3, <2>1, <2>2, PushProperties
<1> QED
    BY <1>1, <1>3, <1>4, <1>5 DEF WakeupInv, NoLostWakeup

\* mutex_unlock wakes the first waiter, if there is one, and that one comes back
\* to the test.
LEMMA WakeupInvMutexRelease ==
    ASSUME MutexInv, WakeupInv, NEW t \in Users, MutexRelease(t)
    PROVE  WakeupInv'
<1>1. /\ current = t /\ pc[t] = "m_release" /\ Goto(t, "m_restore") /\ WakeFirstWaiter
    BY DEF MutexRelease, AtLabel
<1>2. /\ pc \in [Threads -> Labels] /\ t \in Threads /\ Users \subseteq Threads
      /\ state \in [Threads -> States]
      /\ lists \in [ListNames -> Seq(Tasks)] /\ "waiters" \in ListNames
      /\ ListsMatchStates
    BY MutexInvUnfold, LockConstants DEF MutexInv, TaskInv, TypeOK
<1> DEFINE q == lists["waiters"]
           w == FirstWaiter
           st == [state EXCEPT ![w] = "ready"]
<1>3. \A u \in ToSet(q) : u \in Users /\ pc[u] = "m_test" /\ u # t
    BY <1>1 DEF WakeupInv
<1>4. \A u \in ToSet(q) : pc'[u] = "m_test"
    BY <1>1, <1>2, <1>3 DEF Goto
<1>5. CASE q = <<>>
    <2>1. lists'["waiters"] = <<>>
        BY <1>1, <1>5 DEF WakeFirstWaiter
    <2> QED
        BY <1>4, <1>5, <2>1, <1>3 DEF WakeupInv, NoLostWakeup
<1>6. CASE q # <<>>
    <2>1. lists' = [l \in ListNames |-> RemoveFirst(lists[l], w)] /\ Schedule(st, ticks, last)
        BY <1>1, <1>6 DEF WakeFirstWaiter, ListRemove
    <2>2. q \in Seq(Tasks) /\ IsInjective(q) /\ w = q[Len(q)]
        BY <1>2 DEF FirstWaiter, Last, ListsMatchStates
    <2>3. lists'["waiters"] = RemoveFirst(q, w)
        BY <1>2, <2>1
    <2> HIDE DEF q, w
    <2>4. w \in ToSet(q)
        <3>1. Len(q) \in 1 .. Len(q)
            BY <1>6, <2>2
        <3> QED
            BY <2>2, <3>1, ToSetByIndex
    <2>5. ToSet(lists'["waiters"]) \subseteq ToSet(q)
        BY <2>2, <2>3, RemoveFirstProperties
    <2>6. st \in [Threads -> States] /\ st[w] \in Awake /\ w \in Threads
        BY <1>2, <1>3, <2>4 DEF States, Awake
    <2> HIDE DEF st
    <2>7. state'[w] \in Awake
        BY <2>1, <2>6, ScheduleAwake
    <2>8. w \in Users /\ pc'[w] = "m_test"
        BY <1>3, <1>4, <2>4
    <2> QED
        BY <1>3, <1>4, <2>5, <2>7, <2>8 DEF WakeupInv, NoLostWakeup, Awake
<1> QED
    BY <1>5, <1>6

LEMMA WakeupInvStep == MutexInv /\ WakeupInv /\ [MutexNext]_mutexVars => WakeupInv'
<1> SUFFICES ASSUME MutexInv, WakeupInv, [MutexNext]_mutexVars
             PROVE  WakeupInv'
    OBVIOUS
<1>1. CASE UNCHANGED mutexVars
    BY <1>1 DEF mutexVars, vars, lockVars, WakeupInv, NoLostWakeup
<1>2. CASE Next /\ UNCHANGED lockVars
    <2>1. /\ lists'["waiters"] = lists["waiters"]
          /\ \A u \in Users : state[u] \in Awake /\ pc[u] \in {"m_test", "m_take"}
                                 => state'[u] \in Awake
        BY <1>2, NextKeepsWaiters
    <2>2. \A u \in Users : /\ pc'[u] = "m_test" <=> pc[u] = "m_test"
                           /\ pc'[u] = "m_take" <=> pc[u] = "m_take"
        BY <1>2, LockLabelsKept DEF MutexInv, TaskInv, MutexLabels
    <2> QED
        BY <1>2, <2>1, <2>2 DEF WakeupInv, NoLostWakeup, Awake, lockVars
<1>3. ASSUME NEW t \in Users, LockStep(t) \/ SpinTest(t) \/ SpinUnlock(t)
      PROVE  WakeupInv'
    <2>1. CASE MutexWait(t)
        BY <2>1, WakeupInvMutexWait
    <2>2. CASE MutexRelease(t)
        BY <2>2, WakeupInvMutexRelease
    <2>3. CASE MutexTake(t)
        <3>1. AtLabel(t, pc[t]) /\ pc[t] = "m_take" /\ Goto(t, "own") /\ value'
              /\ UNCHANGED <<state, lists>>
            BY <2>3 DEF MutexTake, AtLabel, Undisturbed, taskVars
        <3> QED
            BY <3>1, WakeupInvPlain
    <2>4. CASE MutexFree(t)
        <3>1. AtLabel(t, pc[t]) /\ pc[t] = "m_test" /\ Goto(t, "m_take")
              /\ UNCHANGED <<state, lists, value>>
            BY <2>4 DEF MutexFree, AtLabel, Undisturbed, taskVars, lockVars
        <3> QED
            BY <3>1, WakeupInvPlain
    <2>5. CASE \/ MutexLock(t) \/ MutexUnlock(t) \/ MutexRestore(t)
               \/ SpinOwn(t) \/ SpinAssert(t) \/ SpinFirst(t)
               \/ SpinDisown(t) \/ SpinReset(t)
        <3>1. PICK label : Goto(t, label)
            BY <2>5 DEF MutexLock, MutexUnlock, MutexRestore, SpinOwn, SpinAssert,
               SpinFirst, SpinDisown, SpinReset
        <3>2. /\ AtLabel(t, pc[t]) /\ pc[t] \notin {"m_test", "m_take"}
              /\ UNCHANGED <<state, lists, value>>
            BY <2>5 DEF MutexLock, MutexUnlock, MutexRestore, SpinOwn, SpinAssert,
               SpinFirst, SpinDisown, SpinReset, AtLabel, Undisturbed, taskVars, lockVars
        <3> QED
            BY <3>1, <3>2, WakeupInvPlain
    <2>6. CASE \/ SpinTest(t) \/ SpinAgain(t) \/ SpinAgainStore(t) \/ SpinUnlock(t)
               \/ SpinCount(t) \/ SpinDown(t) \/ SpinDownStore(t) \/ SpinLast(t)
        <3>1. PICK label : Goto(t, label)
            BY <2>6 DEF SpinTest, SpinAgain, SpinAgainStore, SpinUnlock, SpinCount,
               SpinDown, SpinDownStore, SpinLast
        <3>2. /\ AtLabel(t, pc[t]) /\ pc[t] \notin {"m_test", "m_take"}
              /\ UNCHANGED <<state, lists, value>>
            BY <2>6 DEF SpinTest, SpinAgain, SpinAgainStore, SpinUnlock, SpinCount,
               SpinDown, SpinDownStore, SpinLast, AtLabel, Undisturbed, taskVars, lockVars
        <3> QED
            BY <3>1, <3>2, WakeupInvPlain
    <2> QED
        BY <1>3, <2>1, <2>2, <2>3, <2>4, <2>5, <2>6 DEF LockStep
<1> QED
    BY <1>1, <1>2, <1>3 DEF MutexNext

\* Whenever the mutex is free and somebody waits, a thread that has been woken is
\* on its way to the test and will pass the mutex on.
THEOREM WakeupsAreNotLost == MutexSpec => []NoLostWakeup
<1>1. MutexInit => WakeupInv
    <2> SUFFICES ASSUME MutexInit
                 PROVE  lists["waiters"] = <<>>
        BY DEF WakeupInv, NoLostWakeup, ToSet
    <2> QED
        BY LockConstants DEF MutexInit, Init
<1>2. WakeupInv => NoLostWakeup
    BY DEF WakeupInv
<1> QED
    BY <1>1, <1>2, MutexInvariant, WakeupInvStep, PTL DEF MutexSpec

-----------------------------------------------------------------------------
(* The reentrant lock *)

Wanting == {t \in Users : pc[t] \in {"m_lock", "m_test", "m_take",
                                     "own", "own_assert", "own_repeat"}}
Count == IF Owner = NULL THEN 0 ELSE depth[Owner]

\* The owner is the one thread with calls to undo, and the count is its own.
LEMMA OwnerOf ==
    ASSUME NEW d, \A t, u \in Users : d[t] > 0 /\ d[u] > 0 => t = u,
           NEW o, o = IF \E t \in Users : d[t] > 0
                      THEN CHOOSE t \in Users : d[t] > 0 ELSE NULL,
           NEW c, c = IF o = NULL THEN 0 ELSE d[o]
    PROVE  /\ \A t \in Users : d[t] > 0 => o = t /\ c = d[t]
           /\ (\A t \in Users : ~(d[t] > 0)) => o = NULL /\ c = 0
           /\ \A t \in Users : o = t => d[t] > 0
<1>1. ASSUME NEW t \in Users, d[t] > 0
      PROVE  o = t /\ c = d[t]
    <2>1. o = CHOOSE u \in Users : d[u] > 0
        BY <1>1
    <2>2. o \in Users /\ d[o] > 0
        BY <1>1, <2>1, Zenon
    <2>3. o = t /\ o # NULL
        BY <1>1, <2>2, LockConstants
    <2> QED
        BY <2>3
<1>2. (\A t \in Users : ~(d[t] > 0)) => o = NULL /\ c = 0
    OBVIOUS
<1>3. \A t \in Users : o = t => d[t] > 0
    BY <1>1, <1>2, LockConstants
<1> QED
    BY <1>1, <1>2, <1>3

\* The same of the model's own variables ...
LEMMA OwnerIs ==
    ASSUME LockInv
    PROVE  /\ \A t \in Users : depth[t] > 0 => Owner = t /\ Count = depth[t]
           /\ (\A t \in Users : ~(depth[t] > 0)) => Owner = NULL /\ Count = 0
           /\ \A t \in Users : Owner = t => depth[t] > 0
<1>1. \A t, u \in Users : depth[t] > 0 /\ depth[u] > 0 => t = u
    BY DEF LockInv, Inside
<1> QED
    BY <1>1, OwnerOf DEF Owner, Count

\* ... and of their values after a step.
LEMMA OwnerBecomes ==
    ASSUME LockInv'
    PROVE  /\ \A t \in Users : depth'[t] > 0 => Owner' = t /\ Count' = depth'[t]
           /\ (\A t \in Users : ~(depth'[t] > 0)) => Owner' = NULL /\ Count' = 0
<1>1. \A t, u \in Users : depth'[t] > 0 /\ depth'[u] > 0 => t = u
    BY DEF LockInv, Inside
<1> QED
    BY <1>1, OwnerOf DEF Owner, Count

\* The lock starts free, with nobody waiting for it.
LEMMA RefinesInit == MutexInit => Abstract!Init
<1> SUFFICES ASSUME MutexInit
             PROVE  Owner = NULL /\ Count = 0 /\ Wanting = {}
    BY DEF Abstract!Init, Count, Wanting
<1>1. \A t \in Users : ~(depth[t] > 0) /\ pc[t] \in {"spin", "start"}
    BY LockConstants DEF MutexInit, Init, FirstTask, BootTask, Created, LockInit
<1> QED
    BY <1>1 DEF Owner, Count, Wanting

\* A step that changes no thread's count and lets no thread begin or end its
\* wait is invisible to the callers.
LEMMA Stutter ==
    ASSUME UNCHANGED depth, \A t \in Users : t \in Wanting' <=> t \in Wanting
    PROVE  UNCHANGED Abstract!lockVars
<1>1. UNCHANGED <<Owner, Count>>
    BY DEF Owner, Count
<1>2. Wanting' = Wanting
    BY DEF Wanting
<1> QED
    BY <1>1, <1>2 DEF Abstract!lockVars, Count, Wanting

\* Interrupts, switches and system calls are invisible.
LEMMA NextIsStutter ==
    ASSUME MutexInv, Next, UNCHANGED lockVars
    PROVE  UNCHANGED Abstract!lockVars
<1>1. \A t \in Users : \A label \in MutexLabels : pc'[t] = label <=> pc[t] = label
    BY LockLabelsKept DEF MutexInv, TaskInv
<1>2. \A t \in Users : t \in Wanting' <=> t \in Wanting
    BY <1>1 DEF Wanting, MutexLabels
<1> QED
    BY <1>2, Stutter DEF lockVars

\* So are the steps between the call of spin_lock and its return, and those of
\* spin_unlock before and after it changes the thread's count.
LEMMA InnerStutter ==
    ASSUME MutexInv, NEW t \in Users, NEW label, Goto(t, label), UNCHANGED depth,
           \/ /\ pc[t] \in {"m_lock", "m_test", "m_take", "own", "own_assert"}
              /\ label \in {"m_test", "m_take", "own", "own_assert", "own_repeat"}
           \/ /\ pc[t] \in CountLabels \cup {"user", "clear", "clear_repeat", "m_unlock",
                                            "m_release", "m_restore"}
              /\ label \in CountLabels \cup {"user", "clear_repeat", "m_unlock",
                                            "m_release", "m_restore"}
    PROVE  UNCHANGED Abstract!lockVars
<1>1. pc'[t] = label /\ \A u \in Users \ {t} : pc'[u] = pc[u]
    BY MutexInvUnfold, LockConstants DEF Goto
<1>2. \A u \in Users : u \in Wanting' <=> u \in Wanting
    BY <1>1 DEF Wanting, CountLabels
<1> QED
    BY <1>2, Stutter

\* spin_lock of a thread that does not hold the lock is the request.
LEMMA SpinTestRefines ==
    ASSUME MutexInv, NEW t \in Users, SpinTest(t)
    PROVE  Abstract!Request(t) \/ UNCHANGED Abstract!lockVars
<1>1. /\ pc[t] = "user" /\ UNCHANGED <<intr, lockVars>>
      /\ \/ holder # t /\ Goto(t, "m_lock")
         \/ holder = t /\ Goto(t, "again")
    BY DEF SpinTest, AtLabel
<1>2. CASE holder = t /\ Goto(t, "again")
    BY <1>1, <1>2, InnerStutter DEF lockVars, CountLabels
<1>3. CASE holder # t /\ Goto(t, "m_lock")
    <2>1. pc'[t] = "m_lock" /\ \A u \in Users \ {t} : pc'[u] = pc[u]
        BY <1>3, MutexInvUnfold, LockConstants DEF Goto
    <2>2. Wanting' = Wanting \cup {t} /\ t \notin Wanting
        BY <1>1, <2>1 DEF Wanting
    <2>3. UNCHANGED <<Owner, Count>>
        BY <1>1 DEF Owner, Count, lockVars
    <2>4. Owner # t
        <3>1. ~(depth[t] > 0)
            BY <1>3 DEF MutexInv, LockInv
        <3> QED
            BY <3>1, OwnerIs DEF MutexInv
    <2> QED
        BY <2>2, <2>3, <2>4 DEF Abstract!Request, Wanting, Count
<1> QED
    BY <1>1, <1>2, <1>3

\* lock->repeat = 1 is where the lock is acquired: spin_lock returns.
LEMMA SpinFirstRefines ==
    ASSUME MutexInv, MutexInv', NEW t \in Users, SpinFirst(t)
    PROVE  Abstract!Acquire(t)
<1>1. /\ pc[t] = "own_repeat" /\ Goto(t, "user")
      /\ depth' = [depth EXCEPT ![t] = @ + 1]
    BY DEF SpinFirst, AtLabel
<1>2. /\ pc'[t] = "user" /\ \A u \in Users \ {t} : pc'[u] = pc[u]
      /\ \A u \in Users \ {t} : depth'[u] = depth[u]
    BY <1>1, MutexInvUnfold, LockConstants DEF Goto
<1>3. Wanting' = Wanting \ {t} /\ t \in Wanting
    BY <1>1, <1>2 DEF Wanting
<1>4. \A u \in Users : ~(depth[u] > 0)
    <2>1. depth[t] > 0 => FALSE
        BY <1>1 DEF MutexInv, LockInv
    <2>2. \A u \in Users \ {t} : ~Inside(u)
        BY <1>1 DEF MutexInv, LockInv, Inside
    <2> QED
        BY <2>1, <2>2 DEF Inside
<1>5. Owner = NULL
    BY <1>4, OwnerIs DEF MutexInv
<1>6. depth'[t] = 1
    <2>1. depth[t] \in 0 .. MaxDepth /\ depth[t] = 0
        BY <1>4, MutexInvUnfold, LockConstants
    <2> QED
        BY <1>1, <2>1, MutexInvUnfold
<1>7. Owner' = t /\ Count' = 1
    BY <1>6, OwnerBecomes DEF MutexInv
<1> QED
    BY <1>3, <1>5, <1>7 DEF Abstract!Acquire, Wanting, Count

\* Re-entry counts one call more.
LEMMA SpinAgainStoreRefines ==
    ASSUME MutexInv, MutexInv', NEW t \in Users, SpinAgainStore(t)
    PROVE  Abstract!Reacquire(t)
<1>1. /\ pc[t] = "again_store" /\ Goto(t, "user")
      /\ depth' = [depth EXCEPT ![t] = @ + 1]
    BY DEF SpinAgainStore, AtLabel
<1>2. /\ pc'[t] = "user" /\ \A u \in Users \ {t} : pc'[u] = pc[u]
      /\ depth'[t] = depth[t] + 1
    BY <1>1, MutexInvUnfold, LockConstants DEF Goto
<1>3. Wanting' = Wanting
    BY <1>1, <1>2 DEF Wanting
<1>4. depth[t] > 0 /\ depth[t] \in Int
    BY <1>1, MutexInvUnfold DEF LockInv, CountLabels
<1>5. Owner = t /\ Count = depth[t]
    BY <1>4, OwnerIs DEF MutexInv
<1>6. Owner' = t /\ Count' = Count + 1
    BY <1>2, <1>4, <1>5, OwnerBecomes DEF MutexInv
<1> QED
    BY <1>3, <1>5, <1>6 DEF Abstract!Reacquire, Wanting, Count

\* spin_unlock undoes one call: the lock is released, as far as its owner is
\* concerned, when the last one begins to be undone.
LEMMA CountDownRefines ==
    ASSUME MutexInv, MutexInv', NEW t \in Users, SpinDownStore(t) \/ SpinLast(t)
    PROVE  Abstract!Release(t)
<1>1. /\ pc[t] \in {"count_store", "last"} /\ depth[t] > 0
      /\ depth' = [depth EXCEPT ![t] = @ - 1]
      /\ Goto(t, "user") \/ Goto(t, "clear")
    <2>1. /\ pc[t] \in {"count_store", "last"}
          /\ depth' = [depth EXCEPT ![t] = @ - 1]
          /\ Goto(t, "user") \/ Goto(t, "clear")
        BY DEF SpinDownStore, SpinLast, AtLabel
    <2> QED
        BY <2>1, MutexInvUnfold DEF LockInv, CountLabels
<1>2. /\ pc'[t] \in {"user", "clear"} /\ \A u \in Users \ {t} : pc'[u] = pc[u]
      /\ depth'[t] = depth[t] - 1 /\ \A u \in Users \ {t} : depth'[u] = depth[u]
    BY <1>1, MutexInvUnfold, LockConstants DEF Goto
<1>3. Wanting' = Wanting
    BY <1>1, <1>2 DEF Wanting
<1>4. depth[t] \in Int
    BY MutexInvUnfold
<1>5. Owner = t /\ Count = depth[t]
    BY <1>1, OwnerIs DEF MutexInv
<1>6. CASE depth[t] = 1
    <2>1. \A u \in Users \ {t} : ~(depth[u] > 0)
        BY <1>1, LockConstants DEF MutexInv, LockInv, Inside
    <2>2. \A u \in Users : ~(depth'[u] > 0)
        BY <1>2, <1>6, <2>1
    <2>3. Owner' = NULL /\ Count' = 0
        BY <2>2, OwnerBecomes DEF MutexInv
    <2> QED
        BY <1>3, <1>5, <1>6, <2>3 DEF Abstract!Release, Wanting, Count
<1>7. CASE depth[t] # 1
    <2>1. depth'[t] > 0
        BY <1>1, <1>2, <1>4, <1>7
    <2>2. Owner' = t /\ Count' = Count - 1
        BY <1>2, <1>5, <2>1, OwnerBecomes DEF MutexInv
    <2> QED
        BY <1>3, <1>5, <1>7, <2>2 DEF Abstract!Release, Wanting, Count
<1> QED
    BY <1>6, <1>7

\* Every step is one of the abstract lock's or leaves it as it is.
LEMMA RefinesNext ==
    ASSUME MutexInv, MutexInv', [MutexNext]_mutexVars
    PROVE  [Abstract!Next]_(Abstract!lockVars)
<1>1. CASE UNCHANGED mutexVars
    <2>1. UNCHANGED <<depth, pc>>
        BY <1>1 DEF mutexVars, vars, lockVars
    <2> QED
        BY <2>1, Stutter DEF Wanting
<1>2. CASE Next /\ UNCHANGED lockVars
    BY <1>2, NextIsStutter
<1>3. ASSUME NEW t \in Users, LockStep(t)
      PROVE  Abstract!Next \/ UNCHANGED Abstract!lockVars
    <2>1. CASE MutexLock(t)
        BY <2>1, InnerStutter DEF MutexLock, AtLabel
    <2>2. CASE MutexWait(t)
        BY <2>2, Stutter DEF MutexWait, Wanting, lockVars
    <2>3. CASE MutexFree(t)
        BY <2>3, InnerStutter DEF MutexFree, AtLabel, lockVars
    <2>4. CASE MutexTake(t)
        BY <2>4, InnerStutter DEF MutexTake, AtLabel
    <2>5. CASE MutexUnlock(t)
        BY <2>5, InnerStutter DEF MutexUnlock, AtLabel
    <2>6. CASE MutexRelease(t)
        BY <2>6, InnerStutter DEF MutexRelease, AtLabel
    <2>7. CASE MutexRestore(t)
        BY <2>7, InnerStutter DEF MutexRestore, AtLabel, lockVars
    <2>8. CASE SpinAgainStore(t)
        BY <2>8, SpinAgainStoreRefines DEF Abstract!Next
    <2>9. CASE SpinOwn(t)
        BY <2>9, InnerStutter DEF SpinOwn, AtLabel
    <2>10. CASE SpinFirst(t)
        BY <2>10, SpinFirstRefines DEF Abstract!Next
    <2>11. CASE SpinDisown(t)
        BY <2>11, InnerStutter DEF SpinDisown, AtLabel
    <2>12. CASE SpinReset(t)
        BY <2>12, InnerStutter DEF SpinReset, AtLabel
    <2>13. CASE SpinAssert(t)
        BY <2>13, InnerStutter DEF SpinAssert, AtLabel, lockVars
    <2>14. CASE SpinAgain(t) \/ SpinCount(t) \/ SpinDown(t)
        <3>1. PICK label \in CountLabels : Goto(t, label)
            BY <2>14 DEF SpinAgain, SpinCount, SpinDown, CountLabels
        <3>2. pc[t] \in CountLabels /\ UNCHANGED depth
            BY <2>14 DEF SpinAgain, SpinCount, SpinDown, AtLabel, CountLabels, lockVars
        <3> QED
            BY <3>1, <3>2, InnerStutter
    <2>15. CASE SpinDownStore(t) \/ SpinLast(t)
        BY <2>15, CountDownRefines DEF Abstract!Next
    <2> QED
        BY <1>3, <2>1, <2>2, <2>3, <2>4, <2>5, <2>6, <2>7, <2>8, <2>9, <2>10,
           <2>11, <2>12, <2>13, <2>14, <2>15 DEF LockStep
<1>4. ASSUME NEW t \in Users, SpinTest(t)
      PROVE  Abstract!Next \/ UNCHANGED Abstract!lockVars
    BY <1>4, SpinTestRefines DEF Abstract!Next
<1>5. ASSUME NEW t \in Users, SpinUnlock(t)
      PROVE  UNCHANGED Abstract!lockVars
    <2>1. Goto(t, "count") /\ pc[t] = "user" /\ UNCHANGED depth
        BY <1>5 DEF SpinUnlock, AtLabel, lockVars
    <2> QED
        BY <2>1, InnerStutter DEF CountLabels
<1> QED
    BY <1>1, <1>2, <1>3, <1>4, <1>5 DEF MutexNext

\* A thread that uses spin_lock and spin_unlock may rely on the reentrant lock
\* alone, whatever the scheduler, the interrupts and the other threads do.
THEOREM SpinlockImplementsReentrantLock == MutexSpec => ImplementsReentrantLock
<1>1. MutexInv /\ MutexInv' /\ [MutexNext]_mutexVars => [Abstract!Next]_(Abstract!lockVars)
    BY RefinesNext
<1> QED
    BY <1>1, RefinesInit, MutexInvariant, PTL
    DEF MutexSpec, ImplementsReentrantLock, Abstract!Spec

=============================================================================
