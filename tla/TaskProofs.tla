----------------------------- MODULE TaskProofs -----------------------------
(***************************************************************************)
(* What holds of the scheduler for every number of tasks, every priority   *)
(* and every width of the clock counter: types, lists, the loop of         *)
(* task_search, and why task_wakeup may stop at the first sleeper that is  *)
(* not due.                                                                *)
(***************************************************************************)
EXTENDS Task, KernelLemmas

-----------------------------------------------------------------------------
(* The loop of task_search *)

\* The recursion of Scan has a solution, so Scan is it.
LEMMA ScanUnfolds ==
    ASSUME NEW st, NEW tk, NEW la, NTASKS \in Nat
    PROVE  Scan(st, tk, la) =
             [i \in 0 .. NTASKS |->
                IF i = 0 THEN NULL
                ELSE IF Candidate(st, i) /\ Prefers(tk, la, Scan(st, tk, la)[i - 1], i)
                     THEN i ELSE Scan(st, tk, la)[i - 1]]
<1> DEFINE Better(b, i) == IF Candidate(st, i) /\ Prefers(tk, la, b, i)
                           THEN i ELSE b
           Solves(g) == g = [i \in 0 .. NTASKS |-> IF i = 0 THEN NULL
                                                   ELSE Better(g[i - 1], i)]
           Slots == {NULL} \cup 1 .. NTASKS
           step == [i \in 1 .. NTASKS |-> [b \in Slots |-> Better(b, i)]]
<1>1. \A i \in 1 .. NTASKS : \A b \in Slots : step[i][b] = Better(b, i)
    <2> HIDE DEF Better, Slots
    <2> QED
        OBVIOUS
<1>2. step \in [1 .. NTASKS -> [Slots -> Slots]]
    OBVIOUS
<1>3. NULL \in Slots
    OBVIOUS
<1> HIDE DEF step, Better, Slots
<1>4. PICK g : IsHistory(g, NTASKS, Slots, NULL, step)
    BY <1>2, <1>3, LoopHistory
<1>5. Solves(g)
    <2>1. \A i \in 1 .. NTASKS : g[i - 1] \in Slots
        BY <1>4 DEF IsHistory
    <2> QED
        BY <1>1, <1>4, <2>1 DEF IsHistory
<1>6. Scan(st, tk, la) = CHOOSE h : Solves(h)
    BY DEF Scan, Better
<1>7. Solves(Scan(st, tk, la))
    <2> HIDE DEF Solves
    <2> QED
        BY <1>5, <1>6, Zenon
<1> QED
    BY <1>7 DEF Better

\* Task b, met in slots 1 .. i, has won its slot and every one after it: it is
\* preferred to some candidate before it, if there is one, and no candidate
\* after it is preferred to it.
Winner(st, tk, la, b, i) ==
    /\ b \in 1 .. i
    /\ Candidate(st, b)
    /\ \/ \A p \in 1 .. b - 1 : ~Candidate(st, p)
       \/ \E p \in 1 .. b - 1 : Candidate(st, p) /\ Prefers(tk, la, p, b)
    /\ \A p \in b + 1 .. i : Candidate(st, p) => ~Prefers(tk, la, b, p)

\* What the loop leaves in `task`: NULL when no task is a candidate, otherwise
\* the winner.
LEMMA ScanResult ==
    ASSUME NEW st, NEW tk, NEW la, NTASKS \in Nat
    PROVE  \A i \in 0 .. NTASKS :
             \/ /\ Scan(st, tk, la)[i] = NULL
                /\ \A t \in 1 .. i : ~Candidate(st, t)
             \/ Winner(st, tk, la, Scan(st, tk, la)[i], i)
<1> DEFINE best == Scan(st, tk, la)
           Good(i) == \/ best[i] = NULL /\ \A t \in 1 .. i : ~Candidate(st, t)
                      \/ Winner(st, tk, la, best[i], i)
           wrong == {i \in 0 .. NTASKS : ~Good(i)}
<1>1. best[0] = NULL
    BY ScanUnfolds
<1>2. \A i \in 1 .. NTASKS :
        \/ best[i] = i /\ Candidate(st, i) /\ Prefers(tk, la, best[i - 1], i)
        \/ best[i] = best[i - 1] /\ ~(Candidate(st, i) /\ Prefers(tk, la, best[i - 1], i))
    BY ScanUnfolds
<1>3. wrong = {}
    <2> SUFFICES ASSUME wrong # {}
                 PROVE  FALSE
        OBVIOUS
    <2>1. PICK i \in wrong : \A k \in wrong : i <= k
        <3>1. wrong \in SUBSET Nat
            OBVIOUS
        <3> HIDE DEF wrong
        <3> QED
            BY <3>1, LeastNatural
    <2> HIDE DEF best
    <2>2. i # 0
        BY <1>1, <2>1
    <2>3. i - 1 \in 0 .. NTASKS /\ i \in 1 .. NTASKS /\ Good(i - 1) /\ i \in Int
        BY <2>1, <2>2
    <2>4. best[i - 1] = NULL => Prefers(tk, la, best[i - 1], i)
        BY DEF Prefers
    <2>5. Good(i)
        <3>1. CASE best[i] = i /\ Candidate(st, i) /\ Prefers(tk, la, best[i - 1], i)
            <4>1. \/ \A p \in 1 .. i - 1 : ~Candidate(st, p)
                  \/ \E p \in 1 .. i - 1 : Candidate(st, p) /\ Prefers(tk, la, p, i)
                BY <2>3, <3>1 DEF Winner
            <4>2. i \in 1 .. i /\ \A p \in i + 1 .. i : FALSE
                BY <2>3
            <4> QED
                BY <3>1, <4>1, <4>2 DEF Winner
        <3>2. CASE best[i] = best[i - 1] /\ best[i - 1] = NULL /\ ~Candidate(st, i)
            <4>1. \A t \in 1 .. i - 1 : ~Candidate(st, t)
                BY <2>3, <3>2 DEF NULL, Winner
            <4>2. \A t \in 1 .. i : t = i \/ t \in 1 .. i - 1
                BY <2>3
            <4> QED
                BY <3>2, <4>1, <4>2
        <3>3. CASE /\ best[i] = best[i - 1] /\ best[i - 1] # NULL
                   /\ ~(Candidate(st, i) /\ Prefers(tk, la, best[i - 1], i))
            <4>1. Winner(st, tk, la, best[i], i - 1)
                BY <2>3, <3>3
            <4>2. \A p \in best[i] + 1 .. i : p = i \/ p \in best[i] + 1 .. i - 1
                BY <2>3, <4>1 DEF Winner
            <4>3. best[i] \in 1 .. i
                BY <2>3, <4>1 DEF Winner
            <4> QED
                BY <3>3, <4>1, <4>2, <4>3 DEF Winner
        <3> QED
            BY <1>2, <2>3, <2>4, <3>1, <3>2, <3>3
    <2> QED
        BY <2>1, <2>5
<1> HIDE DEF best
<1> QED
    BY <1>3 DEF best

\* task_search(TASK_READY) finds a ready task other than the current one that
\* no candidate after it in the table is preferred to, and that is preferred to
\* a candidate before it when there is one; idle may be that task, and is the
\* answer when there is no candidate.
THEOREM TaskSearchResult ==
    ASSUME NEW st, NEW tk, NEW la
    PROVE  /\ TaskSearch(st, tk, la) \in Tasks
           /\ \/ Winner(st, tk, la, TaskSearch(st, tk, la), NTASKS)
              \/ /\ TaskSearch(st, tk, la) = Idle
                 /\ \A t \in Tasks : ~Candidate(st, t)
<1>1. NTASKS \in Nat /\ NTASKS >= 2
    BY TaskAssumption
<1>2. \/ /\ Scan(st, tk, la)[NTASKS] = NULL
         /\ \A t \in 1 .. NTASKS : ~Candidate(st, t)
      \/ Winner(st, tk, la, Scan(st, tk, la)[NTASKS], NTASKS)
    <2>1. NTASKS \in 0 .. NTASKS
        BY <1>1
    <2> QED
        BY <1>1, <2>1, ScanResult
<1>3. CASE Scan(st, tk, la)[NTASKS] = NULL /\ \A t \in 1 .. NTASKS : ~Candidate(st, t)
    BY <1>1, <1>3 DEF TaskSearch, Tasks, Idle
<1>4. CASE Winner(st, tk, la, Scan(st, tk, la)[NTASKS], NTASKS)
    <2>1. Scan(st, tk, la)[NTASKS] \in 1 .. NTASKS
        BY <1>4 DEF Winner
    <2> QED
        BY <1>1, <1>4, <2>1 DEF TaskSearch, Tasks, NULL
<1> QED
    BY <1>2, <1>3, <1>4

-----------------------------------------------------------------------------
(* The inductive invariant *)

\* idle never waits: TaskSearch falls back on it without looking at its state.
IdleCanRun == state[Idle] \in {"ready", "running"}

\* OneRunning alone is not inductive: a wake-up could hit the running task,
\* were the lists not known to hold waiting tasks only.
TaskInv ==
    /\ TypeOK
    /\ OneRunning
    /\ ListsMatchStates
    /\ SlotIsBlocked
    /\ IdleCanRun

\* The assumptions on the constants as the steps need them.
LEMMA Constants ==
    /\ NTASKS \in Nat /\ NTASKS >= 2
    /\ WORD \in Nat \ {0} /\ 0 \in 0 .. WORD - 1 /\ 1 \in 0 .. WORD - 1
    /\ Priority \in [Threads -> 0 .. WORD - 1]
    /\ Tasks \subseteq Threads /\ Boot \in Threads /\ Boot \notin Tasks
    /\ Idle \in Tasks /\ Idle # Boot /\ NULL \notin Tasks
    /\ "block" \in ListNames /\ "sleep" \in ListNames
BY TaskAssumption DEF Tasks, Threads, Boot, Idle, NULL, ListNames

\* Whether a task waits, and where, as schedule() leaves it.
Waits(st, t) == st[t] \in {"sleeping", "blocked"}

\* schedule() makes exactly one task run and lets no other task start or stop
\* waiting, provided that no task but the current one is marked as running.
LEMMA ScheduleStep ==
    ASSUME NEW st \in [Threads -> States], NEW tk \in [Threads -> 0 .. WORD - 1],
           NEW la \in [Threads -> 0 .. WORD - 1],
           current \in Threads,
           \A t \in Tasks : st[t] = "running" => t = current,
           st[Idle] \in {"ready", "running"},
           Schedule(st, tk, la)
    PROVE  /\ current' \in Tasks
           /\ state' \in [Threads -> States]
           /\ ticks' \in [Threads -> 0 .. WORD - 1]
           /\ last' \in [Threads -> 0 .. WORD - 1]
           /\ OneRunning'
           /\ IdleCanRun'
           /\ \A t \in Tasks : /\ state'[t] = "sleeping" <=> st[t] = "sleeping"
                               /\ state'[t] = "blocked" <=> st[t] = "blocked"
<1> DEFINE next == TaskSearch(st, tk, la)
           pre  == Preempted(st)
<1>1. /\ next \in Tasks
      /\ Candidate(st, next) \/ next = Idle
    BY TaskSearchResult DEF Winner
<1>2. /\ state' = [pre EXCEPT ![next] = "running"]
      /\ ticks' = IF tk[current] = 0
                  THEN [tk EXCEPT ![current] = Priority[current]] ELSE tk
      /\ last' = la
      /\ current' = next
    BY DEF Schedule
<1>3. /\ pre \in [Threads -> States]
      /\ \A t \in Tasks : /\ pre[t] # "running"
                          /\ pre[t] = "sleeping" <=> st[t] = "sleeping"
                          /\ pre[t] = "blocked" <=> st[t] = "blocked"
      /\ pre[Idle] \in {"ready", "running"}
    BY Constants DEF Preempted, States
<1>4. ~Waits(st, next)
    BY <1>1 DEF Candidate, Waits
<1> HIDE DEF next, pre
<1>5. state' \in [Threads -> States]
    BY <1>2, <1>3 DEF States
<1>6. ticks' \in [Threads -> 0 .. WORD - 1]
    BY <1>2, Constants
<1>7. \A t \in Tasks : state'[t] = IF t = next THEN "running" ELSE pre[t]
    BY <1>1, <1>2, <1>3, Constants
<1>8. OneRunning'
    BY <1>2, <1>3, <1>7 DEF OneRunning
<1>9. \A t \in Tasks : /\ state'[t] = "sleeping" <=> st[t] = "sleeping"
                       /\ state'[t] = "blocked" <=> st[t] = "blocked"
    BY <1>3, <1>4, <1>7 DEF Waits
<1>10. IdleCanRun'
    BY <1>3, <1>7, Constants DEF IdleCanRun
<1> QED
    BY <1>1, <1>2, <1>5, <1>6, <1>8, <1>9, <1>10

\* A step that moves no task between the lists and changes no state but
\* between ready and running.
LEMMA ListsUnchanged ==
    ASSUME ListsMatchStates, SlotIsBlocked, UNCHANGED <<lists, blocked>>,
           \A t \in Tasks : /\ state'[t] = "sleeping" <=> state[t] = "sleeping"
                            /\ state'[t] = "blocked" <=> state[t] = "blocked"
    PROVE  ListsMatchStates' /\ SlotIsBlocked'
BY DEF ListsMatchStates, SlotIsBlocked

\* Task t joins list l and waits there; everything else stays as it was.
LEMMA JoinList ==
    ASSUME ListsMatchStates,
           NEW l \in ListNames, NEW t \in Tasks, NEW q \in Seq(Tasks),
           lists \in [ListNames -> Seq(Tasks)], ~Linked(t),
           lists' = [lists EXCEPT ![l] = q],
           ToSet(q) = ToSet(lists[l]) \cup {t}, IsInjective(q),
           state'[t] = "sleeping" <=> l = "sleep",
           state'[t] = "blocked" <=> l # "sleep",
           \A u \in Tasks \ {t} : /\ state'[u] = "sleeping" <=> state[u] = "sleeping"
                                  /\ state'[u] = "blocked" <=> state[u] = "blocked"
    PROVE  ListsMatchStates'
<1>1. /\ lists'[l] = q
      /\ \A m \in ListNames \ {l} : lists'[m] = lists[m]
    OBVIOUS
<1>2. \A m \in ListNames : \A u \in Tasks :
        u \in ToSet(lists'[m]) <=> u \in ToSet(lists[m]) \/ (u = t /\ m = l)
    BY <1>1
<1>3. \A m \in ListNames : t \notin ToSet(lists[m])
    BY DEF Linked
<1>4. \A m \in ListNames : IsInjective(lists'[m])
    BY <1>1 DEF ListsMatchStates
<1>5. \A u \in Tasks : state'[u] = "sleeping" <=> u \in ToSet(lists'["sleep"])
    BY <1>2, <1>3, Constants DEF ListsMatchStates
<1>6. \A u \in Tasks : state'[u] = "blocked" <=>
                        \E m \in ListNames \ {"sleep"} : u \in ToSet(lists'[m])
    BY <1>2, <1>3, Constants DEF ListsMatchStates
<1>7. \A k, m \in ListNames : k # m => ToSet(lists'[k]) \cap ToSet(lists'[m]) = {}
    BY <1>1, <1>3 DEF ListsMatchStates
<1> QED
    BY <1>4, <1>5, <1>6, <1>7 DEF ListsMatchStates

\* The tasks of G leave whatever list they are on and wait no longer.
LEMMA LeaveLists ==
    ASSUME ListsMatchStates, NEW G \in SUBSET Tasks,
           \A l \in ListNames : /\ ToSet(lists'[l]) = ToSet(lists[l]) \ G
                                /\ IsInjective(lists'[l]),
           \A u \in G : state'[u] \notin {"sleeping", "blocked"},
           \A u \in Tasks \ G : /\ state'[u] = "sleeping" <=> state[u] = "sleeping"
                                /\ state'[u] = "blocked" <=> state[u] = "blocked"
    PROVE  ListsMatchStates'
<1>1. \A u \in Tasks : state'[u] = "sleeping" <=> u \in ToSet(lists'["sleep"])
    BY Constants DEF ListsMatchStates
<1>2. \A u \in Tasks : state'[u] = "blocked" <=>
                        \E m \in ListNames \ {"sleep"} : u \in ToSet(lists'[m])
    BY DEF ListsMatchStates
<1>3. \A k, m \in ListNames : k # m => ToSet(lists'[k]) \cap ToSet(lists'[m]) = {}
    BY DEF ListsMatchStates
<1> QED
    BY <1>1, <1>2, <1>3 DEF ListsMatchStates

\* Before the first clock interrupt every task is ready and no list is used.
LEMMA TaskInvInit == Init => TaskInv
<1> SUFFICES ASSUME Init
             PROVE  TaskInv
    OBVIOUS
<1>1. TypeOK
    <2>1. state \in [Threads -> States] /\ ticks \in [Threads -> 0 .. WORD - 1]
        BY Constants DEF Init, FirstTask, BootTask, Created, States
    <2>2. pc \in [Threads -> Labels]
        <3>1. \A t \in Threads : (IF t = Boot THEN "spin" ELSE "start") \in Labels
            BY DEF Labels
        <3> QED
            BY <3>1 DEF Init, FirstTask, BootTask, Created
    <2>3. lists \in [ListNames -> Seq(Tasks)]
        BY DEF Init
    <2>4. /\ last \in [Threads -> 0 .. WORD - 1]
          /\ trap \in [Threads -> {"none", "irq", "iret"}]
        BY Constants DEF Init, FirstTask, BootTask, Created
    <2> QED
        BY <2>1, <2>2, <2>3, <2>4, Constants DEF Init, TypeOK
<1>2. OneRunning
    BY Constants
        DEF Init, FirstTask, BootTask, Created, OneRunning
<1>3. \A l \in ListNames : lists[l] = <<>> /\ ToSet(lists[l]) = {}
    BY DEF Init, ToSet
<1>4. ListsMatchStates
    <2>1. \A l \in ListNames : IsInjective(lists[l])
        BY <1>3 DEF IsInjective
    <2> QED
        BY <1>3, <2>1, Constants
        DEF Init, FirstTask, BootTask, Created, ListsMatchStates
<1>5. SlotIsBlocked
    BY <1>3, Constants
        DEF Init, FirstTask, BootTask, Created, SlotIsBlocked
<1>6. IdleCanRun
    BY Constants
        DEF Init, FirstTask, BootTask, Created, IdleCanRun
<1> QED
    BY <1>1, <1>2, <1>4, <1>5, <1>6 DEF TaskInv

-----------------------------------------------------------------------------
(* The steps, one lemma for each *)

\* Steps that only move a thread along its own code or its trap frame.
LEMMA TaskInvLocal ==
    ASSUME TaskInv,
           UNCHANGED <<current, taskVars, jiffies>>,
           intr' \in BOOLEAN, in_service' \in BOOLEAN,
           trap' \in [Threads -> {"none", "irq", "iret"}],
           pc' \in [Threads -> Labels]
    PROVE  TaskInv'
<1>1. TypeOK'
    BY DEF TaskInv, TypeOK, taskVars
<1> QED
    BY <1>1 DEF TaskInv, OneRunning, ListsMatchStates, SlotIsBlocked,
                IdleCanRun, taskVars

\* The first statement of a thread.
LEMMA TaskInvStart == ASSUME TaskInv, NEW t \in Tasks, Start(t) PROVE TaskInv'
<1>1. pc' \in [Threads -> Labels]
    BY Constants DEF TaskInv, TypeOK, Start, Goto, Labels
<1> QED
    BY <1>1, TaskInvLocal DEF TaskInv, TypeOK, Start

\* interrupt_exit: the iret to the interrupted code.
LEMMA TaskInvInterruptExit ==
    ASSUME TaskInv, NEW t \in Threads, InterruptExit(t) PROVE TaskInv'
<1>1. trap' \in [Threads -> {"none", "irq", "iret"}]
    BY DEF TaskInv, TypeOK, InterruptExit
<1> QED
    BY <1>1, TaskInvLocal DEF TaskInv, TypeOK, InterruptExit

\* sti; hlt of idle.
LEMMA TaskInvHalt == ASSUME TaskInv, Halt PROVE TaskInv'
<1>1. pc' \in [Threads -> Labels]
    BY Constants DEF TaskInv, TypeOK, Halt, Goto, Labels
<1> QED
    BY <1>1, TaskInvLocal DEF TaskInv, TypeOK, Halt

\* The clock interrupt is taken.
LEMMA TaskInvAcceptInterrupt == ASSUME TaskInv, AcceptInterrupt PROVE TaskInv'
<1>1. pc' \in [Threads -> Labels] /\ trap' \in [Threads -> {"none", "irq", "iret"}]
    BY Constants DEF TaskInv, TypeOK, AcceptInterrupt, Labels
<1> QED
    BY <1>1, TaskInvLocal DEF TaskInv, TypeOK, AcceptInterrupt

\* The part of the types that no system call changes but through int 0x80.
LEMMA Int80Types ==
    ASSUME TypeOK, NEW t \in Threads, Int80(t)
    PROVE  /\ jiffies' \in 0 .. WORD - 1
           /\ intr' \in BOOLEAN /\ in_service' \in BOOLEAN
           /\ trap' \in [Threads -> {"none", "irq", "iret"}]
BY DEF TypeOK, Int80

\* yield: a schedule() and nothing else.
LEMMA TaskInvYield ==
    ASSUME TaskInv, NEW t \in Tasks, Int80(t), Schedule(state, ticks, last),
           UNCHANGED <<lists, blocked>>, pc' \in [Threads -> Labels]
    PROVE  TaskInv'
<1>1. /\ TypeOK /\ OneRunning /\ IdleCanRun
      /\ ListsMatchStates /\ SlotIsBlocked
    BY DEF TaskInv
<1>2. /\ current' \in Tasks
      /\ state' \in [Threads -> States]
      /\ ticks' \in [Threads -> 0 .. WORD - 1]
      /\ last' \in [Threads -> 0 .. WORD - 1]
      /\ OneRunning' /\ IdleCanRun'
      /\ \A u \in Tasks : /\ state'[u] = "sleeping" <=> state[u] = "sleeping"
                          /\ state'[u] = "blocked" <=> state[u] = "blocked"
    <2>1. \A u \in Tasks : state[u] = "running" => u = current
        BY <1>1 DEF OneRunning
    <2>2. state[Idle] \in {"ready", "running"}
        BY <1>1 DEF IdleCanRun
    <2> QED
        BY <1>1, <2>1, <2>2, ScheduleStep DEF TypeOK
<1>3. ListsMatchStates' /\ SlotIsBlocked'
    BY <1>1, <1>2, ListsUnchanged
<1>4. TypeOK'
    BY <1>1, <1>2, Int80Types, Constants DEF TypeOK
<1> QED
    BY <1>2, <1>3, <1>4 DEF TaskInv

\* yield() of idle.
LEMMA TaskInvIdleYield == ASSUME TaskInv, IdleYield PROVE TaskInv'
<1>1. pc' \in [Threads -> Labels]
    BY Constants DEF TaskInv, TypeOK, IdleYield, Goto, Labels
<1> QED
    BY <1>1, TaskInvYield, Constants DEF IdleYield

\* yield() of another task.
LEMMA TaskInvTaskYield ==
    ASSUME TaskInv, NEW t \in Tasks, TaskYield(t) PROVE TaskInv'
BY TaskInvYield DEF TaskYield, TaskInv, TypeOK

\* task_block on any list but the sleep list: the current task joins it and
\* another one runs.
LEMMA TaskBlockStep ==
    ASSUME TypeOK, OneRunning, ListsMatchStates, IdleCanRun,
           current \in Tasks, current # Idle,
           NEW list \in ListNames \ {"sleep"},
           TaskBlock(list, "blocked")
    PROVE  /\ current' \in Tasks
           /\ state' \in [Threads -> States]
           /\ ticks' \in [Threads -> 0 .. WORD - 1]
           /\ last' \in [Threads -> 0 .. WORD - 1]
           /\ lists' \in [ListNames -> Seq(Tasks)]
           /\ ToSet(lists'[list]) = ToSet(lists[list]) \cup {current}
           /\ \A l \in ListNames \ {list} : lists'[l] = lists[l]
           /\ OneRunning' /\ IdleCanRun' /\ ListsMatchStates'
<1> DEFINE st == [state EXCEPT ![current] = "blocked"]
           q  == <<current>> \o lists[list]
<1>1. /\ ~Linked(current)
      /\ lists' = [lists EXCEPT ![list] = q]
      /\ Schedule(st, ticks, last)
    BY DEF TaskBlock
<1>2. /\ st \in [Threads -> States]
      /\ st[current] = "blocked"
      /\ \A u \in Threads \ {current} : st[u] = state[u]
    BY Constants DEF TypeOK, States
<1> HIDE DEF st
<1>3. /\ current' \in Tasks
      /\ state' \in [Threads -> States]
      /\ ticks' \in [Threads -> 0 .. WORD - 1]
      /\ last' \in [Threads -> 0 .. WORD - 1]
      /\ OneRunning' /\ IdleCanRun'
      /\ \A u \in Tasks : /\ state'[u] = "sleeping" <=> st[u] = "sleeping"
                          /\ state'[u] = "blocked" <=> st[u] = "blocked"
    <2>1. \A u \in Tasks : st[u] = "running" => u = current
        BY <1>2, Constants DEF OneRunning
    <2>2. st[Idle] \in {"ready", "running"}
        BY <1>2, Constants DEF IdleCanRun
    <2> QED
        BY <1>1, <1>2, <2>1, <2>2, ScheduleStep DEF TypeOK
<1>4. lists \in [ListNames -> Seq(Tasks)] /\ lists[list] \in Seq(Tasks)
    BY DEF TypeOK
<1>5. /\ q \in Seq(Tasks)
      /\ ToSet(q) = ToSet(lists[list]) \cup {current}
      /\ IsInjective(q)
    <2>1. current \notin ToSet(lists[list]) /\ IsInjective(lists[list])
        BY <1>1 DEF Linked, ListsMatchStates
    <2> QED
        BY <1>4, <2>1, PushProperties
<1> HIDE DEF q
<1>6. ListsMatchStates'
    <2>1. /\ state'[current] = "sleeping" <=> list = "sleep"
          /\ state'[current] = "blocked" <=> list # "sleep"
        BY <1>2, <1>3
    <2>2. \A u \in Tasks \ {current} :
            /\ state'[u] = "sleeping" <=> state[u] = "sleeping"
            /\ state'[u] = "blocked" <=> state[u] = "blocked"
        BY <1>2, <1>3, Constants
    <2> QED
        BY <1>1, <1>4, <1>5, <2>1, <2>2, JoinList
<1> QED
    BY <1>1, <1>3, <1>4, <1>5, <1>6

\* sys_test with an empty slot: the caller blocks and fills the slot.
LEMMA TaskInvTestBlock ==
    ASSUME TaskInv, NEW t \in Tasks \ {Idle}, TestBlock(t) PROVE TaskInv'
<1>1. /\ TypeOK /\ OneRunning /\ IdleCanRun
      /\ ListsMatchStates /\ SlotIsBlocked
      /\ current = t /\ blocked = NULL /\ blocked' = t /\ Int80(t) /\ pc' = pc
      /\ TaskBlock("block", "blocked")
    BY DEF TaskInv, TestBlock, AtLabel
<1>2. /\ current' \in Tasks
      /\ state' \in [Threads -> States]
      /\ ticks' \in [Threads -> 0 .. WORD - 1]
      /\ last' \in [Threads -> 0 .. WORD - 1]
      /\ lists' \in [ListNames -> Seq(Tasks)]
      /\ ToSet(lists'["block"]) = ToSet(lists["block"]) \cup {t}
      /\ OneRunning' /\ IdleCanRun' /\ ListsMatchStates'
    BY <1>1, Constants, TaskBlockStep
<1>3. SlotIsBlocked'
    BY <1>1, <1>2, Constants DEF SlotIsBlocked
<1>4. TypeOK'
    BY <1>1, <1>2, Int80Types, Constants DEF TypeOK
<1> QED
    BY <1>2, <1>3, <1>4 DEF TaskInv

\* sys_test with a task in the slot: that task leaves block_list.
LEMMA TaskInvTestUnblock ==
    ASSUME TaskInv, NEW t \in Tasks \ {Idle}, TestUnblock(t) PROVE TaskInv'
<1>1. /\ TypeOK /\ OneRunning /\ IdleCanRun
      /\ ListsMatchStates /\ SlotIsBlocked
      /\ current = t /\ blocked # NULL /\ Int80(t)
      /\ lists' = [l \in ListNames |-> RemoveFirst(lists[l], blocked)]
      /\ state' = [state EXCEPT ![blocked] = "ready"]
      /\ blocked' = NULL
      /\ UNCHANGED <<current, ticks, last, pc>>
    BY DEF TaskInv, TestUnblock, AtLabel, ListRemove, SlotCleared
<1>2. blocked \in Tasks /\ blocked \in ToSet(lists["block"])
    BY <1>1 DEF TypeOK, SlotIsBlocked
\* The unblocked task is not the one that runs.
<1>3. state[blocked] = "blocked" /\ state[blocked] # "running"
    BY <1>1, <1>2, Constants DEF ListsMatchStates
<1>4. \A l \in ListNames : /\ lists'[l] \in Seq(Tasks)
                           /\ ToSet(lists'[l]) = ToSet(lists[l]) \ {blocked}
                           /\ IsInjective(lists'[l])
    <2> SUFFICES ASSUME NEW l \in ListNames
                 PROVE  /\ RemoveFirst(lists[l], blocked) \in Seq(Tasks)
                        /\ ToSet(RemoveFirst(lists[l], blocked)) = ToSet(lists[l]) \ {blocked}
                        /\ IsInjective(RemoveFirst(lists[l], blocked))
        BY <1>1
    <2>1. lists[l] \in Seq(Tasks) /\ IsInjective(lists[l])
        BY <1>1 DEF TypeOK, ListsMatchStates
    <2> QED
        BY <2>1, RemoveFirstProperties
<1>5. /\ state' \in [Threads -> States]
      /\ state'[blocked] = "ready"
      /\ \A u \in Threads \ {blocked} : state'[u] = state[u]
    BY <1>1, <1>2, Constants DEF TypeOK, States
<1>6. OneRunning'
    BY <1>1, <1>3, <1>5, Constants DEF OneRunning
<1>7. IdleCanRun'
    BY <1>1, <1>5, Constants DEF IdleCanRun
<1>8. ListsMatchStates'
    <2>1. {blocked} \in SUBSET Tasks
        BY <1>2
    <2>2. \A u \in Tasks \ {blocked} :
            /\ state'[u] = "sleeping" <=> state[u] = "sleeping"
            /\ state'[u] = "blocked" <=> state[u] = "blocked"
        BY <1>5, Constants
    <2> QED
        BY <1>1, <1>4, <1>5, <2>1, <2>2, LeaveLists
<1>9. SlotIsBlocked'
    BY <1>1, <1>4, Constants DEF SlotIsBlocked
<1>10. lists' \in [ListNames -> Seq(Tasks)]
    BY <1>1, <1>4
<1>11. TypeOK'
    BY <1>1, <1>5, <1>10, Int80Types, Constants DEF TypeOK
<1> QED
    BY <1>6, <1>7, <1>8, <1>9, <1>11 DEF TaskInv

\* task_sleep inserts within the list or right behind it.
LEMMA SleepPositionRange ==
    ASSUME TypeOK, NEW target
    PROVE  SleepPosition(target) \in 1 .. Len(lists["sleep"]) + 1
<1> DEFINE queue == lists["sleep"]
           later == {i \in DOMAIN queue : ticks[queue[i]] > target}
<1>1. queue \in Seq(Tasks) /\ Len(queue) \in Nat /\ DOMAIN queue = 1 .. Len(queue)
    BY Constants DEF TypeOK
<1>2. SleepPosition(target) = IF later = {} THEN Len(queue) + 1 ELSE Min(later)
    BY DEF SleepPosition
<1>3. later \in SUBSET (1 .. Len(queue)) /\ later \in SUBSET Nat
    BY <1>1
<1> HIDE DEF later, queue
<1>4. later # {} => Min(later) \in 1 .. Len(queue)
    BY <1>3, MinProperties
<1>5. SleepPosition(target) \in 1 .. Len(queue) + 1
    BY <1>1, <1>2, <1>4
<1> QED
    BY <1>5 DEF queue

\* task_sleep: the caller joins sleep_list.
LEMMA TaskInvTaskSleep ==
    ASSUME TaskInv, NEW t \in Tasks \ {Idle}, NEW ms \in SleepMs, TaskSleep(t, ms)
    PROVE  TaskInv'
<1> DEFINE target == (jiffies + SleepTicks(ms)) % WORD
           st == [state EXCEPT ![t] = "sleeping"]
           tk == [ticks EXCEPT ![t] = target]
           q  == InsertAt(lists["sleep"], SleepPosition(target), t)
<1>1. /\ TypeOK /\ OneRunning /\ IdleCanRun
      /\ ListsMatchStates /\ SlotIsBlocked
      /\ current = t /\ Int80(t) /\ ~Linked(t) /\ UNCHANGED <<blocked, pc>>
      /\ lists' = [lists EXCEPT !["sleep"] = q]
      /\ Schedule(st, tk, last)
    BY DEF TaskInv, TaskSleep, AtLabel
<1>2. target \in 0 .. WORD - 1
    <2>1. SleepTicks(ms) \in Int
        BY TaskAssumption DEF SleepTicks
    <2>2. jiffies \in Int /\ jiffies + SleepTicks(ms) \in Int
        BY <1>1, <2>1, Constants DEF TypeOK
    <2> QED
        BY <2>2, ModRange, Constants
<1>3. /\ st \in [Threads -> States] /\ tk \in [Threads -> 0 .. WORD - 1]
      /\ st[t] = "sleeping"
      /\ \A u \in Threads \ {t} : st[u] = state[u]
    <2> HIDE DEF target
    <2> QED
        BY <1>1, <1>2, Constants DEF TypeOK, States
<1>4. /\ q \in Seq(Tasks)
      /\ ToSet(q) = ToSet(lists["sleep"]) \cup {t}
      /\ IsInjective(q)
    <2>1. lists["sleep"] \in Seq(Tasks) /\ IsInjective(lists["sleep"])
        BY <1>1, Constants DEF TypeOK, ListsMatchStates
    <2>2. t \notin ToSet(lists["sleep"])
        BY <1>1, Constants DEF Linked
    <2>3. SleepPosition(target) \in 1 .. Len(lists["sleep"]) + 1
        BY <1>1, SleepPositionRange
    <2> HIDE DEF target
    <2> QED
        BY <2>1, <2>2, <2>3, InsertAtProperties
<1> HIDE DEF target, st, tk, q
<1>5. /\ current' \in Tasks
      /\ state' \in [Threads -> States]
      /\ ticks' \in [Threads -> 0 .. WORD - 1]
      /\ last' \in [Threads -> 0 .. WORD - 1]
      /\ OneRunning' /\ IdleCanRun'
      /\ \A u \in Tasks : /\ state'[u] = "sleeping" <=> st[u] = "sleeping"
                          /\ state'[u] = "blocked" <=> st[u] = "blocked"
    <2>1. \A u \in Tasks : st[u] = "running" => u = current
        BY <1>1, <1>3, Constants DEF OneRunning
    <2>2. st[Idle] \in {"ready", "running"}
        BY <1>1, <1>3, Constants DEF IdleCanRun
    <2> QED
        BY <1>1, <1>3, <2>1, <2>2, ScheduleStep DEF TypeOK
<1>6. lists \in [ListNames -> Seq(Tasks)] /\ lists' \in [ListNames -> Seq(Tasks)]
    BY <1>1, <1>4 DEF TypeOK
<1>7. ListsMatchStates'
    <2>1. state'[t] = "sleeping" /\ state'[t] # "blocked"
        BY <1>3, <1>5
    <2>2. \A u \in Tasks \ {t} :
            /\ state'[u] = "sleeping" <=> state[u] = "sleeping"
            /\ state'[u] = "blocked" <=> state[u] = "blocked"
        BY <1>3, <1>5, Constants
    <2> QED
        BY <1>1, <1>4, <1>6, <2>1, <2>2, JoinList, Constants
<1>8. SlotIsBlocked'
    BY <1>1, <1>6, Constants DEF SlotIsBlocked
<1>9. TypeOK'
    BY <1>1, <1>5, <1>6, Int80Types, Constants DEF TypeOK
<1> QED
    BY <1>5, <1>7, <1>8, <1>9 DEF TaskInv

\* task_wakeup takes a prefix of sleep_list.
LEMMA WakeCountRange ==
    ASSUME TypeOK
    PROVE  WakeCount \in 0 .. Len(lists["sleep"])
<1> DEFINE queue == lists["sleep"]
           keep  == {i \in DOMAIN queue : ticks[queue[i]] > jiffies}
<1>1. queue \in Seq(Tasks) /\ Len(queue) \in Nat /\ DOMAIN queue = 1 .. Len(queue)
    BY Constants DEF TypeOK
<1>2. WakeCount = IF keep = {} THEN Len(queue) ELSE Min(keep) - 1
    BY DEF WakeCount
<1>3. keep \in SUBSET (1 .. Len(queue)) /\ keep \in SUBSET Nat
    BY <1>1
<1> HIDE DEF keep, queue
<1>4. keep # {} => Min(keep) \in 1 .. Len(queue)
    BY <1>3, MinProperties
<1>5. WakeCount \in 0 .. Len(queue)
    BY <1>1, <1>2, <1>4
<1> QED
    BY <1>5 DEF queue

\* clock_handler: the sleepers that are due leave sleep_list, and the
\* interrupted task may be switched out.
LEMMA TaskInvClockHandler == ASSUME TaskInv, ClockHandler PROVE TaskInv'
<1> DEFINE now == (jiffies + 1) % WORD
           st  == [t \in Threads |-> IF t \in Woken THEN "ready" ELSE state[t]]
           tk  == [t \in Threads |->
                       IF t = current THEN (ticks[t] - 1) % WORD
                       ELSE IF t \in Woken THEN 0 ELSE ticks[t]]
           la  == [last EXCEPT ![current] = now]
           q   == SubSeq(lists["sleep"], WakeCount + 1, Len(lists["sleep"]))
<1>1. /\ TypeOK /\ OneRunning /\ IdleCanRun
      /\ ListsMatchStates /\ SlotIsBlocked
      /\ lists' = [lists EXCEPT !["sleep"] = q]
      /\ jiffies' = now
      /\ trap' = [trap EXCEPT ![current] = "iret"]
      /\ \/ Schedule(st, tk, la)
         \/ state' = st /\ ticks' = tk /\ last' = la /\ UNCHANGED current
      /\ in_service' = FALSE
      /\ UNCHANGED <<intr, blocked, pc>>
    BY DEF TaskInv, ClockHandler, EndOfInterrupt
<1>2. now \in 0 .. WORD - 1
    <2>1. jiffies + 1 \in Int
        BY <1>1, Constants DEF TypeOK
    <2> QED
        BY <2>1, ModRange, Constants
<1>3. /\ q \in Seq(Tasks)
      /\ ToSet(q) = ToSet(lists["sleep"]) \ Woken
      /\ IsInjective(q)
      /\ Woken \subseteq ToSet(lists["sleep"])
    <2>1. lists["sleep"] \in Seq(Tasks) /\ IsInjective(lists["sleep"])
        BY <1>1, Constants DEF TypeOK, ListsMatchStates
    <2>2. WakeCount \in 0 .. Len(lists["sleep"])
        BY <1>1, WakeCountRange
    <2>3. Woken = {lists["sleep"][i] : i \in 1 .. WakeCount}
        BY DEF Woken
    <2>4. Woken \subseteq ToSet(lists["sleep"])
        BY <2>1, <2>2, <2>3, ToSetByIndex
    <2> QED
        BY <2>1, <2>2, <2>3, <2>4, DropProperties
\* The interrupted task is not among the sleepers that are woken.
<1>4. /\ Woken \in SUBSET Tasks
      /\ \A u \in Woken : state[u] = "sleeping"
      /\ current \notin Woken /\ Idle \notin Woken
    <2>1. ToSet(lists["sleep"]) \subseteq Tasks
        BY <1>1, ToSetByIndex, Constants DEF TypeOK
    <2>2. \A u \in Woken : state[u] = "sleeping"
        BY <1>1, <1>3, <2>1 DEF ListsMatchStates
    <2>3. current \notin Woken
        BY <1>1, <1>3, <2>1, <2>2, Constants DEF OneRunning, TypeOK
    <2> QED
        BY <1>1, <1>3, <2>1, <2>2, <2>3 DEF IdleCanRun
<1>5. /\ st \in [Threads -> States]
      /\ \A u \in Woken : st[u] = "ready"
      /\ \A u \in Threads \ Woken : st[u] = state[u]
    BY <1>1, <1>4, Constants DEF TypeOK, States
<1>6. tk \in [Threads -> 0 .. WORD - 1]
    <2> SUFFICES ASSUME NEW t \in Threads
                 PROVE  tk[t] \in 0 .. WORD - 1
        OBVIOUS
    <2>1. ticks[t] \in 0 .. WORD - 1 /\ ticks[t] - 1 \in Int
        BY <1>1, Constants DEF TypeOK
    <2>2. (ticks[t] - 1) % WORD \in 0 .. WORD - 1
        BY <2>1, ModRange, Constants
    <2> QED
        BY <2>1, <2>2, Constants
<1>7. la \in [Threads -> 0 .. WORD - 1]
    BY <1>1, <1>2 DEF TypeOK
<1> HIDE DEF now, st, tk, la, q
<1>8. \A u \in Tasks : st[u] = "running" <=> u = current
    BY <1>1, <1>4, <1>5, Constants DEF OneRunning
<1>9. st[Idle] \in {"ready", "running"}
    BY <1>1, <1>4, <1>5, Constants DEF IdleCanRun
<1>10. /\ current' \in Threads
       /\ state' \in [Threads -> States]
       /\ ticks' \in [Threads -> 0 .. WORD - 1]
       /\ last' \in [Threads -> 0 .. WORD - 1]
       /\ OneRunning' /\ IdleCanRun'
       /\ \A u \in Tasks : /\ state'[u] = "sleeping" <=> st[u] = "sleeping"
                           /\ state'[u] = "blocked" <=> st[u] = "blocked"
    <2>1. CASE Schedule(st, tk, la)
        BY <1>1, <1>5, <1>6, <1>7, <1>8, <1>9, <2>1, ScheduleStep, Constants DEF TypeOK
    <2>2. CASE state' = st /\ ticks' = tk /\ last' = la /\ UNCHANGED current
        BY <1>1, <1>5, <1>6, <1>7, <1>8, <1>9, <2>2
        DEF TypeOK, OneRunning, IdleCanRun
    <2> QED
        BY <1>1, <2>1, <2>2
<1>11. lists' \in [ListNames -> Seq(Tasks)]
    BY <1>1, <1>3 DEF TypeOK
<1>12. ListsMatchStates'
    <2>1. \A l \in ListNames : /\ ToSet(lists'[l]) = ToSet(lists[l]) \ Woken
                               /\ IsInjective(lists'[l])
        <3>1. lists'["sleep"] = q
            BY <1>1, Constants DEF TypeOK
        <3>2. \A l \in ListNames \ {"sleep"} :
                /\ lists'[l] = lists[l]
                /\ ToSet(lists[l]) \cap Woken = {}
                /\ IsInjective(lists[l])
            BY <1>1, <1>3, Constants DEF ListsMatchStates, TypeOK
        <3> QED
            BY <1>3, <3>1, <3>2
    <2>2. \A u \in Woken : state'[u] \notin {"sleeping", "blocked"}
        BY <1>4, <1>5, <1>10
    <2>3. \A u \in Tasks \ Woken :
            /\ state'[u] = "sleeping" <=> state[u] = "sleeping"
            /\ state'[u] = "blocked" <=> state[u] = "blocked"
        BY <1>5, <1>10, Constants
    <2> QED
        BY <1>1, <1>4, <2>1, <2>2, <2>3, LeaveLists
<1>13. SlotIsBlocked'
    <2>1. lists'["block"] = lists["block"]
        BY <1>1, Constants DEF TypeOK
    <2> QED
        BY <1>1, <2>1 DEF SlotIsBlocked
<1>14. TypeOK'
    BY <1>1, <1>2, <1>10, <1>11, Constants DEF TypeOK
<1> QED
    BY <1>10, <1>12, <1>13, <1>14 DEF TaskInv

-----------------------------------------------------------------------------
(* The theorems *)

\* No step of the scheduler, of an interrupt or of a thread breaks TaskInv.
LEMMA TaskInvStep == TaskInv /\ [Next]_vars => TaskInv'
<1> SUFFICES ASSUME TaskInv, [Next]_vars
             PROVE  TaskInv'
    OBVIOUS
<1>1. CASE UNCHANGED vars
    BY <1>1 DEF vars, taskVars, TaskInv, TypeOK, OneRunning, ListsMatchStates,
                SlotIsBlocked, IdleCanRun
<1>2. CASE AcceptInterrupt
    BY <1>2, TaskInvAcceptInterrupt
<1>3. CASE CpuStep
    BY <1>3, TaskInvStart, TaskInvInterruptExit, TaskInvHalt, TaskInvIdleYield,
       TaskInvClockHandler DEF CpuStep
<1>4. CASE \E t \in Tasks \ {Idle} : SystemCall(t)
    BY <1>4, TaskInvTaskYield, TaskInvTaskSleep, TaskInvTestBlock,
       TaskInvTestUnblock DEF SystemCall
<1> QED
    BY <1>1, <1>2, <1>3, <1>4 DEF Next

\* TaskInv holds throughout.
THEOREM TaskInvariant == Spec => []TaskInv
BY TaskInvInit, TaskInvStep, PTL DEF Spec

\* Every variable keeps its type: no list ever holds anything but tasks and no
\* tick count leaves the range of u32, whatever interrupts and calls happen.
THEOREM TypeCorrect == Spec => []TypeOK
<1>1. TaskInv => TypeOK
    BY DEF TaskInv
<1> QED
    BY <1>1, TaskInvariant, PTL

\* The stack the CPU is on always belongs to the one task marked TASK_RUNNING.
THEOREM ExactlyOneRunning == Spec => []OneRunning
<1>1. TaskInv => OneRunning
    BY DEF TaskInv
<1> QED
    BY <1>1, TaskInvariant, PTL

\* A task is on the list its state says it waits on, once, and on no other.
THEOREM ListsAgreeWithStates == Spec => []ListsMatchStates
<1>1. TaskInv => ListsMatchStates
    BY DEF TaskInv
<1> QED
    BY <1>1, TaskInvariant, PTL

\* The slot of sys_test names the only task of block_list.
THEOREM TestSlotIsBlocked == Spec => []SlotIsBlocked
<1>1. TaskInv => SlotIsBlocked
    BY DEF TaskInv
<1> QED
    BY <1>1, TaskInvariant, PTL

-----------------------------------------------------------------------------
(* Sleeping *)

\* sleep_list is in the order of the wake-up times but for those that are due:
\* a wrapped time is less than jiffies, and schedule() may even have replaced a
\* wrapped time of 0 by the priority.
SleepOrder ==
    \A i, j \in 1 .. Len(lists["sleep"]) :
        i < j => \/ ticks[lists["sleep"][i]] <= ticks[lists["sleep"][j]]
                 \/ ticks[lists["sleep"][i]] <= jiffies

SleepInv == TaskInv /\ SleepOrder /\ NoOverdueSleeper

\* The sleepers are the elements of sleep_list.
LEMMA Sleepers ==
    ASSUME TaskInv
    PROVE  /\ lists["sleep"] \in Seq(Tasks)
           /\ Len(lists["sleep"]) \in Nat
           /\ \A i \in 1 .. Len(lists["sleep"]) :
                /\ lists["sleep"][i] \in Tasks
                /\ state[lists["sleep"][i]] = "sleeping"
                /\ lists["sleep"][i] # current
           /\ \A t \in Tasks : state[t] = "sleeping" =>
                \E i \in 1 .. Len(lists["sleep"]) : lists["sleep"][i] = t
<1>1. lists["sleep"] \in Seq(Tasks)
    BY Constants DEF TaskInv, TypeOK
<1>2. Len(lists["sleep"]) \in Nat
    BY <1>1
<1>3. \A t \in Tasks : state[t] = "sleeping" <=> t \in ToSet(lists["sleep"])
    BY DEF TaskInv, ListsMatchStates
<1>4. \A i \in 1 .. Len(lists["sleep"]) :
        lists["sleep"][i] \in Tasks /\ state[lists["sleep"][i]] = "sleeping"
    BY <1>1, <1>3, ToSetByIndex
<1>5. \A i \in 1 .. Len(lists["sleep"]) : lists["sleep"][i] # current
    BY <1>4 DEF TaskInv, OneRunning
<1>6. \A t \in Tasks : state[t] = "sleeping" =>
        \E i \in 1 .. Len(lists["sleep"]) : lists["sleep"][i] = t
    BY <1>1, <1>3, ToSetByIndex
<1> QED
    BY <1>1, <1>2, <1>4, <1>5, <1>6

\* schedule() refills the ticks of the task it leaves and no others.
LEMMA ScheduleTicks ==
    ASSUME NEW st, NEW tk \in [Threads -> 0 .. WORD - 1], NEW la, Schedule(st, tk, la)
    PROVE  \A t \in Threads : \/ t # current /\ ticks'[t] = tk[t]
                              \/ t = current /\ tk[t] # 0 /\ ticks'[t] = tk[t]
                              \/ t = current /\ tk[t] = 0 /\ ticks'[t] = Priority[t]
BY Constants DEF Schedule

\* A step that leaves the clock and sleep_list alone, makes nobody sleep and
\* changes the ticks of the current task only.
LEMMA SleepInvQuiet ==
    ASSUME SleepInv, TaskInv', jiffies' = jiffies,
           lists'["sleep"] = lists["sleep"],
           \A t \in Tasks \ {current} : ticks'[t] = ticks[t]
    PROVE  SleepInv'
<1>1. \A i \in 1 .. Len(lists["sleep"]) :
        ticks'[lists["sleep"][i]] = ticks[lists["sleep"][i]]
    BY Sleepers DEF SleepInv
<1>2. SleepOrder'
    BY <1>1 DEF SleepInv, SleepOrder
<1>3. \A t \in Tasks : state'[t] = "sleeping" <=> t \in ToSet(lists["sleep"])
    BY DEF TaskInv, ListsMatchStates
<1>4. \A t \in Tasks : state'[t] = "sleeping" => state[t] = "sleeping" /\ t # current
    BY <1>3 DEF SleepInv, TaskInv, ListsMatchStates, OneRunning
<1>5. NoOverdueSleeper'
    BY <1>4 DEF SleepInv, NoOverdueSleeper
<1> QED
    BY <1>2, <1>5 DEF SleepInv

-----------------------------------------------------------------------------
(* task_sleep *)

\* The wake-up time that task_sleep stores is at most one tick and the time
\* asked for away, or has wrapped; when it is 0, and so taken for a used-up
\* slice, the priority that replaces it is not ahead of jiffies.
LEMMA SleepTarget ==
    ASSUME TypeOK, NEW t \in Tasks, NEW ms \in SleepMs
    PROVE  LET target == (jiffies + SleepTicks(ms)) % WORD
           IN  /\ target \in 0 .. WORD - 1
               /\ target <= jiffies + ms \div JIFFY + 1
               /\ target = 0 => Priority[t] <= jiffies
<1> DEFINE s == SleepTicks(ms)
           target == (jiffies + s) % WORD
<1>1. ms \in Nat /\ JIFFY \in Nat \ {0}
    BY TaskAssumption
<1>2. ms \div JIFFY \in Nat
    BY <1>1
<1>3. /\ t \in Threads /\ Priority[t] \in 0 .. WORD - 1 /\ WORD \in Nat \ {0}
      /\ jiffies \in 0 .. WORD - 1
    BY Constants DEF TypeOK
<1>4. ms \div JIFFY + 1 + Priority[t] <= WORD
    BY <1>3, SleepAssumption
<1>5. s \in 1 .. ms \div JIFFY + 1
    BY <1>2 DEF SleepTicks
<1> HIDE DEF s
<1>6. /\ jiffies \in Int /\ s \in Int /\ jiffies + s \in Int
      /\ jiffies + s \in Nat /\ jiffies + s < 2 * WORD /\ jiffies + s > 0
    BY <1>2, <1>3, <1>4, <1>5
<1>7. target \in 0 .. WORD - 1
    BY <1>3, <1>6, ModRange
<1>8. target <= jiffies + s
    BY <1>3, <1>6
<1>9. target = 0 => jiffies + s = WORD
    BY <1>3, <1>6
<1> HIDE DEF target
<1>10. target <= jiffies + ms \div JIFFY + 1
    BY <1>2, <1>3, <1>5, <1>7, <1>8
<1>11. target = 0 => Priority[t] <= jiffies
    BY <1>2, <1>3, <1>4, <1>5, <1>9
<1> QED
    BY <1>7, <1>10, <1>11 DEF target, s

\* Where task_sleep inserts, nobody before has a later time than the target,
\* and whoever comes next has.
LEMMA SleepPositionSorts ==
    ASSUME TypeOK, NEW target \in Nat
    PROVE  LET q == lists["sleep"]
               p == SleepPosition(target)
           IN  /\ \A i \in 1 .. p - 1 : ticks[q[i]] <= target
               /\ p \in 1 .. Len(q) => ticks[q[p]] > target
<1> DEFINE q == lists["sleep"]
           later == {i \in DOMAIN q : ticks[q[i]] > target}
<1>1. q \in Seq(Tasks) /\ Len(q) \in Nat /\ DOMAIN q = 1 .. Len(q)
    BY Constants DEF TypeOK
<1>2. SleepPosition(target) = IF later = {} THEN Len(q) + 1 ELSE Min(later)
    BY DEF SleepPosition
<1>3. \A i \in 1 .. Len(q) : ticks[q[i]] \in Nat
    <2>1. \A i \in 1 .. Len(q) : q[i] \in Tasks
        BY <1>1
    <2>2. \A t \in Tasks : ticks[t] \in Nat
        BY Constants DEF TypeOK
    <2> QED
        BY <2>1, <2>2
<1>4. later \in SUBSET Nat /\ later \subseteq 1 .. Len(q)
    BY <1>1
<1>5. \A i \in 1 .. Len(q) : i \notin later => ticks[q[i]] <= target
    BY <1>1, <1>3
<1>6. \A i \in later : ticks[q[i]] > target
    OBVIOUS
<1> HIDE DEF later, q
<1>7. CASE later = {}
    BY <1>1, <1>2, <1>5, <1>7 DEF q
<1>8. CASE later # {}
    <2>1. Min(later) \in later /\ \A k \in later : Min(later) <= k
        BY <1>4, <1>8, MinProperties
    <2>2. PICK m : m = Min(later)
        OBVIOUS
    <2>3. m \in 1 .. Len(q) /\ m \in later /\ \A k \in later : m <= k
        BY <1>4, <2>1, <2>2
    <2>4. \A i \in 1 .. m - 1 : i \in 1 .. Len(q) /\ i \notin later
        BY <1>1, <2>3
    <2>5. SleepPosition(target) = m
        BY <1>2, <1>8, <2>2
    <2> QED
        BY <1>5, <1>6, <2>3, <2>4, <2>5 DEF q
<1> QED
    BY <1>7, <1>8

\* task_sleep keeps the order.
LEMMA SleepInvTaskSleep ==
    ASSUME SleepInv, TaskInv', NEW t \in Tasks \ {Idle}, NEW ms \in SleepMs,
           TaskSleep(t, ms)
    PROVE  SleepInv'
<1> DEFINE target == (jiffies + SleepTicks(ms)) % WORD
           q  == lists["sleep"]
           p  == SleepPosition(target)
           tk == [ticks EXCEPT ![t] = target]
<1>1. /\ TypeOK /\ current = t /\ jiffies' = jiffies
      /\ ~Linked(t)
      /\ lists' = [lists EXCEPT !["sleep"] = InsertAt(q, p, t)]
      /\ Schedule([state EXCEPT ![t] = "sleeping"], tk, last)
    BY DEF SleepInv, TaskInv, TaskSleep, AtLabel, Int80
<1>2. /\ target \in 0 .. WORD - 1 /\ target \in Nat
      /\ target <= jiffies + ms \div JIFFY + 1
      /\ target = 0 => Priority[t] <= jiffies
    BY <1>1, SleepTarget, Constants
<1>3. /\ q \in Seq(Tasks) /\ Len(q) \in Nat
      /\ \A i \in 1 .. Len(q) : q[i] \in Tasks /\ q[i] # t
    BY <1>1, Sleepers DEF SleepInv
<1>4. p \in 1 .. Len(q) + 1
    BY <1>1, <1>2, SleepPositionRange
<1>5. /\ \A i \in 1 .. p - 1 : ticks[q[i]] <= target
      /\ p \in 1 .. Len(q) => ticks[q[p]] > target
    BY <1>1, <1>2, SleepPositionSorts
<1>6. lists'["sleep"] = InsertAt(q, p, t)
    BY <1>1, Constants DEF TypeOK
<1>7. /\ IsInsertion(lists'["sleep"], q, p, t)
    BY <1>3, <1>4, <1>6, InsertAtIsInsertion
<1>8. tk \in [Threads -> 0 .. WORD - 1] /\ tk[t] = target
    BY <1>1, <1>2, Constants DEF TypeOK
<1>9. /\ \A u \in Tasks \ {t} : ticks'[u] = ticks[u]
      /\ ticks'[t] = IF target = 0 THEN Priority[t] ELSE target
    BY <1>1, <1>8, ScheduleTicks, Constants DEF TypeOK
<1>10. /\ \A u \in Tasks : ticks[u] \in Nat /\ ticks'[u] \in Nat
       /\ jiffies \in Nat /\ Priority[t] \in Nat
    BY <1>1, Constants DEF TaskInv, TypeOK
<1> DEFINE new == lists'["sleep"]
<1>11. SleepOrder'
    <2> SUFFICES ASSUME NEW i \in 1 .. Len(new), NEW j \in 1 .. Len(new), i < j
                 PROVE  ticks'[new[i]] <= ticks'[new[j]] \/ ticks'[new[i]] <= jiffies
        BY <1>1 DEF SleepOrder
    <2>1. /\ Len(new) = Len(q) + 1
          /\ \A k \in 1 .. p - 1 : new[k] = q[k]
          /\ new[p] = t
          /\ \A k \in p + 1 .. Len(q) + 1 : new[k] = q[k - 1]
        BY <1>7 DEF IsInsertion
    <2>2. \A k, l \in 1 .. Len(q) : k < l => \/ ticks[q[k]] <= ticks[q[l]]
                                             \/ ticks[q[k]] <= jiffies
        BY DEF SleepInv, SleepOrder
    <2>3. \A k \in 1 .. Len(q) : ticks'[q[k]] = ticks[q[k]] /\ ticks[q[k]] \in Nat
        BY <1>3, <1>9, <1>10
    <2>4. ticks'[t] <= target \/ ticks'[t] <= jiffies
        BY <1>2, <1>9
    <2>5. target <= ticks'[t]
        BY <1>2, <1>9, <1>10
    <2> HIDE DEF q, p, new, target, tk
    <2>6. CASE i # p /\ j # p
        <3> DEFINE k == IF i < p THEN i ELSE i - 1
                   l == IF j < p THEN j ELSE j - 1
        <3>1. k \in 1 .. Len(q) /\ l \in 1 .. Len(q) /\ k < l
            BY <1>3, <1>4, <2>1, <2>6
        <3>2. ASSUME NEW a \in 1 .. Len(new), a # p
              PROVE  new[a] = q[IF a < p THEN a ELSE a - 1]
            <4>1. CASE a < p
                BY <1>4, <2>1, <4>1
            <4>2. CASE a > p
                BY <1>3, <1>4, <2>1, <4>2
            <4> QED
                BY <1>3, <1>4, <2>1, <3>2, <4>1, <4>2
        <3>3. new[i] = q[k] /\ new[j] = q[l]
            BY <2>6, <3>2
        <3> HIDE DEF k, l
        <3> QED
            BY <2>2, <2>3, <3>1, <3>3
    <2>7. CASE j = p
        <3>1. i \in 1 .. p - 1 /\ i \in 1 .. Len(q) /\ new[i] = q[i] /\ new[j] = t
            BY <1>3, <1>4, <2>1, <2>7
        <3>2. ticks[q[i]] <= target
            BY <1>5, <3>1
        <3> QED
            BY <1>2, <1>10, <2>3, <2>5, <3>1, <3>2
    <2>8. CASE i = p
        <3>1. /\ j - 1 \in p .. Len(q) /\ new[j] = q[j - 1] /\ new[i] = t
              /\ p \in 1 .. Len(q) /\ j - 1 \in 1 .. Len(q)
            BY <1>3, <1>4, <2>1, <2>8
        <3>2. ticks[q[p]] > target
            BY <1>5, <3>1
        <3>3. ticks[q[p]] <= ticks[q[j - 1]] \/ ticks[q[p]] <= jiffies
            BY <1>3, <1>4, <2>2, <2>3, <3>1
        <3>4. /\ ticks[q[p]] \in Nat /\ ticks[q[j - 1]] \in Nat
              /\ ticks'[q[j - 1]] = ticks[q[j - 1]]
            BY <2>3, <3>1
        <3> DEFINE a == ticks[q[p]]
                   b == ticks[q[j - 1]]
                   c == ticks'[t]
        <3>5. /\ a \in Nat /\ b \in Nat /\ c \in Nat /\ target \in Nat /\ jiffies \in Nat
              /\ c <= target \/ c <= jiffies
              /\ a > target /\ (a <= b \/ a <= jiffies)
            BY <1>2, <1>10, <2>4, <3>2, <3>3, <3>4
        <3>6. ticks'[new[i]] = c /\ ticks'[new[j]] = b
            BY <3>1, <3>4
        <3> HIDE DEF a, b, c
        <3>7. c <= b \/ c <= jiffies
            BY <3>5
        <3> QED
            BY <3>6, <3>7
    <2> QED
        BY <2>6, <2>7, <2>8
<1>12. NoOverdueSleeper'
    <2>1. \A u \in Tasks : state'[u] = "sleeping" => u = t \/ state[u] = "sleeping"
        <3>1. \A u \in Tasks : state'[u] = "sleeping" <=> u \in ToSet(lists'["sleep"])
            BY DEF TaskInv, ListsMatchStates
        <3>2. ToSet(lists'["sleep"]) = ToSet(q) \cup {t}
            <4>1. IsInjective(q) /\ t \notin ToSet(q)
                BY <1>1, Constants DEF SleepInv, TaskInv, ListsMatchStates, Linked
            <4> QED
                BY <1>3, <1>4, <1>6, <4>1, InsertAtProperties
        <3> QED
            BY <3>1, <3>2 DEF SleepInv, TaskInv, ListsMatchStates
    <2>2. ticks'[t] <= jiffies + ms \div JIFFY + 1
        <3>1. ms \div JIFFY \in Nat
            BY TaskAssumption
        <3> QED
            BY <1>2, <1>9, <1>10, <3>1
    <2> QED
        BY <1>1, <1>9, <2>1, <2>2 DEF SleepInv, NoOverdueSleeper
<1> QED
    BY <1>11, <1>12 DEF SleepInv

-----------------------------------------------------------------------------
(* task_wakeup *)

\* What task_wakeup leaves on the list is not due, in whatever place it is.
LEMMA NobodyDueIsLeft ==
    ASSUME SleepInv
    PROVE  LET q == lists["sleep"]
           IN  \A i \in WakeCount + 1 .. Len(q) : ticks[q[i]] > jiffies
<1> DEFINE q == lists["sleep"]
           keep == {i \in DOMAIN q : ticks[q[i]] > jiffies}
<1>1. /\ q \in Seq(Tasks) /\ Len(q) \in Nat /\ DOMAIN q = 1 .. Len(q)
      /\ \A i \in 1 .. Len(q) : q[i] \in Tasks
    BY Sleepers DEF SleepInv
<1>2. /\ jiffies \in Nat
      /\ \A i \in 1 .. Len(q) : ticks[q[i]] \in Nat
    <2>1. /\ jiffies \in Nat
          /\ \A t \in Tasks : ticks[t] \in Nat
        BY Constants DEF SleepInv, TaskInv, TypeOK
    <2> QED
        BY <1>1, <2>1
<1>3. WakeCount = IF keep = {} THEN Len(q) ELSE Min(keep) - 1
    BY DEF WakeCount
<1>4. keep \in SUBSET Nat /\ keep \subseteq 1 .. Len(q)
    BY <1>1
<1>5. \A i \in keep : ticks[q[i]] > jiffies
    OBVIOUS
<1>6. \A i, j \in 1 .. Len(q) : i < j => ticks[q[i]] <= ticks[q[j]] \/ ticks[q[i]] <= jiffies
    BY DEF SleepInv, SleepOrder
<1> HIDE DEF keep, q
<1>7. CASE keep = {}
    BY <1>1, <1>3, <1>7 DEF q
<1>8. CASE keep # {}
    <2>1. Min(keep) \in keep
        BY <1>4, <1>8, MinProperties
    <2>2. PICK m : m = Min(keep)
        OBVIOUS
    <2>3. m \in keep /\ m \in 1 .. Len(q) /\ WakeCount = m - 1 /\ ticks[q[m]] > jiffies
        BY <1>3, <1>4, <1>5, <1>8, <2>1, <2>2
    <2>4. ASSUME NEW i \in m .. Len(q)
          PROVE  ticks[q[i]] > jiffies
        <3>1. i \in 1 .. Len(q) /\ (i = m \/ m < i)
            BY <1>1, <2>3
        <3>2. ticks[q[m]] \in Nat /\ ticks[q[i]] \in Nat
            BY <1>2, <2>3, <3>1
        <3>3. CASE m < i
            <4>1. ticks[q[m]] <= ticks[q[i]] \/ ticks[q[m]] <= jiffies
                BY <1>6, <2>3, <3>1, <3>3
            <4> QED
                BY <1>2, <2>3, <3>2, <4>1
        <3> QED
            BY <2>3, <3>1, <3>3
    <2> QED
        BY <2>3, <2>4 DEF q
<1> QED
    BY <1>7, <1>8

\* clock_handler: nobody who is due sleeps on, and those who do are in order.
LEMMA SleepInvClockHandler ==
    ASSUME SleepInv, TaskInv', ClockHandler
    PROVE  /\ SleepInv'
           /\ \A t \in Tasks : state'[t] = "sleeping" => ticks'[t] > jiffies
<1> DEFINE q == lists["sleep"]
           k == WakeCount
           new == lists'["sleep"]
           tk  == [t \in Threads |->
                       IF t = current THEN (ticks[t] - 1) % WORD
                       ELSE IF t \in Woken THEN 0 ELSE ticks[t]]
<1>1. /\ q \in Seq(Tasks) /\ Len(q) \in Nat /\ IsInjective(q)
      /\ \A i \in 1 .. Len(q) : q[i] \in Tasks /\ q[i] # current
    BY Sleepers, Constants DEF SleepInv, TaskInv, ListsMatchStates
<1>2. k \in 0 .. Len(q)
    BY WakeCountRange DEF SleepInv, TaskInv
<1>3. new = SubSeq(q, k + 1, Len(q))
    BY Constants DEF SleepInv, TaskInv, TypeOK, ClockHandler
<1>4. Len(new) = Len(q) - k /\ \A j \in 1 .. Len(new) : new[j] = q[k + j]
    <2> HIDE DEF q, k, new
    <2> QED
        BY <1>1, <1>2, <1>3, DropByIndex
<1>5. \A i \in k + 1 .. Len(q) : ticks[q[i]] > jiffies
    BY NobodyDueIsLeft
<1>6. \A i \in k + 1 .. Len(q) : q[i] \notin Woken
    <2>1. \A i \in k + 1 .. Len(q) : \A j \in 1 .. k : q[i] # q[j]
        BY <1>1, <1>2 DEF IsInjective
    <2> QED
        BY <2>1 DEF Woken
<1>7. \A t \in Tasks : t # current /\ t \notin Woken => ticks'[t] = ticks[t]
    <2>1. \/ ticks' = tk
          \/ \E st, la : Schedule(st, tk, la)
        BY DEF ClockHandler
    <2>2. tk \in [Threads -> 0 .. WORD - 1]
        <3> SUFFICES ASSUME NEW t \in Threads
                     PROVE  tk[t] \in 0 .. WORD - 1
            OBVIOUS
        <3>1. ticks[t] \in 0 .. WORD - 1 /\ ticks[t] - 1 \in Int
            <4>1. ticks \in [Threads -> 0 .. WORD - 1] /\ WORD \in Nat
                BY Constants DEF SleepInv, TaskInv, TypeOK
            <4>2. ticks[t] \in 0 .. WORD - 1
                BY <4>1
            <4> QED
                BY <4>1, <4>2
        <3>2. (ticks[t] - 1) % WORD \in 0 .. WORD - 1
            BY <3>1, ModRange, Constants
        <3> QED
            BY <3>1, <3>2, Constants
    <2>3. \A t \in Tasks : t # current /\ t \notin Woken => tk[t] = ticks[t]
        BY Constants
    <2> HIDE DEF tk
    <2>4. CASE ticks' = tk
        BY <2>3, <2>4
    <2>5. CASE \E st, la : Schedule(st, tk, la)
        <3>1. PICK st, la : Schedule(st, tk, la)
            BY <2>5
        <3> QED
            BY <2>2, <2>3, <3>1, ScheduleTicks, Constants
    <2> QED
        BY <2>1, <2>4, <2>5
<1> HIDE DEF q, k, new, tk
<1>8. \A j \in 1 .. Len(new) : /\ new[j] = q[k + j] /\ k + j \in k + 1 .. Len(q)
                               /\ k + j \in 1 .. Len(q)
    BY <1>1, <1>2, <1>4
<1>9. \A j \in 1 .. Len(new) : /\ new[j] \in Tasks
                               /\ ticks'[new[j]] = ticks[new[j]]
                               /\ ticks[new[j]] > jiffies
    BY <1>1, <1>5, <1>6, <1>7, <1>8
<1>10. /\ jiffies \in 0 .. WORD - 1 /\ WORD \in Nat \ {0}
       /\ jiffies' = (jiffies + 1) % WORD
       /\ \A t \in Tasks : ticks[t] \in 0 .. WORD - 1
    BY Constants DEF SleepInv, TaskInv, TypeOK, ClockHandler
<1>11. SleepOrder'
    <2> SUFFICES ASSUME NEW i \in 1 .. Len(new), NEW j \in 1 .. Len(new), i < j
                 PROVE  ticks'[new[i]] <= ticks'[new[j]]
        BY DEF SleepOrder, new
    <2>1. ticks[q[k + i]] <= ticks[q[k + j]] \/ ticks[q[k + i]] <= jiffies
        <3>1. k + i \in 1 .. Len(q) /\ k + j \in 1 .. Len(q) /\ k + i < k + j
            BY <1>2, <1>8
        <3> QED
            BY <3>1 DEF SleepInv, SleepOrder, q
    <2>2. /\ ticks[new[i]] > jiffies /\ ticks[new[i]] \in Nat /\ jiffies \in Nat
          /\ ticks'[new[i]] = ticks[new[i]] /\ ticks'[new[j]] = ticks[new[j]]
        BY <1>9, <1>10
    <2>3. new[i] = q[k + i] /\ new[j] = q[k + j]
        BY <1>8
    <2> QED
        BY <2>1, <2>2, <2>3
<1>12. \A t \in Tasks : state'[t] = "sleeping" => \E j \in 1 .. Len(new) : new[j] = t
    <2>1. new \in Seq(Tasks)
        BY Constants DEF TaskInv, TypeOK, new
    <2>2. \A t \in Tasks : state'[t] = "sleeping" => t \in ToSet(new)
        BY DEF TaskInv, ListsMatchStates, new
    <2> QED
        BY <2>1, <2>2, ToSetByIndex
<1>13. \A t \in Tasks : state'[t] = "sleeping" =>
            /\ ticks'[t] = ticks[t] /\ ticks'[t] > jiffies
            /\ state[t] = "sleeping"
    <2>1. \A i \in 1 .. Len(q) : state[q[i]] = "sleeping"
        BY Sleepers DEF SleepInv, q
    <2> QED
        BY <1>8, <1>9, <1>12, <2>1
\* No sleeper is left when jiffies wraps.
<1>14. NoOverdueSleeper'
    <2> SUFFICES ASSUME NEW t \in Tasks, state'[t] = "sleeping"
                 PROVE  \E ms \in SleepMs : ticks'[t] <= jiffies' + ms \div JIFFY + 1
        BY DEF NoOverdueSleeper
    <2>1. ticks[t] > jiffies /\ ticks'[t] = ticks[t] /\ state[t] = "sleeping"
        BY <1>13
    <2>2. jiffies + 1 \in 0 .. WORD - 1
        BY <1>10, <2>1
    <2>3. jiffies' = jiffies + 1
        BY <1>10, <2>2
    <2>4. PICK ms \in SleepMs : ticks[t] <= jiffies + ms \div JIFFY + 1
        BY <2>1 DEF SleepInv, NoOverdueSleeper
    <2>5. ms \div JIFFY \in Nat
        BY TaskAssumption
    <2> QED
        BY <1>10, <2>1, <2>3, <2>4, <2>5
<1> QED
    BY <1>11, <1>13, <1>14 DEF SleepInv

-----------------------------------------------------------------------------
(* The theorems *)

LEMMA SleepInvInit == Init => SleepInv
<1> SUFFICES ASSUME Init
             PROVE  SleepInv
    OBVIOUS
<1>1. lists["sleep"] = <<>> /\ Len(lists["sleep"]) = 0
    BY Constants DEF Init
<1>2. SleepOrder
    BY <1>1 DEF SleepOrder
<1>3. NoOverdueSleeper
    BY Constants DEF Init, FirstTask, BootTask, Created, NoOverdueSleeper
<1> QED
    BY <1>2, <1>3, TaskInvInit DEF SleepInv

\* The steps that leave sleep_list and the clock alone.
LEMMA QuietSteps ==
    ASSUME SleepInv, NEW t \in Threads,
           \/ UNCHANGED vars \/ AcceptInterrupt \/ (t \in Tasks /\ Start(t))
           \/ InterruptExit(t) \/ Halt \/ IdleYield
           \/ TaskYield(t) \/ TestBlock(t) \/ TestUnblock(t)
    PROVE  /\ jiffies' = jiffies
           /\ lists'["sleep"] = lists["sleep"]
           /\ \A u \in Tasks \ {current} : ticks'[u] = ticks[u]
<1>1. TypeOK
    BY DEF SleepInv, TaskInv
<1>2. CASE UNCHANGED vars \/ AcceptInterrupt \/ (t \in Tasks /\ Start(t))
           \/ InterruptExit(t) \/ Halt
    BY <1>2 DEF vars, taskVars, AcceptInterrupt, Start, InterruptExit, Halt
<1>3. \A st, la : Schedule(st, ticks, la) =>
            \A u \in Tasks \ {current} : ticks'[u] = ticks[u]
    BY <1>1, ScheduleTicks, Constants DEF TypeOK
<1>4. CASE IdleYield
    BY <1>3, <1>4 DEF IdleYield, Int80
<1>5. CASE TaskYield(t)
    BY <1>3, <1>5 DEF TaskYield, Int80
<1>6. CASE TestBlock(t)
    BY <1>1, <1>3, <1>6, Constants DEF TestBlock, TaskBlock, Int80, TypeOK
<1>7. CASE TestUnblock(t)
    <2>1. lists'["sleep"] = RemoveFirst(lists["sleep"], blocked)
        BY <1>7, Constants DEF TestUnblock, ListRemove
    <2>2. blocked \in ToSet(lists["block"])
        BY <1>7 DEF SleepInv, TaskInv, SlotIsBlocked, TestUnblock
    <2>3. blocked \notin ToSet(lists["sleep"])
        BY <2>2, Constants DEF SleepInv, TaskInv, ListsMatchStates
    <2>4. lists["sleep"] \in Seq(Tasks)
        BY <1>1, Constants DEF TypeOK
    <2>5. RemoveFirst(lists["sleep"], blocked) = lists["sleep"]
        BY <2>3, <2>4, RemoveFirstAbsent
    <2> QED
        BY <1>7, <2>1, <2>5 DEF TestUnblock, Int80
<1> QED
    BY <1>2, <1>4, <1>5, <1>6, <1>7

\* Every step keeps the order of the sleepers, and the clock leaves nobody
\* asleep who is due.
LEMMA SleepInvStep ==
    SleepInv /\ [Next]_vars =>
        /\ SleepInv'
        /\ jiffies' # jiffies => \A t \in Tasks : state'[t] = "sleeping" => ticks'[t] > jiffies
<1> SUFFICES ASSUME SleepInv, [Next]_vars
             PROVE  /\ SleepInv'
                    /\ jiffies' # jiffies =>
                        \A t \in Tasks : state'[t] = "sleeping" => ticks'[t] > jiffies
    OBVIOUS
<1>1. TaskInv'
    BY TaskInvStep DEF SleepInv
<1>2. ASSUME NEW t \in Threads,
             \/ UNCHANGED vars \/ AcceptInterrupt \/ (t \in Tasks /\ Start(t))
             \/ InterruptExit(t) \/ Halt \/ IdleYield
             \/ TaskYield(t) \/ TestBlock(t) \/ TestUnblock(t)
      PROVE  SleepInv' /\ jiffies' = jiffies
    BY <1>1, <1>2, QuietSteps, SleepInvQuiet
<1>3. CASE UNCHANGED vars \/ AcceptInterrupt
    <2>1. /\ jiffies' = jiffies
          /\ lists'["sleep"] = lists["sleep"]
          /\ \A u \in Tasks \ {current} : ticks'[u] = ticks[u]
        BY <1>3 DEF vars, taskVars, AcceptInterrupt
    <2> QED
        BY <1>1, <2>1, SleepInvQuiet
<1>4. CASE CpuStep
    <2>1. CASE ClockHandler
        BY <1>1, <2>1, SleepInvClockHandler
    <2>2. CASE Halt \/ IdleYield
        <3>1. SleepInv' /\ jiffies' = jiffies
            BY <1>2, <2>2, Constants
        <3> QED
            BY <3>1
    <2>3. CASE \E t \in Tasks : Start(t)
        BY <1>2, <2>3, Constants
    <2>4. CASE \E t \in Threads : InterruptExit(t)
        BY <1>2, <2>4
    <2> QED
        BY <1>4, <2>1, <2>2, <2>3, <2>4 DEF CpuStep
<1>5. CASE \E t \in Tasks \ {Idle} : SystemCall(t)
    <2>1. PICK t \in Tasks \ {Idle} : SystemCall(t)
        BY <1>5
    <2>2. CASE \E ms \in SleepMs : TaskSleep(t, ms)
        BY <1>1, <2>2, SleepInvTaskSleep DEF TaskSleep, Int80
    <2>3. CASE TaskYield(t) \/ TestBlock(t) \/ TestUnblock(t)
        BY <1>2, <2>3, Constants
    <2> QED
        BY <2>1, <2>2, <2>3 DEF SystemCall
<1> QED
    BY <1>3, <1>4, <1>5 DEF Next

\* The order of sleep_list and the limit on wake-up times hold throughout.
THEOREM SleepInvariant == Spec => []SleepInv
<1>1. SleepInv /\ [Next]_vars => SleepInv'
    BY SleepInvStep
<1> QED
    BY <1>1, SleepInvInit, PTL DEF Spec

\* No wake-up time is further ahead than the longest sleep, although schedule()
\* replaces a wake-up time of 0 by a priority.
THEOREM NeverOverdue == Spec => []NoOverdueSleeper
<1>1. SleepInv => NoOverdueSleeper
    BY DEF SleepInv
<1> QED
    BY <1>1, SleepInvariant, PTL

\* No tick leaves a task asleep whose time has come, although task_wakeup
\* stops at the first that is not due.
THEOREM AllDueAreWoken == Spec => DueSleepersWake
<1>1. SleepInv /\ [Next]_vars =>
        [jiffies' # jiffies =>
            \A t \in Tasks : state'[t] = "sleeping" => ticks'[t] > jiffies]_vars
    BY SleepInvStep
<1> QED
    BY <1>1, SleepInvariant, PTL DEF Spec, DueSleepersWake

-----------------------------------------------------------------------------
(* Where two promises of the source hold after all *)

\* Only the clock ends a sleep, and only once its tick has reached the wake-up
\* time that task_sleep has stored.
WokenWhenDue ==
    [][\A t \in Tasks : state[t] = "sleeping" /\ state'[t] # "sleeping" =>
            jiffies' # jiffies /\ ticks[t] <= jiffies]_vars

\* Those that task_wakeup takes off sleep_list are due.
LEMMA WokenAreDue ==
    ASSUME TaskInv
    PROVE  \A i \in 1 .. WakeCount : ticks[lists["sleep"][i]] <= jiffies
<1> DEFINE q == lists["sleep"]
           keep == {i \in DOMAIN q : ticks[q[i]] > jiffies}
<1>1. /\ q \in Seq(Tasks) /\ Len(q) \in Nat /\ DOMAIN q = 1 .. Len(q)
      /\ \A i \in 1 .. Len(q) : q[i] \in Tasks
    BY Sleepers
<1>2. \A i \in 1 .. Len(q) : ticks[q[i]] \in Nat
    <2>1. \A t \in Tasks : ticks[t] \in Nat
        BY Constants DEF TaskInv, TypeOK
    <2> QED
        BY <1>1, <2>1
<1>3. jiffies \in Nat
    BY Constants DEF TaskInv, TypeOK
<1>4. WakeCount = IF keep = {} THEN Len(q) ELSE Min(keep) - 1
    BY DEF WakeCount
<1>5. keep \in SUBSET Nat /\ keep \subseteq 1 .. Len(q)
    BY <1>1
<1>6. \A i \in 1 .. Len(q) : i \notin keep => ticks[q[i]] <= jiffies
    BY <1>1, <1>2, <1>3
<1> HIDE DEF keep, q
<1>7. keep # {} => Min(keep) \in keep /\ \A i \in keep : Min(keep) <= i
    BY <1>5, MinProperties
<1>8. \A i \in 1 .. WakeCount : i \in 1 .. Len(q) /\ i \notin keep
    <2>1. CASE keep = {}
        BY <1>4, <2>1
    <2>2. CASE keep # {}
        <3>1. PICK m : m = Min(keep)
            OBVIOUS
        <3>2. m \in keep /\ \A i \in keep : m <= i
            BY <1>7, <2>2, <3>1
        <3>3. m \in 1 .. Len(q) /\ WakeCount = m - 1
            BY <1>4, <1>5, <2>2, <3>1, <3>2
        <3>4. \A i \in 1 .. m - 1 : i \in 1 .. Len(q) /\ ~(m <= i)
            BY <1>1, <3>3
        <3> QED
            BY <3>2, <3>3, <3>4
    <2> QED
        BY <2>1, <2>2
<1> QED
    BY <1>6, <1>8 DEF q

\* No sleep ends before its wake-up time: what cuts one short is that this time
\* has wrapped and is past when it is stored, and nothing else.
THEOREM SleepersAreWokenWhenDue == Spec => WokenWhenDue
<1>1. SleepInv /\ SleepInv' /\ [Next]_vars =>
        [\A t \in Tasks : state[t] = "sleeping" /\ state'[t] # "sleeping" =>
            jiffies' # jiffies /\ ticks[t] <= jiffies]_vars
    <2> SUFFICES ASSUME SleepInv, SleepInv', Next,
                        NEW t \in Tasks, state[t] = "sleeping", state'[t] # "sleeping"
                 PROVE  jiffies' # jiffies /\ ticks[t] <= jiffies
        OBVIOUS
    <2> DEFINE q == lists["sleep"]
    <2>1. TaskInv /\ TaskInv' /\ t \in ToSet(q) /\ t \notin ToSet(lists'["sleep"])
        BY DEF SleepInv, TaskInv, ListsMatchStates
    <2>2. lists'["sleep"] # q
        BY <2>1
    <2>3. \A u \in Threads : ~(\/ AcceptInterrupt \/ (u \in Tasks /\ Start(u))
                               \/ InterruptExit(u) \/ Halt \/ IdleYield
                               \/ TaskYield(u) \/ TestBlock(u) \/ TestUnblock(u))
        BY <2>2, QuietSteps
    <2>4. ASSUME NEW u \in Tasks \ {Idle}, NEW ms \in SleepMs, TaskSleep(u, ms)
          PROVE  FALSE
        <3> DEFINE target == (jiffies + SleepTicks(ms)) % WORD
        <3>1. lists'["sleep"] = InsertAt(q, SleepPosition(target), u) /\ ~Linked(u)
            BY <2>1, <2>4, Constants DEF TaskSleep, TaskInv, TypeOK
        <3>2. SleepPosition(target) \in 1 .. Len(q) + 1
            BY <2>1, SleepPositionRange DEF TaskInv
        <3>3. q \in Seq(Tasks) /\ IsInjective(q) /\ u \notin ToSet(q)
            BY <2>1, <3>1, Constants DEF TaskInv, TypeOK, ListsMatchStates, Linked
        <3> HIDE DEF target, q
        <3>4. t \in ToSet(lists'["sleep"])
            BY <2>1, <3>1, <3>2, <3>3, InsertAtProperties
        <3> QED
            BY <2>1, <3>4
    <2>5. ClockHandler
        BY <2>3, <2>4, Constants DEF Next, CpuStep, SystemCall
    <2>6. jiffies' # jiffies
        <3>1. jiffies' = (jiffies + 1) % WORD
            BY <2>5 DEF ClockHandler
        <3>2. jiffies \in 0 .. WORD - 1 /\ WORD \in Nat \ {0, 1}
            BY <2>1, TaskAssumption DEF TaskInv, TypeOK
        <3>3. CASE jiffies + 1 < WORD
            BY <3>1, <3>2, <3>3
        <3>4. CASE jiffies + 1 = WORD
            <4>1. WORD % WORD = 0
                BY <3>2
            <4> QED
                BY <3>1, <3>2, <3>4, <4>1
        <3> QED
            BY <3>2, <3>3, <3>4
    <2>7. ticks[t] <= jiffies
        <3> DEFINE k == WakeCount
        <3>1. q \in Seq(Tasks) /\ k \in 0 .. Len(q) /\ Len(q) \in Nat
            BY <2>1, Sleepers, WakeCountRange DEF TaskInv
        <3>2. lists'["sleep"] = SubSeq(q, k + 1, Len(q))
            BY <2>1, <2>5, Constants DEF TaskInv, TypeOK, ClockHandler
        <3>3. PICK i \in 1 .. Len(q) : q[i] = t
            BY <2>1, <3>1, ToSetByIndex
        <3>4. \A j \in 1 .. k : ticks[q[j]] <= jiffies
            BY <2>1, WokenAreDue
        <3> HIDE DEF q, k
        <3>5. i \in 1 .. k
            <4> SUFFICES ASSUME i > k
                         PROVE  FALSE
                BY <3>1
            <4>1. /\ lists'["sleep"] \in Seq(Tasks) /\ Len(lists'["sleep"]) = Len(q) - k
                  /\ \A j \in 1 .. Len(lists'["sleep"]) : lists'["sleep"][j] = q[k + j]
                <5>1. lists'["sleep"] \in Seq(Tasks)
                    BY <2>1, Constants DEF TaskInv, TypeOK
                <5> QED
                    BY <3>1, <3>2, <5>1, DropByIndex
            <4>2. i - k \in 1 .. Len(lists'["sleep"]) /\ k + (i - k) = i
                BY <3>1, <4>1
            <4>3. lists'["sleep"][i - k] = t
                BY <3>3, <4>1, <4>2
            <4> QED
                BY <2>1, <4>1, <4>2, <4>3, ToSetByIndex
        <3> QED
            BY <3>3, <3>4, <3>5
    <2> QED
        BY <2>6, <2>7
<1> QED
    BY <1>1, SleepInvariant, PTL DEF Spec, WokenWhenDue

\* Nobody sleeps, and a slice is used up only when schedule() refills it.
SliceInv ==
    /\ TaskInv
    /\ lists["sleep"] = <<>>
    /\ \A t \in Tasks : ticks[t] \in 1 .. Priority[t]

\* A slice is within its priority as long as no task sleeps, as in the kernel
\* that boots: it is the wake-up that leaves a task without a slice.
THEOREM SliceWithoutSleep ==
    ASSUME "sleep" \notin Syscalls, \A t \in Tasks : Priority[t] > 0
    PROVE  Spec => []SliceWithinPriority
<1>1. Init => SliceInv
    <2> SUFFICES ASSUME Init
                 PROVE  SliceInv
        OBVIOUS
    <2>1. \A t \in Tasks : ticks[t] = Priority[t] /\ Priority[t] \in Nat
        BY Constants DEF Init, FirstTask, Created
    <2>2. lists["sleep"] = <<>>
        BY Constants DEF Init
    <2> QED
        BY <2>1, <2>2, TaskInvInit DEF SliceInv
<1>2. SliceInv /\ [Next]_vars => SliceInv'
    <2> SUFFICES ASSUME SliceInv, [Next]_vars
                 PROVE  SliceInv'
        OBVIOUS
    <2>1. TaskInv /\ TaskInv' /\ lists["sleep"] = <<>>
        BY TaskInvStep DEF SliceInv
    <2>2. /\ ticks \in [Threads -> 0 .. WORD - 1] /\ WORD \in Nat
          /\ Tasks \subseteq Threads /\ current \in Threads
          /\ \A t \in Tasks : Priority[t] \in Nat /\ ticks[t] \in 1 .. Priority[t]
        <3>1. /\ ticks \in [Threads -> 0 .. WORD - 1] /\ WORD \in Nat
              /\ Tasks \subseteq Threads /\ current \in Threads
            BY <2>1, Constants DEF TaskInv, TypeOK
        <3>2. \A t \in Tasks : Priority[t] \in Nat
            BY Constants
        <3>3. \A t \in Tasks : ticks[t] \in 1 .. Priority[t]
            BY DEF SliceInv
        <3> QED
            BY <3>1, <3>2, <3>3
    <2>3. SleepInv
        <3>1. Len(lists["sleep"]) = 0
            BY <2>1
        <3>2. \A t \in Tasks : state[t] # "sleeping"
            BY <2>1, <3>1, Sleepers
        <3> QED
            BY <2>1, <3>1, <3>2 DEF SleepInv, SleepOrder, NoOverdueSleeper
    <2>4. ASSUME NEW st, NEW tk \in [Threads -> 0 .. WORD - 1], NEW la, Schedule(st, tk, la),
                 \A t \in Tasks : tk[t] \in 0 .. Priority[t] /\ (tk[t] = 0 => t = current)
          PROVE  \A t \in Tasks : ticks'[t] \in 1 .. Priority[t]
        <3> SUFFICES ASSUME NEW t \in Tasks
                     PROVE  ticks'[t] \in 1 .. Priority[t]
            OBVIOUS
        <3>1. \/ t # current /\ ticks'[t] = tk[t]
              \/ t = current /\ tk[t] # 0 /\ ticks'[t] = tk[t]
              \/ t = current /\ tk[t] = 0 /\ ticks'[t] = Priority[t]
            BY <2>2, <2>4, ScheduleTicks
        <3>2. Priority[t] \in Nat /\ Priority[t] > 0 /\ tk[t] \in 0 .. Priority[t]
            BY <2>2, <2>4
        <3> QED
            BY <2>4, <3>1, <3>2
    <2>5. ASSUME NEW st, NEW la, Schedule(st, ticks, la)
          PROVE  \A t \in Tasks : ticks'[t] \in 1 .. Priority[t]
        <3>1. \A t \in Tasks : ticks[t] \in 0 .. Priority[t] /\ ticks[t] # 0
            BY <2>2
        <3> QED
            BY <2>2, <2>4, <2>5, <3>1
    <2>6. ASSUME NEW u \in Threads,
                 \/ UNCHANGED vars \/ AcceptInterrupt \/ (u \in Tasks /\ Start(u))
                 \/ InterruptExit(u) \/ Halt \/ IdleYield
                 \/ TaskYield(u) \/ TestBlock(u) \/ TestUnblock(u)
          PROVE  SliceInv'
        <3>1. lists'["sleep"] = <<>>
            BY <2>1, <2>3, <2>6, QuietSteps
        <3>2. ticks' = ticks \/ \E st, la : Schedule(st, ticks, la)
            BY <2>6, Zenon DEF vars, taskVars, AcceptInterrupt, Start, InterruptExit, Halt,
               IdleYield, TaskYield, TestBlock, TaskBlock, TestUnblock
        <3>3. \A t \in Tasks : ticks'[t] \in 1 .. Priority[t]
            BY <2>2, <2>5, <3>2
        <3> QED
            BY <2>1, <3>1, <3>3 DEF SliceInv
    <2>7. CASE ClockHandler
        <3> DEFINE st == [t \in Threads |-> IF t \in Woken THEN "ready" ELSE state[t]]
                   tk == [t \in Threads |->
                              IF t = current THEN (ticks[t] - 1) % WORD
                              ELSE IF t \in Woken THEN 0 ELSE ticks[t]]
                   la == [last EXCEPT ![current] = (jiffies + 1) % WORD]
        <3>1. WakeCount = 0 /\ Len(lists["sleep"]) = 0
            BY <2>1, WakeCountRange DEF TaskInv
        <3>2. lists'["sleep"] = <<>>
            <4>1. lists'["sleep"] = SubSeq(lists["sleep"], WakeCount + 1, Len(lists["sleep"]))
                BY <2>1, <2>7, Constants DEF TaskInv, TypeOK, ClockHandler
            <4> QED
                BY <2>1, <3>1, <4>1
        <3>3. Woken = {}
            BY <3>1 DEF Woken
        <3>4. \A t \in Threads : tk[t] \in 0 .. WORD - 1
            <4> SUFFICES ASSUME NEW t \in Threads
                         PROVE  tk[t] \in 0 .. WORD - 1
                OBVIOUS
            <4>1. ticks[t] \in 0 .. WORD - 1 /\ ticks[t] - 1 \in Int
                BY <2>2
            <4>2. (ticks[t] - 1) % WORD \in 0 .. WORD - 1
                BY <4>1, ModRange, Constants
            <4> QED
                BY <3>3, <4>1, <4>2
        <3>5. \A t \in Tasks : tk[t] \in 0 .. Priority[t] /\ (tk[t] = 0 => t = current)
            <4> SUFFICES ASSUME NEW t \in Tasks
                         PROVE  tk[t] \in 0 .. Priority[t] /\ (tk[t] = 0 => t = current)
                OBVIOUS
            <4>1. /\ ticks[t] \in 1 .. Priority[t] /\ Priority[t] \in Nat
                  /\ ticks[t] \in 0 .. WORD - 1 /\ t \in Threads
                BY <2>2
            <4>2. CASE t = current
                <5>1. ticks[t] - 1 \in 0 .. WORD - 1
                    BY <2>2, <4>1
                <5>2. (ticks[t] - 1) % WORD = ticks[t] - 1
                    BY <2>2, <5>1
                <5>3. tk[t] = ticks[t] - 1
                    BY <4>1, <4>2, <5>2
                <5> QED
                    BY <4>1, <4>2, <5>3
            <4>3. CASE t # current
                <5>1. tk[t] = ticks[t]
                    BY <3>3, <4>1, <4>3
                <5> QED
                    BY <4>1, <5>1
            <4> QED
                BY <4>2, <4>3
        <3>6. IF tk[current] = 0 THEN Schedule(st, tk, la)
              ELSE state' = st /\ ticks' = tk /\ last' = la /\ UNCHANGED current
            BY <2>7 DEF ClockHandler
        <3>7. tk \in [Threads -> 0 .. WORD - 1]
            BY <3>4
        <3> HIDE DEF st, tk, la
        <3>8. \A t \in Tasks : ticks'[t] \in 1 .. Priority[t]
            <4>1. CASE tk[current] = 0
                BY <2>4, <3>5, <3>6, <3>7, <4>1
            <4>2. CASE tk[current] # 0
                <5>1. ticks' = tk
                    BY <3>6, <4>2
                <5>2. \A t \in Tasks : tk[t] # 0
                    BY <3>5, <4>2
                <5> QED
                    BY <2>2, <3>5, <5>1, <5>2
            <4> QED
                BY <4>1, <4>2
        <3> QED
            BY <2>1, <3>2, <3>8 DEF SliceInv
    <2>8. ASSUME NEW t \in Tasks, NEW ms \in SleepMs
          PROVE  ~TaskSleep(t, ms)
        BY DEF TaskSleep
    <2> QED
        BY <2>6, <2>7, <2>8, Constants DEF Next, CpuStep, SystemCall
<1>3. SliceInv => SliceWithinPriority
    <2> SUFFICES ASSUME SliceInv, NEW t \in Tasks
                 PROVE  ticks[t] <= Priority[t]
        BY DEF SliceWithinPriority
    <2> QED
        BY Constants DEF SliceInv
<1> QED
    BY <1>1, <1>2, <1>3, PTL DEF Spec

=============================================================================
