-------------------------------- MODULE Task --------------------------------
(***************************************************************************)
(* The scheduler of the kernel: src/src/kernel/task.c with the clock       *)
(* interrupt that drives it (clock.c), the trap path (handler.asm,         *)
(* schedule.asm) and the three system calls of gate.c.                     *)
(*                                                                         *)
(* The machine has one CPU.  A step of this module is the code that runs   *)
(* between two points at which an interrupt can be taken or a stack can be *)
(* switched: the gates of idt_init are interrupt gates, so a handler and a *)
(* system call run with IF = 0 from their entry to the task_switch or the  *)
(* return they end in, and are one action each.                            *)
(***************************************************************************)
EXTENDS Integers, Sequences, FiniteSets, SequencesExt

CONSTANTS
    NTASKS,      \* tasks in task_table; the source has 64 slots and fills 3
    Priority,    \* task_t.priority of every thread
    WORD,        \* u32 is modelled modulo WORD (2^32 in the source)
    MaxJiffies,  \* bound: no clock interrupt is taken from this jiffies on
    JIFFY,       \* milliseconds of a time slice (clock.c: 10)
    SleepMs,     \* the arguments task_sleep is called with
    WaitLists,   \* the lists that other modules pass to task_block
    UserLabels,  \* the labels of the thread code that other modules model
    Syscalls     \* the system calls the modelled threads issue

NULL    == 0
Tasks   == 1 .. NTASKS      \* task_table, in table order
Idle    == 1                \* idel_task: the first task that task_init creates
Boot    == NTASKS + 1       \* the context of kernel_init; it is in no table
Threads == 1 .. NTASKS + 1

ListNames  == {"block", "sleep"} \cup WaitLists
States     == {"init", "running", "ready", "blocked", "sleeping"}

ASSUME TaskAssumption ==
    /\ NTASKS \in Nat \ {0, 1}
    /\ WORD \in Nat \ {0, 1}
    /\ JIFFY \in Nat \ {0}
    /\ MaxJiffies \in Nat
    /\ Priority \in [Threads -> 0 .. WORD - 1]
    /\ SleepMs \subseteq Nat
    /\ {"block", "sleep"} \cap WaitLists = {}
    /\ Syscalls \subseteq {"yield", "sleep", "test"}

\* A sleep is far shorter than the counter goes round: it is given as a u32 of
\* milliseconds, of which a tick has many.
ASSUME SleepAssumption ==
    \A ms \in SleepMs, t \in Threads : ms \div JIFFY + 1 + Priority[t] <= WORD

VARIABLES
    current,    \* running_task(): the page the stack pointer is in
    state,      \* task_t.state
    ticks,      \* task_t.ticks: rest of the slice, or the wake-up time
    last,       \* task_t.jiffies: when the task was last interrupted
    lists,      \* task_t.node on block_list, sleep_list, ...; head first
    jiffies,    \* clock.c: clock interrupts so far
    blocked,    \* gate.c: the global `task` of sys_test
    intr,       \* EFLAGS.IF
    in_service, \* the clock's bit of the PIC's in-service register
    trap,       \* what an interrupted thread's stack still has to return through
    pc          \* where the thread resumes when no trap frame is left

taskVars == <<state, ticks, last, lists, blocked>>
vars == <<current, state, ticks, last, lists, jiffies, blocked, intr,
          in_service, trap, pc>>

-----------------------------------------------------------------------------
(* task_search and schedule *)

\* The tasks the loop of task_search does not skip.
Candidate(st, t) == st[t] = "ready" /\ t # current

\* Fault: prefer the later of two tasks with equal ticks.
PrefersLast(tk, la, best, p) ==
    best = NULL \/ tk[best] <= tk[p] \/ la[p] < la[best]

\* Whether task_search prefers p to the best task so far.  The two criteria
\* are joined by "or", so this is not an order.
Prefers(tk, la, best, p) ==
    best = NULL \/ tk[best] < tk[p] \/ la[p] < la[best]

\* Scan(st, tk, la)[i] is `task` after the first i slots of the loop.
Scan(st, tk, la) ==
    LET best[i \in 0 .. NTASKS] ==
            IF i = 0 THEN NULL
            ELSE IF Candidate(st, i) /\ Prefers(tk, la, best[i - 1], i)
                 THEN i ELSE best[i - 1]
    IN  best

\* Fault: no idle task when no other is ready.
SearchWithoutIdle(st, tk, la) == Scan(st, tk, la)[NTASKS]

TaskSearch(st, tk, la) ==
    LET found == Scan(st, tk, la)[NTASKS]
    IN  IF found = NULL THEN Idle ELSE found

\* Fault: the interrupted task stays TASK_RUNNING.
StillRunning(st) == st

\* Fault: a task that has just put itself to sleep becomes ready as well.
AlwaysReady(st) == [st EXCEPT ![current] = "ready"]

\* if (TASK_RUNNING == current->state) current->state = TASK_READY.
Preempted(st) ==
    IF st[current] = "running" THEN [st EXCEPT ![current] = "ready"] ELSE st

\* schedule() with the fields as the caller left them, up to the instruction
\* that next executes: task_switch leaves IF alone.
Schedule(st, tk, la) ==
    LET next == TaskSearch(st, tk, la)
    IN  /\ state' = [Preempted(st) EXCEPT ![next] = "running"]
        /\ ticks' = IF tk[current] = 0
                    THEN [tk EXCEPT ![current] = Priority[current]] ELSE tk
        /\ last' = la
        /\ current' = next

\* node.next and node.prev are not NULL.
Linked(t) == \E l \in ListNames : t \in ToSet(lists[l])

\* task_block(running_task(), list, st): list_push at the head, then schedule.
TaskBlock(list, st) ==
    /\ ~Linked(current)
    /\ lists' = [lists EXCEPT ![list] = <<current>> \o @]
    /\ Schedule([state EXCEPT ![current] = st], ticks, last)

\* list_remove unlinks a node from whichever list it is on.
ListRemove(t) == [l \in ListNames |-> RemoveFirst(lists[l], t)]

-----------------------------------------------------------------------------
(* The threads.  A thread executes its own code when it is current and no   *)
(* trap frame is pending on its stack.                                      *)

AtLabel(t, label) == current = t /\ trap[t] = "none" /\ pc[t] = label

Goto(t, label) == pc' = [pc EXCEPT ![t] = label]

\* int 0x80: an interrupt gate, so IF is cleared until the iret.
Int80(t) ==
    /\ intr
    /\ intr' = FALSE
    /\ trap' = [trap EXCEPT ![t] = "iret"]
    /\ UNCHANGED <<in_service, jiffies>>

\* The `ret` of task_switch enters a new thread with IF = 0; its first
\* statement sets IF.
Start(t) ==
    /\ AtLabel(t, "start")
    /\ Goto(t, IF t = Idle THEN "idle" ELSE "user")
    /\ intr' = TRUE
    /\ UNCHANGED <<current, taskVars, jiffies, in_service, trap>>

\* interrupt_exit: iret pops the EFLAGS that were pushed with IF = 1.
InterruptExit(t) ==
    /\ current = t /\ trap[t] = "iret"
    /\ trap' = [trap EXCEPT ![t] = "none"]
    /\ intr' = TRUE
    /\ UNCHANGED <<current, taskVars, jiffies, in_service, pc>>

\* idle_thread: sti; hlt.
Halt ==
    /\ AtLabel(Idle, "idle")
    /\ Goto(Idle, "hlt")
    /\ intr' = TRUE
    /\ UNCHANGED <<current, taskVars, jiffies, in_service, trap>>

\* idle_thread: yield() after the interrupt that ends the hlt.
IdleYield ==
    /\ AtLabel(Idle, "yield")
    /\ Int80(Idle)
    /\ Goto(Idle, "idle")
    /\ Schedule(state, ticks, last)
    /\ UNCHANGED <<lists, blocked>>

\* yield(): sys task_yield.
TaskYield(t) ==
    /\ "yield" \in Syscalls
    /\ AtLabel(t, "user")
    /\ Int80(t)
    /\ Schedule(state, ticks, last)
    /\ UNCHANGED <<lists, blocked, pc>>

\* Fault: a tick too many for every sleep.
SleepTicksRoundedTwice(ms) == ms \div JIFFY + 2

SleepTicks(ms) == IF ms \div JIFFY > 0 THEN ms \div JIFFY ELSE 1

\* Fault: append to the sleep list.
SleepAtTail(target) == Len(lists["sleep"]) + 1

\* Where task_sleep inserts: before the first sleeper with a later target.
SleepPosition(target) ==
    LET queue == lists["sleep"]
        later == {i \in DOMAIN queue : ticks[queue[i]] > target}
    IN  IF later = {} THEN Len(queue) + 1 ELSE Min(later)

\* sleep(ms): task_sleep.
TaskSleep(t, ms) ==
    LET target == (jiffies + SleepTicks(ms)) % WORD
    IN  /\ "sleep" \in Syscalls
        /\ AtLabel(t, "user")
        /\ Int80(t)
        /\ ~Linked(t)
        /\ lists' = [lists EXCEPT !["sleep"] =
                        InsertAt(@, SleepPosition(target), t)]
        /\ Schedule([state EXCEPT ![t] = "sleeping"],
                    [ticks EXCEPT ![t] = target], last)
        /\ UNCHANGED <<blocked, pc>>

\* test(): sys_test blocks the caller when no task is blocked in it ...
TestBlock(t) ==
    /\ "test" \in Syscalls
    /\ AtLabel(t, "user")
    /\ blocked = NULL
    /\ Int80(t)
    /\ blocked' = t
    /\ TaskBlock("block", "blocked")
    /\ UNCHANGED pc

\* Fault: sys_test does not forget the task it has unblocked.
SlotKept == blocked' = blocked

\* task = NULL.
SlotCleared == blocked' = NULL

\* ... and otherwise unblocks the task that is.
TestUnblock(t) ==
    /\ "test" \in Syscalls
    /\ AtLabel(t, "user")
    /\ blocked # NULL
    /\ Int80(t)
    /\ Linked(blocked)
    /\ lists' = ListRemove(blocked)
    /\ state' = [state EXCEPT ![blocked] = "ready"]
    /\ SlotCleared
    /\ UNCHANGED <<current, ticks, last, pc>>

-----------------------------------------------------------------------------
(* The clock *)

\* The PIC delivers IRQ 0: it is latched until IF = 1 and no clock interrupt
\* is in service.  The CPU pushes a frame and clears IF; a hlt is left.
AcceptInterrupt ==
    /\ intr
    /\ ~in_service
    /\ jiffies < MaxJiffies
    /\ in_service' = TRUE
    /\ intr' = FALSE
    /\ trap' = [trap EXCEPT ![current] = "irq"]
    /\ pc' = IF pc[current] = "hlt" THEN [pc EXCEPT ![current] = "yield"]
             ELSE pc
    /\ UNCHANGED <<current, taskVars, jiffies>>

\* How many sleepers task_wakeup takes off the front of sleep_list.
WakeCount ==
    LET queue == lists["sleep"]
        keep  == {i \in DOMAIN queue : ticks[queue[i]] > jiffies}
    IN  IF keep = {} THEN Len(queue) ELSE Min(keep) - 1

Woken == {lists["sleep"][i] : i \in 1 .. WakeCount}

\* Fault: send_eoi after schedule(), so not before the thread runs again.
EoiAfterSchedule == in_service' = (current' # current)

\* send_eoi precedes everything else in the handler, the switch included.
EndOfInterrupt == in_service' = FALSE

\* clock_handler: send_eoi, task_wakeup, then the accounting of the
\* interrupted thread, and schedule() when its slice is used up.
ClockHandler ==
    LET now == (jiffies + 1) % WORD
        st  == [t \in Threads |-> IF t \in Woken THEN "ready" ELSE state[t]]
        tk  == [t \in Threads |->
                    IF t = current THEN (ticks[t] - 1) % WORD
                    ELSE IF t \in Woken THEN 0 ELSE ticks[t]]
        la  == [last EXCEPT ![current] = now]
    IN  /\ trap[current] = "irq"
        /\ lists' = [lists EXCEPT !["sleep"] =
                        SubSeq(@, WakeCount + 1, Len(@))]
        /\ jiffies' = now
        /\ trap' = [trap EXCEPT ![current] = "iret"]
        /\ IF tk[current] = 0
           THEN Schedule(st, tk, la)
           ELSE /\ state' = st
                /\ ticks' = tk
                /\ last' = la
                /\ UNCHANGED current
        /\ EndOfInterrupt
        /\ UNCHANGED <<intr, blocked, pc>>

-----------------------------------------------------------------------------
\* task_create: ready with a whole slice, and a frame that enters its function.
Created(t) ==
    [state |-> "ready", ticks |-> Priority[t], last |-> 0, pc |-> "start"]

\* task_setup turns the context it runs in into a task with one tick left.
BootTask == [state |-> "init", ticks |-> 1, last |-> 0, pc |-> "spin"]

FirstTask(t) == IF t = Boot THEN BootTask ELSE Created(t)

(* kernel_init has run memory_map_init, mapping_init, interrupt_init,       *)
(* clock_init, task_init and syscall_init and sets IF; it then spins.       *)
Init ==
    /\ current = Boot
    /\ state = [t \in Threads |-> FirstTask(t).state]
    /\ ticks = [t \in Threads |-> FirstTask(t).ticks]
    /\ last = [t \in Threads |-> FirstTask(t).last]
    /\ lists = [l \in ListNames |-> <<>>]
    /\ jiffies = 0
    /\ blocked = NULL
    /\ intr = TRUE
    /\ in_service = FALSE
    /\ trap = [t \in Threads |-> "none"]
    /\ pc = [t \in Threads |-> FirstTask(t).pc]

SystemCall(t) ==
    \/ TaskYield(t)
    \/ \E ms \in SleepMs : TaskSleep(t, ms)
    \/ TestBlock(t)
    \/ TestUnblock(t)

\* What the CPU executes.
CpuStep ==
    \/ \E t \in Tasks : Start(t)
    \/ \E t \in Threads : InterruptExit(t)
    \/ Halt
    \/ IdleYield
    \/ ClockHandler

Next ==
    \/ AcceptInterrupt
    \/ CpuStep
    \/ \E t \in Tasks \ {Idle} : SystemCall(t)

Spec == Init /\ [][Next]_vars

\* The CPU always executes the next instruction of the kernel's own code, and
\* the PIC holds the timer's request until it is delivered.  Nothing is assumed
\* of the threads: one may compute for ever between two system calls.
FairSpec == Spec /\ WF_vars(CpuStep) /\ SF_vars(AcceptInterrupt)

-----------------------------------------------------------------------------
(* Properties *)

Labels == {"start", "spin", "idle", "hlt", "yield", "user"} \cup UserLabels

\* Every variable holds a value of its C type (u32 below WORD), no list holds
\* anything but tasks.
TypeOK ==
    /\ current \in Threads
    /\ state \in [Threads -> States]
    /\ ticks \in [Threads -> 0 .. WORD - 1]
    /\ last \in [Threads -> 0 .. WORD - 1]
    /\ lists \in [ListNames -> Seq(Tasks)]
    /\ jiffies \in 0 .. WORD - 1
    /\ blocked \in Tasks \cup {NULL}
    /\ intr \in BOOLEAN
    /\ in_service \in BOOLEAN
    /\ trap \in [Threads -> {"none", "irq", "iret"}]
    /\ pc \in [Threads -> Labels]

\* The CPU is on the stack of the one task whose state is TASK_RUNNING: the
\* state field and esp, which schedule() updates on two sides of task_switch
\* and task_search reads through running_task(), never disagree.
OneRunning ==
    \A t \in Tasks : state[t] = "running" <=> t = current

\* A task is on a list exactly when its state says that it waits there, on one
\* list only and once: what the node asserts of task_block, task_unblock and
\* list_remove rely on.
ListsMatchStates ==
    /\ \A l \in ListNames : IsInjective(lists[l])
    /\ \A t \in Tasks : state[t] = "sleeping" <=> t \in ToSet(lists["sleep"])
    /\ \A t \in Tasks : state[t] = "blocked" <=>
            \E l \in ListNames \ {"sleep"} : t \in ToSet(lists[l])
    /\ \A l, m \in ListNames : l # m => ToSet(lists[l]) \cap ToSet(lists[m]) = {}

\* The slot of sys_test names a task that is on block_list and nothing else is
\* there, so that task_unblock(task) finds a linked node.
SlotIsBlocked ==
    ToSet(lists["block"]) = IF blocked = NULL THEN {} ELSE {blocked}

\* No wake-up time lies further ahead than the longest sleep there is, also
\* after a wrap of jiffies: schedule() refills ticks that are 0, the wake-up
\* time of a sleeper included, and must not send one to sleep for longer.
NoOverdueSleeper ==
    \A t \in Tasks : state[t] = "sleeping" =>
        \E ms \in SleepMs : ticks[t] <= jiffies + ms \div JIFFY + 1

\* The clock leaves no task asleep whose time has come.  task_wakeup stops at
\* the first task that is not due, so this needs the order that task_sleep
\* maintains, and some of it even where wake-up times wrap.
DueSleepersWake ==
    [][jiffies' # jiffies =>
            \A t \in Tasks : state'[t] = "sleeping" => ticks'[t] > jiffies]_vars

\* Every sleeper is woken in the end: the clock keeps ticking whatever thread
\* it interrupts, so the EOI must precede the schedule() in the handler.
SleeperWakes ==
    \A t \in Tasks : state[t] = "sleeping" ~> state[t] # "sleeping"

\* task.h:35 calls ticks the rest of the time slice and task.c:108 says that it
\* is set back to the priority: a running task then has between 1 and priority
\* ticks left when no clock interrupt is being handled.
SliceWithinPriority ==
    \A t \in Tasks : state[t] = "running" => ticks[t] <= Priority[t]

\* The note on kernel threads says that idle is scheduled when all processes
\* are blocked: schedule() switches to it only when no task but the one that
\* is being switched out is ready.
IdleOnlyWhenNothingReady ==
    [][current # Idle /\ current' = Idle =>
            \A t \in Tasks \ {Idle, current} : state'[t] # "ready"]_vars

\* task.c:203 promises a sleep of at least one time slice.  A sleeper is due
\* when the clock has passed its wake-up time on the circle of u32 values (the
\* sleeps of a run are shorter than half of it); none is woken earlier.
SleepNotCutShort ==
    [][\A t \in Tasks : state[t] = "sleeping" /\ state'[t] # "sleeping" =>
            (jiffies - ticks[t]) % WORD < WORD \div 2]_vars

=============================================================================
