------------------------------- MODULE Threads -------------------------------
(***************************************************************************)
(* The program the kernel boots into: src/src/kernel/thread.c, with idle,  *)
(* init and test in the table as task_init creates them.  init initialises *)
(* the global lock; init and test then print under it for ever.  LOGK goes *)
(* through two static buffers, debug.c's and printk.c's, to the console.   *)
(***************************************************************************)
EXTENDS Mutex

InitTask == 2
TestTask == 3

ThreadLabels == MutexLabels \cup {"printk", "console"}

\* task_init creates idle, init and test, in this order, and gives the last two
\* the same priority, above idle's.
ASSUME ThreadsAssumption ==
    /\ NTASKS = 3
    /\ Priority[Idle] < Priority[InitTask]
    /\ Priority[TestTask] <= Priority[InitTask]
    /\ ThreadLabels \subseteq UserLabels

VARIABLES
    initialised, \* spin_init(&lock) has run; before it, lock is zero
    debug_buf,   \* debug.c: whose text the buffer of debugk holds
    printk_buf,  \* printk.c: whose text the buffer of printk holds
    logged       \* the thread has come through LOGK since it took the lock

logVars == <<initialised, debug_buf, printk_buf, logged>>
threadVars == <<mutexVars, logVars>>

\* init_thread's first statements, still with IF = 0 from its creation.
InitThreadStart ==
    /\ AtLabel(InitTask, "start")
    /\ value' = FALSE
    /\ holder' = NULL
    /\ repeat' = 0
    /\ lists' = [lists EXCEPT !["waiters"] = <<>>]
    /\ initialised' = TRUE
    /\ intr' = TRUE
    /\ Goto(InitTask, "user")
    /\ UNCHANGED <<current, state, ticks, last, jiffies, blocked, in_service,
                   trap, read, saved, depth, debug_buf, printk_buf, logged>>

\* idle_thread and test_thread only set IF.
ThreadStart(t) ==
    /\ Start(t)
    /\ UNCHANGED <<lockVars, logVars>>

\* while (true) { spin_lock(&lock); ...
LoopLock(t) ==
    /\ ~logged[t]
    /\ SpinTest(t)
    /\ UNCHANGED logVars

\* ... LOGK: vsprintf into debug.c's buffer ...
Debugk(t) ==
    /\ AtLabel(t, "user")
    /\ depth[t] > 0 /\ ~logged[t]
    /\ debug_buf' = t
    /\ Goto(t, "printk")
    /\ Undisturbed
    /\ UNCHANGED <<intr, lockVars, initialised, printk_buf, logged>>

\* ... vsprintf from there into printk.c's buffer ...
Printk(t) ==
    /\ AtLabel(t, "printk")
    /\ printk_buf' = debug_buf
    /\ Goto(t, "console")
    /\ Undisturbed
    /\ UNCHANGED <<intr, lockVars, initialised, debug_buf, logged>>

\* ... console_write, which no longer turns interrupts off ...
ConsoleWrite(t) ==
    /\ AtLabel(t, "console")
    /\ logged' = [logged EXCEPT ![t] = TRUE]
    /\ Goto(t, "user")
    /\ Undisturbed
    /\ UNCHANGED <<intr, lockVars, initialised, debug_buf, printk_buf>>

\* ... spin_unlock(&lock); }
LoopUnlock(t) ==
    /\ logged[t]
    /\ SpinUnlock(t)
    /\ logged' = [logged EXCEPT ![t] = FALSE]
    /\ UNCHANGED <<initialised, debug_buf, printk_buf>>

ThreadsInit ==
    /\ MutexInit
    /\ initialised = FALSE
    /\ debug_buf = NULL
    /\ printk_buf = NULL
    /\ logged = [t \in Threads |-> FALSE]

\* The next instruction of the kernel on the current stack.
KernelStep ==
    /\ \/ \E t \in Threads : InterruptExit(t)
       \/ Halt
       \/ IdleYield
       \/ ClockHandler
    /\ UNCHANGED <<lockVars, logVars>>

\* The next instruction of a thread of its own.
ThreadStep(t) ==
    \/ t = InitTask /\ InitThreadStart
    \/ t # InitTask /\ ThreadStart(t)
    \/ /\ t \in Users
       /\ \/ LockStep(t) /\ UNCHANGED logVars
          \/ LoopLock(t)
          \/ Debugk(t)
          \/ Printk(t)
          \/ ConsoleWrite(t)
          \/ LoopUnlock(t)

TimerInterrupt == AcceptInterrupt /\ UNCHANGED <<lockVars, logVars>>

ThreadsNext ==
    \/ TimerInterrupt
    \/ KernelStep
    \/ \E t \in Tasks : ThreadStep(t)

\* The CPU executes; the latched timer request is delivered in the end; and
\* ten milliseconds between two requests leave the interrupted thread the time
\* to get on.
ThreadsSpec ==
    /\ ThreadsInit /\ [][ThreadsNext]_threadVars
    /\ WF_threadVars(KernelStep)
    /\ SF_threadVars(TimerInterrupt)
    /\ \A t \in Tasks : SF_threadVars(ThreadStep(t))

-----------------------------------------------------------------------------
(* Properties *)

\* No thread touches the lock before init_thread has initialised it.  The code
\* has nothing that orders the two threads: it relies on the scheduler's first
\* choice among three ready tasks and on init still running with IF = 0.
LockInitialisedBeforeUse ==
    pc[TestTask] # "start" => initialised

\* A line reaches the console as its thread formatted it: the static buffers of
\* debugk and printk are not overwritten between their use.
LogIntact ==
    \A t \in Users :
        /\ pc[t] = "printk" => debug_buf = t
        /\ pc[t] = "console" => printk_buf = t

\* A thread that waits for the lock is woken in the end: the holder always gets
\* back to the CPU and to its spin_unlock, and no wake-up is lost.
WaiterWoken ==
    \A t \in Users : state[t] = "blocked" ~> state[t] # "blocked"

=============================================================================
