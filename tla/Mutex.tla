-------------------------------- MODULE Mutex --------------------------------
(***************************************************************************)
(* src/src/kernel/mutex.c on top of the scheduler: one mutex and the       *)
(* spinlock around it, used by the tasks other than idle.                  *)
(*                                                                         *)
(* mutex_lock and mutex_unlock run with IF = 0; spin_lock and spin_unlock  *)
(* around them do not, and have a label for each access to holder and      *)
(* repeat, so that a clock interrupt can come between any two: repeat++    *)
(* and repeat-- are a read and a write.                                    *)
(***************************************************************************)
EXTENDS Task

CONSTANT MaxDepth   \* bound: how often a thread enters the lock it holds

VARIABLES
    value,   \* mutex_t.value
    holder,  \* spinlock_t.holder
    repeat,  \* spinlock_t.repeat
    read,    \* what a thread has read of repeat to change it; 0 once written
    saved,   \* the local `intr` of mutex_lock and mutex_unlock
    depth    \* what a thread knows: its spin_lock calls it has not undone

lockVars == <<value, holder, repeat, read, saved, depth>>
mutexVars == <<vars, lockVars>>

Users == Tasks \ {Idle}

\* Where a thread is at work on the count of a lock that it holds.
CountLabels == {"again", "again_store", "count", "count_down", "count_store", "last"}

MutexLabels == CountLabels \cup
               {"m_lock", "m_test", "m_take", "own", "own_assert", "own_repeat",
                "clear", "clear_repeat", "m_unlock", "m_release", "m_restore"}

ASSUME MutexAssumption ==
    /\ MaxDepth \in Nat \ {0}
    /\ MaxDepth < WORD
    /\ "waiters" \in WaitLists
    /\ MutexLabels \subseteq UserLabels

\* The variables of Task that plain thread code leaves alone.
Undisturbed == UNCHANGED <<current, taskVars, jiffies, in_service, trap>>

-----------------------------------------------------------------------------
(* mutex_init, mutex_lock, mutex_unlock *)

\* Fault: the flag is read after cli.
FlagReadLate(t) ==
    /\ saved' = [saved EXCEPT ![t] = FALSE]
    /\ intr' = FALSE

\* interrupt_disable: clear IF and remember what it was.
InterruptDisable(t) ==
    /\ saved' = [saved EXCEPT ![t] = intr]
    /\ intr' = FALSE

MutexLock(t) ==
    /\ AtLabel(t, "m_lock")
    /\ InterruptDisable(t)
    /\ Goto(t, "m_test")
    /\ Undisturbed
    /\ UNCHANGED <<value, holder, repeat, read, depth>>

\* while (true == mutex->value) task_block(current, &mutex->waiters, ...):
\* the thread comes back to the test when it is unblocked and scheduled.
MutexWait(t) ==
    /\ AtLabel(t, "m_test")
    /\ value
    /\ ~intr
    /\ TaskBlock("waiters", "blocked")
    /\ UNCHANGED <<jiffies, blocked, intr, in_service, trap, pc, lockVars>>

MutexFree(t) ==
    /\ AtLabel(t, "m_test")
    /\ ~value
    /\ Goto(t, "m_take")
    /\ Undisturbed
    /\ UNCHANGED <<intr, lockVars>>

\* Fault: value is not set.
TakeWithoutMark(t) ==
    /\ AtLabel(t, "m_take")
    /\ ~value
    /\ intr' = saved[t]
    /\ Goto(t, "own")
    /\ Undisturbed
    /\ UNCHANGED <<value, holder, repeat, read, saved, depth>>

\* mutex->value++ with its two asserts, and set_interrupt_state(intr).
MutexTake(t) ==
    /\ AtLabel(t, "m_take")
    /\ ~value
    /\ value' = TRUE
    /\ intr' = saved[t]
    /\ Goto(t, "own")
    /\ Undisturbed
    /\ UNCHANGED <<holder, repeat, read, saved, depth>>

MutexUnlock(t) ==
    /\ AtLabel(t, "m_unlock")
    /\ InterruptDisable(t)
    /\ Goto(t, "m_release")
    /\ Undisturbed
    /\ UNCHANGED <<value, holder, repeat, read, depth>>

\* The task at the tail of waiters was pushed first.
FirstWaiter == Last(lists["waiters"])

\* Fault: nobody is woken.
WakeNobody == UNCHANGED <<current, state, ticks, last, lists>>

\* When somebody waits, task_unblock(the first waiter) and task_yield.
WakeFirstWaiter ==
    IF lists["waiters"] = <<>>
    THEN UNCHANGED <<current, state, ticks, last, lists>>
    ELSE /\ ~intr
         /\ lists' = ListRemove(FirstWaiter)
         /\ Schedule([state EXCEPT ![FirstWaiter] = "ready"], ticks, last)

\* mutex->value-- with its two asserts, then the wake-up.
MutexRelease(t) ==
    /\ AtLabel(t, "m_release")
    /\ value
    /\ value' = FALSE
    /\ Goto(t, "m_restore")
    /\ WakeFirstWaiter
    /\ UNCHANGED <<jiffies, blocked, intr, in_service, trap,
                   holder, repeat, read, saved, depth>>

MutexRestore(t) ==
    /\ AtLabel(t, "m_restore")
    /\ intr' = saved[t]
    /\ Goto(t, "user")
    /\ Undisturbed
    /\ UNCHANGED lockVars

-----------------------------------------------------------------------------
(* spin_lock and spin_unlock *)

\* Fault: take the lock again when anybody holds it.
SpinTestHeld(t) ==
    /\ AtLabel(t, "user")
    /\ depth[t] < MaxDepth
    /\ Goto(t, IF holder = NULL THEN "m_lock" ELSE "again")
    /\ Undisturbed
    /\ UNCHANGED <<intr, lockVars>>

\* if (lock->holder != current): read with interrupts on.
SpinTest(t) ==
    /\ AtLabel(t, "user")
    /\ depth[t] < MaxDepth
    /\ Goto(t, IF holder # t THEN "m_lock" ELSE "again")
    /\ Undisturbed
    /\ UNCHANGED <<intr, lockVars>>

\* lock->repeat++ of the thread that holds the lock already: the read ...
SpinAgain(t) ==
    /\ AtLabel(t, "again")
    /\ read' = [read EXCEPT ![t] = repeat]
    /\ Goto(t, "again_store")
    /\ Undisturbed
    /\ UNCHANGED <<intr, value, holder, repeat, saved, depth>>

\* ... and the write; return.
SpinAgainStore(t) ==
    /\ AtLabel(t, "again_store")
    /\ repeat' = (read[t] + 1) % WORD
    /\ read' = [read EXCEPT ![t] = 0]
    /\ depth' = [depth EXCEPT ![t] = @ + 1]
    /\ Goto(t, "user")
    /\ Undisturbed
    /\ UNCHANGED <<intr, value, holder, saved>>

\* lock->holder = current, the mutex being held.
SpinOwn(t) ==
    /\ AtLabel(t, "own")
    /\ holder' = t
    /\ Goto(t, "own_assert")
    /\ Undisturbed
    /\ UNCHANGED <<intr, value, repeat, read, saved, depth>>

\* assert(lock->repeat == 0).
SpinAssert(t) ==
    /\ AtLabel(t, "own_assert")
    /\ repeat = 0
    /\ Goto(t, "own_repeat")
    /\ Undisturbed
    /\ UNCHANGED <<intr, lockVars>>

\* lock->repeat = 1; return.
SpinFirst(t) ==
    /\ AtLabel(t, "own_repeat")
    /\ repeat' = 1
    /\ depth' = [depth EXCEPT ![t] = @ + 1]
    /\ Goto(t, "user")
    /\ Undisturbed
    /\ UNCHANGED <<intr, value, holder, read, saved>>

\* spin_unlock's assert(lock->holder == current); a thread undoes only its own
\* calls.
SpinUnlock(t) ==
    /\ AtLabel(t, "user")
    /\ depth[t] > 0
    /\ holder = t
    /\ Goto(t, "count")
    /\ Undisturbed
    /\ UNCHANGED <<intr, lockVars>>

\* Fault: >= for >.
SpinCountTooLow(t) ==
    /\ AtLabel(t, "count")
    /\ Goto(t, IF repeat >= 1 THEN "count_down" ELSE "last")
    /\ Undisturbed
    /\ UNCHANGED <<intr, lockVars>>

\* if (lock->repeat > 1).
SpinCount(t) ==
    /\ AtLabel(t, "count")
    /\ Goto(t, IF repeat > 1 THEN "count_down" ELSE "last")
    /\ Undisturbed
    /\ UNCHANGED <<intr, lockVars>>

\* lock->repeat--: the read ...
SpinDown(t) ==
    /\ AtLabel(t, "count_down")
    /\ read' = [read EXCEPT ![t] = repeat]
    /\ Goto(t, "count_store")
    /\ Undisturbed
    /\ UNCHANGED <<intr, value, holder, repeat, saved, depth>>

\* ... and the write; return.
SpinDownStore(t) ==
    /\ AtLabel(t, "count_store")
    /\ repeat' = (read[t] - 1) % WORD
    /\ read' = [read EXCEPT ![t] = 0]
    /\ depth' = [depth EXCEPT ![t] = @ - 1]
    /\ Goto(t, "user")
    /\ Undisturbed
    /\ UNCHANGED <<intr, value, holder, saved>>

\* assert(lock->repeat == 1): the thread's last call is being undone.
SpinLast(t) ==
    /\ AtLabel(t, "last")
    /\ repeat = 1
    /\ depth' = [depth EXCEPT ![t] = @ - 1]
    /\ Goto(t, "clear")
    /\ Undisturbed
    /\ UNCHANGED <<intr, value, holder, repeat, read, saved>>

\* Fault: the holder is not cleared.
HolderLeft(t) ==
    /\ AtLabel(t, "clear")
    /\ Goto(t, "clear_repeat")
    /\ Undisturbed
    /\ UNCHANGED <<intr, lockVars>>

\* lock->holder = NULL while the mutex is still held.
SpinDisown(t) ==
    /\ AtLabel(t, "clear")
    /\ holder' = NULL
    /\ Goto(t, "clear_repeat")
    /\ Undisturbed
    /\ UNCHANGED <<intr, value, repeat, read, saved, depth>>

\* lock->repeat = 0, then mutex_unlock.
SpinReset(t) ==
    /\ AtLabel(t, "clear_repeat")
    /\ repeat' = 0
    /\ Goto(t, "m_unlock")
    /\ Undisturbed
    /\ UNCHANGED <<intr, value, holder, read, saved, depth>>

-----------------------------------------------------------------------------
\* spin_init and mutex_init have run on the lock.
LockInit ==
    /\ value = FALSE
    /\ holder = NULL
    /\ repeat = 0
    /\ read = [t \in Threads |-> 0]
    /\ saved = [t \in Threads |-> FALSE]
    /\ depth = [t \in Threads |-> 0]

MutexInit == Init /\ LockInit

\* A call that has begun and that the CPU goes on executing.
LockStep(t) ==
    \/ MutexLock(t)
    \/ MutexWait(t)
    \/ MutexFree(t)
    \/ MutexTake(t)
    \/ MutexUnlock(t)
    \/ MutexRelease(t)
    \/ MutexRestore(t)
    \/ SpinAgain(t)
    \/ SpinAgainStore(t)
    \/ SpinOwn(t)
    \/ SpinAssert(t)
    \/ SpinFirst(t)
    \/ SpinCount(t)
    \/ SpinDown(t)
    \/ SpinDownStore(t)
    \/ SpinLast(t)
    \/ SpinDisown(t)
    \/ SpinReset(t)

MutexNext ==
    \/ Next /\ UNCHANGED lockVars
    \/ \E t \in Users : LockStep(t)
    \/ \E t \in Users : SpinTest(t)
    \/ \E t \in Users : SpinUnlock(t)

MutexSpec == MutexInit /\ [][MutexNext]_mutexVars

-----------------------------------------------------------------------------
(* Properties *)

\* From the moment mutex->value is set until it is cleared again.
Inside(t) ==
    depth[t] > 0 \/ pc[t] \in {"own", "own_assert", "own_repeat", "clear",
                               "clear_repeat", "m_unlock", "m_release"}

LockTypeOK ==
    /\ TypeOK
    /\ value \in BOOLEAN
    /\ holder \in Tasks \cup {NULL}
    /\ repeat \in 0 .. WORD - 1
    /\ read \in [Threads -> 0 .. WORD - 1]
    /\ saved \in [Threads -> BOOLEAN]
    /\ depth \in [Threads -> 0 .. MaxDepth]

\* At most one thread is between its spin_lock and the end of its
\* spin_unlock, whatever interrupts and switches come between their steps.
MutualExclusion ==
    \A t, u \in Users : Inside(t) /\ Inside(u) => t = u

\* The mutex is marked as held exactly while some thread is inside.
ValueMatchesOwner ==
    value <=> \E t \in Users : Inside(t)

\* The unlocked accesses to holder and repeat never mislead: a thread sees itself
\* as the holder exactly while it holds the lock, the count is its own, what it
\* has read of the count is still there when it writes the next value, and no
\* assert of spin_lock and spin_unlock fails; nor does one of mutex_lock and
\* mutex_unlock, between the test of value and its update.
HolderAgrees ==
    \A t \in Users :
        /\ pc[t] = "m_take" => ~value
        /\ pc[t] = "m_release" => value
        /\ holder = t => Inside(t)
        /\ depth[t] > 0 => holder = t /\ repeat = depth[t]
        /\ pc[t] \in CountLabels => depth[t] > 0
        /\ pc[t] \in {"again_store", "count_store"} => read[t] = repeat
        /\ pc[t] \in {"count_down", "count_store"} => repeat > 1
        /\ pc[t] \in {"own", "own_assert", "own_repeat"} => repeat = 0
        /\ pc[t] \in {"last", "clear"} => holder = t /\ repeat = 1

\* No wake-up is lost: when the mutex is free and somebody waits, some thread
\* that has been woken is on its way to the test and will pass the mutex on.
NoLostWakeup ==
    ~value /\ lists["waiters"] # <<>> =>
        \E t \in Users : /\ state[t] \in {"ready", "running"}
                         /\ pc[t] \in {"m_test", "m_take"}

\* IF is off between interrupt_disable and set_interrupt_state, over every
\* switch in between, and on again in the thread that called.
InterruptsRestored ==
    trap[current] = "none" =>
        (intr <=> pc[current] \notin {"start", "m_test", "m_take",
                                      "m_release", "m_restore"})

\* Whoever owns the lock in the abstract has called spin_lock and returned.
Owner == IF \E t \in Users : depth[t] > 0
         THEN CHOOSE t \in Users : depth[t] > 0 ELSE NULL

Abstract == INSTANCE ReentrantLock WITH
    Thread  <- Users,
    NoOne   <- NULL,
    owner   <- Owner,
    count   <- IF Owner = NULL THEN 0 ELSE depth[Owner],
    wanting <- {t \in Users : pc[t] \in {"m_lock", "m_test", "m_take",
                                         "own", "own_assert", "own_repeat"}}

\* The spinlock implements the reentrant lock its callers rely on.
ImplementsReentrantLock == Abstract!Spec

\* mutex.c:50-51 says that the queue is first in, first out and that the task
\* that entered it first is the one that can take the lock: no newcomer gets
\* past interrupt_disable to a free mutex (which it takes at once, IF being 0)
\* while a task that mutex_unlock has woken for it waits for the CPU.
FifoHandoff ==
    [][\A t, u \in Users :
        pc[t] = "m_lock" /\ pc'[t] = "m_test" /\ ~value =>
            ~(u # t /\ pc[u] = "m_test" /\ state[u] = "ready")]_mutexVars

=============================================================================
