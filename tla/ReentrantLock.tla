---------------------------- MODULE ReentrantLock ----------------------------
(***************************************************************************)
(* What spin_lock and spin_unlock promise their callers, whatever they are *)
(* built from: a lock that one thread owns at a time, that its owner may   *)
(* take again, and that is free when every call has been undone.           *)
(***************************************************************************)
EXTENDS Naturals

CONSTANTS Thread, NoOne  \* NoOne is no thread

VARIABLES
    owner,   \* the thread that holds the lock, or NoOne
    count,   \* its spin_lock calls without a spin_unlock
    wanting  \* the threads whose first spin_lock has not returned

lockVars == <<owner, count, wanting>>

Init == owner = NoOne /\ count = 0 /\ wanting = {}

Request(t) ==
    /\ owner # t /\ t \notin wanting
    /\ wanting' = wanting \cup {t}
    /\ UNCHANGED <<owner, count>>

Acquire(t) ==
    /\ owner = NoOne /\ t \in wanting
    /\ owner' = t
    /\ count' = 1
    /\ wanting' = wanting \ {t}

Reacquire(t) ==
    /\ owner = t
    /\ count' = count + 1
    /\ UNCHANGED <<owner, wanting>>

Release(t) ==
    /\ owner = t
    /\ count' = count - 1
    /\ owner' = IF count = 1 THEN NoOne ELSE t
    /\ UNCHANGED wanting

Next == \E t \in Thread :
    \/ Request(t)
    \/ Acquire(t)
    \/ Reacquire(t)
    \/ Release(t)

Spec == Init /\ [][Next]_lockVars
=============================================================================
