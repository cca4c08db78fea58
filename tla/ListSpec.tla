------------------------------ MODULE ListSpec ------------------------------
(***************************************************************************)
(* What the kernel's lists are to their users: sequences without           *)
(* duplicates, a node being on one list at most.  Task.tla uses them so.   *)
(***************************************************************************)
EXTENDS Integers, Sequences, SequencesExt

CONSTANTS Lists, Nodes, Key

VARIABLE seqs   \* [Lists -> Seq(Nodes)], from head to tail

Init == seqs = [l \in Lists |-> <<>>]

Unlinked(n) == \A l \in Lists : n \notin ToSet(seqs[l])

InsertAtPos(l, i, n) ==
    /\ Unlinked(n)
    /\ seqs' = [seqs EXCEPT ![l] = InsertAt(@, i, n)]

Push(l, n) == InsertAtPos(l, 1, n)

PushBack(l, n) == InsertAtPos(l, Len(seqs[l]) + 1, n)

\* Before the first node with a larger key.
InsertSort(l, n) ==
    LET larger == {i \in DOMAIN seqs[l] : Key[seqs[l][i]] > Key[n]}
    IN  InsertAtPos(l, IF larger = {} THEN Len(seqs[l]) + 1 ELSE Min(larger), n)

\* Off whichever list it is on, the ends included (pop, popback).
Unlink(n) ==
    \E l \in Lists : \E i \in DOMAIN seqs[l] :
        /\ seqs[l][i] = n
        /\ seqs' = [seqs EXCEPT ![l] = RemoveAt(@, i)]

Next ==
    \/ \E l \in Lists, n \in Nodes :
            Push(l, n) \/ PushBack(l, n) \/ InsertSort(l, n)
    \/ \E n \in Nodes : Unlink(n)

Spec == Init /\ [][Next]_seqs
=============================================================================
