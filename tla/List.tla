-------------------------------- MODULE List --------------------------------
(***************************************************************************)
(* src/lib/list.c: doubly linked lists, each between a head and a tail     *)
(* node of its own, of nodes that are embedded in the tasks.               *)
(***************************************************************************)
EXTENDS Integers, Sequences, FiniteSets, FiniteSetsExt

CONSTANTS
    Lists,   \* the lists
    Nodes,   \* the embedded nodes
    Key,     \* the field of a node that list_insert_sort compares
    NULL

HeadOf(l) == <<"head", l>>
TailOf(l) == <<"tail", l>>
Ends == {HeadOf(l) : l \in Lists} \cup {TailOf(l) : l \in Lists}
All  == Nodes \cup Ends

ASSUME ListAssumption ==
    /\ IsFiniteSet(Nodes)
    /\ Key \in [Nodes -> Int]
    /\ NULL \notin Nodes
    /\ Nodes \cap Ends = {}
    /\ NULL \notin Ends

VARIABLES prev, next

vars == <<prev, next>>

-----------------------------------------------------------------------------
\* The nodes from the head on, one `next` after the other, until the tail.
Visit(l) ==
    LET at[i \in 0 .. Cardinality(Nodes) + 1] ==
            IF i = 0 THEN next[HeadOf(l)]
            ELSE LET n == at[i - 1] IN IF n \in Nodes THEN next[n] ELSE n
    IN  at

ListSize(l) ==
    LET at   == Visit(l)
        ends == {i \in DOMAIN at : at[i] \notin Nodes}
    IN  IF ends = {} THEN Cardinality(Nodes) + 1 ELSE Min(ends)

Walk(l) == LET at == Visit(l) IN [i \in 1 .. ListSize(l) |-> at[i - 1]]

ListSearch(l, n) == \E i \in DOMAIN Walk(l) : Walk(l)[i] = n

ListEmpty(l) == next[HeadOf(l)] = TailOf(l)

Unlinked(n) == next[n] = NULL /\ prev[n] = NULL

\* Fault: the neighbour's link back is not set.
LinkOneWay(anchor, n) ==
    /\ prev' = [prev EXCEPT ![n] = anchor, ![next[anchor]] = prev[next[anchor]]]
    /\ next' = [next EXCEPT ![n] = next[anchor], ![anchor] = n]

\* list_insert_after
InsertAfter(anchor, n) ==
    /\ prev' = [prev EXCEPT ![n] = anchor, ![next[anchor]] = n]
    /\ next' = [next EXCEPT ![n] = next[anchor], ![anchor] = n]

\* list_insert_before
InsertBefore(anchor, n) ==
    /\ prev' = [prev EXCEPT ![n] = prev[anchor], ![anchor] = n]
    /\ next' = [next EXCEPT ![n] = anchor, ![prev[anchor]] = n]

\* list_push
ListPush(l, n) ==
    /\ ~ListSearch(l, n)
    /\ InsertAfter(HeadOf(l), n)

\* list_pushback
ListPushBack(l, n) ==
    /\ ~ListSearch(l, n)
    /\ InsertBefore(TailOf(l), n)

\* list_remove
ListRemove(n) ==
    /\ prev[n] # NULL /\ next[n] # NULL
    /\ next' = [next EXCEPT ![prev[n]] = next[n], ![n] = NULL]
    /\ prev' = [prev EXCEPT ![next[n]] = prev[n], ![n] = NULL]

\* list_pop and list_popback
ListPop(l) == ~ListEmpty(l) /\ ListRemove(next[HeadOf(l)])

ListPopBack(l) == ~ListEmpty(l) /\ ListRemove(prev[TailOf(l)])

\* Fault: stop at a node with an equal key.
FirstNotSmaller(l, n) ==
    LET larger == {i \in DOMAIN Walk(l) : Key[Walk(l)[i]] >= Key[n]}
    IN  IF larger = {} THEN TailOf(l) ELSE Walk(l)[Min(larger)]

\* The first node with a larger key, or the tail.
SortAnchor(l, n) ==
    LET larger == {i \in DOMAIN Walk(l) : Key[Walk(l)[i]] > Key[n]}
    IN  IF larger = {} THEN TailOf(l) ELSE Walk(l)[Min(larger)]

\* list_insert_sort
ListInsertSort(l, n) ==
    /\ Unlinked(n)
    /\ InsertBefore(SortAnchor(l, n), n)

-----------------------------------------------------------------------------
\* list_init on every list; the pages of the tasks are cleared with memset.
Init ==
    /\ next = [n \in All |-> IF \E l \in Lists : n = HeadOf(l)
                             THEN TailOf(n[2]) ELSE NULL]
    /\ prev = [n \in All |-> IF \E l \in Lists : n = TailOf(l)
                             THEN HeadOf(n[2]) ELSE NULL]

\* The callers insert nodes that are on no list (task_block asserts it), with
\* list_push, list_pushback or in order; they remove any that is on one.
Next ==
    \/ \E l \in Lists, n \in Nodes :
        /\ Unlinked(n)
        /\ \/ ListPush(l, n)
           \/ ListPushBack(l, n)
           \/ ListInsertSort(l, n)
    \/ \E n \in Nodes : ListRemove(n)
    \/ \E l \in Lists : ListPop(l)
    \/ \E l \in Lists : ListPopBack(l)

Spec == Init /\ [][Next]_vars

-----------------------------------------------------------------------------
(* Properties *)

\* The pointers of a list are a chain: every link has its inverse, a node has
\* both links or neither, and no node lies outside all of the chains.
WellLinked ==
    /\ \A n \in All : next[n] # NULL => prev[next[n]] = n
    /\ \A n \in All : prev[n] # NULL => next[prev[n]] = n
    /\ \A n \in Nodes : next[n] = NULL <=> prev[n] = NULL
    /\ \A n \in Nodes : next[n] # NULL => \E l \in Lists : ListSearch(l, n)

\* The lists implement sequences, over insertions at both ends and in order
\* and removals of any node without knowledge of its list.
Abstract == INSTANCE ListSpec WITH seqs <- [l \in Lists |-> Walk(l)]

ImplementsSequences == Abstract!Spec

=============================================================================
