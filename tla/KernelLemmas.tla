---------------------------- MODULE KernelLemmas ----------------------------
(***************************************************************************)
(* Facts about the operators the kernel's modules are built from: u32      *)
(* arithmetic, the least element of a set of naturals, the history of a    *)
(* loop, recursion along divisions, and what inserting into and removing   *)
(* from a list without duplicates does to its elements; sums over sets.    *)
(***************************************************************************)
EXTENDS SequencesExt, SequenceTheorems, FiniteSetTheorems, WellFoundedInduction, TLAPS

\* A value modulo WORD is a u32, whatever the arithmetic that led to it.
LEMMA ModRange ==
    ASSUME NEW a \in Int, NEW n \in Nat \ {0}
    PROVE  a % n \in 0 .. n - 1
OBVIOUS

\* A non-empty set of naturals has a least element.
LEMMA LeastNatural ==
    ASSUME NEW S \in SUBSET Nat, S # {}
    PROVE  \E n \in S : \A k \in S : n <= k
<1>1. PICK n \in S : \A k \in S : <<k, n>> \notin OpToRel(<, Nat)
    BY WFMin, NatLessThanWellFounded, Zenon
<1>2. \A k \in S : ~(k < n)
    BY <1>1 DEF OpToRel
<1> QED
    BY <1>2

\* Min of a non-empty set of naturals is its least element.
LEMMA MinProperties ==
    ASSUME NEW S \in SUBSET Nat, S # {}
    PROVE  /\ Min(S) \in S
           /\ \A k \in S : Min(S) <= k
<1>1. \E n \in S : \A k \in S : n <= k
    BY LeastNatural, Zenon
<1> QED
    BY <1>1, Zenon DEF Min

\* Induction over 0 .. n, for a property given as the set where it holds.
LEMMA BoundedInduction ==
    ASSUME NEW n \in Nat, NEW S, 0 \in S,
           \A i \in 1 .. n : i - 1 \in S => i \in S
    PROVE  \A i \in 0 .. n : i \in S
<1> DEFINE wrong == {i \in 0 .. n : i \notin S}
<1>1. SUFFICES ASSUME wrong # {}
               PROVE  FALSE
    OBVIOUS
<1>2. PICK i \in wrong : \A k \in wrong : i <= k
    <2>1. wrong \in SUBSET Nat
        OBVIOUS
    <2> HIDE DEF wrong
    <2> QED
        BY <1>1, <2>1, LeastNatural
<1>3. i \in 1 .. n /\ i - 1 \in 0 .. n
    BY <1>2
<1>4. i - 1 \in S
    BY <1>2, <1>3
<1> QED
    BY <1>2, <1>3, <1>4

\* g holds what the variable of a loop over 1 .. n is after each turn: the
\* recursive functions of the models are such histories.
IsHistory(g, n, V, first, step) ==
    /\ g \in [0 .. n -> V]
    /\ g[0] = first
    /\ \A i \in 1 .. n : g[i] = step[i][g[i - 1]]

\* Every loop has a history.
LEMMA LoopHistory ==
    ASSUME NEW n \in Nat, NEW V, NEW first \in V, NEW step \in [1 .. n -> [V -> V]]
    PROVE  \E g : IsHistory(g, n, V, first, step)
<1> DEFINE History(g, k) ==
               g = [i \in 0 .. k |-> IF i = 0 THEN first ELSE step[i][g[i - 1]]]
           S == {k \in 0 .. n : \E g \in [0 .. k -> V] : History(g, k)}
<1>1. 0 \in S
    <2> DEFINE g == [i \in 0 .. 0 |-> first]
    <2>1. g \in [0 .. 0 -> V] /\ History(g, 0)
        BY SMT
    <2> HIDE DEF History, g
    <2> QED
        BY <2>1
<1>2. ASSUME NEW k \in 1 .. n, k - 1 \in S
      PROVE  k \in S
    <2>1. PICK g \in [0 .. k - 1 -> V] : History(g, k - 1)
        <3> HIDE DEF History
        <3> QED
            BY <1>2
    <2> DEFINE h == [i \in 0 .. k |-> IF i < k THEN g[i] ELSE step[k][g[k - 1]]]
    <2>2. k - 1 \in 0 .. k - 1 /\ g[k - 1] \in V
        BY <2>1
    <2>3. h \in [0 .. k -> V]
        BY <2>1, <2>2
    <2>4. \A i \in 0 .. k : h[i] = IF i = 0 THEN first ELSE step[i][h[i - 1]]
        <3> SUFFICES ASSUME NEW i \in 0 .. k
                     PROVE  h[i] = IF i = 0 THEN first ELSE step[i][h[i - 1]]
            OBVIOUS
        <3>1. CASE i = 0
            <4>1. 0 \in 0 .. k - 1 /\ 0 \in 0 .. k /\ 0 < k
                OBVIOUS
            <4>2. h[0] = g[0] /\ g[0] = first
                BY <2>1, <4>1
            <4> QED
                BY <3>1, <4>2
        <3>2. CASE i # 0 /\ i < k
            <4>1. i \in 0 .. k - 1 /\ i - 1 \in 0 .. k /\ i - 1 < k
                BY <3>2
            <4>2. h[i] = g[i] /\ h[i - 1] = g[i - 1]
                BY <3>2, <4>1
            <4>3. g[i] = step[i][g[i - 1]]
                BY <2>1, <3>2, <4>1
            <4> QED
                BY <3>2, <4>2, <4>3
        <3>3. CASE i = k
            <4>1. k - 1 \in 0 .. k /\ k - 1 < k /\ k # 0
                OBVIOUS
            <4>2. h[k] = step[k][g[k - 1]] /\ h[k - 1] = g[k - 1]
                BY <4>1
            <4> QED
                BY <3>3, <4>1, <4>2
        <3> QED
            BY <3>1, <3>2, <3>3
    <2> HIDE DEF h
    <2>5. History(h, k)
        BY <2>3, <2>4
    <2> HIDE DEF History
    <2> QED
        BY <2>3, <2>5
<1> HIDE DEF S
<1>3. \A k \in 0 .. n : k \in S
    BY <1>1, <1>2, BoundedInduction, Zenon
<1>4. PICK g \in [0 .. n -> V] : History(g, n)
    BY <1>3 DEF S
<1>5. IsHistory(g, n, V, first, step)
    BY <1>4 DEF IsHistory
<1> QED
    BY <1>5

\* Quotient and remainder are what the division says they are.
LEMMA DivMod ==
    ASSUME NEW q \in Nat, NEW n \in Nat \ {0}, NEW r \in 0 .. n - 1
    PROVE  (q * n + r) \div n = q /\ (q * n + r) % n = r
<1> DEFINE a == q * n + r
           d == a \div n
           m == a % n
<1>1. a \in Nat /\ d \in Nat /\ m \in 0 .. n - 1 /\ a = n * d + m
    OBVIOUS
<1>2. d - q \in Int /\ n * (d - q) = r - m
    BY <1>1
<1> HIDE DEF a, d, m
<1>3. ~(d - q >= 1)
    <2> SUFFICES ASSUME d - q >= 1
                 PROVE  FALSE
        OBVIOUS
    <2>1. n * (d - q - 1) >= 0 /\ n * (d - q) = n * (d - q - 1) + n
        BY <1>1, <1>2
    <2> QED
        BY <1>1, <1>2, <2>1
<1>4. ~(d - q <= -1)
    <2> SUFFICES ASSUME d - q <= -1
                 PROVE  FALSE
        OBVIOUS
    <2>1. n * (q - d - 1) >= 0 /\ n * (d - q) = -(n * (q - d - 1)) - n
        BY <1>1, <1>2
    <2> QED
        BY <1>1, <1>2, <2>1
<1>5. d = q
    BY <1>1, <1>2, <1>3, <1>4
<1>6. m = r
    BY <1>1, <1>2, <1>5
<1> QED
    BY <1>5, <1>6 DEF a, d, m

\* Division does not change the order.
LEMMA DivMonotone ==
    ASSUME NEW a \in Nat, NEW b \in Nat, NEW n \in Nat \ {0}, a <= b
    PROVE  a \div n \in Nat /\ a \div n <= b \div n
<1> DEFINE c == a \div n
           d == b \div n
<1>1. /\ c \in Nat /\ n * c <= a
      /\ d \in Nat /\ b < n * d + n
    OBVIOUS
<1> HIDE DEF c, d
<1>2. SUFFICES ASSUME c > d
               PROVE  FALSE
    BY <1>1 DEF c, d
<1>3. c - d - 1 \in Nat /\ n * (c - d - 1) >= 0
    BY <1>1, <1>2
<1>4. n * (c - d - 1) = n * c - n * d - n
    BY <1>1
<1>5. n * c \in Nat /\ n * d \in Nat
    BY <1>1
<1> QED
    BY <1>1, <1>3, <1>4, <1>5

\* A division by two or more goes down, to 0 at the end.
LEMMA DivisionGoesDown ==
    ASSUME NEW k \in Nat, NEW b \in Nat \ {0, 1}
    PROVE  /\ k \div b \in Nat /\ k % b \in 0 .. b - 1 /\ k = (k \div b) * b + (k % b)
           /\ k >= b => k \div b < k
           /\ k \div b <= k
<1> DEFINE q == k \div b
           r == k % b
<1>1. q \in Nat /\ r \in 0 .. b - 1 /\ k = b * q + r
    OBVIOUS
<1> HIDE DEF q, r
<1>2. b * q = (b - 2) * q + 2 * q /\ (b - 2) * q >= 0
    BY <1>1
<1>3. b * q = q * b
    BY <1>1
<1>4. q <= k /\ (k >= b => q < k)
    BY <1>1, <1>2
<1> QED
    BY <1>1, <1>3, <1>4 DEF q, r

\* Induction along the divisions by b.
LEMMA DivisionInduction ==
    ASSUME NEW n \in Nat, NEW b \in Nat \ {0, 1}, NEW S,
           \A k \in 0 .. n : (k >= b => k \div b \in S) => k \in S
    PROVE  \A k \in 0 .. n : k \in S
<1> DEFINE wrong == {k \in 0 .. n : k \notin S}
<1>1. SUFFICES ASSUME wrong # {}
               PROVE  FALSE
    OBVIOUS
<1>2. PICK k \in wrong : \A i \in wrong : k <= i
    <2>1. wrong \in SUBSET Nat
        OBVIOUS
    <2> HIDE DEF wrong
    <2> QED
        BY <1>1, <2>1, LeastNatural
<1>3. k >= b /\ k \div b \notin S
    BY <1>2
<1>4. k \in Nat /\ k <= n
    BY <1>2
<1>5. k \div b \in Nat /\ k \div b < k
    BY <1>3, <1>4, DivisionGoesDown
<1>6. k \div b \in wrong
    BY <1>3, <1>4, <1>5
<1> QED
    BY <1>2, <1>4, <1>5, <1>6

\* g goes along the divisions by b: `first` of what is below b, `step` of each
\* other number and of what its quotient has yielded.
DivisionTurn(g, k, b, first, step) ==
    IF k < b THEN first[k] ELSE step[k][g[k \div b]]

IsRecursion(g, n, b, V, first, step) ==
    /\ g \in [0 .. n -> V]
    /\ g = [k \in 0 .. n |-> DivisionTurn(g, k, b, first, step)]

\* Such a recursion has a solution.
LEMMA DivisionRecursion ==
    ASSUME NEW n \in Nat, NEW b \in Nat \ {0, 1}, NEW V,
           NEW first \in [0 .. b - 1 -> V], NEW step \in [0 .. n -> [V -> V]]
    PROVE  \E g : IsRecursion(g, n, b, V, first, step)
<1> DEFINE Solves(g, m) ==
               /\ g \in [0 .. m -> V]
               /\ \A k \in 0 .. m : g[k] = DivisionTurn(g, k, b, first, step)
           T == {m \in 0 .. n : \E g : Solves(g, m)}
<1>1. ASSUME NEW k \in 0 .. n, k >= b
      PROVE  k \div b \in 0 .. k - 1
    <2>1. k \in Nat
        OBVIOUS
    <2>2. k \div b \in Nat /\ k \div b < k
        BY <1>1, <2>1, DivisionGoesDown
    <2> QED
        BY <2>1, <2>2
<1>2. ASSUME NEW m \in 0 .. n, NEW g, m = 0 \/ Solves(g, m - 1)
      PROVE  \E h : Solves(h, m)
    <2> DEFINE h == [k \in 0 .. m |-> IF k < m THEN g[k] ELSE DivisionTurn(g, m, b, first, step)]
    <2>1. ASSUME NEW k \in 0 .. m - 1
          PROVE  g[k] \in V /\ g[k] = DivisionTurn(g, k, b, first, step) /\ h[k] = g[k]
        BY <1>2
    <2>2. DivisionTurn(g, m, b, first, step) \in V
        <3>1. CASE m < b
            BY <3>1 DEF DivisionTurn
        <3>2. CASE m >= b
            <4>1. g[m \div b] \in V
                BY <1>1, <2>1, <3>2
            <4>2. \A v \in V : step[m][v] \in V
                OBVIOUS
            <4>3. ~(m < b)
                BY <3>2
            <4> QED
                BY <4>1, <4>2, <4>3, Zenon DEF DivisionTurn
        <3> QED
            BY <3>1, <3>2
    <2>3. h[m] = DivisionTurn(g, m, b, first, step)
        OBVIOUS
    <2>4. h \in [0 .. m -> V]
        <3>1. h = [k \in 0 .. m |-> h[k]]
            OBVIOUS
        <3> HIDE DEF h
        <3>2. \A k \in 0 .. m : k \in 0 .. m - 1 \/ k = m
            OBVIOUS
        <3>3. \A k \in 0 .. m : h[k] \in V
            BY <2>1, <2>2, <2>3, <3>2
        <3> QED
            BY <3>1, <3>3
    <2> HIDE DEF h
    <2>5. ASSUME NEW k \in 0 .. m
          PROVE  h[k] = DivisionTurn(h, k, b, first, step)
        <3>1. h[k] = DivisionTurn(g, k, b, first, step)
            BY <2>1, <2>3
        <3>2. CASE k < b
            BY <3>1, <3>2 DEF DivisionTurn
        <3>3. CASE k >= b
            <4>1. k \in 0 .. n /\ k <= m
                OBVIOUS
            <4>2. k \div b \in 0 .. k - 1
                BY <1>1, <3>3, <4>1, Zenon
            <4>3. k \div b \in 0 .. m - 1
                BY <4>1, <4>2
            <4>4. h[k \div b] = g[k \div b]
                BY <2>1, <4>3
            <4> QED
                BY <3>1, <3>3, <4>4 DEF DivisionTurn
        <3> QED
            BY <3>2, <3>3
    <2> QED
        BY <2>4, <2>5
<1> HIDE DEF Solves
<1>3. 0 \in T /\ \A m \in 1 .. n : m - 1 \in T => m \in T
    BY <1>2
<1> HIDE DEF T
<1>4. n \in T
    <2>1. n \in 0 .. n
        OBVIOUS
    <2> QED
        BY <1>3, <2>1, BoundedInduction, Zenon
<1>5. PICK g : Solves(g, n)
    BY <1>4 DEF T
<1>6. g = [k \in 0 .. n |-> g[k]] /\ \A k \in 0 .. n : g[k] = DivisionTurn(g, k, b, first, step)
    BY <1>5 DEF Solves
<1>7. g = [k \in 0 .. n |-> DivisionTurn(g, k, b, first, step)]
    BY <1>6
<1> QED
    BY <1>5, <1>7 DEF Solves, IsRecursion

-----------------------------------------------------------------------------
(* Lists without duplicates *)

\* The elements of a sequence, by index.
LEMMA ToSetByIndex ==
    ASSUME NEW S, NEW s \in Seq(S)
    PROVE  /\ ToSet(s) \subseteq S
           /\ \A e : e \in ToSet(s) <=> \E i \in 1 .. Len(s) : s[i] = e
BY DEF ToSet

\* The sequence with e at place i and the elements of s around it.
IsInsertion(t, s, i, e) ==
    /\ Len(t) = Len(s) + 1
    /\ \A j \in 1 .. i - 1 : t[j] = s[j]
    /\ t[i] = e
    /\ \A j \in i + 1 .. Len(s) + 1 : t[j] = s[j - 1]

\* Inserting a new element into a list without duplicates adds just that
\* element and makes no duplicate.
LEMMA InsertionProperties ==
    ASSUME NEW S, NEW s \in Seq(S), NEW t \in Seq(S), NEW e \in S,
           NEW i \in 1 .. Len(s) + 1,
           IsInsertion(t, s, i, e), IsInjective(s), e \notin ToSet(s)
    PROVE  /\ ToSet(t) = ToSet(s) \cup {e}
           /\ IsInjective(t)
<1>1. /\ Len(s) \in Nat /\ DOMAIN t = 1 .. Len(s) + 1 /\ DOMAIN s = 1 .. Len(s)
      /\ Len(t) = Len(s) + 1
    BY DEF IsInsertion
<1>2. \A a : a \in ToSet(t) <=> \E j \in 1 .. Len(s) + 1 : t[j] = a
    BY <1>1, ToSetByIndex
<1>3. \A a : a \in ToSet(s) <=> \E j \in 1 .. Len(s) : s[j] = a
    BY ToSetByIndex
<1>4. \A j \in 1 .. Len(s) + 1 : /\ j < i => t[j] = s[j]
                                 /\ j = i => t[j] = e
                                 /\ j > i => t[j] = s[j - 1]
    BY <1>1 DEF IsInsertion
<1>5. ASSUME NEW a \in ToSet(t)
      PROVE  a \in ToSet(s) \cup {e}
    <2>1. PICK j \in 1 .. Len(s) + 1 : t[j] = a
        BY <1>2
    <2>2. CASE j < i
        <3>1. j \in 1 .. Len(s) /\ s[j] = a
            BY <1>1, <1>4, <2>1, <2>2
        <3> QED
            BY <3>1, <1>3
    <2>3. CASE j = i
        BY <1>4, <2>1, <2>3
    <2>4. CASE j > i
        <3>1. j - 1 \in 1 .. Len(s) /\ s[j - 1] = a
            BY <1>1, <1>4, <2>1, <2>4
        <3> QED
            BY <3>1, <1>3
    <2> QED
        BY <1>1, <2>2, <2>3, <2>4
<1>6. ASSUME NEW a \in ToSet(s)
      PROVE  a \in ToSet(t)
    <2>1. PICK j \in 1 .. Len(s) : s[j] = a
        BY <1>3
    <2>2. CASE j < i
        <3>1. j \in 1 .. Len(s) + 1 /\ t[j] = a
            BY <1>1, <1>4, <2>1, <2>2
        <3> QED
            BY <3>1, <1>2
    <2>3. CASE j >= i
        <3>1. j + 1 \in 1 .. Len(s) + 1 /\ t[j + 1] = a
            BY <1>1, <1>4, <2>1, <2>3
        <3> QED
            BY <3>1, <1>2
    <2> QED
        BY <1>1, <2>2, <2>3
<1>7. e \in ToSet(t)
    <2>1. i \in 1 .. Len(s) + 1 /\ t[i] = e
        BY <1>1, <1>4
    <2> QED
        BY <2>1, <1>2
<1>8. IsInjective(t)
    <2> SUFFICES ASSUME NEW a \in 1 .. Len(s) + 1, NEW b \in 1 .. Len(s) + 1,
                        t[a] = t[b], a < b
                 PROVE  FALSE
        <3> SUFFICES ASSUME NEW a \in 1 .. Len(s) + 1,
                            NEW b \in 1 .. Len(s) + 1, t[a] = t[b]
                     PROVE  a = b
            BY <1>1 DEF IsInjective
        <3> QED
            BY <1>1
    <2>1. \A c, d \in 1 .. Len(s) : s[c] = s[d] => c = d
        BY <1>1 DEF IsInjective
    <2>2. \A c \in 1 .. Len(s) : s[c] # e
        BY <1>3
    <2>3. /\ a < i => t[a] = s[a]
          /\ a = i => t[a] = e
          /\ a > i => t[a] = s[a - 1]
        BY <1>4
    <2>4. /\ b < i => t[b] = s[b]
          /\ b = i => t[b] = e
          /\ b > i => t[b] = s[b - 1]
        BY <1>4
    <2>0. a \in Int /\ b \in Int /\ i \in Int /\ Len(s) \in Int
        BY <1>1
    <2>5. CASE b < i
        <3>1. /\ s[a] = s[b]
              /\ a \in 1 .. Len(s) /\ b \in 1 .. Len(s) /\ a # b
            BY <2>0, <2>3, <2>4, <2>5
        <3> QED
            BY <3>1, <2>1
    <2>6. CASE b = i
        <3>1. s[a] = e /\ a \in 1 .. Len(s)
            BY <2>0, <2>3, <2>4, <2>6
        <3> QED
            BY <3>1, <2>2
    <2>7. CASE b > i /\ a = i
        <3>1. s[b - 1] = e /\ b - 1 \in 1 .. Len(s)
            BY <2>0, <2>3, <2>4, <2>7
        <3> QED
            BY <3>1, <2>2
    <2>8. CASE b > i /\ a < i
        <3>1. /\ s[a] = s[b - 1]
              /\ a \in 1 .. Len(s) /\ b - 1 \in 1 .. Len(s) /\ a # b - 1
            BY <2>0, <2>3, <2>4, <2>8
        <3> QED
            BY <3>1, <2>1
    <2>9. CASE b > i /\ a > i
        <3>1. /\ s[a - 1] = s[b - 1]
              /\ a - 1 \in 1 .. Len(s) /\ b - 1 \in 1 .. Len(s) /\ a - 1 # b - 1
            BY <2>0, <2>3, <2>4, <2>9
        <3> QED
            BY <3>1, <2>1
    <2> QED
        BY <2>0, <2>5, <2>6, <2>7, <2>8, <2>9
<1> QED
    BY <1>5, <1>6, <1>7, <1>8

\* InsertAt puts the element at its place.
LEMMA InsertAtIsInsertion ==
    ASSUME NEW S, NEW s \in Seq(S), NEW e \in S, NEW i \in 1 .. Len(s) + 1
    PROVE  InsertAt(s, i, e) \in Seq(S) /\ IsInsertion(InsertAt(s, i, e), s, i, e)
<1> DEFINE front == SubSeq(s, 1, i - 1)
           back  == SubSeq(s, i, Len(s))
           mid   == front \o <<e>>
<1>1. /\ front \in Seq(S) /\ Len(front) = i - 1
      /\ \A j \in 1 .. i - 1 : front[j] = s[j]
    <2>1. \A j \in 1 .. i - 1 : s[j] \in S
        BY ElementOfSeq
    <2> QED
        BY <2>1, SubSeqProperties
<1>2. /\ back \in Seq(S) /\ Len(back) = Len(s) - i + 1
      /\ \A j \in 1 .. Len(s) - i + 1 : back[j] = s[i + j - 1]
    <2>1. \A j \in i .. Len(s) : s[j] \in S
        BY ElementOfSeq
    <2> QED
        BY <2>1, SubSeqProperties
<1>3. <<e>> \in Seq(S) /\ Len(<<e>>) = 1 /\ <<e>>[1] = e
    OBVIOUS
<1>4. /\ mid \in Seq(S) /\ Len(mid) = i
      /\ \A j \in 1 .. i : mid[j] = IF j < i THEN s[j] ELSE e
    <2> HIDE DEF front
    <2> QED
        BY <1>1, <1>3, ConcatProperties
<1>5. InsertAt(s, i, e) = mid \o back
    BY DEF InsertAt
<1> HIDE DEF mid, back
<1>6. /\ mid \o back \in Seq(S)
      /\ Len(mid \o back) = Len(mid) + Len(back)
      /\ \A j \in 1 .. Len(mid) + Len(back) :
            (mid \o back)[j] = IF j <= Len(mid) THEN mid[j] ELSE back[j - Len(mid)]
    BY <1>2, <1>4, ConcatProperties
<1>7. Len(s) \in Nat /\ Len(mid) + Len(back) = Len(s) + 1
    BY <1>2, <1>4
<1>8. \A j \in 1 .. i - 1 : (mid \o back)[j] = s[j]
    BY <1>2, <1>4, <1>6
<1>9. (mid \o back)[i] = e
    BY <1>2, <1>4, <1>6
<1>10. ASSUME NEW j \in i + 1 .. Len(s) + 1
       PROVE  (mid \o back)[j] = s[j - 1]
    <2>1. (mid \o back)[j] = back[j - i]
        BY <1>2, <1>4, <1>6
    <2>2. j - i \in 1 .. Len(s) - i + 1 /\ i + (j - i) - 1 = j - 1
        BY <1>7
    <2>3. back[j - i] = s[i + (j - i) - 1]
        BY <1>2, <2>2
    <2> QED
        BY <2>1, <2>2, <2>3
<1> QED
    BY <1>5, <1>6, <1>7, <1>8, <1>9, <1>10 DEF IsInsertion

\* InsertAt on a list without duplicates.
LEMMA InsertAtProperties ==
    ASSUME NEW S, NEW s \in Seq(S), NEW e \in S, NEW i \in 1 .. Len(s) + 1,
           IsInjective(s), e \notin ToSet(s)
    PROVE  /\ InsertAt(s, i, e) \in Seq(S)
           /\ ToSet(InsertAt(s, i, e)) = ToSet(s) \cup {e}
           /\ IsInjective(InsertAt(s, i, e))
<1>1. /\ InsertAt(s, i, e) \in Seq(S)
      /\ IsInsertion(InsertAt(s, i, e), s, i, e)
    BY InsertAtIsInsertion
<1> QED
    BY <1>1, InsertionProperties

\* list_push on a list without duplicates.
LEMMA PushProperties ==
    ASSUME NEW S, NEW s \in Seq(S), NEW e \in S,
           IsInjective(s), e \notin ToSet(s)
    PROVE  /\ <<e>> \o s \in Seq(S)
           /\ ToSet(<<e>> \o s) = ToSet(s) \cup {e}
           /\ IsInjective(<<e>> \o s)
<1>1. <<e>> \in Seq(S) /\ Len(<<e>>) = 1 /\ <<e>>[1] = e
    OBVIOUS
<1>2. /\ <<e>> \o s \in Seq(S)
      /\ Len(<<e>> \o s) = 1 + Len(s)
      /\ \A j \in 1 .. 1 + Len(s) :
            (<<e>> \o s)[j] = IF j <= 1 THEN <<e>>[j] ELSE s[j - 1]
    BY <1>1, ConcatProperties
<1>3. IsInsertion(<<e>> \o s, s, 1, e)
    BY <1>1, <1>2 DEF IsInsertion
<1>4. Len(s) \in Nat /\ 1 \in 1 .. Len(s) + 1
    OBVIOUS
<1> DEFINE t == <<e>> \o s
<1>5. t \in Seq(S) /\ IsInsertion(t, s, 1, e)
    BY <1>2, <1>3
<1> HIDE DEF t
<1>6. ToSet(t) = ToSet(s) \cup {e} /\ IsInjective(t)
    BY <1>4, <1>5, InsertionProperties
<1> QED
    BY <1>5, <1>6 DEF t

\* The sequence s without its i-th element.
IsRemoval(t, s, i) ==
    /\ Len(t) = Len(s) - 1
    /\ \A j \in 1 .. i - 1 : t[j] = s[j]
    /\ \A j \in i .. Len(s) - 1 : t[j] = s[j + 1]

\* Removing an element of a list without duplicates removes it altogether.
LEMMA RemovalProperties ==
    ASSUME NEW S, NEW s \in Seq(S), NEW t \in Seq(S), NEW i \in 1 .. Len(s),
           IsRemoval(t, s, i), IsInjective(s)
    PROVE  /\ ToSet(t) = ToSet(s) \ {s[i]}
           /\ IsInjective(t)
<1>1. /\ Len(s) \in Nat /\ DOMAIN t = 1 .. Len(s) - 1 /\ DOMAIN s = 1 .. Len(s)
      /\ Len(t) = Len(s) - 1
    BY DEF IsRemoval
<1>2. \A a : a \in ToSet(t) <=> \E j \in 1 .. Len(s) - 1 : t[j] = a
    BY <1>1, ToSetByIndex
<1>3. \A a : a \in ToSet(s) <=> \E j \in 1 .. Len(s) : s[j] = a
    BY ToSetByIndex
<1>4. \A j \in 1 .. Len(s) - 1 : /\ j < i => t[j] = s[j]
                                 /\ j >= i => t[j] = s[j + 1]
    BY <1>1 DEF IsRemoval
<1>5. \A c, d \in 1 .. Len(s) : s[c] = s[d] => c = d
    BY <1>1 DEF IsInjective
<1>6. ASSUME NEW a \in ToSet(t)
      PROVE  a \in ToSet(s) \ {s[i]}
    <2>1. PICK j \in 1 .. Len(s) - 1 : t[j] = a
        BY <1>2
    <2>2. \E k \in 1 .. Len(s) : s[k] = a /\ k # i
        <3>1. CASE j < i
            <4>1. j \in 1 .. Len(s) /\ s[j] = a /\ j # i
                BY <1>1, <1>4, <2>1, <3>1
            <4> QED
                BY <4>1
        <3>2. CASE j >= i
            <4>1. j + 1 \in 1 .. Len(s) /\ s[j + 1] = a /\ j + 1 # i
                BY <1>1, <1>4, <2>1, <3>2
            <4> QED
                BY <4>1
        <3> QED
            BY <1>1, <3>1, <3>2
    <2> QED
        BY <2>2, <1>3, <1>5
<1>7. ASSUME NEW a \in ToSet(s) \ {s[i]}
      PROVE  a \in ToSet(t)
    <2>1. PICK j \in 1 .. Len(s) : s[j] = a /\ j # i
        BY <1>3
    <2>2. CASE j < i
        <3>1. j \in 1 .. Len(s) - 1 /\ t[j] = a
            BY <1>1, <1>4, <2>1, <2>2
        <3> QED
            BY <3>1, <1>2
    <2>3. CASE j > i
        <3>1. j - 1 \in 1 .. Len(s) - 1 /\ t[j - 1] = a
            <4>1. j - 1 \in 1 .. Len(s) - 1 /\ j - 1 >= i /\ (j - 1) + 1 = j
                BY <1>1, <2>3
            <4> QED
                BY <4>1, <1>4, <2>1
        <3> QED
            BY <3>1, <1>2
    <2> QED
        BY <1>1, <2>1, <2>2, <2>3
<1>8. IsInjective(t)
    <2> SUFFICES ASSUME NEW a \in 1 .. Len(s) - 1, NEW b \in 1 .. Len(s) - 1,
                        t[a] = t[b]
                 PROVE  a = b
        BY <1>1 DEF IsInjective
    <2> DEFINE Old(k) == IF k < i THEN k ELSE k + 1
    <2>1. \A k \in 1 .. Len(s) - 1 : Old(k) \in 1 .. Len(s)
        BY <1>1
    <2>2. \A k \in 1 .. Len(s) - 1 : t[k] = s[Old(k)]
        BY <1>1, <1>4
    <2>3. Old(a) = Old(b)
        <3> HIDE DEF Old
        <3> QED
            BY <1>5, <2>1, <2>2
    <2> QED
        BY <1>1, <2>3
<1> QED
    BY <1>6, <1>7, <1>8

\* RemoveAt takes out the element at its place.
LEMMA RemoveAtIsRemoval ==
    ASSUME NEW S, NEW s \in Seq(S), NEW i \in 1 .. Len(s)
    PROVE  RemoveAt(s, i) \in Seq(S) /\ IsRemoval(RemoveAt(s, i), s, i)
<1> DEFINE front == SubSeq(s, 1, i - 1)
           back  == SubSeq(s, i + 1, Len(s))
<1>1. /\ front \in Seq(S) /\ Len(front) = i - 1
      /\ \A j \in 1 .. i - 1 : front[j] = s[j]
    <2>1. \A j \in 1 .. i - 1 : s[j] \in S
        BY ElementOfSeq
    <2> QED
        BY <2>1, SubSeqProperties
<1>2. /\ back \in Seq(S) /\ Len(back) = Len(s) - i
      /\ \A j \in 1 .. Len(s) - i : back[j] = s[i + j]
    <2>1. \A j \in i + 1 .. Len(s) : s[j] \in S
        BY ElementOfSeq
    <2> QED
        BY <2>1, SubSeqProperties
<1>3. RemoveAt(s, i) = front \o back
    BY DEF RemoveAt
<1> HIDE DEF front, back
<1>4. /\ front \o back \in Seq(S)
      /\ Len(front \o back) = Len(front) + Len(back)
      /\ \A j \in 1 .. Len(front) + Len(back) :
            (front \o back)[j] = IF j <= Len(front) THEN front[j]
                                 ELSE back[j - Len(front)]
    BY <1>1, <1>2, ConcatProperties
<1>5. Len(s) \in Nat /\ Len(front) + Len(back) = Len(s) - 1
    BY <1>1, <1>2
<1>6. \A j \in 1 .. i - 1 : (front \o back)[j] = s[j]
    BY <1>1, <1>4, <1>5
<1>7. ASSUME NEW j \in i .. Len(s) - 1
      PROVE  (front \o back)[j] = s[j + 1]
    <2>1. (front \o back)[j] = back[j - (i - 1)]
        BY <1>1, <1>4, <1>5
    <2>2. j - (i - 1) \in 1 .. Len(s) - i /\ i + (j - (i - 1)) = j + 1
        BY <1>5
    <2>3. back[j - (i - 1)] = s[i + (j - (i - 1))]
        BY <1>2, <2>2
    <2> QED
        BY <2>1, <2>2, <2>3
<1> QED
    BY <1>3, <1>4, <1>5, <1>6, <1>7 DEF IsRemoval

\* list_remove on a list without duplicates, the node being on it or not.
LEMMA RemoveFirstProperties ==
    ASSUME NEW S, NEW s \in Seq(S), NEW e, IsInjective(s)
    PROVE  /\ RemoveFirst(s, e) \in Seq(S)
           /\ ToSet(RemoveFirst(s, e)) = ToSet(s) \ {e}
           /\ IsInjective(RemoveFirst(s, e))
<1>1. CASE \E i \in 1 .. Len(s) : s[i] = e
    <2> DEFINE places == {i \in 1 .. Len(s) : s[i] = e}
    <2>1. places \in SUBSET Nat /\ places # {}
        BY <1>1
    <2>2. RemoveFirst(s, e) = RemoveAt(s, Min(places))
        BY <1>1 DEF RemoveFirst, SelectInSeq
    <2>3. Min(places) \in places
        BY <2>1, MinProperties
    <2>4. PICK i \in 1 .. Len(s) : i = Min(places) /\ s[i] = e
        BY <2>3
    <2> DEFINE t == RemoveAt(s, i)
    <2>5. t \in Seq(S) /\ IsRemoval(t, s, i)
        BY RemoveAtIsRemoval
    <2>6. RemoveFirst(s, e) = t
        BY <2>2, <2>4
    <2> HIDE DEF t
    <2>7. ToSet(t) = ToSet(s) \ {s[i]} /\ IsInjective(t)
        BY <2>5, RemovalProperties
    <2> QED
        BY <2>4, <2>5, <2>6, <2>7
<1>2. CASE ~\E i \in 1 .. Len(s) : s[i] = e
    <2>1. RemoveFirst(s, e) = s
        BY <1>2 DEF RemoveFirst
    <2>2. e \notin ToSet(s)
        BY <1>2, ToSetByIndex
    <2> QED
        BY <2>1, <2>2
<1> QED
    BY <1>1, <1>2

\* list_remove of a node that is not on the list leaves the list alone.
LEMMA RemoveFirstAbsent ==
    ASSUME NEW S, NEW s \in Seq(S), NEW e, e \notin ToSet(s)
    PROVE  RemoveFirst(s, e) = s
<1>1. ~\E i \in 1 .. Len(s) : s[i] = e
    BY ToSetByIndex
<1> QED
    BY <1>1 DEF RemoveFirst

\* What is left of a list when the first k elements are taken off, by index.
LEMMA DropByIndex ==
    ASSUME NEW S, NEW s \in Seq(S), NEW k \in 0 .. Len(s)
    PROVE  LET t == SubSeq(s, k + 1, Len(s))
           IN  /\ t \in Seq(S) /\ Len(t) = Len(s) - k
               /\ \A j \in 1 .. Len(s) - k : t[j] = s[k + j]
<1>1. \A j \in k + 1 .. Len(s) : s[j] \in S
    BY ElementOfSeq
<1> QED
    BY <1>1, SubSeqProperties

\* Taking the first k elements off a list without duplicates.
LEMMA DropProperties ==
    ASSUME NEW S, NEW s \in Seq(S), NEW k \in 0 .. Len(s), IsInjective(s)
    PROVE  /\ SubSeq(s, k + 1, Len(s)) \in Seq(S)
           /\ ToSet(SubSeq(s, k + 1, Len(s))) = ToSet(s) \ {s[i] : i \in 1 .. k}
           /\ IsInjective(SubSeq(s, k + 1, Len(s)))
<1> DEFINE t == SubSeq(s, k + 1, Len(s))
<1>1. /\ t \in Seq(S) /\ Len(t) = Len(s) - k
      /\ \A j \in 1 .. Len(s) - k : t[j] = s[k + j]
    BY DropByIndex
<1> HIDE DEF t
<1>2. Len(s) \in Nat /\ DOMAIN t = 1 .. Len(s) - k /\ DOMAIN s = 1 .. Len(s)
    BY <1>1
<1>3. \A a : a \in ToSet(t) <=> \E j \in 1 .. Len(s) - k : t[j] = a
    BY <1>1, ToSetByIndex
<1>4. \A a : a \in ToSet(s) <=> \E j \in 1 .. Len(s) : s[j] = a
    BY ToSetByIndex
<1>5. \A c, d \in 1 .. Len(s) : s[c] = s[d] => c = d
    BY <1>2 DEF IsInjective
<1>6. ASSUME NEW a \in ToSet(t)
      PROVE  a \in ToSet(s) \ {s[i] : i \in 1 .. k}
    <2>1. PICK j \in 1 .. Len(s) - k : t[j] = a
        BY <1>3
    <2>2. k + j \in 1 .. Len(s) /\ s[k + j] = a /\ k + j > k
        BY <1>1, <1>2, <2>1
    <2>3. \A i \in 1 .. k : s[i] # a
        BY <1>2, <1>5, <2>2
    <2> QED
        BY <2>2, <2>3, <1>4
<1>7. ASSUME NEW a \in ToSet(s) \ {s[i] : i \in 1 .. k}
      PROVE  a \in ToSet(t)
    <2>1. PICK j \in 1 .. Len(s) : s[j] = a /\ j \notin 1 .. k
        BY <1>4
    <2>2. j - k \in 1 .. Len(s) - k /\ k + (j - k) = j
        BY <1>2, <2>1
    <2>3. t[j - k] = a
        BY <1>1, <2>1, <2>2
    <2> QED
        BY <2>2, <2>3, <1>3
<1>8. IsInjective(t)
    <2> SUFFICES ASSUME NEW a \in 1 .. Len(s) - k, NEW b \in 1 .. Len(s) - k,
                        t[a] = t[b]
                 PROVE  a = b
        BY <1>2 DEF IsInjective
    <2>1. k + a \in 1 .. Len(s) /\ k + b \in 1 .. Len(s) /\ s[k + a] = s[k + b]
        BY <1>1, <1>2
    <2>2. k + a = k + b
        BY <1>5, <2>1
    <2> QED
        BY <1>2, <2>2
<1> QED
    BY <1>1, <1>6, <1>7, <1>8 DEF t

-----------------------------------------------------------------------------
(* Sums over sets *)

\* The element that a fold takes off a set next, and the fold of f with it.
First(s) == CHOOSE x \in s : TRUE
Added(g, s, f) == IF s = {} THEN 0 ELSE f[First(s)] + g[s \ {First(s)}]

\* g is the fold by which MapThenSumSet adds up f over the subsets of S.
AddsUp(g, S, f) == g = [s \in SUBSET S |-> Added(g, s, f)]

\* What a subset of a finite set is like, with and without an element.
LEMMA SubsetsOf ==
    ASSUME NEW S, IsFiniteSet(S), NEW s \in SUBSET S
    PROVE  /\ Cardinality(s) \in Nat /\ Cardinality(s) <= Cardinality(S)
           /\ Cardinality(s) <= 0 <=> s = {}
           /\ \A x \in s : /\ s \ {x} \in SUBSET S
                           /\ Cardinality(s \ {x}) = Cardinality(s) - 1
           /\ s # {} => First(s) \in s
<1>1. IsFiniteSet(s) /\ Cardinality(s) <= Cardinality(S) /\ Cardinality(s) \in Nat
    BY FS_CardinalityType, FS_Subset
<1>2. Cardinality(s) = 0 <=> s = {}
    BY <1>1, FS_EmptySet
<1>3. ASSUME NEW x \in s
      PROVE  s \ {x} \in SUBSET S /\ Cardinality(s \ {x}) = Cardinality(s) - 1
    BY <1>1, FS_RemoveElement
<1>4. s # {} => First(s) \in s
    BY DEF First
<1> QED
    BY <1>1, <1>2, <1>3, <1>4

\* Whichever element is taken off a set, its fold is the element's value and the
\* fold of the rest.
TakesAny(g, S, f) ==
    /\ g[{}] = 0
    /\ \A s \in SUBSET S : \A x \in s : g[s \ {x}] \in Int /\ g[s] = f[x] + g[s \ {x}]

\* c counts f up from a on.
Totals(c, f, a, n) == c[0] = 0 /\ \A k \in 1 .. n : c[k] = c[k - 1] + f[a + k - 1]

Integral(f, S) == \A x \in S : f[x] \in Int

\* The recursion of the fold has a solution, by the size of the subset.
LEMMA SumExists ==
    ASSUME NEW S, IsFiniteSet(S), NEW f, Integral(f, S)
    PROVE  \E g : AddsUp(g, S, f)
<1> DEFINE N == Cardinality(S)
           Small(n) == {s \in SUBSET S : Cardinality(s) <= n}
           Solves(g, n) == g \in [Small(n) -> Int] /\ \A s \in Small(n) : g[s] = Added(g, s, f)
           T == {n \in 0 .. N : \E g : Solves(g, n)}
<1>1. /\ N \in Nat
      /\ \A s \in SUBSET S : /\ Cardinality(s) \in Nat /\ Cardinality(s) <= N
                             /\ Cardinality(s) <= 0 <=> s = {}
    BY SubsetsOf, FS_CardinalityType
<1>2. ASSUME NEW n \in 1 .. N, NEW s \in Small(n), s # {}
      PROVE  s \ {First(s)} \in Small(n - 1) /\ f[First(s)] \in Int
    <2>1. /\ First(s) \in s /\ s \ {First(s)} \in SUBSET S
          /\ Cardinality(s \ {First(s)}) = Cardinality(s) - 1
        BY <1>2, SubsetsOf
    <2>2. Cardinality(s) \in Nat /\ Cardinality(s) <= n /\ n \in Nat
        BY <1>1
    <2>3. Cardinality(s \ {First(s)}) <= n - 1
        BY <2>1, <2>2
    <2> QED
        BY <2>1, <2>3 DEF Integral
<1>3. 0 \in T
    <2> DEFINE g == [s \in Small(0) |-> 0]
    <2>1. g \in [Small(0) -> Int] /\ \A s \in Small(0) : g[s] = 0
        OBVIOUS
    <2>2. \A s \in Small(0) : s = {}
        BY <1>1
    <2> HIDE DEF g, Small
    <2>3. Solves(g, 0)
        BY <2>1, <2>2 DEF Added
    <2> QED
        BY <1>1, <2>3
<1>4. ASSUME NEW n \in 1 .. N, n - 1 \in T
      PROVE  n \in T
    <2>1. PICK g : Solves(g, n - 1)
        BY <1>4
    <2> DEFINE h == [s \in Small(n) |-> Added(g, s, f)]
    <2>3. ASSUME NEW s \in Small(n)
          PROVE  h[s] \in Int
        <3>1. CASE s = {}
            BY <3>1 DEF Added
        <3>2. CASE s # {}
            <4>1. g[s \ {First(s)}] \in Int
                BY <1>2, <2>1, <3>2
            <4> QED
                BY <1>2, <3>2, <4>1 DEF Added
        <3> QED
            BY <3>1, <3>2
    <2>4. ASSUME NEW s \in Small(n - 1)
          PROVE  h[s] = g[s]
        <3>1. s \in Small(n)
            BY <1>1
        <3> QED
            BY <2>1, <3>1
    <2>5. ASSUME NEW s \in Small(n)
          PROVE  h[s] = Added(h, s, f)
        <3>1. h[s] = Added(g, s, f)
            OBVIOUS
        <3> HIDE DEF h
        <3>2. Added(h, s, f) = Added(g, s, f)
            BY <1>2, <2>4 DEF Added
        <3> QED
            BY <3>1, <3>2
    <2>6. h \in [Small(n) -> Int]
        <3>1. h = [s \in Small(n) |-> h[s]]
            OBVIOUS
        <3> HIDE DEF h, Small
        <3> QED
            BY <2>3, <3>1
    <2> HIDE DEF h, Small
    <2>7. Solves(h, n)
        BY <2>5, <2>6
    <2> QED
        BY <2>7
<1>5. N \in T
    <2> HIDE DEF T
    <2>1. N \in 0 .. N
        BY <1>1
    <2> QED
        BY <1>1, <1>3, <1>4, <2>1, BoundedInduction, Zenon
<1>6. PICK g : Solves(g, N)
    BY <1>5
<1>7. Small(N) = SUBSET S
    BY <1>1
<1>8. g = [s \in SUBSET S |-> g[s]] /\ \A s \in SUBSET S : g[s] = Added(g, s, f)
    BY <1>6, <1>7
<1> QED
    BY <1>8 DEF AddsUp

\* In which order the elements are taken makes no difference.
LEMMA SumTakesAny ==
    ASSUME NEW S, IsFiniteSet(S), NEW f, Integral(f, S),
           NEW g, AddsUp(g, S, f)
    PROVE  TakesAny(g, S, f)
<1> DEFINE N == Cardinality(S)
           Right(s) == g[s] \in Int /\ \A x \in s : g[s \ {x}] \in Int /\ g[s] = f[x] + g[s \ {x}]
           T == {n \in 0 .. N : \A s \in SUBSET S : Cardinality(s) <= n => Right(s)}
<1>1. /\ N \in Nat
      /\ \A s \in SUBSET S :
            /\ Cardinality(s) \in Nat /\ Cardinality(s) <= N
            /\ Cardinality(s) <= 0 <=> s = {}
            /\ \A x \in s : s \ {x} \in SUBSET S /\ Cardinality(s \ {x}) = Cardinality(s) - 1
            /\ s # {} => First(s) \in s
    BY SubsetsOf, FS_CardinalityType
<1>2. /\ g[{}] = 0
      /\ \A s \in SUBSET S : s # {} => g[s] = f[First(s)] + g[s \ {First(s)}]
    BY DEF AddsUp, Added
<1>3. 0 \in T
    <2>0. Right({})
        BY <1>2
    <2> HIDE DEF Right
    <2>1. \A s \in SUBSET S : Cardinality(s) <= 0 => Right(s)
        BY <1>1, <2>0
    <2> QED
        BY <1>1, <2>1
<1>4. ASSUME NEW n \in 1 .. N, n - 1 \in T
      PROVE  n \in T
    <2>1. \A s \in SUBSET S : Cardinality(s) <= n - 1 => Right(s)
        BY <1>4
    <2>2. ASSUME NEW s \in SUBSET S, Cardinality(s) <= n, s # {}
          PROVE  Right(s)
        <3> DEFINE y == First(s)
        <3>1. y \in s /\ f[y] \in Int /\ g[s] = f[y] + g[s \ {y}]
            BY <1>1, <1>2, <2>2 DEF Integral
        <3> HIDE DEF y
        <3>2. ASSUME NEW x \in s
              PROVE  s \ {x} \in SUBSET S /\ Right(s \ {x}) /\ f[x] \in Int
            <4>1. Cardinality(s \ {x}) <= n - 1
                BY <1>1, <2>2
            <4> HIDE DEF Right
            <4> QED
                BY <1>1, <2>1, <4>1 DEF Integral
        <3>3. ASSUME NEW x \in s, x # y
              PROVE  g[s] = f[x] + g[s \ {x}]
            <4>1. x \in s \ {y} /\ y \in s \ {x}
                BY <3>1, <3>3
            <4>2. /\ g[s \ {y}] = f[x] + g[(s \ {y}) \ {x}]
                  /\ g[(s \ {y}) \ {x}] \in Int
                BY <3>1, <3>2, <4>1
            <4>3. g[s \ {x}] = f[y] + g[(s \ {x}) \ {y}]
                BY <3>2, <4>1
            <4>4. (s \ {x}) \ {y} = (s \ {y}) \ {x}
                OBVIOUS
            <4>5. f[x] \in Int
                BY <3>2
            <4>6. g[(s \ {x}) \ {y}] = g[(s \ {y}) \ {x}]
                BY <4>4
            <4> DEFINE r == g[(s \ {y}) \ {x}]
                       p == g[s \ {x}]
            <4>7. g[s] = f[y] + (f[x] + r) /\ p = f[y] + r /\ r \in Int
                BY <3>1, <4>2, <4>3, <4>6
            <4> HIDE DEF r, p
            <4>8. g[s] = f[x] + p
                BY <3>1, <4>5, <4>7
            <4> QED
                BY <4>8 DEF p
        <3>4. \A x \in s : g[s \ {x}] \in Int
            BY <3>2
        <3>5. g[s] \in Int
            <4>1. g[s \ {y}] \in Int
                BY <3>1, <3>4
            <4> QED
                BY <3>1, <4>1
        <3>6. \A x \in s : g[s] = f[x] + g[s \ {x}]
            BY <3>1, <3>3
        <3> QED
            BY <3>4, <3>5, <3>6
    <2> HIDE DEF Right
    <2>3. Right({})
        <3>1. {} \in SUBSET S /\ Cardinality({}) <= n - 1
            BY <1>1
        <3> QED
            BY <2>1, <3>1
    <2> QED
        BY <2>2, <2>3
<1>5. N \in T
    <2> HIDE DEF T
    <2>1. N \in 0 .. N
        BY <1>1
    <2> QED
        BY <1>1, <1>3, <1>4, <2>1, BoundedInduction, Zenon
<1>6. \A s \in SUBSET S : Right(s)
    <2> HIDE DEF Right
    <2> QED
        BY <1>1, <1>5
<1> QED
    BY <1>2, <1>6 DEF TakesAny


\* The sum over an interval is what counting up along it yields.
LEMMA IntervalAddsUp ==
    ASSUME NEW a \in Int, NEW n \in Nat,
           NEW f, Integral(f, a .. a + n - 1),
           NEW g, AddsUp(g, a .. a + n - 1, f),
           NEW c, Totals(c, f, a, n)
    PROVE  g[a .. a + n - 1] = c[n]
<1> DEFINE S == a .. a + n - 1
           Upto(k) == a .. a + k - 1
           T == {k \in 0 .. n : g[Upto(k)] = c[k]}
<1>1. /\ g[{}] = 0
      /\ \A s \in SUBSET S : \A x \in s : g[s \ {x}] \in Int /\ g[s] = f[x] + g[s \ {x}]
    <2>1. IsFiniteSet(S) /\ Integral(f, S) /\ AddsUp(g, S, f)
        BY FS_Interval
    <2> HIDE DEF S
    <2>2. TakesAny(g, S, f)
        BY <2>1, SumTakesAny
    <2> QED
        BY <2>2 DEF TakesAny
<1>2. 0 \in T
    <2>1. Upto(0) = {}
        OBVIOUS
    <2>2. g[Upto(0)] = 0
        BY <1>1, <2>1
    <2> HIDE DEF Upto
    <2> QED
        BY <2>2 DEF Totals
<1>3. ASSUME NEW k \in 1 .. n, k - 1 \in T
      PROVE  k \in T
    <2>1. /\ Upto(k) \in SUBSET S /\ a + k - 1 \in Upto(k) /\ a + k - 1 \in S
          /\ Upto(k) \ {a + k - 1} = Upto(k - 1)
        OBVIOUS
    <2> HIDE DEF Upto, S
    <2>5. /\ g[Upto(k)] = f[a + k - 1] + g[Upto(k) \ {a + k - 1}]
          /\ g[Upto(k) \ {a + k - 1}] \in Int
        BY <1>1, <2>1, Zenon
    <2>2. g[Upto(k)] = f[a + k - 1] + g[Upto(k - 1)] /\ g[Upto(k - 1)] \in Int
        BY <2>1, <2>5
    <2>3. f[a + k - 1] \in Int
        BY <2>1 DEF S, Integral
    <2>4. g[Upto(k - 1)] = c[k - 1] /\ c[k] = c[k - 1] + f[a + k - 1]
        BY <1>3 DEF Totals
    <2>6. g[Upto(k)] = c[k]
        BY <2>2, <2>3, <2>4
    <2> QED
        BY <2>6
<1>4. n \in T
    <2> HIDE DEF T
    <2>1. \A k \in 0 .. n : k \in T
        BY <1>2, <1>3, BoundedInduction, Zenon
    <2> QED
        BY <2>1
<1> QED
    BY <1>4

=============================================================================
