---------------------------- MODULE LibraryProofs ----------------------------
(***************************************************************************)
(* The lists and the pointer of vsprintf, for every number of lists and    *)
(* nodes, every key, and every format string.                              *)
(***************************************************************************)
EXTENDS Library, KernelLemmas, FiniteSetTheorems

-----------------------------------------------------------------------------
(* The pointer of vsprintf *)

FormatInv == fmt \in Seq(STRING) /\ FormatReadOnce

\* Digits end at the NUL at the latest.
LEMMA DigitsEndInFormat ==
    ASSUME FormatInv, NEW i \in 1 .. Len(fmt) + 1
    PROVE  DigitsEnd(i) \in i .. Len(fmt) + 1
<1>0. Len(fmt) \in Nat /\ DOMAIN fmt = 1 .. Len(fmt)
    BY DEF FormatInv
<1> DEFINE stops == {j \in i .. Len(fmt) + 1 : j \in DOMAIN fmt => ~IsDigit(fmt[j])}
<1>1. PICK j \in stops : \A k \in stops : j <= k
    <2>1. stops \in SUBSET Nat /\ Len(fmt) + 1 \in stops
        BY <1>0
    <2> HIDE DEF stops
    <2> QED
        BY <2>1, LeastNatural
<1>2. \A k \in i .. j - 1 : IsDigit(fmt[k])
    BY <1>0, <1>1
<1>3. j \in i .. Len(fmt) + 1 /\ (j \in DOMAIN fmt => ~IsDigit(fmt[j]))
    BY <1>1
<1> HIDE DEF stops
<1> QED
    BY <1>2, <1>3 DEF DigitsEnd

\* Every stage leaves the pointer at the NUL or before it: the ones that pass
\* a character have found that it is none.
LEMMA FormatInvStep ==
    ASSUME FormatInv, [FormatNext]_formatVars
    PROVE  FormatInv'
<1>0. Len(fmt) \in Nat /\ DOMAIN fmt = 1 .. Len(fmt) /\ at \in 1 .. Len(fmt) + 1
    BY DEF FormatInv, FormatReadOnce
<1>1. Here # NUL => at \in 1 .. Len(fmt)
    BY <1>0 DEF Here
<1>2. ASSUME NEW from, NEW to, NEW n \in Nat, Advance(from, to, n),
             n # 0 => at + n <= Len(fmt) + 1
      PROVE  FormatInv'
    <2>1. at' = at + n /\ fmt' = fmt
        BY <1>2 DEF Advance
    <2>2. at' \in 1 .. Len(fmt') + 1
        BY <1>0, <1>2, <2>1
    <2> QED
        BY <2>1, <2>2 DEF FormatInv, FormatReadOnce
<1>3. ASSUME NEW from, NEW to, Advance(from, to, 1), Here # NUL
      PROVE  FormatInv'
    BY <1>0, <1>1, <1>2, <1>3
<1>4. CASE UNCHANGED formatVars \/ BufferAssert
    BY <1>4 DEF formatVars, BufferAssert, FormatInv, FormatReadOnce
<1>5. CASE Call \/ Return
    <2>3. <<>> \in Seq(STRING) /\ Formats \subseteq Seq(STRING)
        BY FormatAssumption
    <2>4. (fmt' \in Formats \/ fmt' = <<>>) /\ at' = 1
        BY <1>5 DEF Call, Return
    <2>1. fmt' \in Seq(STRING) /\ at' = 1
        BY <2>3, <2>4
    <2>2. Len(fmt') \in Nat
        BY <2>1
    <2> QED
        BY <2>1, <2>2 DEF FormatInv, FormatReadOnce
<1>6. CASE Plain
    BY <1>3, <1>6 DEF Plain
<1>7. CASE Percent
    BY <1>3, <1>7 DEF Percent, NUL
<1>8. CASE Flag
    BY <1>3, <1>8 DEF Flag, NUL, FlagOf
<1>9. CASE FieldWidth
    <2>1. CASE Here = "*"
        BY <1>3, <1>9, <2>1 DEF FieldWidth, NUL
    <2>2. CASE Here # "*"
        <3>1. Advance("flags", "precision", DigitsEnd(at) - at)
            BY <1>9, <2>2 DEF FieldWidth
        <3>2. DigitsEnd(at) \in at .. Len(fmt) + 1
            BY <1>0, DigitsEndInFormat
        <3> QED
            BY <1>0, <1>2, <3>1, <3>2
    <2> QED
        BY <2>1, <2>2
<1>10. CASE NoPrecision
    BY <1>2, <1>10 DEF NoPrecision
<1>11. CASE Precision
    <2>1. Here = "." /\ Advance("precision", "qualifier", DigitsEnd(at + 1) - at)
        BY <1>11 DEF Precision
    <2>2. at + 1 \in 1 .. Len(fmt) + 1
        BY <1>0, <1>1, <2>1 DEF NUL
    <2>3. DigitsEnd(at + 1) \in at + 1 .. Len(fmt) + 1
        BY <2>2, DigitsEndInFormat
    <2> QED
        BY <1>0, <1>2, <2>1, <2>3
<1>12. CASE Qualifier
    <2>1. CASE Here \in {"h", "l", "L"}
        BY <1>3, <1>12, <2>1 DEF Qualifier, NUL
    <2>2. CASE Here \notin {"h", "l", "L"}
        BY <1>2, <1>12, <2>2 DEF Qualifier
    <2> QED
        BY <2>1, <2>2
<1>13. CASE Integer \/ Double \/ MacAddress \/ IpAddress \/ Text \/ Count
    <2>1. Advance("conversion", "text", 1)
        BY <1>13 DEF Integer, Double, MacAddress, IpAddress, Text, Count, Write
    <2>2. Here # NUL
        BY <1>13 DEF Integer, Double, MacAddress, IpAddress, Text, Count, Base, NUL
    <2> QED
        BY <1>3, <2>1, <2>2
<1>14. CASE Unknown
    <2>1. CASE Here = NUL
        BY <1>2, <1>14, <2>1 DEF Unknown, LastStep
    <2>2. CASE Here # NUL
        BY <1>3, <1>14, <2>2 DEF Unknown, LastStep
    <2> QED
        BY <2>1, <2>2
<1> QED
    BY <1>4, <1>5, <1>6, <1>7, <1>8, <1>9, <1>10, <1>11, <1>12, <1>13, <1>14
    DEF FormatNext

\* The pointer never passes the NUL of the format string, for every string and
\* with every argument: wherever in a directive the format ends, the stages
\* that move the pointer by themselves have looked at what they pass, and the
\* step of the loop is taken back at the NUL.
THEOREM FormatIsReadOnce == LibrarySpec => []FormatReadOnce
<1>1. LibraryInit => FormatInv
    BY DEF LibraryInit, FormatInit, FormatInv, FormatReadOnce
<1>2. FormatInv /\ [LibraryNext]_<<vars, formatVars>> => FormatInv'
    BY FormatInvStep DEF LibraryNext
<1>3. FormatInv => FormatReadOnce
    BY DEF FormatInv
<1> QED
    BY <1>1, <1>2, <1>3, PTL DEF LibrarySpec

-----------------------------------------------------------------------------
(* The digits of a field, and reading them back *)

\* The characters of a field that stand for no digit, and all that it may hold.
Others == {BLANK, "+", "-", "x", "X"}
Chars == {"0", "1", "2", "3", "4", "5", "6", "7", "8", "9", "A", "B", "C", "D", "E", "F",
          "a", "b", "c", "d", "e", "f", "."} \cup Others

\* Every digit has a place of its own, and signs, blanks and the x of a prefix
\* are none.
LEMMA DigitsApart ==
    ASSUME NEW D \in {Upper, Lower}
    PROVE  /\ D \in Seq(Chars) /\ Len(D) = 16 /\ D[1] = "0"
           /\ \A i, j \in 1 .. 16 : D[i] = D[j] => i = j
           /\ \A i \in 1 .. 16 : D[i] \in Chars \ Others
<1>1. /\ Len(D) = 16 /\ D[1] = "0"
      /\ \A i, j \in 1 .. 16 : D[i] = D[j] => i = j
    <2>1. CASE D = Upper
        BY <2>1, SMTT(30) DEF Upper
    <2>2. CASE D = Lower
        BY <2>2, SMTT(30) DEF Lower
    <2> QED
        BY <2>1, <2>2
<1>2. ASSUME NEW i \in 1 .. 16
      PROVE  D[i] \in Chars \ Others
    <2> DEFINE alnum == {"0", "1", "2", "3", "4", "5", "6", "7", "8", "9", "A", "B", "C", "D",
                         "E", "F", "a", "b", "c", "d", "e", "f"}
    <2>1. D[i] \in alnum
        BY DEF Upper, Lower
    <2> QED
        BY <2>1, Zenon DEF Chars, Others, BLANK
<1>3. D \in Seq(Chars)
    <2>1. \A i \in 1 .. 16 : D[i] \in Chars
        BY <1>2
    <2>2. CASE D = Upper
        BY <2>1, <2>2 DEF Upper
    <2>3. CASE D = Lower
        BY <2>1, <2>3 DEF Lower
    <2> QED
        BY <2>2, <2>3
<1> QED
    BY <1>1, <1>2, <1>3

\* PlaceOf finds a digit by its character.
LEMMA PlaceOfDigit ==
    ASSUME NEW S, NEW digits \in Seq(S), NEW c
    PROVE  /\ PlaceOf(c, digits) \in 0 .. Len(digits)
           /\ PlaceOf(c, digits) # 0 => digits[PlaceOf(c, digits)] = c
           /\ PlaceOf(c, digits) = 0 => \A i \in 1 .. Len(digits) : digits[i] # c
<1> DEFINE I == {i \in 1 .. Len(digits) : digits[i] = c}
<1>1. PlaceOf(c, digits) = IF I # {} THEN Min(I) ELSE 0
    BY DEF PlaceOf, SelectInSeq
<1>2. Len(digits) \in Nat
    OBVIOUS
<1>3. I # {} => Min(I) \in I
    <2>1. I \in SUBSET Nat
        OBVIOUS
    <2> HIDE DEF I
    <2> QED
        BY <2>1, MinProperties
<1> QED
    BY <1>1, <1>2, <1>3

\* The digits of a base: each stands for its place less one, the first of them
\* for nothing, and signs, blanks and the x of a prefix are skipped.
AreDigits(digits, D, base) ==
    /\ digits \in Seq(Chars)
    /\ \A r \in 0 .. base - 1 : D[r + 1] \in Chars \ Others
    /\ \A v \in Nat : \A r \in 0 .. base - 1 :
            WithDigit(v, D[r + 1], base, digits) = v * base + r
    /\ WithDigit(0, "0", base, digits) = 0
    /\ \A c \in Others : PlaceOf(c, digits) = 0

LEMMA DigitsOfBase ==
    ASSUME NEW D \in {Upper, Lower}, NEW base \in 2 .. 16
    PROVE  AreDigits(SubSeq(D, 1, base), D, base)
<1> DEFINE digits == SubSeq(D, 1, base)
<1>1. /\ D \in Seq(Chars) /\ Len(D) = 16 /\ D[1] = "0"
      /\ \A i, j \in 1 .. 16 : D[i] = D[j] => i = j
      /\ \A i \in 1 .. 16 : D[i] \in Chars \ Others
    BY DigitsApart
<1>2. /\ digits \in Seq(Chars) /\ Len(digits) = base
      /\ \A i \in 1 .. base : digits[i] = D[i]
    <2>1. \A i \in 1 .. base : D[i] \in Chars
        BY <1>1
    <2> QED
        BY <1>1, <2>1, SubSeqProperties
<1> HIDE DEF digits
<1>3. \A c : /\ PlaceOf(c, digits) \in 0 .. base
             /\ PlaceOf(c, digits) # 0 => digits[PlaceOf(c, digits)] = c
             /\ PlaceOf(c, digits) = 0 => \A i \in 1 .. base : digits[i] # c
    BY <1>2, PlaceOfDigit
<1>4. ASSUME NEW r \in 0 .. base - 1, NEW v \in Nat
      PROVE  WithDigit(v, D[r + 1], base, digits) = v * base + r
    <2> DEFINE p == PlaceOf(D[r + 1], digits)
    <2>1. r + 1 \in 1 .. base /\ digits[r + 1] = D[r + 1]
        BY <1>2
    <2>2. p # 0 /\ p \in 0 .. base /\ digits[p] = D[r + 1]
        BY <1>3, <2>1
    <2> HIDE DEF p
    <2>3. p = r + 1
        <3>1. p \in 1 .. base /\ \A i \in 1 .. base : i \in 1 .. 16
            BY <2>2
        <3>2. digits[p] = D[p]
            BY <1>2, <3>1
        <3>3. D[p] = D[r + 1]
            BY <2>2, <3>2
        <3> QED
            BY <1>1, <2>1, <3>1, <3>3
    <2> QED
        BY <2>3 DEF WithDigit, p
<1>5. WithDigit(0, "0", base, digits) = 0
    <2>1. digits[1] = "0"
        BY <1>1, <1>2
    <2>2. PlaceOf("0", digits) \in 0 .. base
          /\ (PlaceOf("0", digits) # 0 => digits[PlaceOf("0", digits)] = digits[1])
        BY <1>3, <2>1
    <2> DEFINE p == PlaceOf("0", digits)
    <2> HIDE DEF p
    <2>3. p \in {0, 1}
        <3>1. CASE p # 0
            <4>1. p \in 1 .. 16 /\ 1 \in 1 .. 16 /\ D[p] = D[1]
                BY <1>1, <1>2, <2>2, <3>1 DEF p
            <4> QED
                BY <1>1, <4>1
        <3> QED
            BY <3>1
    <2> QED
        BY <2>3 DEF WithDigit, p
<1>6. ASSUME NEW c \in Others
      PROVE  PlaceOf(c, digits) = 0
    <2>1. \A i \in 1 .. base : digits[i] # c
        BY <1>1, <1>2
    <2> QED
        BY <1>2, <1>3, <2>1
<1>7. \A r \in 0 .. base - 1 : r + 1 \in 1 .. 16
    OBVIOUS
<1> QED
    BY <1>1, <1>2, <1>4, <1>5, <1>6, <1>7 DEF AreDigits, digits

\* v is what has been read of t after each of its characters.
Reads(v, t, base, digits) ==
    /\ v \in [0 .. Len(t) -> Nat] /\ v[0] = 0
    /\ \A i \in 1 .. Len(t) : v[i] = WithDigit(v[i - 1], t[i], base, digits)
    /\ ValueOf(t, base, digits) = v[Len(t)]

\* A text is read character by character.
LEMMA TextIsRead ==
    ASSUME NEW S, NEW t \in Seq(S), NEW base \in Nat,
           NEW R, NEW digits \in Seq(R)
    PROVE  \E v : Reads(v, t, base, digits)
<1> DEFINE n == Len(t)
           step == [i \in 1 .. n |-> [x \in Nat |-> WithDigit(x, t[i], base, digits)]]
           IsValue(v) == v = [i \in 0 .. n |->
                           IF i = 0 THEN 0 ELSE WithDigit(v[i - 1], t[i], base, digits)]
           value == CHOOSE v : IsValue(v)
<1>1. n \in Nat
    OBVIOUS
<1>2. ASSUME NEW x \in Nat, NEW c
      PROVE  WithDigit(x, c, base, digits) \in Nat
    <2> DEFINE p == PlaceOf(c, digits)
    <2>1. p \in Nat
        BY PlaceOfDigit
    <2>2. x * base \in Nat
        OBVIOUS
    <2> HIDE DEF p
    <2>3. (IF p = 0 THEN x ELSE x * base + p - 1) \in Nat
        BY <2>1, <2>2
    <2> QED
        BY <2>3 DEF WithDigit, p
<1>3. step \in [1 .. n -> [Nat -> Nat]]
    BY <1>2
<1>4. \A i \in 1 .. n : \A x \in Nat : step[i][x] = WithDigit(x, t[i], base, digits)
    OBVIOUS
<1> HIDE DEF n, step
<1>5. PICK h : IsHistory(h, n, Nat, 0, step)
    BY <1>1, <1>3, LoopHistory
<1>6. \A i \in 1 .. n : i - 1 \in 0 .. n
    BY <1>1
<1>7. /\ h \in [0 .. n -> Nat] /\ h[0] = 0
      /\ \A i \in 1 .. n : h[i] = WithDigit(h[i - 1], t[i], base, digits)
    BY <1>4, <1>5, <1>6 DEF IsHistory
<1>8. IsValue(h)
    <2>1. \A i \in 0 .. n : i # 0 => i \in 1 .. n
        BY <1>1
    <2> QED
        BY <1>7, <2>1
<1>9. IsValue(value)
    BY <1>8
<1>10. value[0] = 0 /\ \A i \in 1 .. n : value[i] = WithDigit(value[i - 1], t[i], base, digits)
    <2>1. \A i \in 1 .. n : i \in 0 .. n /\ i # 0
        BY <1>1
    <2>2. 0 \in 0 .. n
        BY <1>1
    <2> HIDE DEF value
    <2> QED
        BY <1>9, <2>1, <2>2
<1>11. value = [i \in 0 .. n |-> value[i]]
    <2> HIDE DEF value
    <2> QED
        BY <1>9
<1>12. \A i \in 0 .. n : value[i] = h[i]
    <2> DEFINE T == {i \in 0 .. n : value[i] = h[i]}
    <2> HIDE DEF value
    <2>1. 0 \in T
        BY <1>1, <1>7, <1>10
    <2>2. \A i \in 1 .. n : i - 1 \in T => i \in T
        BY <1>7, <1>10
    <2> HIDE DEF T
    <2>3. \A i \in 0 .. n : i \in T
        BY <1>1, <2>1, <2>2, BoundedInduction, Zenon
    <2> QED
        BY <2>3 DEF T
<1>13. ValueOf(t, base, digits) = value[n]
    BY DEF ValueOf, n
<1> HIDE DEF value
<1>14. ValueOf(t, base, digits) = h[n]
    BY <1>1, <1>12, <1>13
<1> QED
    BY <1>7, <1>14 DEF Reads, n

\* What stands around the digits of a text makes no difference.
IsReadIn(S, s, t, lead, base, digits) ==
    /\ s \in Seq(S) /\ t \in Seq(S) /\ digits \in Seq(S)
    /\ base \in Nat /\ lead \in Nat /\ lead + Len(s) <= Len(t)
    /\ \A i \in 1 .. lead : WithDigit(0, t[i], base, digits) = 0
    /\ \A i \in 1 .. Len(s) : t[lead + i] = s[i]
    /\ \A i \in lead + Len(s) + 1 .. Len(t) : PlaceOf(t[i], digits) = 0

LEMMA ReadsAlike ==
    ASSUME NEW S, NEW s, NEW t, NEW lead, NEW base, NEW digits,
           IsReadIn(S, s, t, lead, base, digits)
    PROVE  ValueOf(t, base, digits) = ValueOf(s, base, digits)
<1> USE DEF IsReadIn
<1>0. Len(s) \in Nat /\ Len(t) \in Nat
    OBVIOUS
<1>1. PICK v : Reads(v, t, base, digits)
    BY TextIsRead
<1>2. PICK w : Reads(w, s, base, digits)
    BY TextIsRead
<1> DEFINE end == lead + Len(s)
           Read(i) == IF i <= lead THEN 0 ELSE IF i <= end THEN w[i - lead] ELSE w[Len(s)]
           T == {i \in 0 .. Len(t) : v[i] = Read(i)}
<1>3. v[0] = 0 /\ w[0] = 0
    BY <1>1, <1>2 DEF Reads
<1>4. 0 \in T
    BY <1>0, <1>3
<1>5. ASSUME NEW i \in 1 .. Len(t), i - 1 \in T
      PROVE  i \in T
    <2>1. v[i] = WithDigit(v[i - 1], t[i], base, digits)
        BY <1>1 DEF Reads
    <2>2. CASE i <= lead
        <3>1. v[i - 1] = 0
            BY <1>5, <2>2
        <3>2. WithDigit(0, t[i], base, digits) = 0
            BY <2>2
        <3>3. v[i] = 0
            BY <2>1, <3>1, <3>2
        <3> QED
            BY <2>2, <3>3
    <2>3. CASE i > lead /\ i <= end
        <3> DEFINE j == i - lead
        <3>1. j \in 1 .. Len(s) /\ j - 1 \in 0 .. Len(s) /\ i = lead + j
            BY <1>0, <2>3
        <3>2. v[i - 1] = w[j - 1]
            <4>1. v[i - 1] = Read(i - 1)
                BY <1>5
            <4>2. CASE i - 1 <= lead
                <5>1. j = 1 /\ v[i - 1] = 0
                    BY <2>3, <4>1, <4>2
                <5> QED
                    BY <1>3, <5>1
            <4>3. CASE i - 1 > lead
                <5>1. v[i - 1] = w[(i - 1) - lead] /\ (i - 1) - lead = j - 1
                    BY <1>0, <2>3, <4>1, <4>3
                <5> QED
                    BY <5>1
            <4> QED
                BY <4>2, <4>3
        <3>3. t[i] = s[j]
            BY <3>1
        <3>4. w[j] = WithDigit(w[j - 1], s[j], base, digits)
            BY <1>2, <3>1 DEF Reads
        <3>5. v[i] = w[j]
            BY <2>1, <3>2, <3>3, <3>4
        <3> QED
            BY <2>3, <3>5
    <2>4. CASE i > end
        <3>1. i \in end + 1 .. Len(t)
            BY <1>0, <2>4
        <3>2. PlaceOf(t[i], digits) = 0
            BY <3>1
        <3>3. v[i] = v[i - 1]
            BY <2>1, <3>2 DEF WithDigit
        <3>4. v[i - 1] = w[Len(s)]
            <4>1. CASE i - 1 > end
                BY <1>0, <1>5, <4>1
            <4>2. CASE i - 1 = end
                <5>1. end - lead = Len(s) /\ (end <= lead => Len(s) = 0)
                    BY <1>0
                <5> QED
                    BY <1>0, <1>3, <1>5, <4>2, <5>1
            <4> QED
                BY <1>0, <2>4, <4>1, <4>2
        <3> QED
            BY <1>0, <2>4, <3>3, <3>4
    <2> QED
        BY <1>0, <2>2, <2>3, <2>4
<1>6. Len(t) \in T
    <2> HIDE DEF T
    <2>1. Len(t) \in 0 .. Len(t)
        BY <1>0
    <2> QED
        BY <1>0, <1>4, <1>5, <2>1, BoundedInduction, Zenon
<1>7. Read(Len(t)) = w[Len(s)]
    <2>1. CASE Len(t) > end
        BY <1>0, <2>1
    <2>2. CASE Len(t) = end
        <3>1. end - lead = Len(s) /\ (end <= lead => Len(s) = 0)
            BY <1>0
        <3> QED
            BY <1>0, <1>3, <2>2, <3>1
    <2> QED
        BY <1>0, <2>1, <2>2
<1>8. v[Len(t)] = w[Len(s)]
    BY <1>6, <1>7
<1> QED
    BY <1>1, <1>2, <1>8 DEF Reads

\* One more character is one more step.
LEMMA ReadsOneMore ==
    ASSUME NEW S, NEW s \in Seq(S), NEW c \in S, NEW base \in Nat,
           NEW Q, NEW digits \in Seq(Q)
    PROVE  ValueOf(Append(s, c), base, digits) = WithDigit(ValueOf(s, base, digits), c, base, digits)
<1> DEFINE t == Append(s, c)
           n == Len(s)
<1>1. n \in Nat /\ t \in Seq(S) /\ Len(t) = n + 1 /\ t[n + 1] = c /\ \A i \in 1 .. n : t[i] = s[i]
    OBVIOUS
<1> HIDE DEF t
<1>2. PICK v : Reads(v, t, base, digits)
    BY <1>1, TextIsRead
<1>3. PICK w : Reads(w, s, base, digits)
    BY TextIsRead
<1> DEFINE T == {i \in 0 .. n : v[i] = w[i]}
<1>4. /\ v[0] = 0 /\ w[0] = 0
      /\ \A i \in 1 .. n : v[i] = WithDigit(v[i - 1], s[i], base, digits)
      /\ \A i \in 1 .. n : w[i] = WithDigit(w[i - 1], s[i], base, digits)
    <2>1. \A i \in 1 .. n : i \in 1 .. Len(t)
        BY <1>1
    <2> QED
        BY <1>1, <1>2, <1>3, <2>1 DEF Reads
<1>5. 0 \in T /\ \A i \in 1 .. n : i - 1 \in T => i \in T
    BY <1>1, <1>4
<1>6. n \in T
    <2>1. n \in 0 .. n
        BY <1>1
    <2> HIDE DEF T, n
    <2> QED
        BY <1>1, <1>5, <2>1, BoundedInduction, Zenon
<1>7. v[n + 1] = WithDigit(v[n], c, base, digits)
    <2>1. n + 1 \in 1 .. Len(t) /\ n + 1 - 1 = n
        BY <1>1
    <2>2. v[n + 1] = WithDigit(v[n + 1 - 1], t[n + 1], base, digits)
        BY <1>2, <2>1 DEF Reads
    <2> QED
        BY <1>1, <2>1, <2>2
<1>8. ValueOf(t, base, digits) = v[n + 1] /\ ValueOf(s, base, digits) = w[n]
    BY <1>1, <1>2, <1>3 DEF Reads
<1> QED
    BY <1>6, <1>7, <1>8 DEF t

\* The digits of a number are as many as it has, and make that number: by
\* induction along the divisions by the base.
THEOREM DigitsAreRight ==
    ASSUME NEW n \in Nat, NEW base \in 2 .. 16, NEW D \in {Upper, Lower}
    PROVE  /\ DigitsOf(n, base, D) \in Seq(Chars \ Others)
           /\ Len(DigitsOf(n, base, D)) = Length(n, base)
           /\ Length(n, base) \in Nat \ {0}
           /\ ValueOf(DigitsOf(n, base, D), base, SubSeq(D, 1, base)) = n
<1> DEFINE C == Chars \ Others
           digits == SubSeq(D, 1, base)
           IsText(f) == f = [k \in 0 .. n |-> IF k < base THEN <<D[k + 1]>>
                                  ELSE Append(f[k \div base], D[(k % base) + 1])]
           IsLength(f) == f = [k \in 0 .. n |-> IF k < base THEN 1 ELSE 1 + f[k \div base]]
           text == CHOOSE f : IsText(f)
           length == CHOOSE f : IsLength(f)
<1>1. base \in Nat \ {0, 1}
    OBVIOUS
<1>2. ASSUME NEW k \in 0 .. n
      PROVE  /\ k \in Nat /\ k \div base \in Nat /\ k % base \in 0 .. base - 1
             /\ k = (k \div base) * base + (k % base)
             /\ k \div base \in 0 .. n
    <2>1. k \in Nat /\ k <= n
        OBVIOUS
    <2>2. /\ k \div base \in Nat /\ k % base \in 0 .. base - 1
          /\ k = (k \div base) * base + (k % base) /\ k \div base <= k
        BY <1>1, <2>1, DivisionGoesDown
    <2> QED
        BY <2>1, <2>2
<1>3. /\ digits \in Seq(Chars)
      /\ \A r \in 0 .. base - 1 : D[r + 1] \in C
      /\ \A v \in Nat : \A r \in 0 .. base - 1 : WithDigit(v, D[r + 1], base, digits) = v * base + r
    BY DigitsOfBase, Zenon DEF AreDigits
<1> HIDE DEF C, digits
<1>4. IsText(text)
    <2> DEFINE first == [k \in 0 .. base - 1 |-> <<D[k + 1]>>]
               step == [k \in 0 .. n |-> [x \in Seq(C) |-> Append(x, D[(k % base) + 1])]]
    <2>1. first \in [0 .. base - 1 -> Seq(C)]
        BY <1>3
    <2>2. step \in [0 .. n -> [Seq(C) -> Seq(C)]]
        BY <1>2, <1>3
    <2>3. PICK g : IsRecursion(g, n, base, Seq(C), first, step)
        <3> HIDE DEF first, step
        <3> QED
            BY <1>1, <2>1, <2>2, DivisionRecursion
    <2>4. ASSUME NEW k \in 0 .. n
          PROVE  DivisionTurn(g, k, base, first, step)
                    = IF k < base THEN <<D[k + 1]>> ELSE Append(g[k \div base], D[(k % base) + 1])
        <3>1. k < base => k \in 0 .. base - 1
            BY <1>1
        <3>2. k \div base \in 0 .. n
            BY <1>2
        <3>3. g[k \div base] \in Seq(C)
            BY <2>3, <3>2 DEF IsRecursion
        <3>4. k < base => first[k] = <<D[k + 1]>>
            BY <3>1
        <3>5. step[k][g[k \div base]] = Append(g[k \div base], D[(k % base) + 1])
            BY <3>3
        <3> HIDE DEF first, step
        <3> QED
            BY <3>4, <3>5 DEF DivisionTurn
    <2> HIDE DEF first, step
    <2>5. IsText(g)
        BY <2>3, <2>4 DEF IsRecursion
    <2> QED
        BY <2>5
<1>5. IsLength(length)
    <2> DEFINE first == [k \in 0 .. base - 1 |-> 1]
               step == [k \in 0 .. n |-> [x \in Nat |-> 1 + x]]
    <2>1. first \in [0 .. base - 1 -> Nat] /\ step \in [0 .. n -> [Nat -> Nat]]
        OBVIOUS
    <2>2. PICK g : IsRecursion(g, n, base, Nat, first, step)
        <3> HIDE DEF first, step
        <3> QED
            BY <1>1, <2>1, DivisionRecursion
    <2>3. ASSUME NEW k \in 0 .. n
          PROVE  DivisionTurn(g, k, base, first, step) = IF k < base THEN 1 ELSE 1 + g[k \div base]
        <3>1. k < base => k \in 0 .. base - 1
            BY <1>1
        <3>2. k \div base \in 0 .. n
            BY <1>2
        <3>3. g[k \div base] \in Nat
            BY <2>2, <3>2 DEF IsRecursion
        <3>4. k < base => first[k] = 1
            BY <3>1
        <3>5. step[k][g[k \div base]] = 1 + g[k \div base]
            BY <3>3
        <3> HIDE DEF first, step
        <3> QED
            BY <3>4, <3>5 DEF DivisionTurn
    <2> HIDE DEF first, step
    <2>4. IsLength(g)
        BY <2>2, <2>3 DEF IsRecursion
    <2> QED
        BY <2>4
<1>6. DigitsOf(n, base, D) = text[n] /\ Length(n, base) = length[n]
    BY DEF DigitsOf, Length
<1> HIDE DEF text, length
<1>7. ASSUME NEW k \in 0 .. n
      PROVE  /\ text[k] = IF k < base THEN <<D[k + 1]>>
                          ELSE Append(text[k \div base], D[(k % base) + 1])
             /\ length[k] = IF k < base THEN 1 ELSE 1 + length[k \div base]
    BY <1>4, <1>5
<1> HIDE DEF IsText, IsLength
<1> DEFINE Right(k) == /\ text[k] \in Seq(C) /\ Len(text[k]) = length[k]
                       /\ length[k] \in Nat \ {0}
                       /\ ValueOf(text[k], base, digits) = k
           T == {k \in 0 .. n : Right(k)}
<1>8. ASSUME NEW k \in 0 .. n, k >= base => Right(k \div base)
      PROVE  Right(k)
    <2>1. CASE k < base
        <3>1. text[k] = <<D[k + 1]>> /\ length[k] = 1 /\ D[k + 1] \in C
            <4>1. k \in 0 .. base - 1
                BY <1>1, <2>1
            <4>2. text[k] = <<D[k + 1]>> /\ length[k] = 1
                BY <1>7, <2>1, Zenon
            <4> QED
                BY <1>3, <4>1, <4>2
        <3>2. <<>> \in Seq(C) /\ Append(<<>>, D[k + 1]) = <<D[k + 1]>>
            BY <3>1
        <3>3. ValueOf(<<>>, base, digits) = 0
            <4>1. PICK v : Reads(v, <<>>, base, digits)
                BY <1>1, <1>3, <3>2, TextIsRead
            <4> QED
                BY <4>1 DEF Reads
        <3>4. ValueOf(text[k], base, digits) = WithDigit(0, D[k + 1], base, digits)
            <4>1. ASSUME NEW e \in Seq(C)
                  PROVE  ValueOf(Append(e, D[k + 1]), base, digits)
                            = WithDigit(ValueOf(e, base, digits), D[k + 1], base, digits)
                BY <1>1, <1>3, <3>1, ReadsOneMore
            <4> QED
                BY <3>1, <3>2, <3>3, <4>1, Zenon
        <3>5. WithDigit(0, D[k + 1], base, digits) = k
            BY <1>1, <1>3, <2>1
        <3> QED
            BY <3>1, <3>4, <3>5
    <2>2. CASE k >= base
        <3> DEFINE q == k \div base
                   r == k % base
        <3>1. q \in Nat /\ r \in 0 .. base - 1 /\ k = q * base + r
            BY <1>2
        <3>2. Right(q)
            BY <1>8, <2>2
        <3>3. text[k] = Append(text[q], D[r + 1]) /\ length[k] = 1 + length[q]
            <4>1. ~(k < base)
                BY <1>1, <2>2
            <4> QED
                BY <1>7, <4>1, Zenon
        <3> HIDE DEF q, r
        <3>4. D[r + 1] \in C
            BY <1>3, <3>1
        <3>5. text[k] \in Seq(C) /\ Len(text[k]) = length[k] /\ length[k] \in Nat \ {0}
            BY <3>2, <3>3, <3>4
        <3>6. ValueOf(text[k], base, digits) = WithDigit(q, D[r + 1], base, digits)
            BY <1>1, <1>3, <3>2, <3>3, <3>4, ReadsOneMore
        <3>7. WithDigit(q, D[r + 1], base, digits) = k
            BY <1>3, <3>1
        <3> QED
            BY <3>5, <3>6, <3>7
    <2> QED
        BY <1>1, <2>1, <2>2
<1> HIDE DEF Right
<1>9. \A k \in 0 .. n : (k >= base => k \div base \in T) => k \in T
    BY <1>8
<1> HIDE DEF T
<1>10. \A k \in 0 .. n : k \in T
    BY <1>1, <1>9, DivisionInduction
<1>11. Right(n)
    <2>1. n \in 0 .. n
        OBVIOUS
    <2> QED
        BY <1>10, <2>1 DEF T
<1> QED
    BY <1>6, <1>11 DEF Right, C, digits

-----------------------------------------------------------------------------
(* How a field is laid out *)

\* What Max makes of two numbers.
LEMMA MaxOfTwo ==
    ASSUME NEW a \in Int, NEW b \in Int
    PROVE  Max({a, b}) = IF a >= b THEN a ELSE b
<1>1. CASE a >= b
    <2>1. a \in {a, b} /\ \A y \in {a, b} : a >= y
        BY <1>1
    <2>2. \A x \in {a, b} : (\A y \in {a, b} : x >= y) => x = a
        BY <1>1
    <2> QED
        BY <1>1, <2>1, <2>2 DEF Max
<1>2. CASE ~(a >= b)
    <2>1. b \in {a, b} /\ \A y \in {a, b} : b >= y
        BY <1>2
    <2>2. \A x \in {a, b} : (\A y \in {a, b} : x >= y) => x = b
        BY <1>2
    <2> QED
        BY <1>2, <2>1, <2>2 DEF Max
<1> QED
    BY <1>1, <1>2

LEMMA MinOfTwo ==
    ASSUME NEW a \in Int, NEW b \in Int
    PROVE  Min({a, b}) = IF a <= b THEN a ELSE b
<1>1. CASE a <= b
    <2>1. a \in {a, b} /\ \A y \in {a, b} : a <= y
        BY <1>1
    <2>2. \A x \in {a, b} : (\A y \in {a, b} : x <= y) => x = a
        BY <1>1
    <2> QED
        BY <1>1, <2>1, <2>2 DEF Min
<1>2. CASE ~(a <= b)
    <2>1. b \in {a, b} /\ \A y \in {a, b} : b <= y
        BY <1>2
    <2>2. \A x \in {a, b} : (\A y \in {a, b} : x <= y) => x = b
        BY <1>2
    <2> QED
        BY <1>2, <2>1, <2>2 DEF Min
<1> QED
    BY <1>1, <1>2

LEMMA FillProperties ==
    ASSUME NEW S, NEW c \in S, NEW n \in Int
    PROVE  /\ Fill(n, c) \in Seq(S)
           /\ Len(Fill(n, c)) = IF n < 1 THEN 0 ELSE n
           /\ \A i \in 1 .. n : Fill(n, c)[i] = c
<1>1. CASE n < 1
    <2>1. Fill(n, c) = <<>>
        BY <1>1 DEF Fill
    <2> QED
        BY <1>1, <2>1
<1>2. CASE ~(n < 1)
    <2>1. Fill(n, c) = [i \in 1 .. n |-> c] /\ n \in Nat
        BY <1>2 DEF Fill
    <2> QED
        BY <1>2, <2>1
<1> QED
    BY <1>1, <1>2

\* A part of a text, n characters from a to b, that holds one character only.
IsFilled(S, t, a, b, n, c) ==
    /\ t \in Seq(S) /\ a \in Int /\ b \in Int /\ n \in Nat
    /\ 1 <= a /\ b <= Len(t) /\ b = a + n - 1
    /\ \A i \in a .. b : t[i] = c

LEMMA PartIsFill ==
    ASSUME NEW S, NEW t, NEW a, NEW b, NEW n, NEW c, IsFilled(S, t, a, b, n, c)
    PROVE  SubSeq(t, a, b) = Fill(n, c)
<1> DEFINE p == SubSeq(t, a, b)
<1> USE DEF IsFilled
<1>1. \A i \in a .. b : t[i] \in S
    <2>1. \A i \in a .. b : i \in 1 .. Len(t)
        OBVIOUS
    <2> QED
        BY <2>1, ElementOfSeq
<1>2. /\ p \in Seq(S) /\ Len(p) = IF a <= b THEN b - a + 1 ELSE 0
      /\ \A i \in 1 .. b - a + 1 : p[i] = t[a + i - 1]
    BY <1>1, SubSeqProperties
<1> HIDE DEF p
<1>3. Len(p) = n
    BY <1>2
<1>4. \A i \in 1 .. n : p[i] = c
    <2>1. \A i \in 1 .. n : i \in 1 .. b - a + 1 /\ a + i - 1 \in a .. b
        OBVIOUS
    <2> QED
        BY <1>2, <2>1
<1>5. p = [i \in 1 .. n |-> p[i]]
    BY <1>2, <1>3
<1>6. n < 1 => p = <<>>
    BY <1>2, <1>3
<1>7. Fill(n, c) = IF n < 1 THEN <<>> ELSE [i \in 1 .. n |-> c]
    BY DEF Fill
<1> QED
    BY <1>4, <1>5, <1>6, <1>7 DEF p

\* A text put together of three.
Joined(S, a, b, c, t) ==
    /\ t \in Seq(S) /\ Len(t) = Len(a) + Len(b) + Len(c)
    /\ \A i \in 1 .. Len(a) : t[i] = a[i]
    /\ \A i \in 1 .. Len(b) : t[Len(a) + i] = b[i]
    /\ \A i \in 1 .. Len(c) : t[Len(a) + Len(b) + i] = c[i]

LEMMA ThreeJoined ==
    ASSUME NEW S, NEW a \in Seq(S), NEW b \in Seq(S), NEW c \in Seq(S)
    PROVE  Joined(S, a, b, c, (a \o b) \o c)
<1> DEFINE ab == a \o b
           t == ab \o c
<1>1. /\ ab \in Seq(S) /\ Len(ab) = Len(a) + Len(b)
      /\ \A i \in 1 .. Len(a) + Len(b) : ab[i] = IF i <= Len(a) THEN a[i] ELSE b[i - Len(a)]
    BY ConcatProperties
<1> HIDE DEF ab
<1>3. /\ t \in Seq(S) /\ Len(t) = Len(ab) + Len(c)
      /\ \A i \in 1 .. Len(ab) + Len(c) : t[i] = IF i <= Len(ab) THEN ab[i] ELSE c[i - Len(ab)]
    <2>1. ASSUME NEW d \in Seq(S)
          PROVE  /\ d \o c \in Seq(S) /\ Len(d \o c) = Len(d) + Len(c)
                 /\ \A i \in 1 .. Len(d) + Len(c) :
                        (d \o c)[i] = IF i <= Len(d) THEN d[i] ELSE c[i - Len(d)]
        BY ConcatProperties
    <2> QED
        BY <1>1, <2>1, Zenon
<1> HIDE DEF t
<1>4. Len(a) \in Nat /\ Len(b) \in Nat /\ Len(c) \in Nat
    OBVIOUS
<1>5. ASSUME NEW i \in 1 .. Len(a)
      PROVE  t[i] = a[i]
    BY <1>1, <1>3, <1>4
<1>6. ASSUME NEW i \in 1 .. Len(b)
      PROVE  t[Len(a) + i] = b[i]
    <2> DEFINE k == Len(a) + i
    <2>1. k \in 1 .. Len(ab) + Len(c) /\ k <= Len(ab) /\ ~(k <= Len(a)) /\ k - Len(a) = i
        BY <1>1, <1>4
    <2> HIDE DEF k
    <2>2. t[k] = b[i]
        BY <1>1, <1>3, <1>4, <2>1
    <2> QED
        BY <2>2 DEF k
<1>7. ASSUME NEW i \in 1 .. Len(c)
      PROVE  t[Len(a) + Len(b) + i] = c[i]
    <2> DEFINE k == Len(a) + Len(b) + i
    <2>1. k \in 1 .. Len(ab) + Len(c) /\ ~(k <= Len(ab)) /\ k - Len(ab) = i
        BY <1>1, <1>4
    <2> HIDE DEF k
    <2>2. t[k] = c[i]
        BY <1>3, <2>1
    <2> QED
        BY <2>2 DEF k
<1> QED
    BY <1>1, <1>3, <1>5, <1>6, <1>7 DEF Joined, ab, t

\* A field that number lays out: its argument is a double, or a u32, or a byte.
IsNumberField(f) ==
    /\ f.arg \in Int /\ f.base \in {2, 8, 10, 16} /\ f.size \in Int /\ f.prec \in Int
    /\ IF "DOUBLE" \in f.flags THEN f.base = 10
       ELSE f.arg \in Nat /\ ("SIGN" \in f.flags => f.arg < UWORD)
    /\ f.text = Number(f.arg, f.base, f.size, f.prec, f.flags)

Magnitude(f) == IF Meant(f) < 0 THEN -Meant(f) ELSE Meant(f)

DigitsNeeded(f) ==
    IF "DOUBLE" \in f.flags
    THEN Length(Magnitude(f) \div FRACTION, 10) + 1 + Length(Magnitude(f) % FRACTION, 10)
    ELSE Length(Magnitude(f), f.base)

OthersNeeded(f) ==
    (IF Meant(f) < 0 \/ {"PLUS", "SPACE"} \cap f.flags # {} THEN 1 ELSE 0)
    + (IF "SPECIAL" \in f.flags /\ f.base \in {8, 16} THEN f.base \div 8 ELSE 0)

\* The number that number prints is the magnitude of what is meant, with a
\* minus when that is negative: the complement of a u32 in signed conversions.
LEMMA MeantIsPrinted ==
    ASSUME NEW f, IsNumberField(f)
    PROVE  /\ Meant(f) \in Int /\ Magnitude(f) \in Nat
           /\ Negative(f.arg, f.flags) <=> Meant(f) < 0
           /\ Magnitude(f) = IF ~Negative(f.arg, f.flags) THEN f.arg
                             ELSE IF "DOUBLE" \in f.flags THEN -f.arg ELSE UWORD - f.arg
<1>1. UWORD \in Nat /\ UWORD \div 2 \in Nat /\ UWORD = 2 * (UWORD \div 2) /\ UWORD > 0
    BY FormatAssumption
<1>2. CASE "DOUBLE" \in f.flags
    <2>1. Meant(f) = f.arg /\ (Negative(f.arg, f.flags) <=> f.arg < 0) /\ f.arg \in Int
        BY <1>2 DEF Meant, Negative, IsNumberField
    <2> QED
        BY <1>2, <2>1 DEF Magnitude
<1>3. CASE "DOUBLE" \notin f.flags /\ "SIGN" \in f.flags
    <2>1. /\ f.arg \in Nat /\ f.arg < UWORD
          /\ Negative(f.arg, f.flags) <=> f.arg >= UWORD \div 2
          /\ Meant(f) = IF f.arg >= UWORD \div 2 THEN f.arg - UWORD ELSE f.arg
        BY <1>3 DEF Meant, Negative, IsNumberField
    <2> HIDE DEF Negative, Meant
    <2> QED
        BY <1>1, <1>3, <2>1 DEF Magnitude
<1>4. CASE "DOUBLE" \notin f.flags /\ "SIGN" \notin f.flags
    <2>1. f.arg \in Nat /\ ~Negative(f.arg, f.flags) /\ Meant(f) = f.arg
        BY <1>4 DEF Meant, Negative, IsNumberField
    <2> QED
        BY <2>1 DEF Magnitude
<1> QED
    BY <1>2, <1>3, <1>4

\* The digits of a field are as many as it needs and make its number.
LEMMA ConvertedDigits ==
    ASSUME NEW f, IsNumberField(f)
    PROVE  /\ Converted(f.arg, f.base, f.flags) \in Seq(Chars \ Others)
           /\ Len(Converted(f.arg, f.base, f.flags)) = DigitsNeeded(f)
           /\ DigitsNeeded(f) \in Nat \ {0}
           /\ "DOUBLE" \notin f.flags =>
                ValueOf(Converted(f.arg, f.base, f.flags), f.base,
                        SubSeq(DigitSet(f.flags), 1, f.base)) = Magnitude(f)
<1> DEFINE D == DigitSet(f.flags)
           n == Magnitude(f)
           tmp == Converted(f.arg, f.base, f.flags)
           C == Chars \ Others
<1>1. D \in {Upper, Lower}
    BY DEF DigitSet
<1>2. n \in Nat /\ f.base \in 2 .. 16
    BY MeantIsPrinted DEF IsNumberField
<1>3. tmp = IF "DOUBLE" \in f.flags
            THEN (DigitsOf(n \div FRACTION, f.base, D) \o <<".">>)
                 \o DigitsOf(n % FRACTION, f.base, D)
            ELSE DigitsOf(n, f.base, D)
    BY MeantIsPrinted, Zenon DEF Converted
<1> HIDE DEF D, n, tmp, C
<1>4. CASE "DOUBLE" \in f.flags
    <2> DEFINE whole == n \div FRACTION
               part == n % FRACTION
               a == DigitsOf(whole, f.base, D)
               b == DigitsOf(part, f.base, D)
               dot == <<".">>
    <2>1. whole \in Nat /\ part \in Nat
        BY <1>2, FormatAssumption
    <2>2. f.base = 10
        BY <1>4 DEF IsNumberField
    <2> HIDE DEF whole, part
    <2>3. /\ a \in Seq(C) /\ Len(a) = Length(whole, f.base)
          /\ Length(whole, f.base) \in Nat \ {0}
        BY <1>1, <1>2, <2>1, DigitsAreRight DEF C
    <2>4. /\ b \in Seq(C) /\ Len(b) = Length(part, f.base)
          /\ Length(part, f.base) \in Nat \ {0}
        BY <1>1, <1>2, <2>1, DigitsAreRight DEF C
    <2>5. "." \in C
        BY Zenon DEF C, Chars, Others, BLANK
    <2>6. dot \in Seq(C) /\ Len(dot) = 1
        BY <2>5
    <2>7. tmp = (a \o dot) \o b
        BY <1>3, <1>4 DEF whole, part
    <2> HIDE DEF a, b, dot
    <2>8. tmp \in Seq(C) /\ Len(tmp) = Len(a) + 1 + Len(b)
        <3>1. Joined(C, a, dot, b, tmp)
            BY <2>3, <2>4, <2>6, <2>7, ThreeJoined, Zenon
        <3> QED
            BY <2>6, <3>1 DEF Joined
    <2>9. DigitsNeeded(f) = Length(whole, f.base) + 1 + Length(part, f.base)
        BY <1>4, <2>2 DEF DigitsNeeded, n, whole, part
    <2> QED
        BY <1>4, <2>3, <2>4, <2>8, <2>9 DEF tmp, C
<1>5. CASE "DOUBLE" \notin f.flags
    <2>1. tmp = DigitsOf(n, f.base, D)
        BY <1>3, <1>5
    <2>2. DigitsNeeded(f) = Length(n, f.base)
        BY <1>5 DEF DigitsNeeded, n
    <2>3. /\ tmp \in Seq(C) /\ Len(tmp) = Length(n, f.base)
          /\ Length(n, f.base) \in Nat \ {0}
          /\ ValueOf(tmp, f.base, SubSeq(D, 1, f.base)) = n
        BY <1>1, <1>2, <2>1, DigitsAreRight DEF C
    <2> QED
        BY <2>2, <2>3 DEF tmp, C, D, n
<1> QED
    BY <1>4, <1>5

\* What may stand before the digits of a field: a minus only before a negative
\* number.
Leading(f) == {BLANK, "0", "+", "x", "X"} \cup (IF Meant(f) < 0 THEN {"-"} ELSE {})

LEMMA SignAndPrefix ==
    ASSUME NEW f, IsNumberField(f)
    PROVE  /\ Sign(f.arg, f.flags) \in Seq(Leading(f))
           /\ Prefix(f.base, f.flags) \in Seq(Leading(f))
           /\ Len(Sign(f.arg, f.flags)) + Len(Prefix(f.base, f.flags)) = OthersNeeded(f)
           /\ Len(Sign(f.arg, f.flags)) \in Nat /\ Len(Prefix(f.base, f.flags)) \in Nat
           /\ Meant(f) < 0 => Sign(f.arg, f.flags) = <<"-">>
<1> DEFINE L == Leading(f)
<1>1. Negative(f.arg, f.flags) <=> Meant(f) < 0
    BY MeantIsPrinted
<1>2. BLANK \in L /\ "0" \in L /\ "+" \in L /\ "x" \in L /\ "X" \in L /\ (Meant(f) < 0 => "-" \in L)
    BY DEF Leading
<1> HIDE DEF L
<1>3. /\ Sign(f.arg, f.flags) \in Seq(L)
      /\ Len(Sign(f.arg, f.flags))
            = IF Meant(f) < 0 \/ {"PLUS", "SPACE"} \cap f.flags # {} THEN 1 ELSE 0
      /\ Meant(f) < 0 => Sign(f.arg, f.flags) = <<"-">>
    <2>1. Sign(f.arg, f.flags) = IF Meant(f) < 0 THEN <<"-">>
                                 ELSE IF "PLUS" \in f.flags THEN <<"+">>
                                 ELSE IF "SPACE" \in f.flags THEN <<BLANK>> ELSE <<>>
        BY <1>1, Zenon DEF Sign
    <2> QED
        BY <1>2, <2>1
<1>4. /\ Prefix(f.base, f.flags) \in Seq(L)
      /\ Len(Prefix(f.base, f.flags))
            = IF "SPECIAL" \in f.flags /\ f.base \in {8, 16} THEN f.base \div 8 ELSE 0
    <2>1. f.base \in {2, 8, 10, 16}
        BY DEF IsNumberField
    <2>2. CASE "SPECIAL" \notin f.flags
        BY <2>2 DEF Prefix
    <2>3. CASE "SPECIAL" \in f.flags /\ f.base = 16
        <3>1. Prefix(f.base, f.flags) = <<"0", IF "SMALL" \in f.flags THEN "x" ELSE "X">>
            BY <2>3 DEF Prefix
        <3>2. PICK c \in L : Prefix(f.base, f.flags) = <<"0", c>>
            BY <1>2, <3>1
        <3>3. <<"0", c>> \in Seq(L) /\ Len(<<"0", c>>) = 2
            BY <1>2
        <3>4. f.base \in {8, 16} /\ f.base \div 8 = 2
            BY <2>3
        <3> QED
            BY <2>3, <3>2, <3>3, <3>4, Zenon
    <2>4. CASE "SPECIAL" \in f.flags /\ f.base = 8
        <3>1. Prefix(f.base, f.flags) = <<"0">>
            BY <2>4 DEF Prefix
        <3>2. <<"0">> \in Seq(L) /\ Len(<<"0">>) = 1
            BY <1>2
        <3>3. f.base \in {8, 16} /\ f.base \div 8 = 1
            BY <2>4
        <3> QED
            BY <2>4, <3>1, <3>2, <3>3, Zenon
    <2>5. CASE "SPECIAL" \in f.flags /\ f.base \in {2, 10}
        <3>1. Prefix(f.base, f.flags) = <<>>
            BY <2>5 DEF Prefix
        <3> QED
            BY <2>5, <3>1
    <2> QED
        BY <2>1, <2>2, <2>3, <2>4, <2>5
<1> HIDE DEF Sign, Prefix
<1> QED
    BY <1>3, <1>4 DEF OthersNeeded, L

LEMMA NeededIs ==
    ASSUME NEW f, IsNumberField(f)
    PROVE  /\ Needed(f) = (IF DigitsNeeded(f) >= f.prec THEN DigitsNeeded(f) ELSE f.prec)
                          + OthersNeeded(f)
           /\ Needed(f) \in Nat
<1>1. DigitsNeeded(f) \in Nat /\ OthersNeeded(f) \in Nat
    BY ConvertedDigits, SignAndPrefix
<1>2. f.base # 0 /\ f.prec \in Int
    BY DEF IsNumberField
<1>3. Needed(f) = Max({DigitsNeeded(f), f.prec}) + OthersNeeded(f)
    BY <1>2, Zenon DEF Needed, DigitsNeeded, OthersNeeded, Magnitude
<1>4. Max({DigitsNeeded(f), f.prec})
            = IF DigitsNeeded(f) >= f.prec THEN DigitsNeeded(f) ELSE f.prec
    BY <1>1, <1>2, MaxOfTwo
<1> QED
    BY <1>1, <1>2, <1>3, <1>4

\* What stands before and behind the digits: as much as the width leaves, on
\* one side.
IsLayout(f, lead, back) ==
    LET digits == Converted(f.arg, f.base, f.flags)
        length == Len(lead) + Len(digits) + Len(back)
    IN  /\ lead \in Seq(Leading(f)) /\ back \in Seq({BLANK})
        /\ f.text = (lead \o digits) \o back
        /\ length = IF f.size >= Needed(f) THEN f.size ELSE Needed(f)
        /\ "LEFT" \in f.flags => Len(lead) + Len(digits) = Needed(f)
        /\ "LEFT" \notin f.flags => Len(back) = 0
        /\ "LEFT" \notin f.flags /\ "ZEROPAD" \notin f.flags =>
                \A i \in 1 .. length - Needed(f) : i <= Len(lead) /\ lead[i] = BLANK
        /\ Meant(f) < 0 => \E i \in 1 .. Len(lead) : lead[i] = "-"

LEMMA NumberLayout ==
    ASSUME NEW f, IsNumberField(f)
    PROVE  \E lead, back : IsLayout(f, lead, back)
<1> DEFINE L == Leading(f)
           tmp == Converted(f.arg, f.base, f.flags)
           sign == Sign(f.arg, f.flags)
           prefix == Prefix(f.base, f.flags)
           more == Fill(f.prec - Len(tmp), "0")
           digits == more \o tmp
           room == Room(f.size, sign, prefix, digits)
           padded == "ZEROPAD" \in f.flags /\ "LEFT" \notin f.flags
           front == IF "LEFT" \in f.flags \/ padded THEN <<>> ELSE Fill(room, BLANK)
           zeros == IF padded THEN Fill(room, "0") ELSE <<>>
           back == IF "LEFT" \in f.flags THEN Fill(room, BLANK) ELSE <<>>
           start == (front \o sign) \o prefix
           lead == (start \o zeros) \o more
           spare == IF room < 1 THEN 0 ELSE room
<1>1. f.text = (((((front \o sign) \o prefix) \o zeros) \o digits) \o back)
    BY Zenon DEF IsNumberField, Number
<1>2. /\ tmp \in Seq(Chars) /\ Len(tmp) = DigitsNeeded(f) /\ DigitsNeeded(f) \in Nat
      /\ sign \in Seq(L) /\ prefix \in Seq(L)
      /\ Len(sign) + Len(prefix) = OthersNeeded(f)
      /\ Len(sign) \in Nat /\ Len(prefix) \in Nat
      /\ Meant(f) < 0 => sign = <<"-">>
    <2>1. tmp \in Seq(Chars \ Others) /\ Len(tmp) = DigitsNeeded(f) /\ DigitsNeeded(f) \in Nat
        BY ConvertedDigits
    <2> HIDE DEF tmp
    <2>2. tmp \in Seq(Chars)
        BY <2>1
    <2> QED
        BY <2>1, <2>2, SignAndPrefix
<1>3. BLANK \in L /\ "0" \in L
    BY DEF Leading
<1>4. L \in SUBSET Chars
    BY Zenon DEF Leading, Chars, Others, BLANK
<1>5. f.size \in Int /\ f.prec \in Int
    BY DEF IsNumberField
<1> HIDE DEF L, tmp, sign, prefix
<1>6. /\ more \in Seq(L)
      /\ Len(more) = IF f.prec - Len(tmp) < 1 THEN 0 ELSE f.prec - Len(tmp)
    <2> DEFINE n == f.prec - Len(tmp)
    <2>1. n \in Int
        BY <1>2, <1>5
    <2> HIDE DEF n
    <2>2. Fill(n, "0") \in Seq(L) /\ Len(Fill(n, "0")) = IF n < 1 THEN 0 ELSE n
        BY <1>3, <2>1, FillProperties
    <2> QED
        BY <2>2 DEF n
<1> HIDE DEF more
<1>7. more \in Seq(Chars) /\ digits \in Seq(Chars) /\ Len(digits) = Len(more) + Len(tmp)
    <2>1. more \in Seq(Chars)
        BY <1>4, <1>6
    <2> QED
        BY <1>2, <2>1, ConcatProperties
<1>8. Needed(f) = Len(sign) + Len(prefix) + Len(digits)
    BY <1>2, <1>5, <1>6, <1>7, NeededIs
<1> HIDE DEF digits
<1>9. room = f.size - Needed(f) /\ room \in Int /\ Needed(f) \in Nat
    <2>1. room = f.size - Len(sign) - Len(prefix) - Len(digits)
        BY DEF Room
    <2>2. Needed(f) \in Nat
        BY NeededIs
    <2>3. Len(digits) \in Nat /\ Len(sign) \in Nat /\ Len(prefix) \in Nat
        BY <1>2, <1>7
    <2> HIDE DEF room
    <2> QED
        BY <1>5, <1>8, <2>1, <2>2, <2>3
<1> HIDE DEF room
<1>10. /\ Fill(room, BLANK) \in Seq({BLANK}) /\ Fill(room, BLANK) \in Seq(L)
       /\ Fill(room, "0") \in Seq(L)
       /\ Len(Fill(room, BLANK)) = spare /\ Len(Fill(room, "0")) = spare
       /\ \A i \in 1 .. room : Fill(room, BLANK)[i] = BLANK
    BY <1>3, <1>9, FillProperties
<1>11. <<>> \in Seq(L) /\ <<>> \in Seq({BLANK}) /\ Len(<<>>) = 0
    OBVIOUS
<1>12. /\ front \in Seq(L) /\ zeros \in Seq(L) /\ back \in Seq({BLANK})
       /\ Len(front) + Len(zeros) + Len(back) = spare
       /\ Len(front) \in Nat /\ Len(zeros) \in Nat /\ Len(back) \in Nat
       /\ "LEFT" \in f.flags => Len(back) = spare
       /\ "LEFT" \notin f.flags => Len(back) = 0
       /\ "LEFT" \notin f.flags /\ "ZEROPAD" \notin f.flags =>
                Len(front) = spare /\ \A i \in 1 .. room : front[i] = BLANK
    <2>0. spare \in Nat
        BY <1>9
    <2>1. CASE "LEFT" \in f.flags
        <3>1. front = <<>> /\ zeros = <<>> /\ back = Fill(room, BLANK)
            BY <2>1
        <3> HIDE DEF front, zeros, back, spare
        <3> QED
            BY <1>10, <1>11, <2>0, <2>1, <3>1
    <2>2. CASE "LEFT" \notin f.flags /\ "ZEROPAD" \in f.flags
        <3>1. front = <<>> /\ zeros = Fill(room, "0") /\ back = <<>>
            BY <2>2
        <3> HIDE DEF front, zeros, back, spare
        <3> QED
            BY <1>10, <1>11, <2>0, <2>2, <3>1
    <2>3. CASE "LEFT" \notin f.flags /\ "ZEROPAD" \notin f.flags
        <3>1. front = Fill(room, BLANK) /\ zeros = <<>> /\ back = <<>>
            BY <2>3
        <3> HIDE DEF front, zeros, back, spare
        <3> QED
            BY <1>10, <1>11, <2>0, <2>3, <3>1
    <2> QED
        BY <2>1, <2>2, <2>3
<1> HIDE DEF front, zeros, back
<1>13. Joined(L, front, sign, prefix, start)
    BY <1>2, <1>12, ThreeJoined
<1>14. start \in Seq(L) /\ Len(start) = Len(front) + Len(sign) + Len(prefix)
    BY <1>13 DEF Joined
<1> HIDE DEF start
<1>15. Joined(L, start, zeros, more, lead)
    BY <1>6, <1>12, <1>14, ThreeJoined
<1>16. f.text = (lead \o tmp) \o back
    <2>1. start \o zeros \in Seq(L)
        BY <1>12, <1>14, ConcatProperties
    <2>2. start \o zeros \in Seq(Chars)
        <3> DEFINE u == start \o zeros
        <3> HIDE DEF u
        <3>1. u \in Seq(L) => u \in Seq(Chars)
            BY <1>4
        <3> QED
            BY <2>1, <3>1 DEF u
    <2>3. ((start \o zeros) \o more) \o tmp = (start \o zeros) \o (more \o tmp)
        <3>1. ASSUME NEW u \in Seq(Chars), NEW v \in Seq(Chars), NEW w \in Seq(Chars)
              PROVE  (u \o v) \o w = u \o (v \o w)
            BY ConcatAssociative
        <3> QED
            BY <1>2, <1>7, <2>2, <3>1, Zenon
    <2> QED
        BY <1>1, <2>3, Zenon DEF start, digits
<1> HIDE DEF lead
<1>17. lead \in Seq(L) /\ Len(lead) = Len(start) + Len(zeros) + Len(more)
    BY <1>15 DEF Joined
<1>18. /\ Len(front) \in Nat /\ Len(sign) \in Nat /\ Len(prefix) \in Nat
       /\ Len(zeros) \in Nat /\ Len(more) \in Nat /\ Len(tmp) \in Nat /\ Len(back) \in Nat
    BY <1>2, <1>6, <1>12
<1>19. /\ Len(start) = Len(front) + Len(sign) + Len(prefix)
       /\ Len(lead) = Len(start) + Len(zeros) + Len(more)
       /\ Needed(f) = Len(sign) + Len(prefix) + (Len(more) + Len(tmp))
       /\ Len(front) + Len(zeros) + Len(back) = spare
    BY <1>7, <1>8, <1>12, <1>14, <1>17
<1> HIDE DEF spare
<1>20. \A i \in 1 .. Len(front) : i <= Len(lead) /\ lead[i] = front[i]
    <2>1. ASSUME NEW i \in 1 .. Len(front)
          PROVE  i <= Len(lead) /\ lead[i] = front[i]
        <3>1. start[i] = front[i]
            BY <1>13 DEF Joined
        <3>2. i \in 1 .. Len(start) /\ i <= Len(lead)
            BY <1>18, <1>19
        <3>3. lead[i] = start[i]
            BY <1>15, <3>2 DEF Joined
        <3> QED
            BY <3>1, <3>2, <3>3
    <2> QED
        BY <2>1
<1>21. Meant(f) < 0 => \E i \in 1 .. Len(lead) : lead[i] = "-"
    <2> SUFFICES ASSUME Meant(f) < 0
                 PROVE  \E i \in 1 .. Len(lead) : lead[i] = "-"
        OBVIOUS
    <2> DEFINE i == Len(front) + 1
    <2>1. Len(sign) = 1 /\ sign[1] = "-"
        BY <1>2
    <2>2. start[Len(front) + 1] = sign[1]
        BY <1>13, <2>1 DEF Joined
    <2>3. i \in 1 .. Len(start) /\ i \in 1 .. Len(lead)
        BY <1>18, <1>19, <2>1
    <2>4. lead[i] = start[i]
        BY <1>15, <2>3 DEF Joined
    <2> QED
        BY <2>1, <2>2, <2>3, <2>4
<1> DEFINE length == Len(lead) + Len(tmp) + Len(back)
<1>22. length = Needed(f) + spare
    BY <1>18, <1>19
<1>23. length = IF f.size >= Needed(f) THEN f.size ELSE Needed(f)
    BY <1>5, <1>9, <1>22 DEF spare
<1>24. "LEFT" \in f.flags => Len(lead) + Len(tmp) = Needed(f)
    BY <1>12, <1>18, <1>19
<1>25. "LEFT" \notin f.flags /\ "ZEROPAD" \notin f.flags =>
            \A i \in 1 .. length - Needed(f) : i <= Len(lead) /\ lead[i] = BLANK
    <2> SUFFICES ASSUME "LEFT" \notin f.flags, "ZEROPAD" \notin f.flags,
                        NEW i \in 1 .. length - Needed(f)
                 PROVE  i <= Len(lead) /\ lead[i] = BLANK
        OBVIOUS
    <2>1. i \in 1 .. spare /\ i \in 1 .. room
        BY <1>9, <1>22 DEF spare
    <2> QED
        BY <1>12, <1>20, <2>1
<1> QED
    BY <1>12, <1>16, <1>17, <1>21, <1>23, <1>24, <1>25, Zenon DEF IsLayout, L, tmp

\* What number prints is right.
LEMMA NumberFieldIsRight ==
    ASSUME NEW f, IsNumberField(f)
    PROVE  FieldIsRight(f)
<1> DEFINE tmp == Converted(f.arg, f.base, f.flags)
           D == DigitSet(f.flags)
           digits == SubSeq(D, 1, f.base)
           text == f.text
           need == Needed(f)
<1>1. PICK lead, back : IsLayout(f, lead, back)
    BY NumberLayout
<1> DEFINE pad == Len(text) - need
<1>2. /\ tmp \in Seq(Chars \ Others) /\ Len(tmp) = DigitsNeeded(f)
      /\ "DOUBLE" \notin f.flags => ValueOf(tmp, f.base, digits) = Magnitude(f)
    BY ConvertedDigits
<1>3. /\ lead \in Seq(Leading(f)) /\ back \in Seq({BLANK})
      /\ text = (lead \o tmp) \o back
      /\ Len(lead) + Len(tmp) + Len(back) = IF f.size >= need THEN f.size ELSE need
      /\ "LEFT" \in f.flags => Len(lead) + Len(tmp) = need
      /\ "LEFT" \notin f.flags /\ "ZEROPAD" \notin f.flags =>
                \A i \in 1 .. (Len(lead) + Len(tmp) + Len(back)) - need :
                    i <= Len(lead) /\ lead[i] = BLANK
      /\ Meant(f) < 0 => \E i \in 1 .. Len(lead) : lead[i] = "-"
    BY <1>1, Zenon DEF IsLayout
<1>4. /\ Leading(f) \in SUBSET Chars /\ BLANK \in Chars /\ BLANK \in Others
      /\ \A c \in Leading(f) : c = "0" \/ c \in Others
      /\ \A c \in Leading(f) : c = "-" => Meant(f) < 0
      /\ "-" \in Others /\ "-" # BLANK
    BY Zenon DEF Leading, Chars, Others, BLANK
<1>5. need \in Nat /\ f.size \in Int /\ f.base # 0 /\ f.base \in 2 .. 16 /\ f.base \in Nat
    BY NeededIs DEF IsNumberField
<1>6. AreDigits(digits, D, f.base)
    <2>1. D \in {Upper, Lower}
        BY DEF DigitSet
    <2> HIDE DEF D
    <2> QED
        BY <1>5, <2>1, DigitsOfBase
<1> HIDE DEF tmp, D, digits, text, need
<1>7. /\ digits \in Seq(Chars) /\ WithDigit(0, "0", f.base, digits) = 0
      /\ \A c \in Others : PlaceOf(c, digits) = 0
    BY <1>6 DEF AreDigits
<1>8. lead \in Seq(Chars) /\ tmp \in Seq(Chars) /\ back \in Seq(Chars)
    BY <1>2, <1>3, <1>4
<1>9. Joined(Chars, lead, tmp, back, text)
    <2>1. Joined(Chars, lead, tmp, back, (lead \o tmp) \o back)
        BY <1>8, ThreeJoined
    <2> QED
        BY <1>3, <2>1, Zenon
<1>10. /\ text \in Seq(Chars) /\ Len(text) = Len(lead) + Len(tmp) + Len(back)
       /\ Len(lead) \in Nat /\ Len(tmp) \in Nat /\ Len(back) \in Nat /\ Len(text) \in Nat
       /\ \A i \in 1 .. Len(lead) : text[i] = lead[i] /\ lead[i] \in Leading(f)
       /\ \A i \in 1 .. Len(tmp) : text[Len(lead) + i] = tmp[i] /\ tmp[i] \in Chars \ Others
       /\ \A i \in 1 .. Len(back) : text[Len(lead) + Len(tmp) + i] = BLANK
    <2>1. \A i \in 1 .. Len(lead) : lead[i] \in Leading(f)
        BY <1>3, ElementOfSeq
    <2>2. \A i \in 1 .. Len(tmp) : tmp[i] \in Chars \ Others
        BY <1>2, ElementOfSeq
    <2>3. \A i \in 1 .. Len(back) : back[i] = BLANK
        <3>1. \A i \in 1 .. Len(back) : back[i] \in {BLANK}
            BY <1>3, ElementOfSeq
        <3> QED
            BY <3>1
    <2>4. text \in Seq(Chars) /\ Len(text) = Len(lead) + Len(tmp) + Len(back)
        BY <1>9, Zenon DEF Joined
    <2>5. Len(lead) \in Nat /\ Len(tmp) \in Nat /\ Len(back) \in Nat /\ Len(text) \in Nat
        BY <1>8, <2>4
    <2> QED
        BY <1>9, <2>1, <2>2, <2>3, <2>4, <2>5, Zenon DEF Joined
<1>11. \A i \in 1 .. Len(text) :
            \/ i \in 1 .. Len(lead)
            \/ \E k \in 1 .. Len(tmp) : i = Len(lead) + k
            \/ \E k \in 1 .. Len(back) : i = Len(lead) + Len(tmp) + k
    <2> SUFFICES ASSUME NEW i \in 1 .. Len(text)
                 PROVE  \/ i \in 1 .. Len(lead)
                        \/ \E k \in 1 .. Len(tmp) : i = Len(lead) + k
                        \/ \E k \in 1 .. Len(back) : i = Len(lead) + Len(tmp) + k
        OBVIOUS
    <2>0. CASE i <= Len(lead)
        BY <1>10, <2>0
    <2>1. CASE i > Len(lead) /\ i <= Len(lead) + Len(tmp)
        <3>1. i - Len(lead) \in 1 .. Len(tmp) /\ i = Len(lead) + (i - Len(lead))
            BY <1>10, <2>1
        <3> QED
            BY <3>1
    <2>2. CASE i > Len(lead) + Len(tmp)
        <3> DEFINE k == i - Len(lead) - Len(tmp)
        <3>1. k \in 1 .. Len(back) /\ i = Len(lead) + Len(tmp) + k
            BY <1>10, <2>2
        <3> HIDE DEF k
        <3> QED
            BY <3>1
    <2> QED
        BY <1>10, <2>0, <2>1, <2>2
<1>12. Len(text) = Max({f.size, need}) /\ pad \in Nat
    <2>1. Max({f.size, need}) = IF f.size >= need THEN f.size ELSE need
        BY <1>5, MaxOfTwo
    <2> QED
        BY <1>3, <1>5, <1>10, <2>1
<1>13. "LEFT" \in f.flags => SubSeq(text, need + 1, Len(text)) = Fill(pad, BLANK)
    <2> SUFFICES ASSUME "LEFT" \in f.flags
                 PROVE  SubSeq(text, need + 1, Len(text)) = Fill(pad, BLANK)
        OBVIOUS
    <2> DEFINE a == need + 1
               b == Len(text)
    <2>1. a \in Int /\ b \in Int /\ 1 <= a /\ b <= Len(text) /\ b = a + pad - 1
        BY <1>5, <1>10
    <2>2. \A i \in a .. b : text[i] = BLANK
        <3> SUFFICES ASSUME NEW i \in a .. b
                     PROVE  text[i] = BLANK
            OBVIOUS
        <3>1. i \in 1 .. Len(text) /\ i > Len(lead) + Len(tmp)
            BY <1>3, <1>5, <1>10
        <3>2. PICK k \in 1 .. Len(back) : i = Len(lead) + Len(tmp) + k
            BY <1>10, <1>11, <3>1
        <3> QED
            BY <1>10, <3>2
    <2> HIDE DEF a, b, pad
    <2>3. SubSeq(text, a, b) = Fill(pad, BLANK)
        <3>1. IsFilled(Chars, text, a, b, pad, BLANK)
            BY <1>10, <1>12, <2>1, <2>2, Zenon DEF IsFilled
        <3> QED
            BY <3>1, PartIsFill
    <2> QED
        BY <2>3 DEF a, b
<1>14. "LEFT" \notin f.flags /\ "ZEROPAD" \notin f.flags =>
            SubSeq(text, 1, pad) = Fill(pad, BLANK)
    <2> SUFFICES ASSUME "LEFT" \notin f.flags, "ZEROPAD" \notin f.flags
                 PROVE  SubSeq(text, 1, pad) = Fill(pad, BLANK)
        OBVIOUS
    <2>1. \A i \in 1 .. pad : text[i] = BLANK
        <3> SUFFICES ASSUME NEW i \in 1 .. pad
                     PROVE  text[i] = BLANK
            OBVIOUS
        <3>1. i <= Len(lead) /\ lead[i] = BLANK
            BY <1>3, <1>10, Zenon
        <3>2. i \in 1 .. Len(lead)
            BY <1>12, <3>1
        <3> QED
            BY <1>10, <3>1, <3>2
    <2>2. pad <= Len(text)
        BY <1>5, <1>10
    <2> HIDE DEF pad
    <2>3. ASSUME NEW a \in Int, a = 1
          PROVE  SubSeq(text, a, pad) = Fill(pad, BLANK)
        <3>1. pad \in Int /\ 1 <= a /\ pad = a + pad - 1
            BY <1>12, <2>3
        <3>2. \A i \in a .. pad : text[i] = BLANK
            BY <2>1, <2>3
        <3>3. IsFilled(Chars, text, a, pad, pad, BLANK)
            BY <1>10, <1>12, <2>2, <2>3, <3>1, <3>2, Zenon DEF IsFilled
        <3> QED
            BY <3>3, PartIsFill
    <2> QED
        BY <2>3
<1>15. "DOUBLE" \notin f.flags => ReadBack(f) = Meant(f)
    <2> SUFFICES ASSUME "DOUBLE" \notin f.flags
                 PROVE  ReadBack(f) = Meant(f)
        OBVIOUS
    <2>1. \A i \in 1 .. Len(lead) : WithDigit(0, text[i], f.base, digits) = 0
        <3> SUFFICES ASSUME NEW i \in 1 .. Len(lead)
                     PROVE  WithDigit(0, text[i], f.base, digits) = 0
            OBVIOUS
        <3>1. text[i] = "0" \/ text[i] \in Others
            BY <1>4, <1>10
        <3>2. text[i] \in Others => PlaceOf(text[i], digits) = 0
            BY <1>7
        <3> QED
            BY <1>7, <3>1, <3>2 DEF WithDigit
    <2>2. \A i \in Len(lead) + Len(tmp) + 1 .. Len(text) : PlaceOf(text[i], digits) = 0
        <3> SUFFICES ASSUME NEW i \in Len(lead) + Len(tmp) + 1 .. Len(text)
                     PROVE  PlaceOf(text[i], digits) = 0
            OBVIOUS
        <3>1. i \in 1 .. Len(text) /\ i > Len(lead) + Len(tmp)
            BY <1>10
        <3>2. PICK k \in 1 .. Len(back) : i = Len(lead) + Len(tmp) + k
            BY <1>10, <1>11, <3>1
        <3>3. text[i] = BLANK
            BY <1>10, <3>2
        <3> QED
            BY <1>4, <1>7, <3>3
    <2>3. Len(lead) + Len(tmp) <= Len(text) /\ \A i \in 1 .. Len(tmp) : text[Len(lead) + i] = tmp[i]
        BY <1>10
    <2>4. ValueOf(text, f.base, digits) = ValueOf(tmp, f.base, digits)
        <3>1. IsReadIn(Chars, tmp, text, Len(lead), f.base, digits)
            BY <1>5, <1>7, <1>8, <1>10, <2>1, <2>2, <2>3, Zenon DEF IsReadIn
        <3> QED
            BY <3>1, ReadsAlike
    <2>5. "-" \in ToSet(text) <=> Meant(f) < 0
        <3>1. ASSUME Meant(f) < 0
              PROVE  \E i \in 1 .. Len(text) : text[i] = "-"
            <4>1. PICK i \in 1 .. Len(lead) : lead[i] = "-"
                BY <1>3, <3>1
            <4>2. i \in 1 .. Len(text) /\ text[i] = "-"
                BY <1>10, <4>1
            <4> QED
                BY <4>2
        <3>2. ASSUME NEW i \in 1 .. Len(text), text[i] = "-"
              PROVE  Meant(f) < 0
            <4>1. CASE i \in 1 .. Len(lead)
                BY <1>4, <1>10, <3>2, <4>1
            <4>2. ASSUME NEW k \in 1 .. Len(tmp), i = Len(lead) + k
                  PROVE  FALSE
                BY <1>4, <1>10, <3>2, <4>2
            <4>3. ASSUME NEW k \in 1 .. Len(back), i = Len(lead) + Len(tmp) + k
                  PROVE  FALSE
                BY <1>4, <1>10, <3>2, <4>3
            <4> QED
                BY <1>11, <4>1, <4>2, <4>3
        <3>3. "-" \in ToSet(text) <=> \E i \in 1 .. Len(text) : text[i] = "-"
            <4>1. ASSUME NEW u \in Seq(Chars), NEW e
                  PROVE  e \in ToSet(u) <=> \E i \in 1 .. Len(u) : u[i] = e
                BY ToSetByIndex
            <4> QED
                BY <1>10, <4>1, Zenon
        <3> QED
            BY <3>1, <3>2, <3>3
    <2>6. ReadBack(f) = IF "-" \in ToSet(text) THEN -ValueOf(text, f.base, digits)
                        ELSE ValueOf(text, f.base, digits)
        BY DEF ReadBack, text, digits, D
    <2>7. Meant(f) \in Int /\ Magnitude(f) = IF Meant(f) < 0 THEN -Meant(f) ELSE Meant(f)
        BY MeantIsPrinted DEF Magnitude
    <2> QED
        BY <1>2, <2>4, <2>5, <2>6, <2>7
<1> QED
    BY <1>5, <1>12, <1>13, <1>14, <1>15, Zenon DEF FieldIsRight, need, text

\* A field that %s or %c has written.
IsTextField(f) ==
    LET blanks == Fill(f.size - Len(f.arg), BLANK)
    IN  /\ f.arg \in Seq(STRING) /\ f.base = 0 /\ f.size \in Int
        /\ f.text = IF "LEFT" \in f.flags THEN f.arg \o blanks ELSE blanks \o f.arg

\* What %s and %c print is right.
LEMMA TextFieldIsRight ==
    ASSUME NEW f, IsTextField(f)
    PROVE  FieldIsRight(f)
<1> DEFINE S == STRING \cup {BLANK}
           arg == f.arg
           text == f.text
           room == f.size - Len(arg)
           blanks == Fill(room, BLANK)
           need == Needed(f)
           pad == Len(text) - need
<1>1. /\ f.base = 0 /\ f.size \in Int
      /\ "LEFT" \in f.flags => text = arg \o blanks
      /\ "LEFT" \notin f.flags => text = blanks \o arg
    BY Zenon DEF IsTextField
<1>2. arg \in Seq(STRING)
    BY DEF IsTextField
<1>3. arg \in Seq(S) /\ Len(arg) \in Nat
    BY <1>2
<1>4. need = Len(arg)
    BY <1>1 DEF Needed
<1>5. FieldIsRight(f) <=>
        /\ Len(text) = Max({f.size, need})
        /\ "LEFT" \in f.flags => SubSeq(text, need + 1, Len(text)) = Fill(pad, BLANK)
        /\ "LEFT" \notin f.flags => SubSeq(text, 1, pad) = Fill(pad, BLANK)
    BY <1>1, Zenon DEF FieldIsRight
<1> HIDE DEF arg, text, need, S
<1>6. room \in Int
    BY <1>1, <1>3
<1>7. BLANK \in S
    BY DEF S
<1> HIDE DEF room
<1>8. /\ blanks \in Seq(S) /\ Len(blanks) = (IF room < 1 THEN 0 ELSE room)
      /\ \A i \in 1 .. Len(blanks) : blanks[i] = BLANK
    BY <1>6, <1>7, FillProperties
<1> HIDE DEF blanks
<1>9. ASSUME NEW a \in Seq(S), NEW b \in Seq(S), text = a \o b
      PROVE  /\ text \in Seq(S) /\ Len(text) = Len(a) + Len(b)
             /\ \A i \in 1 .. Len(a) + Len(b) : text[i] = IF i <= Len(a) THEN a[i] ELSE b[i - Len(a)]
    BY <1>9, ConcatProperties
<1>10. text \in Seq(S) /\ Len(text) = Len(arg) + Len(blanks)
    <2>1. Len(blanks) \in Nat
        BY <1>8
    <2>2. CASE "LEFT" \in f.flags
        BY <1>1, <1>3, <1>8, <1>9, <2>2
    <2>3. CASE "LEFT" \notin f.flags
        <3>1. text \in Seq(S) /\ Len(text) = Len(blanks) + Len(arg)
            BY <1>1, <1>3, <1>8, <1>9, <2>3
        <3> QED
            BY <1>3, <2>1, <3>1
    <2> QED
        BY <2>2, <2>3
<1>11. Len(blanks) \in Nat /\ Len(text) \in Nat
    BY <1>8, <1>10
<1>12. Len(text) = Max({f.size, need})
    <2>1. Max({f.size, need}) = IF f.size >= need THEN f.size ELSE need
        BY <1>1, <1>3, <1>4, MaxOfTwo
    <2> QED
        BY <1>1, <1>3, <1>4, <1>8, <1>10, <2>1 DEF room
<1>13. "LEFT" \in f.flags => SubSeq(text, need + 1, Len(text)) = Fill(pad, BLANK)
    <2> SUFFICES ASSUME "LEFT" \in f.flags
                 PROVE  SubSeq(text, need + 1, Len(text)) = Fill(pad, BLANK)
        OBVIOUS
    <2> DEFINE a == need + 1
               b == Len(text)
    <2>1. /\ a \in Int /\ b \in Int /\ pad \in Nat
          /\ 1 <= a /\ b <= Len(text) /\ b = a + pad - 1
        BY <1>3, <1>4, <1>10, <1>11
    <2>2. \A i \in a .. b : text[i] = BLANK
        <3> SUFFICES ASSUME NEW i \in a .. b
                     PROVE  text[i] = BLANK
            OBVIOUS
        <3>1. text[i] = IF i <= Len(arg) THEN arg[i] ELSE blanks[i - Len(arg)]
            BY <1>1, <1>3, <1>4, <1>8, <1>9, <1>10, <1>11
        <3>2. i > Len(arg) /\ i - Len(arg) \in 1 .. Len(blanks)
            BY <1>3, <1>4, <1>10, <1>11
        <3> QED
            BY <1>8, <3>1, <3>2
    <2> HIDE DEF a, b, pad
    <2>3. IsFilled(S, text, a, b, pad, BLANK)
        BY <1>10, <2>1, <2>2, Zenon DEF IsFilled
    <2>4. SubSeq(text, a, b) = Fill(pad, BLANK)
        BY <2>3, PartIsFill
    <2> QED
        BY <2>4 DEF a, b
<1>14. "LEFT" \notin f.flags => SubSeq(text, 1, pad) = Fill(pad, BLANK)
    <2> SUFFICES ASSUME "LEFT" \notin f.flags
                 PROVE  SubSeq(text, 1, pad) = Fill(pad, BLANK)
        OBVIOUS
    <2> DEFINE a == 1
    <2>1. pad = Len(blanks) /\ pad \in Nat /\ pad \in Int /\ pad <= Len(text)
        BY <1>3, <1>4, <1>10, <1>11
    <2>2. \A i \in a .. pad : text[i] = BLANK
        <3> SUFFICES ASSUME NEW i \in a .. pad
                     PROVE  text[i] = BLANK
            OBVIOUS
        <3>1. i \in 1 .. Len(blanks) /\ i <= Len(blanks)
            BY <1>11, <2>1
        <3>2. text[i] = IF i <= Len(blanks) THEN blanks[i] ELSE arg[i - Len(blanks)]
            <4>1. \A j \in 1 .. Len(blanks) + Len(arg) :
                        text[j] = IF j <= Len(blanks) THEN blanks[j] ELSE arg[j - Len(blanks)]
                BY <1>1, <1>3, <1>8, <1>9
            <4>2. i \in 1 .. Len(blanks) + Len(arg)
                BY <1>3, <1>11, <3>1
            <4> QED
                BY <4>1, <4>2
        <3> QED
            BY <1>8, <3>1, <3>2
    <2>3. a \in Int /\ 1 <= a /\ pad = a + pad - 1
        BY <2>1
    <2> HIDE DEF a, pad
    <2>4. IsFilled(S, text, a, pad, pad, BLANK)
        BY <1>10, <2>1, <2>2, <2>3, Zenon DEF IsFilled
    <2>5. SubSeq(text, a, pad) = Fill(pad, BLANK)
        BY <2>4, PartIsFill
    <2> QED
        BY <2>5 DEF a
<1> QED
    BY <1>5, <1>12, <1>13, <1>14

\* The numbers in a format string are numbers.
LEMMA NumberInFormat ==
    ASSUME FormatInv, NEW i \in 1 .. Len(fmt) + 1
    PROVE  ValueOf(SubSeq(fmt, i, DigitsEnd(i) - 1), 10, Decimal) \in Int
<1> DEFINE j == DigitsEnd(i) - 1
           digits == SubSeq(fmt, i, j)
<1>1. fmt \in Seq(STRING) /\ Len(fmt) \in Nat
    BY DEF FormatInv
<1>2. j \in Int /\ j <= Len(fmt)
    BY <1>1, DigitsEndInFormat
<1> HIDE DEF j
<1>3. digits \in Seq(STRING)
    <2>1. \A k \in i .. j : k \in 1 .. Len(fmt)
        BY <1>1, <1>2
    <2>2. \A k \in i .. j : fmt[k] \in STRING
        BY <1>1, <2>1, ElementOfSeq
    <2> QED
        BY <1>1, <1>2, <2>2, SubSeqProperties
<1> HIDE DEF digits
<1>4. Decimal \in Seq(Chars)
    <2>1. \A k \in 1 .. 10 : Decimal[k] \in Chars
        <3> DEFINE digit == {"0", "1", "2", "3", "4", "5", "6", "7", "8", "9"}
        <3>1. \A k \in 1 .. 10 : Decimal[k] \in digit
            BY DEF Decimal
        <3>2. digit \subseteq Chars
            BY Zenon DEF Chars
        <3> QED
            BY <3>1, <3>2
    <2> QED
        BY <2>1 DEF Decimal
<1>5. PICK v : Reads(v, digits, 10, Decimal)
    BY <1>3, <1>4, TextIsRead
<1>6. Len(digits) \in 0 .. Len(digits)
    BY <1>3
<1>7. ValueOf(digits, 10, Decimal) \in Int
    BY <1>5, <1>6 DEF Reads
<1> QED
    BY <1>7 DEF digits, j

FieldsInv ==
    /\ FormatInv
    /\ flags \subseteq {"LEFT", "PLUS", "SPACE", "SPECIAL", "ZEROPAD"}
    /\ field_width \in Int /\ precision \in Int
    /\ FieldsAreRight

\* What a directive writes are fields of number and fields of %s and %c.
LEMMA WrittenFieldsAreRight ==
    ASSUME NEW fs, NEW separator, Write(fs, separator),
           \A i \in DOMAIN fs : IsNumberField(fs[i]) \/ IsTextField(fs[i])
    PROVE  FieldsAreRight'
<1>1. fields' = fs
    BY DEF Write
<1>2. \A i \in DOMAIN fs : FieldIsRight(fs[i])
    BY NumberFieldIsRight, TextFieldIsRight
<1> QED
    BY <1>1, <1>2 DEF FieldsAreRight

\* An integer, with the flags of an integer directive, and a byte.
LEMMA IntegerField ==
    ASSUME FieldsInv, NEW num \in Nat, NEW base \in {2, 8, 10, 16}, NEW size \in Int,
           NEW flgs, "DOUBLE" \notin flgs, "SIGN" \in flgs => num < UWORD
    PROVE  IsNumberField(NumberField(num, base, size, flgs))
<1> DEFINE f == NumberField(num, base, size, flgs)
<1>1. /\ f.arg = num /\ f.base = base /\ f.size = size /\ f.prec = precision
      /\ f.flags = flgs /\ f.text = Number(num, base, size, precision, flgs)
    BY Zenon DEF NumberField, Field
<1>2. precision \in Int /\ num \in Int
    BY DEF FieldsInv
<1> HIDE DEF f
<1> QED
    BY <1>1, <1>2 DEF IsNumberField, f

LEMMA FieldsInvStep ==
    ASSUME FieldsInv, [FormatNext]_formatVars
    PROVE  FieldsInv'
<1> DEFINE Flgs == {"LEFT", "PLUS", "SPACE", "SPECIAL", "ZEROPAD"}
<1>1. /\ FormatInv /\ flags \subseteq Flgs /\ field_width \in Int /\ precision \in Int
      /\ FieldsAreRight /\ Len(fmt) \in Nat /\ at \in 1 .. Len(fmt) + 1
    BY DEF FieldsInv, FormatInv, FormatReadOnce
<1>2. FormatInv'
    BY <1>1, FormatInvStep
<1> SUFFICES flags' \subseteq Flgs /\ field_width' \in Int /\ precision' \in Int /\ FieldsAreRight'
    BY <1>2 DEF FieldsInv
<1>3. fields' = fields \/ fields' = <<>> => FieldsAreRight'
    <2>1. ASSUME fields' = fields
          PROVE  FieldsAreRight'
        BY <1>1, <2>1 DEF FieldsAreRight
    <2>2. ASSUME fields' = <<>>
          PROVE  FieldsAreRight'
        BY <2>2 DEF FieldsAreRight
    <2> QED
        BY <2>1, <2>2
<1>4. CASE \/ UNCHANGED formatVars \/ Call \/ NoPrecision \/ Qualifier
           \/ Count \/ Unknown \/ BufferAssert
    <2>1. /\ flags' = flags /\ field_width' = field_width /\ fields' = fields
          /\ precision' = precision \/ precision' = -1
        BY <1>4, Zenon DEF formatVars, Call, NoPrecision, Qualifier, Count, Unknown,
                           BufferAssert
    <2> QED
        BY <1>1, <1>3, <2>1
<1>5. CASE Plain \/ Percent \/ Return
    <2>1. /\ flags' = flags \/ flags' = {}
          /\ field_width' = field_width \/ field_width' = -1
          /\ precision' = precision \/ precision' = -1
          /\ fields' = <<>>
        BY <1>5, Zenon DEF Plain, Percent, Return
    <2>2. FieldsAreRight'
        BY <1>3, <2>1, Zenon
    <2>3. flags' \subseteq Flgs
        BY <1>1, <2>1, Zenon
    <2>4. field_width' \in Int /\ precision' \in Int
        <3>1. field_width' = field_width \/ field_width' = -1
            BY <2>1, Zenon
        <3>2. precision' = precision \/ precision' = -1
            BY <2>1, Zenon
        <3> QED
            BY <1>1, <3>1, <3>2
    <2> QED
        BY <2>2, <2>3, <2>4
<1>6. CASE Flag
    <2>1. /\ Here \in {"-", "+", BLANK, "#", "0"} /\ flags' = flags \cup {FlagOf[Here]}
          /\ UNCHANGED <<field_width, precision, fields>>
        BY <1>6, Zenon DEF Flag, FlagOf, BLANK
    <2>2. FlagOf[Here] \in Flgs
        BY <2>1, Zenon DEF FlagOf, BLANK
    <2> QED
        BY <1>1, <1>3, <2>1, <2>2
<1>7. CASE FieldWidth
    <2>1. UNCHANGED <<precision, fields>>
        BY <1>7 DEF FieldWidth
    <2>2. CASE Here = "*"
        <3>1. PICK w \in Widths :
                    /\ field_width' = IF w < 0 THEN -w ELSE w
                    /\ flags' = IF w < 0 THEN flags \cup {"LEFT"} ELSE flags
            BY <1>7, <2>2 DEF FieldWidth
        <3>2. w \in Int
            BY FormatAssumption
        <3> QED
            BY <1>1, <1>3, <2>1, <3>1, <3>2
    <2>3. CASE Here # "*"
        <3>1. flags' = flags /\ (field_width' = SkipAtoi \/ field_width' = -1)
            BY <1>7, <2>3 DEF FieldWidth
        <3>2. SkipAtoi \in Int
            BY <1>1, NumberInFormat DEF SkipAtoi
        <3> QED
            BY <1>1, <1>3, <2>1, <3>1, <3>2
    <2> QED
        BY <2>2, <2>3
<1>8. CASE Precision
    <2>1. UNCHANGED <<flags, field_width, fields>> /\ Here = "."
        BY <1>8 DEF Precision
    <2>2. at + 1 \in 1 .. Len(fmt) + 1
        <3>1. DOMAIN fmt = 1 .. Len(fmt)
            BY <1>1 DEF FormatInv
        <3> QED
            BY <1>1, <2>1, <3>1 DEF Here, NUL
    <2> DEFINE read == ValueOf(SubSeq(fmt, at + 1, DigitsEnd(at + 1) - 1), 10, Decimal)
    <2>3. read \in Int
        BY <1>1, <2>2, NumberInFormat
    <2>4. precision' = read \/ \E p \in Widths : precision' = IF p < 0 THEN 0 ELSE p
        BY <1>8, Zenon DEF Precision
    <2> HIDE DEF read
    <2>5. precision' \in Int
        <3>1. Widths \subseteq Int
            BY FormatAssumption
        <3> QED
            BY <2>3, <2>4, <3>1
    <2> QED
        BY <1>1, <1>3, <2>1, <2>5
<1>9. ASSUME NEW fs, NEW separator, Write(fs, separator),
             \A i \in DOMAIN fs : IsNumberField(fs[i]) \/ IsTextField(fs[i])
      PROVE  flags' \subseteq Flgs /\ field_width' \in Int /\ precision' \in Int /\ FieldsAreRight'
    <2>1. UNCHANGED <<flags, field_width, precision>>
        BY <1>9 DEF Write
    <2>2. FieldsAreRight'
        BY <1>9, WrittenFieldsAreRight, Zenon
    <2> QED
        BY <1>1, <2>1, <2>2
<1>10. CASE Integer
    <2>1. PICK num \in Numbers :
            Write(<<NumberField(num, Base[Here],
                                IF Here = "p" /\ field_width = -1 THEN 8 ELSE field_width,
                                FlagsFor(Here))>>, <<>>)
        BY <1>10, Zenon DEF Integer
    <2> DEFINE size == IF Here = "p" /\ field_width = -1 THEN 8 ELSE field_width
               f == NumberField(num, Base[Here], size, FlagsFor(Here))
    <2>2. num \in Nat /\ num < UWORD
        BY FormatAssumption
    <2>3. Base[Here] \in {2, 8, 10, 16}
        BY <1>10 DEF Integer, Base
    <2>4. size \in Int
        BY <1>1
    <2>5. "DOUBLE" \notin FlagsFor(Here)
        BY <1>1 DEF FlagsFor
    <2> HIDE DEF size
    <2>6. IsNumberField(f)
        BY <2>2, <2>3, <2>4, <2>5, IntegerField
    <2> HIDE DEF f
    <2>7. \A i \in DOMAIN <<f>> : IsNumberField(<<f>>[i])
        BY <2>6
    <2>8. Write(<<f>>, <<>>)
        BY <2>1, Zenon DEF f, size
    <2> QED
        BY <1>9, <2>7, <2>8, Zenon
<1>11. CASE Double
    <2> DEFINE flgs == flags \cup {"SIGN", "DOUBLE"}
               f(num) == NumberField(num, 10, field_width, flgs)
    <2>1. PICK num \in Doubles : Write(<<f(num)>>, <<>>)
        BY <1>11, Zenon DEF Double
    <2>2. num \in Int
        BY FormatAssumption
    <2>3. /\ f(num).arg = num /\ f(num).base = 10 /\ f(num).size = field_width
          /\ f(num).prec = precision /\ f(num).flags = flgs
          /\ f(num).text = Number(num, 10, field_width, precision, flgs)
        BY Zenon DEF NumberField, Field
    <2>4. "DOUBLE" \in flgs
        OBVIOUS
    <2> HIDE DEF f, flgs
    <2>5. IsNumberField(f(num))
        BY <1>1, <2>2, <2>3, <2>4 DEF IsNumberField
    <2>6. \A i \in DOMAIN <<f(num)>> : IsNumberField(<<f(num)>>[i])
        BY <2>5
    <2> QED
        BY <1>9, <2>1, <2>6, Zenon
<1>12. CASE MacAddress
    <2> DEFINE flgs == flags \cup {"SMALL", "ZEROPAD"}
               fs(bytes) == [i \in 1 .. 6 |-> NumberField(bytes[i], 16, 2, flgs)]
    <2>1. PICK bytes \in Addresses : Write(fs(bytes), <<":">>)
        BY <1>12, Zenon DEF MacAddress
    <2>2. \A i \in 1 .. 6 : bytes[i] \in Nat
        <3>1. bytes \in [1 .. 6 -> 0 .. 255]
            BY FormatAssumption, Zenon
        <3> QED
            BY <3>1
    <2>3. "DOUBLE" \notin flgs /\ "SIGN" \notin flgs
        BY <1>1
    <2> HIDE DEF flgs
    <2>4. \A i \in 1 .. 6 : IsNumberField(NumberField(bytes[i], 16, 2, flgs))
        BY <2>2, <2>3, IntegerField
    <2>5. \A i \in DOMAIN fs(bytes) : IsNumberField(fs(bytes)[i])
        BY <2>4, Zenon
    <2> QED
        BY <1>9, <2>1, <2>5, Zenon
<1>13. CASE IpAddress
    <2> DEFINE flgs == flags \cup {"SMALL"}
               fs(bytes) == [i \in 1 .. 4 |-> NumberField(bytes[i], 10, field_width, flgs)]
    <2>1. PICK bytes \in Addresses : Write(fs(bytes), <<".">>)
        BY <1>13, Zenon DEF IpAddress
    <2>2. \A i \in 1 .. 4 : bytes[i] \in Nat
        <3>1. bytes \in [1 .. 6 -> 0 .. 255]
            BY FormatAssumption, Zenon
        <3> QED
            BY <3>1
    <2>3. "DOUBLE" \notin flgs /\ "SIGN" \notin flgs
        BY <1>1
    <2> HIDE DEF flgs
    <2>4. \A i \in 1 .. 4 : IsNumberField(NumberField(bytes[i], 10, field_width, flgs))
        BY <1>1, <2>2, <2>3, IntegerField
    <2>5. \A i \in DOMAIN fs(bytes) : IsNumberField(fs(bytes)[i])
        BY <2>4, Zenon
    <2> QED
        BY <1>9, <2>1, <2>5, Zenon
<1>14. CASE Text
    <2> DEFINE most(s) == IF Here = "c" THEN 1 ELSE IF precision < 0 THEN Len(s) ELSE precision
               content(s) == SubSeq(s, 1, Min({most(s), Len(s)}))
               blanks(s) == Fill(field_width - Len(content(s)), BLANK)
               f(s) == Field(content(s), 0, field_width, flags,
                             IF "LEFT" \in flags THEN content(s) \o blanks(s)
                             ELSE blanks(s) \o content(s))
    <2>1. PICK s \in Strings : Write(<<f(s)>>, <<>>)
        BY <1>14, Zenon DEF Text
    <2>2. s \in Seq(STRING) /\ Len(s) \in Nat
        BY FormatAssumption
    <2>3. Min({most(s), Len(s)}) \in Int /\ Min({most(s), Len(s)}) <= Len(s)
        <3> DEFINE m == most(s)
        <3>1. m \in Int
            BY <1>1, <2>2
        <3> HIDE DEF m
        <3>2. Min({m, Len(s)}) = IF m <= Len(s) THEN m ELSE Len(s)
            BY <2>2, <3>1, MinOfTwo
        <3> QED
            BY <2>2, <3>1, <3>2 DEF m
    <2>4. content(s) \in Seq(STRING)
        <3> DEFINE n == Min({most(s), Len(s)})
        <3>1. n \in Int /\ n <= Len(s)
            BY <2>3
        <3> HIDE DEF n
        <3>2. \A k \in 1 .. n : k \in 1 .. Len(s)
            BY <2>2, <3>1
        <3>3. \A k \in 1 .. n : s[k] \in STRING
            BY <2>2, <3>2, ElementOfSeq
        <3>4. SubSeq(s, 1, n) \in Seq(STRING)
            BY <2>2, <3>1, <3>3, SubSeqProperties
        <3> QED
            BY <3>4 DEF n
    <2>5. /\ f(s).arg = content(s) /\ f(s).base = 0 /\ f(s).size = field_width
          /\ f(s).flags = flags
          /\ f(s).text = IF "LEFT" \in flags THEN content(s) \o blanks(s)
                         ELSE blanks(s) \o content(s)
        BY Zenon DEF Field
    <2>6. blanks(s) = Fill(field_width - Len(content(s)), BLANK)
        OBVIOUS
    <2> HIDE DEF f, content, blanks
    <2>7. IsTextField(f(s))
        BY <1>1, <2>4, <2>5, <2>6, Zenon DEF IsTextField
    <2>8. \A i \in DOMAIN <<f(s)>> : IsTextField(<<f(s)>>[i])
        BY <2>7
    <2> QED
        BY <1>9, <2>1, <2>8, Zenon
<1> QED
    BY <1>4, <1>5, <1>6, <1>7, <1>8, <1>10, <1>11, <1>12, <1>13, <1>14
    DEF FormatNext

\* A field that vsprintf writes is as wide as the format says or as its content
\* needs, padded on the side that the flags say, and reads back as the number
\* that was meant, for every format string, every argument and every word
\* size: number fills the room that is left from three places of its loop.
THEOREM FieldsAreAlwaysRight == LibrarySpec => []FieldsAreRight
<1>1. LibraryInit => FieldsInv
    BY DEF LibraryInit, FormatInit, FieldsInv, FormatInv, FormatReadOnce, FieldsAreRight
<1>2. FieldsInv /\ [LibraryNext]_<<vars, formatVars>> => FieldsInv'
    BY FieldsInvStep DEF LibraryNext
<1>3. FieldsInv => FieldsAreRight
    BY DEF FieldsInv
<1> QED
    BY <1>1, <1>2, <1>3, PTL DEF LibrarySpec

-----------------------------------------------------------------------------
(* The lists: the pointers are those of sequences *)

\* S gives every list its nodes, each of them in one place.
Chains(S) ==
    /\ S \in [Lists -> Seq(Nodes)]
    /\ \A l, m \in Lists : \A i \in 1 .. Len(S[l]), j \in 1 .. Len(S[m]) :
            S[l][i] = S[m][j] => l = m /\ i = j

\* The node in the i-th place of l, the head being the 0th and the tail the last.
Place(S, l, i) ==
    IF i = 0 THEN HeadOf(l) ELSE IF i = Len(S[l]) + 1 THEN TailOf(l) ELSE S[l][i]

OnList(S, n) == \E l \in Lists : \E i \in 1 .. Len(S[l]) : S[l][i] = n

\* Every place is linked with the next one both ways, and nothing else is linked.
Linked(S) ==
    /\ next \in [All -> All \cup {NULL}] /\ prev \in [All -> All \cup {NULL}]
    /\ \A l \in Lists : \A i \in 0 .. Len(S[l]) :
            /\ next[Place(S, l, i)] = Place(S, l, i + 1)
            /\ prev[Place(S, l, i + 1)] = Place(S, l, i)
    /\ \A n \in Nodes : ~OnList(S, n) => next[n] = NULL /\ prev[n] = NULL
    /\ \A l \in Lists : next[TailOf(l)] = NULL /\ prev[HeadOf(l)] = NULL

\* The pointers are the links of some sequences.
ListInv == \E S : Chains(S) /\ Linked(S)

\* The places of all lists are different nodes, and none is NULL.
LEMMA PlacesApart ==
    ASSUME NEW S, Chains(S), NEW l \in Lists, NEW i \in 0 .. Len(S[l]) + 1
    PROVE  /\ Len(S[l]) \in Nat /\ S[l] \in Seq(Nodes)
           /\ Place(S, l, i) \in All /\ Place(S, l, i) # NULL
           /\ Place(S, l, i) \in Nodes <=> i \in 1 .. Len(S[l])
           /\ i \in 1 .. Len(S[l]) => Place(S, l, i) = S[l][i]
           /\ \A m \in Lists : \A j \in 0 .. Len(S[m]) + 1 :
                Place(S, l, i) = Place(S, m, j) => l = m /\ i = j
<1>1. ASSUME NEW m \in Lists
      PROVE  Len(S[m]) \in Nat /\ S[m] \in Seq(Nodes) /\ \A j \in 1 .. Len(S[m]) : S[m][j] \in Nodes
    <2>1. S[m] \in Seq(Nodes)
        BY DEF Chains
    <2> QED
        BY <2>1, ElementOfSeq
<1>2. ASSUME NEW m \in Lists
      PROVE  /\ HeadOf(m) \in Ends /\ TailOf(m) \in Ends
             /\ \A k \in Lists : /\ HeadOf(k) = HeadOf(m) => k = m
                                 /\ TailOf(k) = TailOf(m) => k = m
                                 /\ HeadOf(k) # TailOf(m)
    BY DEF HeadOf, TailOf, Ends
<1>3. Nodes \cap Ends = {} /\ NULL \notin Nodes /\ NULL \notin Ends
    BY ListAssumption
<1>4. ASSUME NEW m \in Lists, NEW j \in 0 .. Len(S[m]) + 1
      PROVE  \/ j = 0 /\ Place(S, m, j) = HeadOf(m)
             \/ j = Len(S[m]) + 1 /\ Place(S, m, j) = TailOf(m)
             \/ j \in 1 .. Len(S[m]) /\ Place(S, m, j) = S[m][j]
    BY <1>1 DEF Place
<1>5. ASSUME NEW m \in Lists, NEW j \in 0 .. Len(S[m]) + 1, Place(S, l, i) = Place(S, m, j)
      PROVE  l = m /\ i = j
    <2>1. CASE i = 0 /\ Place(S, l, i) = HeadOf(l)
        BY <1>1, <1>2, <1>3, <1>4, <1>5, <2>1
    <2>2. CASE i = Len(S[l]) + 1 /\ Place(S, l, i) = TailOf(l)
        BY <1>1, <1>2, <1>3, <1>4, <1>5, <2>2
    <2>3. CASE i \in 1 .. Len(S[l]) /\ Place(S, l, i) = S[l][i]
        <3>1. j \in 1 .. Len(S[m]) /\ Place(S, m, j) = S[m][j]
            <4>1. Place(S, m, j) \in Nodes
                BY <1>1, <1>5, <2>3
            <4>2. Place(S, m, j) # HeadOf(m) /\ Place(S, m, j) # TailOf(m)
                BY <1>2, <1>3, <4>1
            <4> QED
                BY <1>4, <4>2
        <3> QED
            BY <1>5, <2>3, <3>1 DEF Chains
    <2> QED
        BY <1>4, <2>1, <2>2, <2>3
<1>6. /\ Place(S, l, i) \in All /\ Place(S, l, i) # NULL
      /\ Place(S, l, i) \in Nodes <=> i \in 1 .. Len(S[l])
      /\ i \in 1 .. Len(S[l]) => Place(S, l, i) = S[l][i]
    BY <1>1, <1>2, <1>3, <1>4 DEF All
<1> QED
    BY <1>1, <1>5, <1>6

\* A list has no more elements than there are nodes.
LEMMA ListsAreShort ==
    ASSUME NEW S, Chains(S), NEW l \in Lists
    PROVE  Cardinality(Nodes) \in Nat /\ Len(S[l]) <= Cardinality(Nodes)
<1>1. IsFiniteSet(Nodes) /\ Cardinality(Nodes) \in Nat
    BY ListAssumption, FS_CardinalityType
<1>2. S[l] \in Seq(Nodes) /\ Len(S[l]) \in Nat
    BY DEF Chains
<1>3. S[l] \in Injection(1 .. Len(S[l]), Nodes)
    BY <1>2 DEF Chains, Injection, IsInjective
<1>4. Cardinality(1 .. Len(S[l])) <= Cardinality(Nodes)
    BY <1>1, <1>3, FS_Injection
<1>5. Cardinality(1 .. Len(S[l])) = Len(S[l])
    BY <1>2, FS_Interval
<1> QED
    BY <1>1, <1>4, <1>5

\* Walking along `next` from the head meets the places one by one, and stays
\* at the tail.
LEMMA VisitMeetsPlaces ==
    ASSUME NEW S, Chains(S), Linked(S), NEW l \in Lists,
           NEW i \in 0 .. Cardinality(Nodes) + 1
    PROVE  /\ DOMAIN Visit(l) = 0 .. Cardinality(Nodes) + 1
           /\ Visit(l)[i] = IF i < Len(S[l]) THEN S[l][i + 1] ELSE TailOf(l)
<1> DEFINE N == Cardinality(Nodes)
           len == Len(S[l])
           Turn(path, k) == IF k = 0 THEN next[HeadOf(l)]
                          ELSE IF path[k - 1] \in Nodes THEN next[path[k - 1]] ELSE path[k - 1]
           IsVisit(path) == path = [k \in 0 .. N + 1 |-> Turn(path, k)]
           met == [k \in 0 .. N + 1 |-> IF k < len THEN S[l][k + 1] ELSE TailOf(l)]
<1>1. N \in Nat /\ len \in Nat /\ len <= N
    BY ListsAreShort, PlacesApart
<1>2. ASSUME NEW k \in 0 .. N + 1
      PROVE  met[k] = IF k < len THEN Place(S, l, k + 1) ELSE Place(S, l, len + 1)
    <2>1. CASE k < len
        BY <1>1, <2>1 DEF Place
    <2>2. CASE ~(k < len)
        BY <1>1, <2>2 DEF Place
    <2> QED
        BY <2>1, <2>2
<1>3. \A k \in 0 .. len : next[Place(S, l, k)] = Place(S, l, k + 1)
    BY DEF Linked
<1>4. \A k \in 0 .. len + 1 : Place(S, l, k) \in Nodes <=> k \in 1 .. len
    BY PlacesApart
<1>5. Place(S, l, 0) = HeadOf(l)
    BY DEF Place
<1>6. IsVisit(met)
    <2>1. ASSUME NEW k \in 0 .. N + 1
          PROVE  met[k] = Turn(met, k)
        <3>1. CASE k = 0
            BY <1>1, <1>2, <1>3, <1>5, <3>1
        <3>2. CASE k # 0 /\ k - 1 < len
            <4>1. met[k - 1] = Place(S, l, k) /\ Place(S, l, k) \in Nodes
                BY <1>1, <1>2, <1>4, <3>2
            <4>2. Turn(met, k) = Place(S, l, k + 1)
                BY <1>1, <1>3, <3>2, <4>1
            <4>3. met[k] = Place(S, l, k + 1)
                BY <1>1, <1>2, <3>2
            <4> QED
                BY <4>2, <4>3
        <3>3. CASE k # 0 /\ ~(k - 1 < len)
            <4>1. met[k - 1] = Place(S, l, len + 1) /\ Place(S, l, len + 1) \notin Nodes
                BY <1>1, <1>2, <1>4, <3>3
            <4>2. met[k] = Place(S, l, len + 1)
                BY <1>1, <1>2, <3>3
            <4> QED
                BY <3>3, <4>1, <4>2
        <3> QED
            BY <3>1, <3>2, <3>3
    <2> HIDE DEF Turn
    <2> QED
        BY <2>1
<1>7. ASSUME NEW path, IsVisit(path)
      PROVE  path = met
    <2> DEFINE alike == {k \in 0 .. N + 1 : path[k] = met[k]}
    <2>0. /\ \A k \in 0 .. N + 1 : path[k] = Turn(path, k)
          /\ \A k \in 0 .. N + 1 : met[k] = Turn(met, k)
        <3> HIDE DEF Turn, met
        <3> QED
            BY <1>6, <1>7
    <2> HIDE DEF met
    <2>1. 0 \in alike
        BY <1>1, <2>0
    <2>2. \A k \in 1 .. N + 1 : k - 1 \in alike => k \in alike
        BY <1>1, <2>0
    <2>3. \A k \in 0 .. N + 1 : k \in alike
        <3> HIDE DEF alike
        <3>1. N + 1 \in Nat
            BY <1>1
        <3> QED
            BY <2>1, <2>2, <3>1, BoundedInduction
    <2>4. path = [k \in 0 .. N + 1 |-> path[k]]
        <3> HIDE DEF Turn
        <3> QED
            BY <1>7
    <2>5. met = [k \in 0 .. N + 1 |-> met[k]]
        BY DEF met
    <2> QED
        BY <2>3, <2>4, <2>5
<1>8. Visit(l) = CHOOSE path : IsVisit(path)
    BY DEF Visit
<1> HIDE DEF IsVisit, met
<1>9. Visit(l) = met
    BY <1>6, <1>7, <1>8, Zenon
<1> QED
    BY <1>1, <1>9 DEF met

\* So that the walk is the sequence.
LEMMA WalkIsChain ==
    ASSUME NEW S, Chains(S), Linked(S), NEW l \in Lists
    PROVE  Walk(l) = S[l]
<1> DEFINE N == Cardinality(Nodes)
           len == Len(S[l])
           ends == {i \in DOMAIN Visit(l) : Visit(l)[i] \notin Nodes}
<1>1. N \in Nat /\ len \in Nat /\ len <= N /\ S[l] \in Seq(Nodes)
    BY ListsAreShort, PlacesApart
<1>2. DOMAIN Visit(l) = 0 .. N + 1
    BY <1>1, VisitMeetsPlaces
<1>3. \A i \in 0 .. N + 1 : Visit(l)[i] = IF i < len THEN S[l][i + 1] ELSE TailOf(l)
    BY VisitMeetsPlaces
<1>4. \A i \in 1 .. len : S[l][i] \in Nodes
    BY <1>1, ElementOfSeq
<1>5. TailOf(l) \notin Nodes
    BY ListAssumption DEF Ends
<1>6. ends = len .. N + 1
    BY <1>1, <1>2, <1>3, <1>4, <1>5
<1>7. ListSize(l) = len
    <2>1. ListSize(l) = IF ends = {} THEN N + 1 ELSE Min(ends)
        BY DEF ListSize
    <2>2. ends \in SUBSET Nat /\ ends # {} /\ len \in ends
        BY <1>1, <1>6
    <2>3. Min(ends) \in ends /\ \A k \in ends : Min(ends) <= k
        <3> HIDE DEF ends
        <3> QED
            BY <2>2, MinProperties
    <2> HIDE DEF ends
    <2> QED
        BY <1>1, <1>6, <2>1, <2>2, <2>3
<1>8. Walk(l) = [i \in 1 .. len |-> Visit(l)[i - 1]]
    BY <1>7 DEF Walk
<1>9. \A i \in 1 .. len : Visit(l)[i - 1] = S[l][i]
    BY <1>1, <1>3
<1>10. S[l] = [i \in 1 .. len |-> S[l][i]]
    BY <1>1
<1> QED
    BY <1>8, <1>9, <1>10

\* Every place but the last has a link forward, every place but the first one
\* back, and nothing else is linked.
LEMMA LinksAreOfPlaces ==
    ASSUME NEW S, Chains(S), Linked(S), NEW n \in All
    PROVE  /\ next[n] # NULL => \E l \in Lists : \E i \in 0 .. Len(S[l]) : n = Place(S, l, i)
           /\ prev[n] # NULL => \E l \in Lists : \E i \in 0 .. Len(S[l]) : n = Place(S, l, i + 1)
<1>1. ASSUME NEW l \in Lists
      PROVE  /\ Len(S[l]) \in Nat
             /\ Place(S, l, 0) = HeadOf(l) /\ Place(S, l, Len(S[l]) + 1) = TailOf(l)
    <2>1. Len(S[l]) \in Nat
        BY DEF Chains
    <2> QED
        BY <2>1 DEF Place
<1>2. CASE n \in Nodes /\ OnList(S, n)
    <2>1. PICK l \in Lists : \E i \in 1 .. Len(S[l]) : S[l][i] = n
        BY <1>2 DEF OnList
    <2>2. PICK i \in 1 .. Len(S[l]) : S[l][i] = n
        BY <2>1
    <2>3. Place(S, l, i) = n /\ i \in 0 .. Len(S[l]) /\ i - 1 \in 0 .. Len(S[l])
          /\ i = (i - 1) + 1
        BY <1>1, <2>2 DEF Place
    <2> QED
        BY <2>3
<1>3. CASE n \in Nodes /\ ~OnList(S, n)
    BY <1>3 DEF Linked
<1>4. ASSUME NEW l \in Lists, n = HeadOf(l)
      PROVE  /\ \E i \in 0 .. Len(S[l]) : n = Place(S, l, i)
             /\ prev[n] = NULL
    BY <1>1, <1>4 DEF Linked
<1>5. ASSUME NEW l \in Lists, n = TailOf(l)
      PROVE  /\ next[n] = NULL
             /\ \E i \in 0 .. Len(S[l]) : n = Place(S, l, i + 1)
    BY <1>1, <1>5 DEF Linked
<1> QED
    BY <1>2, <1>3, <1>4, <1>5 DEF All, Ends

\* S with n before what is in the k-th place of l.
Inserted(S, l, k, n) == [S EXCEPT ![l] = InsertAt(S[l], k, n)]

LEMMA InsertedPlaces ==
    ASSUME NEW S, Chains(S), NEW l \in Lists, NEW k \in 1 .. Len(S[l]) + 1,
           NEW n \in Nodes, ~OnList(S, n), NEW T, T = Inserted(S, l, k, n)
    PROVE  /\ T \in [Lists -> Seq(Nodes)] /\ Len(T[l]) = Len(S[l]) + 1
           /\ \A i \in 0 .. Len(S[l]) + 2 :
                /\ i < k => Place(T, l, i) = Place(S, l, i)
                /\ i = k => Place(T, l, i) = n
                /\ i > k => Place(T, l, i) = Place(S, l, i - 1)
           /\ \A m \in Lists \ {l} : T[m] = S[m] /\ \A i : Place(T, m, i) = Place(S, m, i)
           /\ Chains(T)
           /\ \A e : OnList(T, e) <=> OnList(S, e) \/ e = n
<1>1. S \in [Lists -> Seq(Nodes)] /\ S[l] \in Seq(Nodes) /\ Len(S[l]) \in Nat
    BY DEF Chains
<1>2. InsertAt(S[l], k, n) \in Seq(Nodes) /\ IsInsertion(InsertAt(S[l], k, n), S[l], k, n)
    BY <1>1, InsertAtIsInsertion
<1>3. /\ T \in [Lists -> Seq(Nodes)] /\ IsInsertion(T[l], S[l], k, n)
      /\ \A m \in Lists \ {l} : T[m] = S[m]
    BY <1>1, <1>2 DEF Inserted
<1>4. /\ Len(T[l]) = Len(S[l]) + 1
      /\ \A j \in 1 .. Len(S[l]) + 1 : /\ j < k => T[l][j] = S[l][j]
                                       /\ j = k => T[l][j] = n
                                       /\ j > k => T[l][j] = S[l][j - 1]
    BY <1>1, <1>3 DEF IsInsertion
<1>5. ASSUME NEW i \in 0 .. Len(S[l]) + 2
      PROVE  /\ i < k => Place(T, l, i) = Place(S, l, i)
             /\ i = k => Place(T, l, i) = n
             /\ i > k => Place(T, l, i) = Place(S, l, i - 1)
    <2>1. CASE i = 0
        BY <1>1, <2>1 DEF Place
    <2>2. CASE i = Len(S[l]) + 2
        BY <1>1, <1>4, <2>2 DEF Place
    <2>3. CASE i \in 1 .. Len(S[l]) + 1
        BY <1>1, <1>4, <2>3 DEF Place
    <2> QED
        BY <1>1, <2>1, <2>2, <2>3
<1>6. \A m \in Lists \ {l} : \A i : Place(T, m, i) = Place(S, m, i)
    BY <1>3 DEF Place
<1>7. ASSUME NEW m \in Lists, NEW i \in 1 .. Len(T[m])
      PROVE  \/ m # l /\ i \in 1 .. Len(S[m]) /\ T[m][i] = S[m][i]
             \/ m = l /\ i < k /\ i \in 1 .. Len(S[l]) /\ T[m][i] = S[l][i]
             \/ m = l /\ i = k /\ T[m][i] = n
             \/ m = l /\ i > k /\ i - 1 \in 1 .. Len(S[l]) /\ T[m][i] = S[l][i - 1]
    BY <1>1, <1>3, <1>4
<1>8. ASSUME NEW m \in Lists, NEW i \in 1 .. Len(T[m]),
             NEW q \in Lists, NEW j \in 1 .. Len(T[q]), T[m][i] = T[q][j]
      PROVE  m = q /\ i = j
    <2>1. \A p \in Lists : \A h \in 1 .. Len(S[p]) : S[p][h] # n
        BY DEF OnList
    <2>2. \A p, r \in Lists : \A a \in 1 .. Len(S[p]), b \in 1 .. Len(S[r]) :
                S[p][a] = S[r][b] => p = r /\ a = b
        BY DEF Chains
    <2>3. i \in Int /\ j \in Int /\ k \in Int
        BY <1>1
    <2>4. CASE T[m][i] = n
        <3>1. m = l /\ i = k
            BY <1>7, <2>1, <2>4
        <3>2. q = l /\ j = k
            BY <1>7, <1>8, <2>1, <2>4
        <3> QED
            BY <3>1, <3>2
    <2>5. CASE T[m][i] # n
        <3> DEFINE g == IF m = l /\ i > k THEN i - 1 ELSE i
                   h == IF q = l /\ j > k THEN j - 1 ELSE j
        <3>1. g \in 1 .. Len(S[m]) /\ T[m][i] = S[m][g] /\ (m = l => i # k)
            BY <1>7, <2>3, <2>5
        <3>2. h \in 1 .. Len(S[q]) /\ T[q][j] = S[q][h] /\ (q = l => j # k)
            BY <1>7, <1>8, <2>3, <2>5
        <3>3. m = q /\ g = h
            <4> HIDE DEF g, h
            <4>1. S[m][g] = S[q][h]
                BY <1>8, <3>1, <3>2, Zenon
            <4>2. \A a \in 1 .. Len(S[m]), b \in 1 .. Len(S[q]) :
                        S[m][a] = S[q][b] => m = q /\ a = b
                BY <2>2
            <4>3. g \in 1 .. Len(S[m]) /\ h \in 1 .. Len(S[q])
                BY <3>1, <3>2
            <4> QED
                BY <4>1, <4>2, <4>3
        <3> QED
            BY <2>3, <3>1, <3>2, <3>3
    <2> QED
        BY <2>4, <2>5
<1>9. Chains(T)
    BY <1>3, <1>8 DEF Chains
<1>10. ASSUME NEW e
       PROVE  OnList(T, e) <=> OnList(S, e) \/ e = n
    <2>1. ASSUME OnList(T, e)
          PROVE  OnList(S, e) \/ e = n
        BY <1>7, <2>1 DEF OnList
    <2>2. OnList(T, n)
        <3>1. k \in 1 .. Len(T[l]) /\ T[l][k] = n
            BY <1>1, <1>4
        <3> QED
            BY <3>1 DEF OnList
    <2>3. ASSUME OnList(S, e)
          PROVE  OnList(T, e)
        <3>1. PICK m \in Lists : \E i \in 1 .. Len(S[m]) : S[m][i] = e
            BY <2>3 DEF OnList
        <3>2. PICK i \in 1 .. Len(S[m]) : S[m][i] = e
            BY <3>1
        <3>3. \E j \in 1 .. Len(T[m]) : T[m][j] = e
            <4>1. CASE m # l
                BY <1>3, <3>2, <4>1
            <4>2. CASE m = l /\ i < k
                <5>1. i \in 1 .. Len(T[m]) /\ T[m][i] = e
                    BY <1>1, <1>4, <3>2, <4>2
                <5> QED
                    BY <5>1
            <4>3. CASE m = l /\ ~(i < k)
                <5>1. i + 1 \in 1 .. Len(T[m]) /\ T[m][i + 1] = e
                    BY <1>1, <1>4, <3>2, <4>3
                <5> QED
                    BY <5>1
            <4> QED
                BY <4>1, <4>2, <4>3
        <3> QED
            BY <3>3 DEF OnList
    <2> QED
        BY <2>1, <2>2, <2>3
<1> QED
    BY <1>3, <1>4, <1>5, <1>6, <1>9, <1>10

\* Setting the four pointers around n puts it into its place.
LEMMA InsertionLinks ==
    ASSUME NEW S, Chains(S), Linked(S), NEW l \in Lists, NEW k \in 1 .. Len(S[l]) + 1,
           NEW n \in Nodes, ~OnList(S, n), NEW T, T = Inserted(S, l, k, n),
           NEW before, before = Place(S, l, k - 1), NEW after, after = Place(S, l, k),
           next' = [next EXCEPT ![n] = after, ![before] = n],
           prev' = [prev EXCEPT ![n] = before, ![after] = n]
    PROVE  Chains(T) /\ Linked(T)'
<1>1. /\ Chains(T) /\ Len(T[l]) = Len(S[l]) + 1
      /\ \A i \in 0 .. Len(S[l]) + 2 :
            /\ i < k => Place(T, l, i) = Place(S, l, i)
            /\ i = k => Place(T, l, i) = n
            /\ i > k => Place(T, l, i) = Place(S, l, i - 1)
      /\ \A m \in Lists \ {l} : T[m] = S[m] /\ \A i : Place(T, m, i) = Place(S, m, i)
      /\ \A e : OnList(T, e) <=> OnList(S, e) \/ e = n
    BY InsertedPlaces
<1>2. Len(S[l]) \in Nat /\ k \in Nat /\ k - 1 \in 0 .. Len(S[l]) + 1 /\ k \in 0 .. Len(S[l]) + 1
    BY DEF Chains
<1>3. /\ n \in All /\ before \in All /\ after \in All /\ n # NULL
      /\ before # NULL /\ after # NULL
    BY <1>2, PlacesApart, ListAssumption DEF All
<1>4. ASSUME NEW m \in Lists, NEW i \in 0 .. Len(S[m]) + 1
      PROVE  /\ Place(S, m, i) \in All
             /\ Place(S, m, i) # n
             /\ Place(S, m, i) = before => m = l /\ i = k - 1
             /\ Place(S, m, i) = after => m = l /\ i = k
    <2>1. Place(S, m, i) # n
        <3>1. Place(S, m, i) = n => i \in 1 .. Len(S[m]) /\ S[m][i] = n
            BY PlacesApart
        <3> QED
            BY <3>1 DEF OnList
    <2> QED
        BY <1>2, <2>1, PlacesApart
<1>5. /\ next \in [All -> All \cup {NULL}] /\ prev \in [All -> All \cup {NULL}]
      /\ \A m \in Lists : \A i \in 0 .. Len(S[m]) :
            /\ next[Place(S, m, i)] = Place(S, m, i + 1)
            /\ prev[Place(S, m, i + 1)] = Place(S, m, i)
      /\ \A e \in Nodes : ~OnList(S, e) => next[e] = NULL /\ prev[e] = NULL
      /\ \A m \in Lists : next[TailOf(m)] = NULL /\ prev[HeadOf(m)] = NULL
    BY DEF Linked
<1>6. before # n /\ after # n
    BY <1>2, <1>4
<1>7. /\ next' \in [All -> All \cup {NULL}] /\ prev' \in [All -> All \cup {NULL}]
      /\ \A e \in All : next'[e] = IF e = n THEN after ELSE IF e = before THEN n ELSE next[e]
      /\ \A e \in All : prev'[e] = IF e = n THEN before ELSE IF e = after THEN n ELSE prev[e]
    BY <1>3, <1>5, <1>6
<1>8. ASSUME NEW m \in Lists \ {l}, NEW i \in 0 .. Len(T[m])
      PROVE  /\ next'[Place(T, m, i)] = Place(T, m, i + 1)
             /\ prev'[Place(T, m, i + 1)] = Place(T, m, i)
    <2>1. /\ T[m] = S[m] /\ Place(T, m, i) = Place(S, m, i)
          /\ Place(T, m, i + 1) = Place(S, m, i + 1)
        BY <1>1
    <2>2. Len(S[m]) \in Nat /\ i \in 0 .. Len(S[m]) + 1 /\ i + 1 \in 0 .. Len(S[m]) + 1
        BY <1>1 DEF Chains
    <2> QED
        BY <1>4, <1>5, <1>7, <2>1, <2>2
<1>9. ASSUME NEW i \in 0 .. Len(T[l])
      PROVE  /\ next'[Place(T, l, i)] = Place(T, l, i + 1)
             /\ prev'[Place(T, l, i + 1)] = Place(T, l, i)
    <2>0. i \in 0 .. Len(S[l]) + 1 /\ i + 1 \in 0 .. Len(S[l]) + 2
        BY <1>1, <1>2
    <2>1. CASE i < k - 1
        <3>1. Place(T, l, i) = Place(S, l, i) /\ Place(T, l, i + 1) = Place(S, l, i + 1)
            BY <1>1, <1>2, <2>0, <2>1
        <3>2. i \in 0 .. Len(S[l]) /\ i + 1 \in 0 .. Len(S[l]) + 1
            BY <1>2, <2>0, <2>1
        <3>3. /\ Place(S, l, i) \notin {n, before} /\ Place(S, l, i + 1) \notin {n, after}
              /\ Place(S, l, i) \in All /\ Place(S, l, i + 1) \in All
            BY <1>2, <1>4, <2>0, <2>1, <3>2
        <3> QED
            BY <1>5, <1>7, <3>1, <3>2, <3>3
    <2>2. CASE i = k - 1
        <3>1. Place(T, l, i) = before /\ Place(T, l, i + 1) = n
            BY <1>1, <1>2, <2>0, <2>2
        <3> QED
            BY <1>3, <1>6, <1>7, <3>1
    <2>3. CASE i = k
        <3>1. Place(T, l, i) = n /\ Place(T, l, i + 1) = after
            BY <1>1, <1>2, <2>0, <2>3
        <3> QED
            BY <1>3, <1>6, <1>7, <3>1
    <2>4. CASE i > k
        <3>1. Place(T, l, i) = Place(S, l, i - 1) /\ Place(T, l, i + 1) = Place(S, l, i)
            BY <1>1, <1>2, <2>0, <2>4
        <3>2. i - 1 \in 0 .. Len(S[l]) /\ i - 1 \in 0 .. Len(S[l]) + 1 /\ (i - 1) + 1 = i
            BY <1>2, <2>0, <2>4
        <3>3. /\ Place(S, l, i - 1) \notin {n, before} /\ Place(S, l, i) \notin {n, after}
              /\ Place(S, l, i - 1) \in All /\ Place(S, l, i) \in All
            BY <1>2, <1>4, <2>0, <2>4, <3>2
        <3>4. next[Place(S, l, i - 1)] = Place(S, l, i) /\ prev[Place(S, l, i)] = Place(S, l, i - 1)
            BY <1>5, <3>2
        <3> QED
            BY <1>7, <3>1, <3>3, <3>4
    <2> QED
        BY <1>2, <2>0, <2>1, <2>2, <2>3, <2>4
<1>10. ASSUME NEW e \in Nodes, ~OnList(T, e)
       PROVE  next'[e] = NULL /\ prev'[e] = NULL
    <2>1. e # n /\ ~OnList(S, e) /\ e \in All
        BY <1>1, <1>10 DEF All
    <2>2. e # before /\ e # after
        <3>1. ASSUME NEW i \in 0 .. Len(S[l]) + 1
              PROVE  Place(S, l, i) # e
            <4>1. Place(S, l, i) \in Nodes => i \in 1 .. Len(S[l]) /\ Place(S, l, i) = S[l][i]
                BY PlacesApart
            <4> QED
                BY <2>1, <4>1, <1>10 DEF OnList
        <3> QED
            BY <1>2, <3>1
    <2> QED
        BY <1>5, <1>7, <2>1, <2>2
<1>11. ASSUME NEW m \in Lists
       PROVE  next'[TailOf(m)] = NULL /\ prev'[HeadOf(m)] = NULL
    <2>1. Len(S[m]) \in Nat
        BY DEF Chains
    <2>2. HeadOf(m) = Place(S, m, 0) /\ TailOf(m) = Place(S, m, Len(S[m]) + 1)
        BY <2>1 DEF Place
    <2>3. 0 \in 0 .. Len(S[m]) + 1 /\ Len(S[m]) + 1 \in 0 .. Len(S[m]) + 1
        BY <2>1
    <2>4. /\ HeadOf(m) \in All /\ HeadOf(m) # n /\ HeadOf(m) # after
          /\ TailOf(m) \in All /\ TailOf(m) # n /\ TailOf(m) # before
        BY <1>2, <1>4, <2>1, <2>2, <2>3
    <2> QED
        BY <1>5, <1>7, <2>4
<1>12. Linked(T)'
    <2>1. \A m \in Lists : \A i \in 0 .. Len(T[m]) :
            /\ next'[Place(T, m, i)] = Place(T, m, i + 1)
            /\ prev'[Place(T, m, i + 1)] = Place(T, m, i)
        BY <1>8, <1>9
    <2> QED
        BY <1>7, <1>10, <1>11, <2>1 DEF Linked, Place, OnList, HeadOf, TailOf, All, Ends
<1> QED
    BY <1>1, <1>12

\* S without what is in the k-th place of l.
Removed(S, l, k) == [S EXCEPT ![l] = RemoveAt(S[l], k)]

LEMMA RemovedPlaces ==
    ASSUME NEW S, Chains(S), NEW l \in Lists, NEW k \in 1 .. Len(S[l]),
           NEW n, n = S[l][k], NEW T, T = Removed(S, l, k)
    PROVE  /\ T \in [Lists -> Seq(Nodes)] /\ Len(T[l]) = Len(S[l]) - 1
           /\ \A i \in 0 .. Len(S[l]) :
                /\ i < k => Place(T, l, i) = Place(S, l, i)
                /\ i >= k => Place(T, l, i) = Place(S, l, i + 1)
           /\ \A m \in Lists \ {l} : T[m] = S[m] /\ \A i : Place(T, m, i) = Place(S, m, i)
           /\ Chains(T)
           /\ \A e : OnList(S, e) => OnList(T, e) \/ e = n
<1>1. S \in [Lists -> Seq(Nodes)] /\ S[l] \in Seq(Nodes) /\ Len(S[l]) \in Nat
    BY DEF Chains
<1>2. RemoveAt(S[l], k) \in Seq(Nodes) /\ IsRemoval(RemoveAt(S[l], k), S[l], k)
    BY <1>1, RemoveAtIsRemoval
<1>3. /\ T \in [Lists -> Seq(Nodes)] /\ IsRemoval(T[l], S[l], k)
      /\ \A m \in Lists \ {l} : T[m] = S[m]
    BY <1>1, <1>2 DEF Removed
<1>4. /\ Len(T[l]) = Len(S[l]) - 1
      /\ \A j \in 1 .. Len(S[l]) - 1 : /\ j < k => T[l][j] = S[l][j]
                                       /\ j >= k => T[l][j] = S[l][j + 1]
    BY <1>1, <1>3 DEF IsRemoval
<1>5. ASSUME NEW i \in 0 .. Len(S[l])
      PROVE  /\ i < k => Place(T, l, i) = Place(S, l, i)
             /\ i >= k => Place(T, l, i) = Place(S, l, i + 1)
    <2>1. CASE i = 0
        BY <1>1, <2>1 DEF Place
    <2>2. CASE i = Len(S[l])
        BY <1>1, <1>4, <2>2 DEF Place
    <2>3. CASE i \in 1 .. Len(S[l]) - 1
        BY <1>1, <1>4, <2>3 DEF Place
    <2> QED
        BY <1>1, <2>1, <2>2, <2>3
<1>6. \A m \in Lists \ {l} : \A i : Place(T, m, i) = Place(S, m, i)
    BY <1>3 DEF Place
<1>7. ASSUME NEW m \in Lists, NEW i \in 1 .. Len(T[m])
      PROVE  \/ m # l /\ i \in 1 .. Len(S[m]) /\ T[m][i] = S[m][i]
             \/ m = l /\ i < k /\ i \in 1 .. Len(S[l]) /\ T[m][i] = S[l][i]
             \/ m = l /\ i >= k /\ i + 1 \in 1 .. Len(S[l]) /\ T[m][i] = S[l][i + 1]
    BY <1>1, <1>3, <1>4
<1>8. ASSUME NEW m \in Lists, NEW i \in 1 .. Len(T[m]),
             NEW q \in Lists, NEW j \in 1 .. Len(T[q]), T[m][i] = T[q][j]
      PROVE  m = q /\ i = j
    <2>1. \A p, r \in Lists : \A a \in 1 .. Len(S[p]), b \in 1 .. Len(S[r]) :
                S[p][a] = S[r][b] => p = r /\ a = b
        BY DEF Chains
    <2> DEFINE g == IF m = l /\ i >= k THEN i + 1 ELSE i
               h == IF q = l /\ j >= k THEN j + 1 ELSE j
    <2>2. i \in Int /\ j \in Int /\ k \in Int
        BY <1>1
    <2>3. g \in 1 .. Len(S[m]) /\ T[m][i] = S[m][g]
        BY <1>7, <2>2
    <2>4. h \in 1 .. Len(S[q]) /\ T[q][j] = S[q][h]
        BY <1>7, <2>2
    <2>5. m = q /\ g = h
        <3> HIDE DEF g, h
        <3>1. S[m][g] = S[q][h]
            BY <1>8, <2>3, <2>4, Zenon
        <3>2. \A a \in 1 .. Len(S[m]), b \in 1 .. Len(S[q]) :
                    S[m][a] = S[q][b] => m = q /\ a = b
            BY <2>1
        <3>3. g \in 1 .. Len(S[m]) /\ h \in 1 .. Len(S[q])
            BY <2>3, <2>4
        <3> QED
            BY <3>1, <3>2, <3>3
    <2> QED
        BY <2>2, <2>5
<1>9. Chains(T)
    BY <1>3, <1>8 DEF Chains
<1>10. ASSUME NEW e, OnList(S, e), e # n
       PROVE  OnList(T, e)
    <2>1. PICK m \in Lists : \E i \in 1 .. Len(S[m]) : S[m][i] = e
        BY <1>10 DEF OnList
    <2>2. PICK i \in 1 .. Len(S[m]) : S[m][i] = e
        BY <2>1
    <2>3. \E j \in 1 .. Len(T[m]) : T[m][j] = e
        <3>1. CASE m # l
            BY <1>3, <2>2, <3>1
        <3>2. CASE m = l /\ i < k
            <4>1. i \in 1 .. Len(T[m]) /\ T[m][i] = e
                BY <1>1, <1>4, <2>2, <3>2
            <4> QED
                BY <4>1
        <3>3. CASE m = l /\ ~(i < k)
            <4>1. i # k
                BY <1>10, <2>2, <3>3
            <4>2. i - 1 \in 1 .. Len(S[l]) - 1 /\ i - 1 >= k /\ (i - 1) + 1 = i
                BY <1>1, <2>2, <3>3, <4>1
            <4>3. i - 1 \in 1 .. Len(T[m]) /\ T[m][i - 1] = e
                BY <1>4, <2>2, <3>3, <4>2
            <4> QED
                BY <4>3
        <3> QED
            BY <3>1, <3>2, <3>3
    <2> QED
        BY <2>3 DEF OnList
<1> QED
    BY <1>3, <1>4, <1>5, <1>6, <1>9, <1>10

\* Linking its neighbours and clearing its own pointers takes n out.
LEMMA RemovalLinks ==
    ASSUME NEW S, Chains(S), Linked(S), NEW l \in Lists, NEW k \in 1 .. Len(S[l]),
           NEW n, n = S[l][k], ListRemove(n), NEW T, T = Removed(S, l, k)
    PROVE  Chains(T) /\ Linked(T)'
<1> DEFINE before == Place(S, l, k - 1)
           after  == Place(S, l, k + 1)
<1>1. /\ Chains(T) /\ Len(T[l]) = Len(S[l]) - 1
      /\ \A i \in 0 .. Len(S[l]) :
            /\ i < k => Place(T, l, i) = Place(S, l, i)
            /\ i >= k => Place(T, l, i) = Place(S, l, i + 1)
      /\ \A m \in Lists \ {l} : T[m] = S[m] /\ \A i : Place(T, m, i) = Place(S, m, i)
      /\ \A e : OnList(S, e) => OnList(T, e) \/ e = n
    BY RemovedPlaces
<1>2. /\ Len(S[l]) \in Nat /\ k \in Nat /\ k - 1 \in 0 .. Len(S[l]) + 1
      /\ k \in 0 .. Len(S[l]) + 1 /\ k + 1 \in 0 .. Len(S[l]) + 1
    BY DEF Chains
<1>3. n = Place(S, l, k) /\ n \in Nodes
    BY <1>2, PlacesApart
<1>4. ASSUME NEW m \in Lists, NEW i \in 0 .. Len(S[m]) + 1
      PROVE  /\ Place(S, m, i) \in All
             /\ Place(S, m, i) = n => m = l /\ i = k
             /\ Place(S, m, i) = before => m = l /\ i = k - 1
             /\ Place(S, m, i) = after => m = l /\ i = k + 1
    BY <1>2, <1>3, PlacesApart
<1>5. /\ next \in [All -> All \cup {NULL}] /\ prev \in [All -> All \cup {NULL}]
      /\ \A m \in Lists : \A i \in 0 .. Len(S[m]) :
            /\ next[Place(S, m, i)] = Place(S, m, i + 1)
            /\ prev[Place(S, m, i + 1)] = Place(S, m, i)
      /\ \A e \in Nodes : ~OnList(S, e) => next[e] = NULL /\ prev[e] = NULL
      /\ \A m \in Lists : next[TailOf(m)] = NULL /\ prev[HeadOf(m)] = NULL
    BY DEF Linked
<1>6. next[n] = after /\ prev[n] = before
    <2>1. k \in 0 .. Len(S[l]) /\ k - 1 \in 0 .. Len(S[l]) /\ (k - 1) + 1 = k
        BY <1>2
    <2> QED
        BY <1>3, <1>5, <2>1
<1>7. before \in All /\ after \in All /\ n \in All /\ before # n /\ after # n
    BY <1>2, <1>3, <1>4 DEF All
<1> HIDE DEF before, after
<1>8. /\ next' \in [All -> All \cup {NULL}] /\ prev' \in [All -> All \cup {NULL}]
      /\ \A e \in All : next'[e] = IF e = n THEN NULL ELSE IF e = before THEN after ELSE next[e]
      /\ \A e \in All : prev'[e] = IF e = n THEN NULL ELSE IF e = after THEN before ELSE prev[e]
    BY <1>5, <1>6, <1>7 DEF ListRemove
<1>9. ASSUME NEW m \in Lists \ {l}, NEW i \in 0 .. Len(T[m])
      PROVE  /\ next'[Place(T, m, i)] = Place(T, m, i + 1)
             /\ prev'[Place(T, m, i + 1)] = Place(T, m, i)
    <2>1. /\ T[m] = S[m] /\ Place(T, m, i) = Place(S, m, i)
          /\ Place(T, m, i + 1) = Place(S, m, i + 1)
        BY <1>1
    <2>2. Len(S[m]) \in Nat /\ i \in 0 .. Len(S[m]) + 1 /\ i + 1 \in 0 .. Len(S[m]) + 1
        BY <1>1 DEF Chains
    <2> QED
        BY <1>4, <1>5, <1>8, <2>1, <2>2
<1>10. ASSUME NEW i \in 0 .. Len(T[l])
       PROVE  /\ next'[Place(T, l, i)] = Place(T, l, i + 1)
              /\ prev'[Place(T, l, i + 1)] = Place(T, l, i)
    <2>0. i \in 0 .. Len(S[l]) - 1 /\ i \in 0 .. Len(S[l]) /\ i + 1 \in 0 .. Len(S[l])
        BY <1>1, <1>2
    <2>1. CASE i < k - 1
        <3>1. Place(T, l, i) = Place(S, l, i) /\ Place(T, l, i + 1) = Place(S, l, i + 1)
            BY <1>1, <1>2, <2>0, <2>1
        <3>2. i \in 0 .. Len(S[l]) + 1 /\ i + 1 \in 0 .. Len(S[l]) + 1
            BY <1>2, <2>0
        <3>3. /\ Place(S, l, i) \notin {n, before} /\ Place(S, l, i + 1) \notin {n, after}
              /\ Place(S, l, i) \in All /\ Place(S, l, i + 1) \in All
            BY <1>2, <1>4, <2>0, <2>1, <3>2
        <3> QED
            BY <1>5, <1>8, <2>0, <3>1, <3>3
    <2>2. CASE i = k - 1
        <3>1. Place(T, l, i) = before /\ Place(T, l, i + 1) = after
            BY <1>1, <1>2, <2>0, <2>2 DEF before, after
        <3> QED
            BY <1>7, <1>8, <3>1
    <2>3. CASE i >= k
        <3>1. Place(T, l, i) = Place(S, l, i + 1) /\ Place(T, l, i + 1) = Place(S, l, (i + 1) + 1)
            BY <1>1, <1>2, <2>0, <2>3
        <3>2. i + 1 \in 0 .. Len(S[l]) + 1 /\ (i + 1) + 1 \in 0 .. Len(S[l]) + 1
            BY <1>2, <2>0
        <3>3. /\ Place(S, l, i + 1) \notin {n, before}
              /\ Place(S, l, (i + 1) + 1) \notin {n, after}
              /\ Place(S, l, i + 1) \in All /\ Place(S, l, (i + 1) + 1) \in All
            BY <1>2, <1>4, <2>0, <2>3, <3>2
        <3> QED
            BY <1>5, <1>8, <2>0, <3>1, <3>3
    <2> QED
        BY <1>2, <2>0, <2>1, <2>2, <2>3
<1>11. ASSUME NEW e \in Nodes, ~OnList(T, e)
       PROVE  next'[e] = NULL /\ prev'[e] = NULL
    <2>1. e \in All
        BY DEF All
    <2>2. CASE e = n
        BY <1>8, <2>1, <2>2
    <2>3. CASE e # n
        <3>1. ~OnList(S, e)
            BY <1>1, <1>11, <2>3
        <3>2. ASSUME NEW i \in 0 .. Len(S[l]) + 1
              PROVE  Place(S, l, i) # e
            <4>1. Place(S, l, i) \in Nodes => i \in 1 .. Len(S[l]) /\ Place(S, l, i) = S[l][i]
                BY PlacesApart
            <4> QED
                BY <3>1, <4>1 DEF OnList
        <3>3. e # before /\ e # after
            BY <1>2, <3>2 DEF before, after
        <3> QED
            BY <1>5, <1>8, <2>1, <2>3, <3>1, <3>3
    <2> QED
        BY <2>2, <2>3
<1>12. ASSUME NEW m \in Lists
       PROVE  next'[TailOf(m)] = NULL /\ prev'[HeadOf(m)] = NULL
    <2>1. Len(S[m]) \in Nat
        BY DEF Chains
    <2>2. HeadOf(m) = Place(S, m, 0) /\ TailOf(m) = Place(S, m, Len(S[m]) + 1)
        BY <2>1 DEF Place
    <2>3. 0 \in 0 .. Len(S[m]) + 1 /\ Len(S[m]) + 1 \in 0 .. Len(S[m]) + 1
        BY <2>1
    <2>4. HeadOf(m) \in All /\ HeadOf(m) # after /\ TailOf(m) \in All /\ TailOf(m) # before
        BY <1>2, <1>4, <2>1, <2>2, <2>3
    <2> QED
        BY <1>5, <1>8, <2>4
<1>13. Linked(T)'
    <2>1. \A m \in Lists : \A i \in 0 .. Len(T[m]) :
            /\ next'[Place(T, m, i)] = Place(T, m, i + 1)
            /\ prev'[Place(T, m, i + 1)] = Place(T, m, i)
        BY <1>9, <1>10
    <2> QED
        BY <1>8, <1>11, <1>12, <2>1 DEF Linked, Place, OnList, HeadOf, TailOf, All, Ends
<1> QED
    BY <1>1, <1>13

\* The sequences that the walks along the lists yield.
Seqs == [l \in Lists |-> Walk(l)]

LEMMA SeqsAreChains ==
    ASSUME NEW S, Chains(S), Linked(S)
    PROVE  Seqs = S
<1>1. S = [l \in Lists |-> S[l]]
    BY DEF Chains
<1> QED
    BY <1>1, WalkIsChain DEF Seqs

\* A step of the users does to the sequences what the abstract lists do.
StepTo(S, T) ==
    \/ \E l \in Lists, n \in Nodes : \E k \in 1 .. Len(S[l]) + 1 :
        /\ ~OnList(S, n)
        /\ T = Inserted(S, l, k, n)
        /\ \/ k = 1
           \/ k = Len(S[l]) + 1
           \/ LET larger == {i \in DOMAIN S[l] : Key[S[l][i]] > Key[n]}
              IN  k = IF larger = {} THEN Len(S[l]) + 1 ELSE Min(larger)
    \/ \E l \in Lists : \E k \in 1 .. Len(S[l]) : T = Removed(S, l, k)

\* The three ways of inserting link n in at one place of the list.
LEMMA InsertionsStep ==
    ASSUME NEW S, Chains(S), Linked(S), NEW l \in Lists, NEW n \in Nodes, Unlinked(n),
           ListPush(l, n) \/ ListPushBack(l, n) \/ ListInsertSort(l, n)
    PROVE  \E T : Chains(T) /\ Linked(T)' /\ StepTo(S, T)
<1>1. Len(S[l]) \in Nat /\ S[l] \in Seq(Nodes) /\ Walk(l) = S[l]
    BY WalkIsChain DEF Chains
<1>2. \A i \in 0 .. Len(S[l]) :
        /\ next[Place(S, l, i)] = Place(S, l, i + 1)
        /\ prev[Place(S, l, i + 1)] = Place(S, l, i)
    BY DEF Linked
<1>3. ~OnList(S, n)
    <2> SUFFICES ASSUME OnList(S, n)
                 PROVE  FALSE
        OBVIOUS
    <2>1. PICK m \in Lists : \E i \in 1 .. Len(S[m]) : S[m][i] = n
        BY DEF OnList
    <2>2. PICK i \in 1 .. Len(S[m]) : S[m][i] = n
        BY <2>1
    <2>3. /\ i \in 0 .. Len(S[m]) /\ i \in 0 .. Len(S[m]) + 1 /\ i + 1 \in 0 .. Len(S[m]) + 1
          /\ Place(S, m, i) = n
        BY <2>2 DEF Place, Chains
    <2>4. next[n] = Place(S, m, i + 1) /\ Place(S, m, i + 1) # NULL
        BY <2>3, PlacesApart DEF Linked
    <2> QED
        BY <2>4 DEF Unlinked
<1>4. ASSUME NEW k \in 1 .. Len(S[l]) + 1,
             \/ InsertBefore(Place(S, l, k), n)
             \/ InsertAfter(Place(S, l, k - 1), n)
      PROVE  Chains(Inserted(S, l, k, n)) /\ Linked(Inserted(S, l, k, n))'
    <2>1. /\ next[Place(S, l, k - 1)] = Place(S, l, k)
          /\ prev[Place(S, l, k)] = Place(S, l, k - 1)
        <3>1. k - 1 \in 0 .. Len(S[l]) /\ (k - 1) + 1 = k
            BY <1>1
        <3> QED
            BY <1>2, <3>1
    <2>2. /\ next' = [next EXCEPT ![n] = Place(S, l, k), ![Place(S, l, k - 1)] = n]
          /\ prev' = [prev EXCEPT ![n] = Place(S, l, k - 1), ![Place(S, l, k)] = n]
        BY <1>4, <2>1 DEF InsertBefore, InsertAfter
    <2> QED
        BY <1>3, <2>2, InsertionLinks
<1>5. CASE ListPush(l, n)
    <2>1. 1 \in 1 .. Len(S[l]) + 1 /\ Place(S, l, 1 - 1) = HeadOf(l)
        BY <1>1 DEF Place
    <2>2. Chains(Inserted(S, l, 1, n)) /\ Linked(Inserted(S, l, 1, n))'
        BY <1>4, <1>5, <2>1 DEF ListPush
    <2>3. StepTo(S, Inserted(S, l, 1, n))
        BY <1>3, <2>1 DEF StepTo
    <2> QED
        BY <2>2, <2>3
<1>6. CASE ListPushBack(l, n)
    <2> DEFINE k == Len(S[l]) + 1
    <2>1. k \in 1 .. Len(S[l]) + 1 /\ Place(S, l, k) = TailOf(l)
        BY <1>1 DEF Place
    <2>2. Chains(Inserted(S, l, k, n)) /\ Linked(Inserted(S, l, k, n))'
        BY <1>4, <1>6, <2>1 DEF ListPushBack
    <2>3. StepTo(S, Inserted(S, l, k, n))
        BY <1>3, <2>1 DEF StepTo
    <2> QED
        BY <2>2, <2>3
<1>7. CASE ListInsertSort(l, n)
    <2> DEFINE larger == {i \in DOMAIN S[l] : Key[S[l][i]] > Key[n]}
               k == IF larger = {} THEN Len(S[l]) + 1 ELSE Min(larger)
    <2>1. k \in 1 .. Len(S[l]) + 1 /\ Place(S, l, k) = SortAnchor(l, n)
        <3>1. SortAnchor(l, n) = IF larger = {} THEN TailOf(l) ELSE S[l][Min(larger)]
            BY <1>1 DEF SortAnchor
        <3>2. larger \subseteq 1 .. Len(S[l]) /\ larger \in SUBSET Nat
            BY <1>1
        <3> HIDE DEF larger
        <3>3. CASE larger = {}
            BY <1>1, <3>1, <3>3 DEF Place
        <3>4. CASE larger # {}
            <4>1. Min(larger) \in 1 .. Len(S[l])
                BY <3>2, <3>4, MinProperties
            <4> QED
                BY <1>1, <3>1, <3>4, <4>1 DEF Place
        <3> QED
            BY <3>3, <3>4
    <2>2. Chains(Inserted(S, l, k, n)) /\ Linked(Inserted(S, l, k, n))'
        <3> HIDE DEF k
        <3> QED
            BY <1>4, <1>7, <2>1 DEF ListInsertSort
    <2>3. StepTo(S, Inserted(S, l, k, n))
        <3>1. k = LET wider == {i \in DOMAIN S[l] : Key[S[l][i]] > Key[n]}
                  IN  IF wider = {} THEN Len(S[l]) + 1 ELSE Min(wider)
            OBVIOUS
        <3> HIDE DEF k
        <3> QED
            BY <1>3, <2>1, <3>1 DEF StepTo
    <2> QED
        BY <2>2, <2>3
<1> QED
    BY <1>5, <1>6, <1>7

\* Removing a node, the first and the last among them.
LEMMA RemovalsStep ==
    ASSUME NEW S, Chains(S), Linked(S), NEW n \in All,
           ListRemove(n)
    PROVE  \E T : Chains(T) /\ Linked(T)' /\ StepTo(S, T)
<1>1. prev[n] # NULL /\ next[n] # NULL
    BY DEF ListRemove
<1>2. PICK l \in Lists : \E i \in 0 .. Len(S[l]) : n = Place(S, l, i)
    BY <1>1, LinksAreOfPlaces
<1>3. PICK i \in 0 .. Len(S[l]) : n = Place(S, l, i)
    BY <1>2
<1>4. i \in 1 .. Len(S[l])
    <2>1. Len(S[l]) \in Nat
        BY DEF Chains
    <2>2. i = 0 => prev[n] = NULL
        BY <1>3 DEF Place, Linked
    <2> QED
        BY <1>1, <2>1, <2>2
<1>5. n = S[l][i]
    BY <1>3, <1>4 DEF Place, Chains
<1>6. Chains(Removed(S, l, i)) /\ Linked(Removed(S, l, i))'
    BY <1>4, <1>5, RemovalLinks
<1>7. StepTo(S, Removed(S, l, i))
    BY <1>4 DEF StepTo
<1> QED
    BY <1>6, <1>7

LEMMA ListStep ==
    ASSUME NEW S, Chains(S), Linked(S), [Next]_vars
    PROVE  \E T : Chains(T) /\ Linked(T)' /\ (T = S \/ StepTo(S, T))
<1>1. CASE UNCHANGED vars
    <2>1. Linked(S)'
        BY <1>1 DEF vars, Linked, Place, OnList
    <2> QED
        BY <2>1
<1>2. ASSUME NEW l \in Lists, NEW n \in Nodes, Unlinked(n),
             ListPush(l, n) \/ ListPushBack(l, n) \/ ListInsertSort(l, n)
      PROVE  \E T : Chains(T) /\ Linked(T)' /\ StepTo(S, T)
    BY <1>2, InsertionsStep
<1>3. ASSUME NEW n \in Nodes, ListRemove(n)
      PROVE  \E T : Chains(T) /\ Linked(T)' /\ StepTo(S, T)
    BY <1>3, RemovalsStep DEF All
<1>4. ASSUME NEW l \in Lists, ListPop(l) \/ ListPopBack(l)
      PROVE  \E T : Chains(T) /\ Linked(T)' /\ StepTo(S, T)
    <2>1. /\ HeadOf(l) = Place(S, l, 0) /\ TailOf(l) = Place(S, l, Len(S[l]) + 1)
          /\ 0 \in 0 .. Len(S[l]) /\ Len(S[l]) \in 0 .. Len(S[l])
          /\ Len(S[l]) \in 0 .. Len(S[l]) + 1 /\ 0 + 1 \in 0 .. Len(S[l]) + 1
        BY DEF Place, Chains
    <2>2. next[HeadOf(l)] = Place(S, l, 0 + 1) /\ prev[TailOf(l)] = Place(S, l, Len(S[l]))
        BY <2>1 DEF Linked
    <2>3. next[HeadOf(l)] \in All /\ prev[TailOf(l)] \in All
        BY <2>1, <2>2, PlacesApart
    <2> QED
        BY <1>4, <2>3, RemovalsStep DEF ListPop, ListPopBack
<1> QED
    BY <1>1, <1>2, <1>3, <1>4 DEF Next

LEMMA ListInit ==
    ASSUME Init
    PROVE  Chains([l \in Lists |-> <<>>]) /\ Linked([l \in Lists |-> <<>>])
<1> DEFINE S == [l \in Lists |-> <<>>]
<1>1. \A l \in Lists : S[l] = <<>> /\ Len(S[l]) = 0 /\ S[l] \in Seq(Nodes)
    OBVIOUS
<1>2. Chains(S)
    BY <1>1 DEF Chains
<1>3. \A l \in Lists : Place(S, l, 0) = HeadOf(l) /\ Place(S, l, 1) = TailOf(l)
    BY <1>1 DEF Place
<1>4. ASSUME NEW l \in Lists
      PROVE  /\ HeadOf(l) \in All /\ TailOf(l) \in All
             /\ HeadOf(l)[2] = l /\ TailOf(l)[2] = l
             /\ \A m \in Lists : HeadOf(l) # TailOf(m)
    BY DEF HeadOf, TailOf, All, Ends
<1>5. \A n \in Nodes : n \in All /\ \A l \in Lists : n # HeadOf(l) /\ n # TailOf(l)
    BY ListAssumption DEF All, Ends
<1>6. /\ \A l \in Lists : next[HeadOf(l)] = TailOf(l) /\ prev[TailOf(l)] = HeadOf(l)
      /\ \A l \in Lists : next[TailOf(l)] = NULL /\ prev[HeadOf(l)] = NULL
      /\ \A n \in Nodes : next[n] = NULL /\ prev[n] = NULL
    BY <1>4, <1>5 DEF Init
<1>7. /\ next \in [All -> All \cup {NULL}] /\ prev \in [All -> All \cup {NULL}]
    BY <1>4 DEF Init
<1> HIDE DEF S
<1>8. Linked(S)
    <2>1. \A l \in Lists : \A i \in 0 .. Len(S[l]) : i = 0
        BY <1>1
    <2> QED
        BY <1>3, <1>6, <1>7, <2>1 DEF Linked
<1> QED
    BY <1>2, <1>8 DEF S

\* At all times the pointers are the links of some sequences, each node being in
\* one of them at most: the inductive invariant behind the two theorems below.
THEOREM ListInvariant == Spec => []ListInv
<1>1. Init => ListInv
    BY ListInit DEF ListInv
<1>2. ListInv /\ [Next]_vars => ListInv'
    <2> SUFFICES ASSUME ListInv, [Next]_vars
                 PROVE  ListInv'
        OBVIOUS
    <2>1. PICK S : Chains(S) /\ Linked(S)
        BY DEF ListInv
    <2>2. PICK T : Chains(T) /\ Linked(T)'
        BY <2>1, ListStep
    <2> QED
        BY <2>2 DEF ListInv, Chains
<1> QED
    BY <1>1, <1>2, PTL DEF Spec

\* The pointers of every list are a chain with an inverse for each link, and
\* no node lies outside of the chains, over any sequence of insertions at both
\* ends and in order and of removals that do not know the list of their node.
THEOREM ListsAreWellLinked == Spec => []WellLinked
<1>1. ListInv => WellLinked
    <2> SUFFICES ASSUME ListInv
                 PROVE  WellLinked
        OBVIOUS
    <2>1. PICK S : Chains(S) /\ Linked(S)
        BY DEF ListInv
    <2>2. ASSUME NEW n \in All
          PROVE  /\ next[n] # NULL => prev[next[n]] = n
                 /\ prev[n] # NULL => next[prev[n]] = n
        BY <2>1, LinksAreOfPlaces DEF Linked
    <2>3. ASSUME NEW n \in Nodes
          PROVE  /\ next[n] = NULL <=> prev[n] = NULL
                 /\ next[n] # NULL => \E l \in Lists : ListSearch(l, n)
        <3>1. CASE OnList(S, n)
            <4>1. PICK l \in Lists : \E i \in 1 .. Len(S[l]) : S[l][i] = n
                BY <3>1 DEF OnList
            <4>2. PICK i \in 1 .. Len(S[l]) : S[l][i] = n
                BY <4>1
            <4>3. /\ Len(S[l]) \in Nat /\ i \in 0 .. Len(S[l]) /\ i - 1 \in 0 .. Len(S[l])
                  /\ i - 1 \in 0 .. Len(S[l]) + 1 /\ i + 1 \in 0 .. Len(S[l]) + 1
                  /\ (i - 1) + 1 = i /\ n = Place(S, l, i)
                BY <2>1, <4>2 DEF Place, Chains
            <4>4. next[n] = Place(S, l, i + 1) /\ prev[n] = Place(S, l, i - 1)
                BY <2>1, <4>3 DEF Linked
            <4>5. next[n] # NULL /\ prev[n] # NULL
                BY <2>1, <4>3, <4>4, PlacesApart
            <4>6. Walk(l) = S[l] /\ DOMAIN S[l] = 1 .. Len(S[l])
                BY <2>1, WalkIsChain DEF Chains
            <4>7. ListSearch(l, n)
                BY <4>2, <4>6 DEF ListSearch
            <4> QED
                BY <4>5, <4>7
        <3>2. CASE ~OnList(S, n)
            BY <2>1, <3>2 DEF Linked
        <3> QED
            BY <3>1, <3>2
    <2> QED
        BY <2>2, <2>3 DEF WellLinked
<1> QED
    BY <1>1, ListInvariant, PTL

\* What the users see of the abstract lists in a step.
LEMMA StepIsAbstract ==
    ASSUME NEW S, Chains(S), NEW T, Chains(T), Seqs = S, Seqs' = T, StepTo(S, T)
    PROVE  Abstract!Next
<1>1. [l \in Lists |-> Walk(l)] = S /\ [l \in Lists |-> Walk(l)]' = T
    BY DEF Seqs
<1>2. \A l \in Lists : S[l] \in Seq(Nodes) /\ DOMAIN S[l] = 1 .. Len(S[l])
    BY DEF Chains
<1>3. ASSUME NEW l \in Lists, NEW n \in Nodes, NEW k \in 1 .. Len(S[l]) + 1,
             ~OnList(S, n), T = Inserted(S, l, k, n)
      PROVE  Abstract!InsertAtPos(l, k, n)
    <2>1. Abstract!Unlinked(n)
        BY <1>1, <1>2, <1>3 DEF Abstract!Unlinked, Abstract!ToSet, OnList
    <2>2. T = [S EXCEPT ![l] = Abstract!InsertAt(S[l], k, n)]
        BY <1>3 DEF Inserted, InsertAt, Abstract!InsertAt
    <2> QED
        BY <1>1, <2>1, <2>2 DEF Abstract!InsertAtPos
<1>4. ASSUME NEW l \in Lists, NEW k \in 1 .. Len(S[l]), T = Removed(S, l, k)
      PROVE  Abstract!Next
    <2>1. S[l][k] \in Nodes
        BY <1>2, ElementOfSeq
    <2>2. T = [S EXCEPT ![l] = Abstract!RemoveAt(S[l], k)]
        BY <1>4 DEF Removed, RemoveAt, Abstract!RemoveAt
    <2>3. Abstract!Unlink(S[l][k])
        BY <1>1, <1>2, <2>2 DEF Abstract!Unlink
    <2> QED
        BY <2>1, <2>3 DEF Abstract!Next
<1>5. ASSUME NEW l \in Lists, NEW n \in Nodes, NEW k \in 1 .. Len(S[l]) + 1,
             ~OnList(S, n), T = Inserted(S, l, k, n),
             \/ k = 1
             \/ k = Len(S[l]) + 1
             \/ LET larger == {i \in DOMAIN S[l] : Key[S[l][i]] > Key[n]}
                IN  k = IF larger = {} THEN Len(S[l]) + 1 ELSE Min(larger)
      PROVE  Abstract!Next
    <2>1. Abstract!InsertAtPos(l, k, n)
        BY <1>3, <1>5
    <2>2. CASE k = 1
        BY <2>1, <2>2 DEF Abstract!Next, Abstract!Push
    <2>3. CASE k = Len(S[l]) + 1
        BY <1>1, <2>1, <2>3 DEF Abstract!Next, Abstract!PushBack
    <2>4. CASE LET larger == {i \in DOMAIN S[l] : Key[S[l][i]] > Key[n]}
               IN  k = IF larger = {} THEN Len(S[l]) + 1 ELSE Min(larger)
        BY <1>1, <2>1, <2>4 DEF Abstract!Next, Abstract!InsertSort, Min, Abstract!Min
    <2> QED
        BY <1>5, <2>2, <2>3, <2>4
<1> QED
    BY <1>4, <1>5 DEF StepTo

\* The linked lists implement sequences without duplicates: what the scheduler
\* and the mutex, which use them so, rely on.
THEOREM ListsAreSequences == Spec => ImplementsSequences
<1>1. Init => Abstract!Init
    BY ListInit, SeqsAreChains DEF Abstract!Init, Seqs
<1>2. \A S : Chains(S) /\ Linked(S) => Seqs = S
    BY SeqsAreChains
<1>3. (\A S : Chains(S) /\ Linked(S) => Seqs = S)'
    BY <1>2, PTL
<1>4. ListInv /\ [Next]_vars => [Abstract!Next]_Seqs
    <2> SUFFICES ASSUME ListInv, [Next]_vars
                 PROVE  Abstract!Next \/ Seqs' = Seqs
        OBVIOUS
    <2>1. PICK S : Chains(S) /\ Linked(S)
        BY DEF ListInv
    <2>2. PICK T : Chains(T) /\ Linked(T)' /\ (T = S \/ StepTo(S, T))
        BY <2>1, ListStep
    <2>3. Seqs = S
        BY <1>2, <2>1
    <2>4. Seqs' = T
        BY <1>3, <2>2 DEF Chains
    <2>5. CASE T = S
        BY <2>3, <2>4, <2>5
    <2>6. CASE StepTo(S, T)
        BY <2>1, <2>2, <2>3, <2>4, <2>6, StepIsAbstract
    <2> QED
        BY <2>2, <2>5, <2>6
<1> QED
    BY <1>1, <1>4, ListInvariant, PTL DEF Spec, ImplementsSequences, Abstract!Spec, Seqs

LEMMA LibraryHasLists == LibrarySpec => Spec
<1>1. LibraryInit => Init
    BY DEF LibraryInit
<1>2. [LibraryNext]_<<vars, formatVars>> => [Next]_vars
    BY DEF LibraryNext
<1> QED
    BY <1>1, <1>2, PTL DEF LibrarySpec, Spec

\* Both hold of the lists beside vsprintf.
THEOREM ListsBesideFormat == LibrarySpec => []WellLinked /\ ImplementsSequences
BY LibraryHasLists, ListsAreWellLinked, ListsAreSequences

=============================================================================
