----------------------------- MODULE RtcProofs -----------------------------
(***************************************************************************)
(* mktime counts the seconds since 1970 on every date of its range, as the *)
(* sums of the days of the years and months do; nothing disturbs the CMOS  *)
(* index or the global century, and no interrupt finds its handler         *)
(* missing, while kernel_init and rtc_handler run beside the chip          *)
(* (BootInv); what they read and carry by hand is the alarm of the next    *)
(* second (RegisterInv); every interrupt is ended where it is in service   *)
(* (ServiceInv); and a time that is read is that of one second             *)
(* (SnapshotInv).                                                          *)
(***************************************************************************)
EXTENDS Rtc, KernelLemmas

(* The calendar *)

\* The days since 1970, as mktime counts them.
Days(d) == 365 * SinceEpoch(d) + (SinceEpoch(d) + 1) \div 4 + GetYday(d) - 1

LEMMA DateFields ==
    ASSUME NEW d, IsDate(d)
    PROVE  /\ d \in Dates
           /\ d.year \in 0 .. 99 /\ d.mon \in 1 .. 12 /\ d.mday \in 1 .. 31
           /\ d.mday <= DaysIn(d.mon, d.year)
           /\ d.hour \in 0 .. 23 /\ d.min \in 0 .. 59 /\ d.sec \in 0 .. 59
BY DEF IsDate, Dates

\* Setting a field of a date, one at a time.
LEMMA SetField ==
    ASSUME NEW d \in Dates
    PROVE  /\ \A x \in 0 .. 99 : [d EXCEPT !.year = x] \in Dates
           /\ \A x \in 1 .. 12 : [d EXCEPT !.mon = x] \in Dates
           /\ \A x \in 1 .. 31 : [d EXCEPT !.mday = x] \in Dates
           /\ \A x \in 0 .. 23 : [d EXCEPT !.hour = x] \in Dates
           /\ \A x \in 0 .. 59 : [d EXCEPT !.min = x] \in Dates
           /\ \A x \in 0 .. 59 : [d EXCEPT !.sec = x] \in Dates
<1>1. \A x \in 0 .. 99 : [d EXCEPT !.year = x] \in Dates
    BY DEF Dates
<1>2. \A x \in 1 .. 12 : [d EXCEPT !.mon = x] \in Dates
    BY DEF Dates
<1>3. \A x \in 1 .. 31 : [d EXCEPT !.mday = x] \in Dates
    BY DEF Dates
<1>4. \A x \in 0 .. 23 : [d EXCEPT !.hour = x] \in Dates
    BY DEF Dates
<1>5. \A x \in 0 .. 59 : [d EXCEPT !.min = x] \in Dates
    BY DEF Dates
<1>6. \A x \in 0 .. 59 : [d EXCEPT !.sec = x] \in Dates
    BY DEF Dates
<1> QED
    BY <1>1, <1>2, <1>3, <1>4, <1>5, <1>6

\* The length of a month of a leap year is the difference of two entries.
LEMMA MonthTable ==
    /\ \A m \in 1 .. 12 : month[m] \in Nat
    /\ \A m \in 1 .. 11 :
            month[m + 1] = month[m] + DaysIn(m, 0)
    /\ month[1] = 0 /\ month[12] = 335
BY DEF month, DaysIn, IsLeap

LEMMA SinceEpochRange ==
    ASSUME NEW d, IsDate(d)
    PROVE  /\ SinceEpoch(d) \in 0 .. 99
           /\ (SinceEpoch(d) + 2) % 4 = 0 <=> IsLeap(d.year)
           /\ SinceEpoch(d) = 99 <=> d.year = 69
BY DateFields DEF SinceEpoch, IsLeap

LEMMA DaysRange ==
    ASSUME NEW d, IsDate(d)
    PROVE  GetYday(d) \in Int /\ Days(d) \in Int
<1>1. month[d.mon] \in Int /\ d.mday \in Int
    BY DateFields, MonthTable
<1>2. GetYday(d) \in Int
    BY <1>1 DEF GetYday
<1> QED
    BY <1>2, SinceEpochRange DEF Days

\* mktime's terms, put together.
LEMMA MkTimeByDays ==
    ASSUME NEW d, IsDate(d)
    PROVE  MkTime(d) = 86400 * Days(d) + 3600 * d.hour + 60 * d.min + d.sec
<1>1. /\ SinceEpoch(d) \in Int /\ (SinceEpoch(d) + 1) \div 4 \in Int
      /\ GetYday(d) \in Int
      /\ d.hour \in Int /\ d.min \in Int /\ d.sec \in Int
    BY DateFields, SinceEpochRange, DaysRange
<1>2. DAY = 86400 /\ YEAR = 31536000 /\ HOUR = 3600 /\ MINUTE = 60
    BY DEF DAY, HOUR, MINUTE, YEAR
<1> QED
    BY <1>1, <1>2 DEF MkTime, Days

\* Within a month.
LEMMA DayWithinMonth ==
    ASSUME NEW d, IsDate(d), d.mday < DaysIn(d.mon, d.year)
    PROVE  IsDate(NextDay(d)) /\ Days(NextDay(d)) = Days(d) + 1
<1> DEFINE e == [d EXCEPT !.mday = @ + 1]
<1>1. NextDay(d) = e
    BY DEF NextDay
<1>2. /\ e.mday = d.mday + 1 /\ e.mon = d.mon /\ e.year = d.year
      /\ e.hour = d.hour /\ e.min = d.min /\ e.sec = d.sec
      /\ e \in Dates
    BY DateFields DEF Dates, DaysIn
<1> HIDE DEF e
<1>3. IsDate(e)
    BY <1>2, DateFields DEF IsDate, DaysIn
<1>4. SinceEpoch(e) = SinceEpoch(d) /\ GetYday(e) = GetYday(d) + 1
    BY <1>2, DateFields, MonthTable DEF SinceEpoch, GetYday, LeapDayMissing
<1> QED
    BY <1>1, <1>3, <1>4, DaysRange, SinceEpochRange DEF Days

\* From one month to the next: the table counts a 29th of February, which is
\* taken off again in March of a common year.
LEMMA DayAfterMonth ==
    ASSUME NEW d, IsDate(d), d.mday = DaysIn(d.mon, d.year), d.mon < 12
    PROVE  IsDate(NextDay(d)) /\ Days(NextDay(d)) = Days(d) + 1
<1> DEFINE e == [d EXCEPT !.mday = 1, !.mon = @ + 1]
<1>1. NextDay(d) = e
    BY DateFields DEF NextDay, DaysIn
<1>2. /\ e.mday = 1 /\ e.mon = d.mon + 1 /\ e.year = d.year
      /\ e.hour = d.hour /\ e.min = d.min /\ e.sec = d.sec
    BY DateFields DEF Dates
<1>0. e \in Dates
    <2>1. d.mon + 1 \in 1 .. 12 /\ 1 \in 1 .. 31 /\ d \in Dates
        BY DateFields
    <2>2. e = [[d EXCEPT !.mday = 1] EXCEPT !.mon = d.mon + 1]
        BY <2>1
    <2>3. [d EXCEPT !.mday = 1] \in Dates
        BY <2>1, SetField
    <2> QED
        BY <2>1, <2>2, <2>3, SetField
<1> HIDE DEF e
<1>3. IsDate(e)
    BY <1>0, <1>2, DateFields DEF IsDate, DaysIn
<1>4. SinceEpoch(e) = SinceEpoch(d)
    BY <1>2 DEF SinceEpoch
<1>5. GetYday(e) = GetYday(d) + 1
    <2>1. month[d.mon + 1] = month[d.mon] + DaysIn(d.mon, 0) /\ month[d.mon] \in Int
        BY DateFields, MonthTable
    <2>2. LeapDayMissing(e) <=> d.mon >= 2 /\ ~IsLeap(d.year)
        BY <1>2, <1>4, DateFields, SinceEpochRange DEF LeapDayMissing
    <2>3. LeapDayMissing(d) <=> d.mon > 2 /\ ~IsLeap(d.year)
        BY SinceEpochRange DEF LeapDayMissing
    <2>4. /\ d.mon # 2 => DaysIn(d.mon, 0) = d.mday
          /\ d.mon = 2 => DaysIn(d.mon, 0) = IF IsLeap(d.year) THEN d.mday ELSE d.mday + 1
        BY DateFields DEF DaysIn, IsLeap
    <2> QED
        BY <1>2, <2>1, <2>2, <2>3, <2>4, DateFields DEF GetYday
<1> QED
    BY <1>1, <1>3, <1>4, <1>5, DaysRange, SinceEpochRange DEF Days

\* From one year to the next.
LEMMA DayAfterYear ==
    ASSUME NEW d, IsDate(d), d.mday = DaysIn(d.mon, d.year), d.mon = 12, d.year # 69
    PROVE  IsDate(NextDay(d)) /\ Days(NextDay(d)) = Days(d) + 1
<1> DEFINE e == [d EXCEPT !.mday = 1, !.mon = 1, !.year = (@ + 1) % 100]
<1>1. NextDay(d) = e
    BY DateFields DEF NextDay, DaysIn
<1>2. /\ e.mday = 1 /\ e.mon = 1 /\ e.year = (d.year + 1) % 100
      /\ e.hour = d.hour /\ e.min = d.min /\ e.sec = d.sec
    BY DateFields DEF Dates
<1>0. e \in Dates
    <2>1. /\ (d.year + 1) % 100 \in 0 .. 99 /\ d \in Dates
          /\ 1 \in 1 .. 31 /\ 1 \in 1 .. 12
        BY DateFields
    <2>2. e = [[[d EXCEPT !.mday = 1] EXCEPT !.mon = 1]
                    EXCEPT !.year = (d.year + 1) % 100]
        BY <2>1
    <2>3. [d EXCEPT !.mday = 1] \in Dates
        BY <2>1, SetField
    <2>4. [[d EXCEPT !.mday = 1] EXCEPT !.mon = 1] \in Dates
        BY <2>1, <2>3, SetField
    <2> QED
        BY <2>1, <2>2, <2>4, SetField
<1> HIDE DEF e
<1>3. IsDate(e)
    BY <1>0, <1>2 DEF IsDate, DaysIn
<1>4. SinceEpoch(e) = SinceEpoch(d) + 1
    <2>1. (d.year + 1) % 100 = IF d.year = 99 THEN 0 ELSE d.year + 1
        BY DateFields
    <2> QED
        BY <1>2, <2>1, DateFields DEF SinceEpoch
<1>5. GetYday(e) = 1
    BY <1>2, MonthTable DEF GetYday, LeapDayMissing
<1>6. GetYday(d) = IF IsLeap(d.year) THEN 366 ELSE 365
    <2>1. d.mday = 31
        BY DEF DaysIn
    <2> QED
        BY <2>1, MonthTable, SinceEpochRange DEF GetYday, LeapDayMissing
<1>7. (SinceEpoch(d) + 2) \div 4 =
        (SinceEpoch(d) + 1) \div 4 + IF IsLeap(d.year) THEN 1 ELSE 0
    BY SinceEpochRange
<1> QED
    BY <1>1, <1>3, <1>4, <1>5, <1>6, <1>7, SinceEpochRange DEF Days

\* The last day that the two digits of the year can tell.
LastDay(d) == d.year = 69 /\ d.mon = 12 /\ d.mday = 31

LEMMA DayAfter ==
    ASSUME NEW d, IsDate(d), ~LastDay(d)
    PROVE  IsDate(NextDay(d)) /\ Days(NextDay(d)) = Days(d) + 1
<1>1. d.mday < DaysIn(d.mon, d.year) \/ d.mday = DaysIn(d.mon, d.year)
    BY DateFields DEF DaysIn
<1>2. d.mon < 12 \/ d.mon = 12
    BY DateFields
<1>3. d.mon = 12 /\ d.mday = DaysIn(d.mon, d.year) => d.year # 69
    BY DEF LastDay, DaysIn
<1> QED
    BY <1>1, <1>2, <1>3, DayWithinMonth, DayAfterMonth, DayAfterYear

\* Another time of the same day.
LEMMA SameDay ==
    ASSUME NEW d, IsDate(d), NEW e \in Dates,
           e.year = d.year, e.mon = d.mon, e.mday = d.mday
    PROVE  /\ IsDate(e) /\ LastDay(e) = LastDay(d)
           /\ Days(e) = Days(d)
           /\ MkTime(e) = 86400 * Days(d) + 3600 * e.hour + 60 * e.min + e.sec
<1>1. IsDate(e) /\ LastDay(e) = LastDay(d)
    BY DateFields DEF IsDate, LastDay
<1>2. Days(e) = Days(d)
    BY DEF Days, SinceEpoch, GetYday, LeapDayMissing
<1> QED
    BY <1>1, <1>2, MkTimeByDays

\* mktime is 0 at the start of 1970 and grows by one from each second to the
\* next, over every month, leap day, year and the turn of the century, up to the
\* end of 2069: it is the number of seconds since 1970.
THEOREM MkTimeCountsSeconds ==
    /\ MkTime(Epoch) = 0
    /\ \A d : IsDate(d) /\ ~LastDay(d) =>
            IsDate(NextSecond(d)) /\ MkTime(NextSecond(d)) = MkTime(d) + 1
<1>1. MkTime(Epoch) = 0
    <2>1. Epoch.year = 70 /\ Epoch.mon = 1 /\ Epoch.mday = 1
          /\ Epoch.hour = 0 /\ Epoch.min = 0 /\ Epoch.sec = 0
        BY DEF Epoch
    <2>2. SinceEpoch(Epoch) = 0 /\ GetYday(Epoch) = 1
        BY <2>1, MonthTable DEF SinceEpoch, GetYday, LeapDayMissing
    <2> QED
        BY <2>1, <2>2 DEF MkTime, DAY, HOUR, MINUTE, YEAR
<1>2. ASSUME NEW d, IsDate(d), ~LastDay(d)
      PROVE  IsDate(NextSecond(d)) /\ MkTime(NextSecond(d)) = MkTime(d) + 1
    <2>1. /\ d \in Dates
          /\ d.hour \in 0 .. 23 /\ d.min \in 0 .. 59 /\ d.sec \in 0 .. 59
        BY <1>2, DateFields
    <2>2. /\ Days(d) \in Int
          /\ MkTime(d) = 86400 * Days(d) + 3600 * d.hour + 60 * d.min + d.sec
        BY <1>2, DaysRange, MkTimeByDays
    <2>3. CASE d.sec < 59
        <3> DEFINE e == [d EXCEPT !.sec = @ + 1]
        <3>1. NextSecond(d) = e
            BY <2>3 DEF NextSecond
        <3>2. e.year = d.year /\ e.mon = d.mon /\ e.mday = d.mday
            BY <2>1 DEF Dates
        <3>3. e.hour = d.hour /\ e.min = d.min /\ e.sec = d.sec + 1
            BY <2>1 DEF Dates
        <3>4. e \in Dates
            <4>1. d.sec + 1 \in 0 .. 59
                BY <2>1, <2>3
            <4> QED
                BY <2>1, <4>1, SetField
        <3> HIDE DEF e
        <3>5. /\ IsDate(e)
              /\ MkTime(e) = 86400 * Days(d) + 3600 * e.hour + 60 * e.min + e.sec
            BY <1>2, <3>2, <3>4, SameDay
        <3>6. MkTime(e) = 86400 * Days(d) + 3600 * d.hour + 60 * d.min + (d.sec + 1)
            BY <3>3, <3>5
        <3>7. /\ d.hour \in Int /\ d.min \in Int /\ d.sec \in Int
              /\ 3600 * d.hour \in Int /\ 60 * d.min \in Int
            BY <2>1
        <3>8. MkTime(e) = MkTime(d) + 1
            BY <2>1, <2>2, <2>3, <3>6, <3>7
        <3> QED
            BY <3>1, <3>5, <3>8
    <2>4. CASE ~(d.sec < 59) /\ d.min < 59
        <3> DEFINE e == [d EXCEPT !.sec = 0, !.min = @ + 1]
        <3>1. NextSecond(d) = e
            BY <2>4 DEF NextSecond
        <3>2. e.year = d.year /\ e.mon = d.mon /\ e.mday = d.mday
            BY <2>1 DEF Dates
        <3>3. e.hour = d.hour /\ e.min = d.min + 1 /\ e.sec = 0
            BY <2>1 DEF Dates
        <3>4. e \in Dates
            <4>1. d.min + 1 \in 0 .. 59 /\ 0 \in 0 .. 59
                BY <2>1, <2>4
            <4>2. e = [[d EXCEPT !.sec = 0] EXCEPT !.min = d.min + 1]
                BY <2>1
            <4>3. [d EXCEPT !.sec = 0] \in Dates
                BY <2>1, <4>1, SetField
            <4> QED
                BY <4>1, <4>2, <4>3, SetField
        <3> HIDE DEF e
        <3>5. /\ IsDate(e)
              /\ MkTime(e) = 86400 * Days(d) + 3600 * e.hour + 60 * e.min + e.sec
            BY <1>2, <3>2, <3>4, SameDay
        <3>6. MkTime(e) = 86400 * Days(d) + 3600 * d.hour + 60 * (d.min + 1) + 0
            BY <3>3, <3>5
        <3>7. /\ d.hour \in Int /\ d.min \in Int /\ d.sec \in Int
              /\ 3600 * d.hour \in Int /\ 60 * d.min \in Int
            BY <2>1
        <3>8. MkTime(e) = MkTime(d) + 1
            <4>1. d.sec = 59 /\ 60 * (d.min + 1) = 60 * d.min + 60
                BY <2>1, <2>4, <3>7
            <4> QED
                BY <2>2, <3>6, <3>7, <4>1
        <3> QED
            BY <3>1, <3>5, <3>8
    <2>5. CASE ~(d.sec < 59) /\ ~(d.min < 59) /\ d.hour < 23
        <3> DEFINE e == [d EXCEPT !.sec = 0, !.min = 0, !.hour = @ + 1]
        <3>1. NextSecond(d) = e
            BY <2>5 DEF NextSecond
        <3>2. e.year = d.year /\ e.mon = d.mon /\ e.mday = d.mday
            BY <2>1 DEF Dates
        <3>3. e.hour = d.hour + 1 /\ e.min = 0 /\ e.sec = 0
            BY <2>1 DEF Dates
        <3>4. e \in Dates
            <4>1. d.hour + 1 \in 0 .. 23 /\ 0 \in 0 .. 59
                BY <2>1, <2>5
            <4>2. e = [[[d EXCEPT !.sec = 0] EXCEPT !.min = 0] EXCEPT !.hour = d.hour + 1]
                BY <2>1
            <4>3. [d EXCEPT !.sec = 0] \in Dates
                BY <2>1, <4>1, SetField
            <4>4. [[d EXCEPT !.sec = 0] EXCEPT !.min = 0] \in Dates
                BY <4>1, <4>3, SetField
            <4> QED
                BY <4>1, <4>2, <4>4, SetField
        <3> HIDE DEF e
        <3>5. /\ IsDate(e)
              /\ MkTime(e) = 86400 * Days(d) + 3600 * e.hour + 60 * e.min + e.sec
            BY <1>2, <3>2, <3>4, SameDay
        <3>6. MkTime(e) = 86400 * Days(d) + 3600 * (d.hour + 1) + 60 * 0 + 0
            BY <3>3, <3>5
        <3>7. /\ d.hour \in Int /\ d.min \in Int /\ d.sec \in Int
              /\ 3600 * d.hour \in Int /\ 60 * d.min \in Int
            BY <2>1
        <3>8. MkTime(e) = MkTime(d) + 1
            BY <2>1, <2>2, <2>5, <3>6, <3>7
        <3> QED
            BY <3>1, <3>5, <3>8
    <2>6. CASE ~(d.sec < 59) /\ ~(d.min < 59) /\ ~(d.hour < 23)
        <3> DEFINE e == [d EXCEPT !.sec = 0, !.min = 0, !.hour = 0]
        <3>1. NextSecond(d) = NextDay(e)
            BY <2>6 DEF NextSecond
        <3>2. e.year = d.year /\ e.mon = d.mon /\ e.mday = d.mday
            BY <2>1 DEF Dates
        <3>3. e.hour = 0 /\ e.min = 0 /\ e.sec = 0
            BY <2>1 DEF Dates
        <3>4. e \in Dates
            <4>1. 0 \in 0 .. 23 /\ 0 \in 0 .. 59
                OBVIOUS
            <4>2. e = [[[d EXCEPT !.sec = 0] EXCEPT !.min = 0] EXCEPT !.hour = 0]
                BY <2>1
            <4>3. [d EXCEPT !.sec = 0] \in Dates
                BY <2>1, <4>1, SetField
            <4>4. [[d EXCEPT !.sec = 0] EXCEPT !.min = 0] \in Dates
                BY <4>1, <4>3, SetField
            <4> QED
                BY <4>1, <4>2, <4>4, SetField
        <3> HIDE DEF e
        <3>5. IsDate(e) /\ ~LastDay(e) /\ Days(e) = Days(d)
            BY <1>2, <3>2, <3>4, SameDay
        <3>6. IsDate(NextDay(e)) /\ Days(NextDay(e)) = Days(d) + 1
            BY <3>5, DayAfter
        <3>7. NextDay(e).hour = 0 /\ NextDay(e).min = 0 /\ NextDay(e).sec = 0
            <4>1. CASE e.mday < DaysIn(e.mon, e.year)
                BY <3>3, <3>4, <4>1 DEF NextDay, Dates
            <4>2. CASE ~(e.mday < DaysIn(e.mon, e.year)) /\ e.mon < 12
                BY <3>3, <3>4, <4>2 DEF NextDay, Dates
            <4>3. CASE ~(e.mday < DaysIn(e.mon, e.year)) /\ ~(e.mon < 12)
                BY <3>3, <3>4, <4>3 DEF NextDay, Dates
            <4> QED
                BY <4>1, <4>2, <4>3
        <3>8. MkTime(NextDay(e)) = 86400 * (Days(d) + 1)
            BY <2>2, <3>6, <3>7, MkTimeByDays
        <3> QED
            BY <2>1, <2>2, <2>6, <3>1, <3>6, <3>8
    <2> QED
        BY <2>3, <2>4, <2>5, <2>6
<1> QED
    BY <1>1, <1>2

-----------------------------------------------------------------------------
(* mktime is the sum of the days *)

\* The days of the years: every fourth from 1972 on has one more.
LEMMA YearsAddUp ==
    ASSUME NEW n \in 0 .. 99
    PROVE  DaysOfYears(1970 + n) = 365 * n + (n + 1) \div 4
<1> DEFINE S == 1970 .. 1970 + n - 1
           Turn(g, s) == IF s = {} THEN 0
                         ELSE (IF IsLeap(CHOOSE x \in s : TRUE) THEN 366 ELSE 365)
                              + g[s \ {CHOOSE x \in s : TRUE}]
           Folds(g) == g = [s \in SUBSET S |-> Turn(g, s)]
           sum == CHOOSE g : Folds(g)
           f == [y \in S |-> IF IsLeap(y) THEN 366 ELSE 365]
           c == [k \in 0 .. n |-> 365 * k + (k + 1) \div 4]
<1>1. SUFFICES sum[S] = 365 * n + (n + 1) \div 4
    BY DEF DaysOfYears, MapThenSumSet, MapThenFoldSet
<1>2. IsFiniteSet(S) /\ Integral(f, S)
    BY FS_Interval DEF Integral
<1>3. \A y \in S : f[y] = IF IsLeap(y) THEN 366 ELSE 365
    OBVIOUS
<1>4. ASSUME NEW g
      PROVE  Folds(g) <=> AddsUp(g, S, f)
    <2> HIDE DEF S, f
    <2>1. ASSUME NEW s \in SUBSET S
          PROVE  Turn(g, s) = Added(g, s, f)
        BY <1>3 DEF Added, First
    <2> HIDE DEF Turn
    <2> QED
        BY <2>1 DEF AddsUp
<1>5. AddsUp(sum, S, f)
    <2> HIDE DEF S, f, Folds
    <2>1. \E g : Folds(g)
        BY <1>2, <1>4, SumExists
    <2>2. Folds(sum)
        BY <2>1
    <2> HIDE DEF sum
    <2> QED
        BY <1>4, <2>2
<1> HIDE DEF sum
<1>6. \A k \in 1 .. n : c[k] = c[k - 1] + f[1970 + k - 1]
    <2> SUFFICES ASSUME NEW k \in 1 .. n
                 PROVE  c[k] = c[k - 1] + f[1970 + k - 1]
        OBVIOUS
    <2>1. f[1970 + k - 1] = IF (k + 1) % 4 = 0 THEN 366 ELSE 365
        <3>1. 1970 + k - 1 \in S /\ (1970 + k - 1) % 4 = (k + 1) % 4
            OBVIOUS
        <3> HIDE DEF S, f
        <3> QED
            BY <1>3, <3>1 DEF IsLeap
    <2>2. (k + 1) \div 4 = k \div 4 + IF (k + 1) % 4 = 0 THEN 1 ELSE 0
        OBVIOUS
    <2>3. c[k] = 365 * k + (k + 1) \div 4 /\ c[k - 1] = 365 * (k - 1) + k \div 4
        OBVIOUS
    <2> QED
        BY <2>1, <2>2, <2>3
<1>7. c[0] = 0 /\ c[n] = 365 * n + (n + 1) \div 4
    OBVIOUS
<1>8. sum[S] = c[n]
    <2>1. n \in Nat /\ 1970 \in Int
        OBVIOUS
    <2>2. Totals(c, f, 1970, n)
        BY <1>6, <1>7 DEF Totals
    <2> HIDE DEF f, c
    <2> QED
        BY <1>2, <1>5, <2>1, <2>2, IntervalAddsUp
<1> HIDE DEF f, c
<1> QED
    BY <1>7, <1>8

\* The days of the months are in the table, but for the 29th of February.
LEMMA MonthsAddUp ==
    ASSUME NEW n \in 0 .. 11, NEW year \in 0 .. 99
    PROVE  DaysOfMonths(n + 1, year) =
                month[n + 1] - IF n >= 2 /\ ~IsLeap(year) THEN 1 ELSE 0
<1> DEFINE S == 1 .. n
           Turn(g, s) == IF s = {} THEN 0
                         ELSE DaysIn(CHOOSE x \in s : TRUE, year)
                              + g[s \ {CHOOSE x \in s : TRUE}]
           Folds(g) == g = [s \in SUBSET S |-> Turn(g, s)]
           sum == CHOOSE g : Folds(g)
           f == [m \in S |-> DaysIn(m, year)]
           c == [k \in 0 .. n |-> month[k + 1] - IF k >= 2 /\ ~IsLeap(year) THEN 1 ELSE 0]
<1>0. S = 1 .. (n + 1) - 1
    OBVIOUS
<1>1. SUFFICES sum[S] = month[n + 1] - IF n >= 2 /\ ~IsLeap(year) THEN 1 ELSE 0
    BY <1>0 DEF DaysOfMonths, MapThenSumSet, MapThenFoldSet
<1>2. IsFiniteSet(S) /\ Integral(f, S)
    <2>1. \A m \in S : DaysIn(m, year) \in Int
        BY DEF DaysIn
    <2>2. IsFiniteSet(S)
        BY FS_Interval
    <2> HIDE DEF S
    <2> QED
        BY <2>1, <2>2 DEF Integral
<1>3. \A m \in S : f[m] = DaysIn(m, year)
    OBVIOUS
<1>4. ASSUME NEW g
      PROVE  Folds(g) <=> AddsUp(g, S, f)
    <2> HIDE DEF S, f
    <2>1. ASSUME NEW s \in SUBSET S
          PROVE  Turn(g, s) = Added(g, s, f)
        BY <1>3 DEF Added, First
    <2> HIDE DEF Turn
    <2> QED
        BY <2>1 DEF AddsUp
<1>5. AddsUp(sum, S, f)
    <2> HIDE DEF S, f, Folds
    <2>1. \E g : Folds(g)
        BY <1>2, <1>4, SumExists
    <2>2. Folds(sum)
        BY <2>1
    <2> HIDE DEF sum
    <2> QED
        BY <1>4, <2>2
<1> HIDE DEF sum
<1>6. \A k \in 1 .. n : c[k] = c[k - 1] + f[1 + k - 1]
    <2> SUFFICES ASSUME NEW k \in 1 .. n
                 PROVE  c[k] = c[k - 1] + f[1 + k - 1]
        OBVIOUS
    <2>1. /\ c[k] = month[k + 1] - IF k >= 2 /\ ~IsLeap(year) THEN 1 ELSE 0
          /\ c[k - 1] = month[k] - IF k >= 3 /\ ~IsLeap(year) THEN 1 ELSE 0
        OBVIOUS
    <2>2. f[1 + k - 1] = DaysIn(k, year)
        OBVIOUS
    <2>3. month[k + 1] = month[k] + DaysIn(k, 0) /\ month[k] \in Int
        BY MonthTable
    <2>4. DaysIn(k, 0) = DaysIn(k, year) + IF k = 2 /\ ~IsLeap(year) THEN 1 ELSE 0
        BY DEF DaysIn, IsLeap
    <2>5. DaysIn(k, year) \in Int
        BY DEF DaysIn
    <2> QED
        BY <2>1, <2>2, <2>3, <2>4, <2>5
<1>7. c[0] = 0 /\ c[n] = month[n + 1] - IF n >= 2 /\ ~IsLeap(year) THEN 1 ELSE 0
    <2>1. c[0] = month[1] - 0
        OBVIOUS
    <2>2. c[n] = month[n + 1] - IF n >= 2 /\ ~IsLeap(year) THEN 1 ELSE 0
        OBVIOUS
    <2> QED
        BY <2>1, <2>2, MonthTable
<1>8. sum[S] = c[n]
    <2>1. Totals(c, f, 1, n)
        BY <1>6, <1>7 DEF Totals
    <2>2. ASSUME NEW a \in Int, a = 1
          PROVE  sum[a .. a + n - 1] = c[n]
        <3>1. n \in Nat /\ S = a .. a + n - 1
            BY <2>2
        <3> HIDE DEF f, c, S, Turn, Folds
        <3>2. /\ Integral(f, a .. a + n - 1) /\ AddsUp(sum, a .. a + n - 1, f)
              /\ Totals(c, f, a, n)
            BY <1>2, <1>5, <2>1, <2>2, <3>1, Zenon
        <3>3. n \in Nat
            BY <3>1
        <3> QED
            BY <3>2, <3>3, IntervalAddsUp
    <2>3. S = 1 .. 1 + n - 1
        OBVIOUS
    <2> HIDE DEF f, c, S
    <2> QED
        BY <2>2, <2>3
<1> HIDE DEF f, c
<1> QED
    BY <1>7, <1>8

\* mktime is the number of seconds that counting the days yields, on every date
\* of its range.
THEOREM MkTimeIsSecondsTo ==
    ASSUME NEW d, IsDate(d)
    PROVE  MkTime(d) = SecondsTo(d)
<1> DEFINE n == SinceEpoch(d)
           thisYear == IF d.year >= 70 THEN 1900 + d.year ELSE 2000 + d.year
<1>1. /\ d.year \in 0 .. 99 /\ d.mon \in 1 .. 12 /\ d.mday \in 1 .. 31
      /\ d.hour \in 0 .. 23 /\ d.min \in 0 .. 59 /\ d.sec \in 0 .. 59
      /\ n \in 0 .. 99 /\ ((n + 2) % 4 = 0 <=> IsLeap(d.year))
    BY DateFields, SinceEpochRange
<1>2. thisYear = 1970 + n
    BY <1>1 DEF SinceEpoch
<1>3. DaysOfYears(thisYear) = 365 * n + (n + 1) \div 4
    BY <1>1, <1>2, YearsAddUp
<1>4. DaysOfMonths(d.mon, d.year) = month[d.mon] - IF LeapDayMissing(d) THEN 1 ELSE 0
    <2>1. /\ d.mon - 1 \in 0 .. 11 /\ (d.mon - 1) + 1 = d.mon
          /\ d.mon - 1 >= 2 <=> d.mon > 2
        BY <1>1
    <2> QED
        BY <1>1, <2>1, MonthsAddUp DEF LeapDayMissing
<1>5. month[d.mon] \in Int
    BY <1>1, MonthTable
<1>6. DaysOfYears(thisYear) + DaysOfMonths(d.mon, d.year) + d.mday - 1 = Days(d)
    <2> DEFINE quarter == (n + 1) \div 4
               missing == IF LeapDayMissing(d) THEN 1 ELSE 0
    <2>1. quarter \in Int /\ missing \in Int
        BY <1>1
    <2>2. Days(d) = 365 * n + quarter + (month[d.mon] + d.mday - missing) - 1
        BY DEF Days, GetYday
    <2> HIDE DEF thisYear, quarter, missing, n
    <2>3. /\ DaysOfYears(thisYear) = 365 * n + quarter
          /\ DaysOfMonths(d.mon, d.year) = month[d.mon] - missing
        BY <1>3, <1>4 DEF quarter, missing
    <2> DEFINE table == month[d.mon]
               mday == d.mday
               years == DaysOfYears(thisYear)
               months == DaysOfMonths(d.mon, d.year)
    <2>4. n \in Int /\ mday \in Int /\ table \in Int
        BY <1>1, <1>5
    <2>5. /\ Days(d) = 365 * n + quarter + (table + mday - missing) - 1
          /\ years = 365 * n + quarter /\ months = table - missing
        BY <2>2, <2>3
    <2> HIDE DEF table, mday, years, months
    <2>6. years + months + mday - 1 = Days(d)
        BY <2>1, <2>4, <2>5
    <2> QED
        BY <2>6 DEF mday, years, months
<1>7. SecondsTo(d) = 86400 * Days(d) + 3600 * d.hour + 60 * d.min + d.sec
    BY <1>6 DEF SecondsTo, DAY, HOUR, MINUTE
<1> QED
    BY <1>7, MkTimeByDays

-----------------------------------------------------------------------------
(* The order of kernel_init and of the handler *)

BootLabels ==
    {"clock_init", "sti", "time_init", "rtc_init", "set_rate", "time_read",
     "write_alarm", "set_handler", "unmask", "unmask_cascade", "spin"}

HandlerLabels == {"send_eoi", "clear_flag", "time_read", "write_alarm", "iret"}

\* The CHOOSE of After picks the place of a label that is listed once.
LEMMA PlaceOfLabel ==
    ASSUME NEW order, NEW i \in DOMAIN order, NEW label, order[i] = label,
           \A j \in DOMAIN order : order[j] = label => j = i
    PROVE  (CHOOSE j \in DOMAIN order : order[j] = label) = i
OBVIOUS

LEMMA AfterBoot ==
    /\ pc["boot"] = "clock_init" => After("boot") = "sti"
    /\ pc["boot"] = "sti" => After("boot") = "time_init"
    /\ pc["boot"] = "time_init" => After("boot") = "rtc_init"
    /\ pc["boot"] = "rtc_init" => After("boot") = "set_rate"
    /\ pc["boot"] = "set_rate" => After("boot") = "time_read"
    /\ pc["boot"] = "time_read" => After("boot") = "write_alarm"
    /\ pc["boot"] = "write_alarm" => After("boot") = "set_handler"
    /\ pc["boot"] = "set_handler" => After("boot") = "unmask"
    /\ pc["boot"] = "unmask" => After("boot") = "unmask_cascade"
    /\ pc["boot"] = "unmask_cascade" => After("boot") = "spin"
<1>1. DOMAIN BootOrder = 1 .. 11
    BY DEF BootOrder
<1>2. \A i, j \in 1 .. 11 : BootOrder[i] = BootOrder[j] => i = j
    BY DEF BootOrder
<1>3. ASSUME NEW i \in 1 .. 10, pc["boot"] = BootOrder[i]
      PROVE  After("boot") = BootOrder[i + 1]
    <2> DEFINE place == CHOOSE j \in DOMAIN BootOrder : BootOrder[j] = pc["boot"]
    <2>1. \A j \in DOMAIN BootOrder : BootOrder[j] = pc["boot"] => j = i
        BY <1>1, <1>2, <1>3
    <2>2. place = i
        BY <1>1, <1>3, <2>1, PlaceOfLabel
    <2>3. After("boot") = BootOrder[1 + place]
        BY Zenon DEF After
    <2> HIDE DEF place
    <2> QED
        BY <2>2, <2>3
<1>4. /\ BootOrder[1] = "clock_init" /\ BootOrder[2] = "sti"
      /\ BootOrder[3] = "time_init" /\ BootOrder[4] = "rtc_init"
      /\ BootOrder[5] = "set_rate" /\ BootOrder[6] = "time_read"
      /\ BootOrder[7] = "write_alarm" /\ BootOrder[8] = "set_handler"
      /\ BootOrder[9] = "unmask" /\ BootOrder[10] = "unmask_cascade"
      /\ BootOrder[11] = "spin"
    BY DEF BootOrder
<1> QED
    BY <1>3, <1>4

LEMMA AfterHandler ==
    /\ pc["rtc_handler"] = "send_eoi" => After("rtc_handler") = "clear_flag"
    /\ pc["rtc_handler"] = "clear_flag" => After("rtc_handler") = "time_read"
    /\ pc["rtc_handler"] = "time_read" => After("rtc_handler") = "write_alarm"
    /\ pc["rtc_handler"] = "write_alarm" => After("rtc_handler") = "iret"
<1>1. DOMAIN HandlerOrder = 1 .. 5
    BY DEF HandlerOrder
<1>2. \A i, j \in 1 .. 5 : HandlerOrder[i] = HandlerOrder[j] => i = j
    BY DEF HandlerOrder
<1>3. ASSUME NEW i \in 1 .. 4, pc["rtc_handler"] = HandlerOrder[i]
      PROVE  After("rtc_handler") = HandlerOrder[i + 1]
    <2> DEFINE place == CHOOSE j \in DOMAIN HandlerOrder : HandlerOrder[j] = pc["rtc_handler"]
    <2>1. \A j \in DOMAIN HandlerOrder : HandlerOrder[j] = pc["rtc_handler"] => j = i
        BY <1>1, <1>2, <1>3
    <2>2. place = i
        BY <1>1, <1>3, <2>1, PlaceOfLabel
    <2>3. After("rtc_handler") = HandlerOrder[1 + place]
        BY Zenon DEF After
    <2> HIDE DEF place
    <2> QED
        BY <2>2, <2>3
<1>4. /\ HandlerOrder[1] = "send_eoi" /\ HandlerOrder[2] = "clear_flag"
      /\ HandlerOrder[3] = "time_read" /\ HandlerOrder[4] = "write_alarm"
      /\ HandlerOrder[5] = "iret"
    BY DEF HandlerOrder
<1> QED
    BY <1>3, <1>4

\* Who may run, and through which masks: the handler of the clock chip is let
\* in by the last step of kernel_init, and nothing interrupts it.
BootInv ==
    /\ pc["boot"] \in BootLabels /\ pc["rtc_handler"] \in HandlerLabels
    /\ pc \in [Contexts -> BootLabels \cup HandlerLabels]
    /\ step \in [Contexts -> Nat]
    /\ selected \in [Contexts -> BOOLEAN]
    /\ \A c \in Contexts : selected[c] => pc[c] \in Routines /\ index = Access(c).reg
    /\ running \in Contexts \cup {"clock_handler", "tasks"}
    /\ interrupted \in {"boot", "tasks"}
    /\ running # "rtc_handler" => pc["rtc_handler"] = "send_eoi"
    /\ running = "rtc_handler" => ~intr /\ pc["boot"] = "spin"
    /\ pc["boot"] # "spin" => IRQ_CASCADE \in mask
    /\ request \subseteq {IRQ_CLOCK, IRQ_RTC}
    /\ handler_table \in [Irqs -> {"default_handler", "clock_handler", "rtc_handler"}]
    /\ handler_table[IRQ_CLOCK] # "rtc_handler"
    /\ handler_table[IRQ_RTC] # "clock_handler"
    /\ IRQ_CLOCK \notin mask => handler_table[IRQ_CLOCK] = "clock_handler"
    /\ IRQ_RTC \notin mask => handler_table[IRQ_RTC] = "rtc_handler"
    /\ pc["boot"] \in {"unmask", "unmask_cascade", "spin"} =>
            handler_table[IRQ_RTC] = "rtc_handler"

LEMMA BootInvInit == Init => BootInv
BY DEF Init, PicInit, BootInv, BootLabels, HandlerLabels, Contexts, Irqs, IRQ_CLOCK,
       IRQ_RTC, IRQ_CASCADE

\* Only the interrupts whose handlers are set can be pending, and that of the
\* clock chip only when kernel_init is through.
LEMMA PendingHandlers ==
    ASSUME BootInv, NEW irq \in Pending
    PROVE  \/ irq = IRQ_CLOCK /\ handler_table[irq] = "clock_handler"
           \/ irq = IRQ_RTC /\ handler_table[irq] = "rtc_handler" /\ pc["boot"] = "spin"
BY DEF BootInv, Pending, IRQ_CLOCK, IRQ_RTC, Master

\* What a CMOS access does to the flow of control.
CmosEffect(c) ==
    /\ AtAccess(c)
    /\ UNCHANGED <<mask, handler_table, intr, running, interrupted>>
    /\ request' \subseteq request \cup {IRQ_RTC}
    /\ \/ /\ selected' = [selected EXCEPT ![c] = TRUE]
          /\ index' = Access(c).reg
          /\ UNCHANGED <<pc, step>>
       \/ /\ selected' = [selected EXCEPT ![c] = FALSE]
          /\ index' = index
          /\ pc' = pc \/ pc' = [pc EXCEPT ![c] = After(c)]
          /\ step' = [step EXCEPT ![c] = step'[c]] /\ step'[c] \in Nat

LEMMA CmosStepEffect ==
    ASSUME BootInv, NEW c \in Contexts, CmosStep(c)
    PROVE  CmosEffect(c)
<1>1. pc \in [Contexts -> BootLabels \cup HandlerLabels] /\ step \in [Contexts -> Nat]
    BY DEF BootInv
<1>2. Proceed(c) => /\ selected' = [selected EXCEPT ![c] = FALSE]
                    /\ pc' = pc \/ pc' = [pc EXCEPT ![c] = After(c)]
                    /\ step' = [step EXCEPT ![c] = step'[c]] /\ step'[c] \in Nat
    <2> SUFFICES ASSUME Proceed(c)
                 PROVE  /\ selected' = [selected EXCEPT ![c] = FALSE]
                        /\ pc' = pc \/ pc' = [pc EXCEPT ![c] = After(c)]
                        /\ step' = [step EXCEPT ![c] = step'[c]] /\ step'[c] \in Nat
        OBVIOUS
    <2> DEFINE last == step[c] = Len(Accesses(pc[c]))
    <2>1. /\ selected' = [selected EXCEPT ![c] = FALSE]
          /\ pc' = [pc EXCEPT ![c] = IF last THEN After(c) ELSE pc[c]]
          /\ step' = [step EXCEPT ![c] = IF last THEN 1 ELSE step[c] + 1]
        BY DEF Proceed
    <2> HIDE DEF last
    <2>2. pc' = pc \/ pc' = [pc EXCEPT ![c] = After(c)]
        BY <1>1, <2>1
    <2>3. step' = [step EXCEPT ![c] = step'[c]] /\ step'[c] \in Nat
        BY <1>1, <2>1
    <2> QED
        BY <2>1, <2>2, <2>3
<1>3. LatchEdge => request' \subseteq request \cup {IRQ_RTC}
    BY DEF LatchEdge
<1>4. CASE Select(c)
    BY <1>4 DEF Select, CmosEffect, picVars
<1>5. CASE WriteData(c)
    BY <1>2, <1>3, <1>5 DEF WriteData, CmosEffect
<1>6. CASE ReadFlags(c)
    BY <1>2, <1>6 DEF ReadFlags, CmosEffect
<1>7. CASE ReadTime(c)
    BY <1>2, <1>7 DEF ReadTime, CmosEffect, picVars
<1>8. CASE ReadTimeAgain(c)
    BY <1>1, <1>8 DEF ReadTimeAgain, CmosEffect, picVars
<1>9. CASE ReadTimeDone(c)
    BY <1>2, <1>9 DEF ReadTimeDone, CmosEffect, picVars
<1> QED
    BY <1>4, <1>5, <1>6, <1>7, <1>8, <1>9 DEF CmosStep

LEMMA BootInvCmos ==
    ASSUME BootInv, NEW c \in Contexts, CmosStep(c)
    PROVE  BootInv'
<1> USE DEF BootInv
<1>1. CmosEffect(c)
    BY CmosStepEffect
<1>2. /\ running = c /\ pc[c] \in Routines
      /\ UNCHANGED <<mask, handler_table, intr, running, interrupted>>
      /\ request' \subseteq {IRQ_CLOCK, IRQ_RTC}
    BY <1>1 DEF CmosEffect, AtAccess
<1>3. /\ step' \in [Contexts -> Nat]
      /\ selected' \in [Contexts -> BOOLEAN]
    BY <1>1 DEF CmosEffect
<1>4. CASE c = "boot"
    <2>1. pc["boot"] \in {"time_init", "rtc_init", "time_read", "write_alarm"}
        BY <1>2, <1>4 DEF Routines, BootLabels
    <2>2. After("boot") \in {"rtc_init", "set_rate", "write_alarm", "set_handler"}
        BY <2>1, AfterBoot
    <2>3. /\ pc'["boot"] = pc["boot"] \/ pc'["boot"] = After("boot")
          /\ pc'["rtc_handler"] = pc["rtc_handler"]
          /\ pc' \in [Contexts -> BootLabels \cup HandlerLabels]
        BY <1>1, <1>4, <2>2 DEF CmosEffect, Contexts, BootLabels
    <2>4. pc'["boot"] \in {"time_init", "rtc_init", "set_rate", "time_read",
                             "write_alarm", "set_handler"}
        BY <2>1, <2>2, <2>3
    <2>5. ASSUME NEW d \in Contexts, selected'[d]
          PROVE  pc'[d] \in Routines /\ index' = Access(d).reg'
        BY <1>1, <1>2, <1>4, <2>5 DEF CmosEffect, Access, Contexts, Routines
    <2> QED
        BY <1>2, <1>3, <1>4, <2>1, <2>3, <2>4, <2>5 DEF BootLabels
<1>5. CASE c = "rtc_handler"
    <2>1. pc[c] \in {"clear_flag", "time_read", "write_alarm"}
        BY <1>2, <1>5 DEF Routines, HandlerLabels
    <2>2. After(c) \in {"time_read", "write_alarm", "iret"}
        BY <1>5, <2>1, AfterHandler
    <2>3. /\ pc'[c] = pc[c] \/ pc'[c] = After(c)
          /\ pc'["boot"] = pc["boot"]
          /\ pc' \in [Contexts -> BootLabels \cup HandlerLabels]
        BY <1>1, <1>5, <2>2 DEF CmosEffect, Contexts, HandlerLabels
    <2>4. pc'["rtc_handler"] \in HandlerLabels
        BY <1>5, <2>1, <2>2, <2>3 DEF HandlerLabels
    <2>5. ASSUME NEW d \in Contexts, selected'[d]
          PROVE  pc'[d] \in Routines /\ index' = Access(d).reg'
        BY <1>1, <1>2, <1>5, <2>5 DEF CmosEffect, Access, Contexts, Routines
    <2> QED
        BY <1>2, <1>3, <1>5, <2>3, <2>4, <2>5
<1> QED
    BY <1>4, <1>5 DEF Contexts

\* The statements of kernel_init that access no CMOS register.
LEMMA BootInvBoot ==
    ASSUME BootInv,
           \/ ClockInit \/ EnableInterrupts \/ RtcSetRate \/ RtcSetHandler \/ RtcUnmask
           \/ CascadeUnmask
    PROVE  BootInv'
<1> USE DEF BootInv
<1> DEFINE label == pc["boot"]
<1>1. /\ running = "boot"
      /\ label \in {"clock_init", "sti", "set_rate", "set_handler", "unmask",
                   "unmask_cascade"}
      /\ pc' = [pc EXCEPT !["boot"] = After("boot")]
      /\ UNCHANGED <<request, index, running, interrupted, step, selected>>
    BY DEF ClockInit, EnableInterrupts, RtcSetRate,
           RtcSetHandler, RtcUnmask, CascadeUnmask, BootStep
<1>2. /\ label = "clock_init" =>
            /\ ClockInit /\ After("boot") = "sti"
      /\ label = "sti" =>
            /\ EnableInterrupts /\ After("boot") = "time_init"
      /\ label = "set_rate" =>
            /\ RtcSetRate /\ After("boot") = "time_read"
      /\ label = "set_handler" =>
            /\ RtcSetHandler /\ After("boot") = "unmask"
      /\ label = "unmask" =>
            /\ RtcUnmask /\ After("boot") = "unmask_cascade"
      /\ label = "unmask_cascade" =>
            /\ CascadeUnmask /\ After("boot") = "spin"
    BY AfterBoot DEF ClockInit, EnableInterrupts, RtcSetRate, RtcSetHandler, RtcUnmask,
                     CascadeUnmask, BootStep
<1>3. /\ pc'["boot"] = After("boot") /\ pc'["rtc_handler"] = pc["rtc_handler"]
      /\ pc'["boot"] \in BootLabels
      /\ pc' \in [Contexts -> BootLabels \cup HandlerLabels]
    BY <1>1, <1>2 DEF Contexts, BootLabels
<1>4. ~selected["boot"]
    BY <1>1 DEF Routines, Contexts
<1>5. ASSUME NEW c \in Contexts, selected'[c]
      PROVE  pc'[c] \in Routines /\ index' = Access(c).reg'
    BY <1>1, <1>3, <1>4, <1>5 DEF Contexts, Access
<1>6. CASE label = "clock_init"
    BY <1>1, <1>2, <1>3, <1>5, <1>6
       DEF ClockInit, SetInterruptHandler, SetInterruptMask, Irqs, IRQ_CLOCK,
           IRQ_RTC, IRQ_CASCADE
<1>7. CASE label = "sti"
    BY <1>1, <1>2, <1>3, <1>5, <1>7 DEF EnableInterrupts
<1>11. CASE label = "set_rate"
    BY <1>1, <1>2, <1>3, <1>5, <1>11 DEF RtcSetRate
<1>8. CASE label = "set_handler"
    BY <1>1, <1>2, <1>3, <1>5, <1>8
       DEF RtcSetHandler, SetInterruptHandler, Irqs, IRQ_CLOCK, IRQ_RTC
<1>9. CASE label = "unmask"
    BY <1>1, <1>2, <1>3, <1>5, <1>9
       DEF RtcUnmask, SetInterruptMask, IRQ_CLOCK, IRQ_RTC, IRQ_CASCADE
<1>10. CASE label = "unmask_cascade"
    BY <1>1, <1>2, <1>3, <1>5, <1>10
       DEF CascadeUnmask, SetInterruptMask, IRQ_CLOCK, IRQ_RTC, IRQ_CASCADE
<1> QED
    BY <1>1, <1>6, <1>7, <1>8, <1>9, <1>10, <1>11

\* Interrupts and the end of the handlers.
LEMMA BootInvInterrupt ==
    ASSUME BootInv,
           \/ \E irq \in {IRQ_CLOCK, IRQ_RTC} : Accept(irq)
           \/ ClockHandler \/ RtcHandlerEoi \/ RtcHandlerExit
    PROVE  BootInv'
<1> USE DEF BootInv
<1>1. CASE \E irq \in {IRQ_CLOCK, IRQ_RTC} : Accept(irq)
    <2>1. PICK irq \in {IRQ_CLOCK, IRQ_RTC} : Accept(irq)
        BY <1>1
    <2>2. /\ intr /\ ~intr' /\ irq \in Pending
          /\ running' = handler_table[irq]
          /\ request' \subseteq request
          /\ UNCHANGED <<mask, handler_table, index, interrupted, pc, step, selected>>
        BY <2>1 DEF Accept, Acknowledge, codeVars
    <2>3. \/ running' = "clock_handler"
          \/ running' = "rtc_handler" /\ pc["boot"] = "spin"
        BY <2>2, PendingHandlers
    <2>4. pc["rtc_handler"] = "send_eoi"
        BY <2>2
    <2>5. \A c \in Contexts : Access(c)' = Access(c)
        BY <2>2 DEF Access
    <2> QED
        BY <2>2, <2>3, <2>4, <2>5 DEF Contexts
<1>2. CASE ClockHandler
    <2>1. /\ running = "clock_handler" /\ running' = "tasks" /\ interrupted' = "tasks"
          /\ UNCHANGED <<mask, request, handler_table, index, pc, step, selected>>
        BY <1>2 DEF ClockHandler, codeVars
    <2>2. \A c \in Contexts : Access(c)' = Access(c)
        BY <2>1 DEF Access
    <2> QED
        BY <2>1, <2>2
<1>3. CASE RtcHandlerEoi \/ RtcHandlerExit
    <2>1. /\ running = "rtc_handler"
          /\ pc["rtc_handler"] \in {"send_eoi", "iret"}
          /\ UNCHANGED <<mask, request, handler_table, index, interrupted, step,
                         selected>>
        BY <1>3 DEF RtcHandlerEoi, RtcHandlerExit, RtcHandlerStep
    <2>2. \/ /\ pc' = [pc EXCEPT !["rtc_handler"] = "clear_flag"]
             /\ running' = running /\ intr' = intr
          \/ /\ pc' = [pc EXCEPT !["rtc_handler"] = "send_eoi"]
             /\ running' = interrupted
        BY <1>3, AfterHandler DEF RtcHandlerEoi, RtcHandlerExit, RtcHandlerStep
    <2>3. ~selected["rtc_handler"]
        BY <2>1 DEF Routines, Contexts
    <2>4. /\ pc'["boot"] = pc["boot"]
          /\ pc'["rtc_handler"] \in {"clear_flag", "send_eoi"}
          /\ pc' \in [Contexts -> BootLabels \cup HandlerLabels]
        BY <2>2 DEF Contexts, HandlerLabels
    <2>5. ASSUME NEW c \in Contexts, selected'[c]
          PROVE  pc'[c] \in Routines /\ index' = Access(c).reg'
        BY <2>1, <2>3, <2>4, <2>5 DEF Contexts, Access
    <2> QED
        BY <2>1, <2>2, <2>4, <2>5 DEF HandlerLabels, Contexts
<1> QED
    BY <1>1, <1>2, <1>3

LEMMA BootInvStep == BootInv /\ [Next]_vars => BootInv'
<1> SUFFICES ASSUME BootInv, [Next]_vars
             PROVE  BootInv'
    OBVIOUS
<1>1. CASE UNCHANGED vars \/ Tick \/ ClockRequest
    <2>1. /\ UNCHANGED <<mask, handler_table, intr, index, running, interrupted, pc,
                        step, selected>>
          /\ request' \subseteq request \cup {IRQ_CLOCK, IRQ_RTC}
        BY <1>1 DEF vars, picVars, codeVars, Tick, ClockRequest, LatchEdge
    <2>2. \A c \in Contexts : Access(c)' = Access(c)
        BY <2>1 DEF Access
    <2> QED
        BY <2>1, <2>2 DEF BootInv
<1>2. CASE Boot
    BY <1>2, BootInvCmos, BootInvBoot DEF Boot, Contexts
<1>3. CASE (\E irq \in {IRQ_CLOCK, IRQ_RTC} : Accept(irq)) \/ Handler
    BY <1>3, BootInvCmos, BootInvInterrupt DEF Handler, Contexts
<1> QED
    BY <1>1, <1>2, <1>3 DEF Next

-----------------------------------------------------------------------------
(* What the registers hold *)

\* The BCD numbers below n.
Bcd(n) == {BinToBcd(i) : i \in 0 .. n - 1}

LEMMA BcdRoundTrip ==
    ASSUME NEW i \in 0 .. 99
    PROVE  BcdToBin(BinToBcd(i)) = i /\ BinToBcd(i) \in Int
<1> DEFINE q == i \div 10
           r == i % 10
<1>1. q \in 0 .. 9 /\ r \in 0 .. 9 /\ i = 10 * q + r
    OBVIOUS
<1>2. BinToBcd(i) = 16 * q + r
    BY <1>1 DEF BinToBcd
<1> HIDE DEF q, r
<1>3. (16 * q + r) % 16 = r /\ (16 * q + r) \div 16 = q
    BY <1>1
<1> QED
    BY <1>1, <1>2, <1>3 DEF BcdToBin

LEMMA BcdDecoded ==
    ASSUME NEW n \in 0 .. 100, NEW v \in Bcd(n)
    PROVE  v \in Int /\ BcdToBin(v) \in 0 .. n - 1
<1>1. PICK i \in 0 .. n - 1 : v = BinToBcd(i)
    BY DEF Bcd
<1>2. i \in 0 .. 99
    OBVIOUS
<1> QED
    BY <1>1, <1>2, BcdRoundTrip

LEMMA CmosValues ==
    ASSUME now \in Dates
    PROVE  /\ Cmos("sec") \in Bcd(60) /\ Cmos("min") \in Bcd(60)
           /\ Cmos("hour") \in Bcd(24)
           /\ Cmos("century") \in {25, 32}
           /\ \A reg \in DOMAIN Blank : Cmos(reg) \in Int
<1>1. /\ DOMAIN now = {"year", "mon", "mday", "hour", "min", "sec"}
      /\ \A reg \in DOMAIN now : now[reg] \in 0 .. 99
      /\ now.sec \in 0 .. 59 /\ now.min \in 0 .. 59 /\ now.hour \in 0 .. 23
    BY DEF Dates
<1>2. /\ Cmos("sec") = BinToBcd(now.sec) /\ Cmos("min") = BinToBcd(now.min)
      /\ Cmos("hour") = BinToBcd(now.hour)
      /\ \A reg \in DOMAIN Blank : Cmos(reg) = BinToBcd(now[reg])
    BY <1>1 DEF Cmos, Blank
<1>3. Cmos("century") = BinToBcd(IF now.year >= 70 THEN 19 ELSE 20)
    BY <1>1 DEF Cmos
<1>4. BinToBcd(19) = 25 /\ BinToBcd(20) = 32
    BY DEF BinToBcd
<1>5. \A reg \in DOMAIN Blank : reg \in DOMAIN now
    BY <1>1 DEF Blank
<1> QED
    BY <1>1, <1>2, <1>3, <1>4, <1>5, BcdRoundTrip DEF Bcd

\* A time of day that set_alarm(1) carries by hand is that of the next second.
LEMMA CarriedIsNextSecond ==
    ASSUME NEW t \in [DOMAIN Blank -> Int],
           t.sec \in 0 .. 59, t.min \in 0 .. 59, t.hour \in 0 .. 23
    PROVE  TimeOfDay(Carried(t, 1)) = TimeOfDay(NextSecond(t))
<1> DEFINE c == Carried(t, 1)
           n == NextSecond(t)
<1>1. /\ c.sec = (t.sec + 1) % 60
      /\ c.min = (t.min + (IF t.sec + 1 >= 60 THEN 1 ELSE 0)) % 60
      /\ c.hour = (t.hour + (IF t.min + (IF t.sec + 1 >= 60 THEN 1 ELSE 0) >= 60
                             THEN 1 ELSE 0)) % 24
    <2>1. 1 % 60 = 1 /\ 1 \div 60 = 0 /\ (1 \div 60) % 60 = 0 /\ 1 \div 3600 = 0
        OBVIOUS
    <2> QED
        BY <2>1 DEF Carried
<1>2. c.sec = n.sec /\ c.min = n.min /\ c.hour = n.hour
    <2>1. CASE t.sec < 59
        <3>1. n.sec = t.sec + 1 /\ n.min = t.min /\ n.hour = t.hour
            BY <2>1 DEF NextSecond, Blank
        <3> QED
            BY <1>1, <2>1, <3>1
    <2>2. CASE ~(t.sec < 59) /\ t.min < 59
        <3>1. n.sec = 0 /\ n.min = t.min + 1 /\ n.hour = t.hour
            BY <2>2 DEF NextSecond, Blank
        <3>2. t.sec = 59 /\ 60 % 60 = 0 /\ t.min + 1 \in 0 .. 59
            BY <2>2
        <3>3. c.sec = 0 /\ c.min = (t.min + 1) % 60 /\ c.hour = t.hour % 24
            BY <1>1, <3>2
        <3>4. (t.min + 1) % 60 = t.min + 1 /\ t.hour % 24 = t.hour
            BY <3>2
        <3> QED
            BY <3>1, <3>3, <3>4
    <2>3. CASE ~(t.sec < 59) /\ ~(t.min < 59) /\ t.hour < 23
        <3>1. n.sec = 0 /\ n.min = 0 /\ n.hour = t.hour + 1
            BY <2>3 DEF NextSecond, Blank
        <3>2. t.sec = 59 /\ t.min = 59 /\ 60 % 60 = 0 /\ t.hour + 1 \in 0 .. 23
            BY <2>3
        <3>3. c.sec = 0 /\ c.min = 0 /\ c.hour = (t.hour + 1) % 24
            BY <1>1, <3>2
        <3>4. (t.hour + 1) % 24 = t.hour + 1
            BY <3>2
        <3> QED
            BY <3>1, <3>3, <3>4
    <2>4. CASE ~(t.sec < 59) /\ ~(t.min < 59) /\ ~(t.hour < 23)
        <3> DEFINE e == [t EXCEPT !.sec = 0, !.min = 0, !.hour = 0]
        <3>1. n = NextDay(e)
            BY <2>4 DEF NextSecond
        <3>2. /\ e.sec = 0 /\ e.min = 0 /\ e.hour = 0
              /\ DOMAIN e = {"sec", "min", "hour", "mday", "mon", "year"}
            BY DEF Blank
        <3> HIDE DEF e
        <3>3. NextDay(e).sec = 0 /\ NextDay(e).min = 0 /\ NextDay(e).hour = 0
            <4>1. CASE e.mday < DaysIn(e.mon, e.year)
                BY <3>2, <4>1 DEF NextDay
            <4>2. CASE ~(e.mday < DaysIn(e.mon, e.year)) /\ e.mon < 12
                BY <3>2, <4>2 DEF NextDay
            <4>3. CASE ~(e.mday < DaysIn(e.mon, e.year)) /\ ~(e.mon < 12)
                BY <3>2, <4>3 DEF NextDay
            <4> QED
                BY <4>1, <4>2, <4>3
        <3>4. t.sec = 59 /\ t.min = 59 /\ t.hour = 23 /\ 60 % 60 = 0 /\ 24 % 24 = 0
            BY <2>4
        <3>5. c.sec = 0 /\ c.min = 0 /\ c.hour = 0
            BY <1>1, <3>4
        <3> QED
            BY <3>1, <3>3, <3>5
    <2> QED
        BY <2>1, <2>2, <2>3, <2>4
<1> QED
    BY <1>2, Zenon DEF TimeOfDay

\* Time goes on within the dates.
LEMMA NextSecondInDates ==
    ASSUME NEW d \in Dates
    PROVE  NextSecond(d) \in Dates
<1>1. /\ d.year \in 0 .. 99 /\ d.mon \in 1 .. 12 /\ d.mday \in 1 .. 31
      /\ d.hour \in 0 .. 23 /\ d.min \in 0 .. 59 /\ d.sec \in 0 .. 59
      /\ 0 \in 0 .. 23 /\ 0 \in 0 .. 59 /\ 1 \in 1 .. 31 /\ 1 \in 1 .. 12
    BY DEF Dates
<1>2. CASE d.sec < 59
    <2>1. d.sec + 1 \in 0 .. 59
        BY <1>1, <1>2
    <2> QED
        BY <1>2, <2>1, SetField DEF NextSecond
<1>3. CASE ~(d.sec < 59) /\ d.min < 59
    <2>1. d.min + 1 \in 0 .. 59
        BY <1>1, <1>3
    <2>2. NextSecond(d) = [[d EXCEPT !.sec = 0] EXCEPT !.min = d.min + 1]
        BY <1>3 DEF NextSecond
    <2>3. [d EXCEPT !.sec = 0] \in Dates
        BY <1>1, SetField
    <2> QED
        BY <2>1, <2>2, <2>3, SetField
<1> DEFINE m == [[d EXCEPT !.sec = 0] EXCEPT !.min = 0]
<1>4. m \in Dates
    <2>1. [d EXCEPT !.sec = 0] \in Dates
        BY <1>1, SetField
    <2> QED
        BY <1>1, <2>1, SetField
<1>5. CASE ~(d.sec < 59) /\ ~(d.min < 59) /\ d.hour < 23
    <2>1. d.hour + 1 \in 0 .. 23
        BY <1>1, <1>5
    <2>2. NextSecond(d) = [m EXCEPT !.hour = d.hour + 1]
        BY <1>5 DEF NextSecond
    <2> HIDE DEF m
    <2> QED
        BY <1>4, <2>1, <2>2, SetField
<1>6. CASE ~(d.sec < 59) /\ ~(d.min < 59) /\ ~(d.hour < 23)
    <2> DEFINE e == [m EXCEPT !.hour = 0]
    <2>1. NextSecond(d) = NextDay(e)
        BY <1>6 DEF NextSecond
    <2> HIDE DEF m
    <2>2. e \in Dates
        BY <1>1, <1>4, SetField
    <2> HIDE DEF e
    <2>3. e.year \in 0 .. 99 /\ e.mon \in 1 .. 12 /\ e.mday \in 1 .. 31
        BY <2>2 DEF Dates
    <2>4. CASE e.mday < DaysIn(e.mon, e.year)
        <3>1. e.mday + 1 \in 1 .. 31
            BY <2>3, <2>4 DEF DaysIn
        <3> QED
            BY <2>1, <2>2, <2>4, <3>1, SetField DEF NextDay
    <2>5. CASE ~(e.mday < DaysIn(e.mon, e.year)) /\ e.mon < 12
        <3>1. e.mon + 1 \in 1 .. 12
            BY <2>3, <2>5
        <3>2. NextDay(e) = [[e EXCEPT !.mday = 1] EXCEPT !.mon = e.mon + 1]
            BY <2>5 DEF NextDay
        <3>3. [e EXCEPT !.mday = 1] \in Dates
            BY <1>1, <2>2, SetField
        <3> QED
            BY <2>1, <3>1, <3>2, <3>3, SetField
    <2>6. CASE ~(e.mday < DaysIn(e.mon, e.year)) /\ ~(e.mon < 12)
        <3>1. (e.year + 1) % 100 \in 0 .. 99
            BY <2>3
        <3>2. NextDay(e) = [[[e EXCEPT !.mday = 1] EXCEPT !.mon = 1]
                                EXCEPT !.year = (e.year + 1) % 100]
            BY <2>6 DEF NextDay
        <3>3. [e EXCEPT !.mday = 1] \in Dates
            BY <1>1, <2>2, SetField
        <3>4. [[e EXCEPT !.mday = 1] EXCEPT !.mon = 1] \in Dates
            BY <1>1, <3>3, SetField
        <3> DEFINE f == [[e EXCEPT !.mday = 1] EXCEPT !.mon = 1]
                   y == (e.year + 1) % 100
        <3>5. NextDay(e) = [f EXCEPT !.year = y] /\ f \in Dates /\ y \in 0 .. 99
            BY <3>1, <3>2, <3>4
        <3> HIDE DEF f, y
        <3>6. \A x \in 0 .. 99 : [f EXCEPT !.year = x] \in Dates
            BY <3>5, SetField, Zenon
        <3> QED
            BY <2>1, <3>5, <3>6
    <2> QED
        BY <2>4, <2>5, <2>6
<1> QED
    BY <1>2, <1>3, <1>5, <1>6

ReadsTime(c) == pc[c] \in {"time_init", "time_read"}

\* How many CMOS accesses the routine at a label makes, one if none.
Length(label) ==
    CASE label \in {"time_init", "time_read"} -> 9
      [] label = "rtc_init" -> 2
      [] label = "write_alarm" -> 5
      [] OTHER -> 1

\* What a context has read and written so far, place by place.
RegisterInv ==
    /\ now \in Dates
    /\ alarm \in [AlarmRegs -> Int]
    /\ tm \in [Contexts -> [DOMAIN Blank -> Int]]
    /\ \A c \in Contexts : step[c] \in 1 .. Length(pc[c])
    /\ \A c \in Contexts : ReadsTime(c) =>
            /\ step[c] > 1 => tm[c].sec \in Bcd(60)
            /\ step[c] > 2 => tm[c].min \in Bcd(60)
            /\ step[c] > 3 => tm[c].hour \in Bcd(24)
            /\ step[c] > 8 => century \in {25, 32}
    /\ \A c \in Contexts : pc[c] = "write_alarm" =>
            /\ tm[c].sec \in 0 .. 59 /\ tm[c].min \in 0 .. 59
            /\ tm[c].hour \in 0 .. 23
            /\ LET wanted == TimeOfDay(Carried(tm[c], 1))
               IN  /\ step[c] > 1 => alarm["alarm_hour"] = wanted["alarm_hour"]
                   /\ step[c] > 2 => alarm["alarm_min"] = wanted["alarm_min"]
                   /\ step[c] > 3 => alarm["alarm_sec"] = wanted["alarm_sec"]
    /\ (\A c \in Contexts : ~ReadsTime(c)) => century \in {0, 19, 20}

LEMMA RegisterInvInit == Init => RegisterInv
<1> SUFFICES ASSUME Init
             PROVE  RegisterInv
    OBVIOUS
<1>1. now \in Dates
    BY RtcAssumption DEF Init, IsDate
<1>2. alarm \in [AlarmRegs -> Int] /\ tm \in [Contexts -> [DOMAIN Blank -> Int]]
    BY DEF Init, Blank
<1>3. \A c \in Contexts : pc[c] \in {"clock_init", "send_eoi"} /\ step[c] = 1
    BY DEF Init
<1> QED
    BY <1>1, <1>2, <1>3 DEF Init, RegisterInv, ReadsTime, Length

\* The accesses of the two routines that matter, one by one.
LEMMA AccessTable ==
    ASSUME NEW c \in Contexts, step[c] \in 1 .. Length(pc[c])
    PROVE  /\ ReadsTime(c) =>
                /\ Len(Accesses(pc[c])) = 9
                /\ Access(c).op = "read" /\ Access(c).reg # "C"
                /\ step[c] = 1 => Access(c).reg = "sec"
                /\ step[c] = 2 => Access(c).reg = "min"
                /\ step[c] = 3 => Access(c).reg = "hour"
                /\ step[c] = 8 => Access(c).reg = "century"
                /\ step[c] = 9 => Access(c).reg = "sec"
                /\ step[c] > 3 => Access(c).reg \notin {"min", "hour"}
                /\ step[c] \in 2 .. 8 => Access(c).reg # "sec"
           /\ pc[c] = "write_alarm" =>
                /\ Len(Accesses(pc[c])) = 5
                /\ step[c] = 1 => Access(c) = Write("alarm_hour")
                /\ step[c] = 2 => Access(c) = Write("alarm_min")
                /\ step[c] = 3 => Access(c) = Write("alarm_sec")
                /\ step[c] = 4 => Access(c) = Write("B")
                /\ step[c] = 5 => Access(c) = Read("C")
           /\ pc[c] = "rtc_init" =>
                /\ Len(Accesses(pc[c])) = 2
                /\ step[c] = 1 => Access(c) = Write("B")
                /\ step[c] = 2 => Access(c) = Read("C")
           /\ pc[c] = "clear_flag" => Len(Accesses(pc[c])) = 1 /\ Access(c) = Read("C")
<1>1. CASE ReadsTime(c)
    <2>1. Accesses(pc[c]) = TimeRead /\ step[c] \in 1 .. 9
        BY <1>1 DEF ReadsTime, Accesses, Length
    <2>2. Len(TimeRead) = 9
        BY DEF TimeRead
    <2>3. TimeRead[step[c]] = Read(TimeFields[IF step[c] = 9 THEN 1 ELSE step[c]])
        BY <2>1 DEF TimeRead
    <2>4. /\ TimeFields[1] = "sec" /\ TimeFields[2] = "min" /\ TimeFields[3] = "hour"
          /\ TimeFields[4] = "wday" /\ TimeFields[5] = "mday" /\ TimeFields[6] = "mon"
          /\ TimeFields[7] = "year" /\ TimeFields[8] = "century"
        BY DEF TimeFields
    <2>5. /\ Access(c).op = "read"
          /\ Access(c).reg = TimeFields[IF step[c] = 9 THEN 1 ELSE step[c]]
        BY <2>1, <2>3 DEF Access, Read
    <2> QED
        BY <1>1, <2>1, <2>2, <2>4, <2>5 DEF ReadsTime
<1>2. CASE pc[c] = "write_alarm"
    <2>1. step[c] \in 1 .. 5
        BY <1>2 DEF Length
    <2> QED
        BY <1>2, <2>1 DEF ReadsTime, Access, Accesses
<1>3. CASE pc[c] = "rtc_init"
    <2>1. step[c] \in 1 .. 2
        BY <1>3 DEF Length
    <2> QED
        BY <1>3, <2>1 DEF ReadsTime, Access, Accesses
<1>4. CASE pc[c] = "clear_flag"
    <2>1. step[c] = 1
        BY <1>4 DEF Length
    <2> QED
        BY <1>4, <2>1 DEF ReadsTime, Access, Accesses
<1> QED
    BY <1>1, <1>2, <1>3, <1>4 DEF ReadsTime

\* While a context runs, the other one is in none of the routines.
LEMMA OthersIdle ==
    ASSUME BootInv, NEW c \in Contexts, running = c, NEW d \in Contexts \ {c}
    PROVE  ~ReadsTime(d) /\ pc[d] # "write_alarm"
BY DEF BootInv, Contexts, ReadsTime

\* A step that leaves the registers and the routines' progress alone.
LEMMA RegisterInvQuiet ==
    ASSUME RegisterInv, now' \in Dates,
           UNCHANGED <<alarm, tm, century>>,
           \A c \in Contexts : step'[c] \in 1 .. Length(pc'[c]),
           \A c \in Contexts : \/ pc'[c] = pc[c] /\ step'[c] = step[c]
                             \/ /\ ~ReadsTime(c) /\ pc'[c] # "write_alarm"
                                /\ step'[c] = 1
    PROVE  RegisterInv'
<1>1. \A c \in Contexts : ReadsTime(c)' /\ step'[c] > 1 => ReadsTime(c) /\ step[c] = step'[c]
    BY DEF ReadsTime
<1>2. \A c \in Contexts : pc'[c] = "write_alarm" => pc[c] = "write_alarm" /\ step[c] = step'[c]
    OBVIOUS
<1>3. \A c \in Contexts : ReadsTime(c) => ReadsTime(c)'
    BY DEF ReadsTime
<1>4. \A c \in Contexts : step'[c] \in Int /\ step[c] \in Int
    BY DEF RegisterInv
<1> QED
    BY <1>1, <1>2, <1>3, <1>4 DEF RegisterInv

\* What Proceed does, by whether the access is the last of the routine.
LEMMA ProceedEffect ==
    ASSUME BootInv, NEW c \in Contexts, Proceed(c)
    PROVE  /\ \A d \in Contexts \ {c} : pc'[d] = pc[d] /\ step'[d] = step[d]
           /\ step[c] # Len(Accesses(pc[c])) => pc'[c] = pc[c] /\ step'[c] = step[c] + 1
           /\ step[c] = Len(Accesses(pc[c])) => pc'[c] = After(c) /\ step'[c] = 1
BY DEF BootInv, Proceed

\* cmos_write.
LEMMA RegisterInvWrite ==
    ASSUME BootInv, RegisterInv, NEW c \in Contexts, WriteData(c)
    PROVE  RegisterInv'
<1> USE DEF RegisterInv
<1> DEFINE wanted == TimeOfDay(Carried(tm[c], 1))
<1>1. /\ running = c /\ pc[c] \in Routines /\ selected[c] /\ Access(c).op = "write"
      /\ index = Access(c).reg /\ Proceed(c)
      /\ UNCHANGED <<now, tm, century>>
      /\ alarm' = IF index \in AlarmRegs
                  THEN [alarm EXCEPT ![index] = wanted[index]] ELSE alarm
    BY DEF WriteData, AtAccess, BootInv
<1>2. \A d \in Contexts \ {c} : /\ ~ReadsTime(d) /\ pc[d] # "write_alarm"
                              /\ pc'[d] = pc[d] /\ step'[d] = step[d]
    BY <1>1, OthersIdle, ProceedEffect
<1>3. \/ pc[c] = "rtc_init" /\ step[c] = 1
      \/ pc[c] = "write_alarm" /\ step[c] \in 1 .. 4
    BY <1>1, AccessTable DEF Routines, ReadsTime, Length, Read
<1>4. pc'[c] = pc[c] /\ step'[c] = step[c] + 1
    <2>1. step[c] # Len(Accesses(pc[c]))
        <3>1. step[c] \in 1 .. Length(pc[c])
            OBVIOUS
        <3>2. /\ pc[c] = "rtc_init" => Len(Accesses(pc[c])) = 2
              /\ pc[c] = "write_alarm" => Len(Accesses(pc[c])) = 5
            BY <3>1, AccessTable
        <3>3. CASE pc[c] = "rtc_init" /\ step[c] = 1
            <4>1. 1 # 2
                OBVIOUS
            <4> QED
                BY <3>2, <3>3, <4>1, Zenon
        <3>4. CASE pc[c] = "write_alarm" /\ step[c] \in 1 .. 4
            <4>1. step[c] # 5
                BY <3>4
            <4> QED
                BY <3>2, <3>4, <4>1
        <3> QED
            BY <1>3, <3>3, <3>4
    <2> QED
        BY <1>1, <2>1, ProceedEffect
<1>5. \A d \in Contexts : step'[d] \in 1 .. Length(pc'[d])
    BY <1>2, <1>3, <1>4 DEF Length
<1>6. \A d \in Contexts : ~ReadsTime(d) /\ ~ReadsTime(d)'
    BY <1>2, <1>3, <1>4 DEF ReadsTime
<1>7. CASE pc[c] = "rtc_init"
    <2>1. alarm' = alarm
        BY <1>1, <1>3, <1>7, AccessTable DEF Write, AlarmRegs
    <2> QED
        BY <1>1, <1>2, <1>4, <1>5, <1>6, <1>7, <2>1
<1>8. CASE pc[c] = "write_alarm"
    <2>1. wanted \in [AlarmRegs -> Int]
        <3>1. tm[c].sec \in 0 .. 59 /\ tm[c].min \in 0 .. 59 /\ tm[c].hour \in 0 .. 23
            BY <1>8
        <3>2. /\ Carried(tm[c], 1).sec \in Int /\ Carried(tm[c], 1).min \in Int
              /\ Carried(tm[c], 1).hour \in Int
            BY <3>1 DEF Carried
        <3> QED
            BY <3>2 DEF TimeOfDay, AlarmRegs, BinToBcd
    <2> HIDE DEF wanted
    <2>2. /\ step[c] = 1 => index = "alarm_hour"
          /\ step[c] = 2 => index = "alarm_min"
          /\ step[c] = 3 => index = "alarm_sec"
          /\ step[c] = 4 => index = "B"
        BY <1>1, <1>8, AccessTable DEF Write
    <2>3. alarm' \in [AlarmRegs -> Int]
        BY <1>1, <2>1 DEF AlarmRegs
    <2>4. /\ step[c] > 1 => alarm["alarm_hour"] = wanted["alarm_hour"]
          /\ step[c] > 2 => alarm["alarm_min"] = wanted["alarm_min"]
          /\ step[c] > 3 => alarm["alarm_sec"] = wanted["alarm_sec"]
        BY <1>8 DEF wanted
    <2>5. /\ step'[c] > 1 => alarm'["alarm_hour"] = wanted["alarm_hour"]
          /\ step'[c] > 2 => alarm'["alarm_min"] = wanted["alarm_min"]
          /\ step'[c] > 3 => alarm'["alarm_sec"] = wanted["alarm_sec"]
        BY <1>1, <1>3, <1>4, <1>8, <2>2, <2>4 DEF AlarmRegs
    <2>6. wanted' = wanted
        BY <1>1 DEF wanted
    <2>7. \A d \in Contexts : pc'[d] = "write_alarm" => d = c
        BY <1>2
    <2>8. /\ now' \in Dates
          /\ tm' \in [Contexts -> [DOMAIN Blank -> Int]]
          /\ (\A d \in Contexts : ~ReadsTime(d)') => century' \in {0, 19, 20}
        BY <1>1, <1>6
    <2>9. /\ tm'[c].sec \in 0 .. 59 /\ tm'[c].min \in 0 .. 59 /\ tm'[c].hour \in 0 .. 23
        BY <1>1, <1>8
    <2> QED
        BY <1>5, <1>6, <2>3, <2>5, <2>6, <2>7, <2>8, <2>9 DEF wanted
<1> QED
    BY <1>3, <1>7, <1>8

\* cmos_read(CMOS_C) is the last access of each routine that makes it.
LEMMA RegisterInvFlags ==
    ASSUME BootInv, RegisterInv, NEW c \in Contexts, ReadFlags(c)
    PROVE  RegisterInv'
<1> USE DEF RegisterInv
<1>1. /\ running = c /\ pc[c] \in Routines /\ Access(c).reg = "C" /\ Proceed(c)
      /\ UNCHANGED <<now, alarm, century>>
      /\ tm' = IF pc[c] = "write_alarm" THEN [tm EXCEPT ![c] = Blank] ELSE tm
    BY DEF ReadFlags, AtAccess
<1>2. \A d \in Contexts \ {c} : /\ ~ReadsTime(d) /\ pc[d] # "write_alarm"
                              /\ pc'[d] = pc[d] /\ step'[d] = step[d]
    BY <1>1, OthersIdle, ProceedEffect
<1>3. \/ pc[c] = "rtc_init" /\ step[c] = 2
      \/ pc[c] = "clear_flag" /\ step[c] = 1
      \/ pc[c] = "write_alarm" /\ step[c] = 5
    <2>1. step[c] \in 1 .. Length(pc[c])
        OBVIOUS
    <2>2. ~ReadsTime(c)
        BY <1>1, <2>1, AccessTable
    <2>3. pc[c] \in {"rtc_init", "clear_flag", "write_alarm"}
        BY <1>1, <2>2 DEF Routines, ReadsTime
    <2>4. CASE pc[c] = "rtc_init"
        <3>1. step[c] \in 1 .. 2 /\ (step[c] = 1 => Access(c) = Write("B"))
            BY <2>1, <2>4, AccessTable DEF Length
        <3> QED
            BY <1>1, <2>4, <3>1 DEF Write
    <2>5. CASE pc[c] = "clear_flag"
        BY <2>1, <2>5 DEF Length
    <2>6. CASE pc[c] = "write_alarm"
        <3>1. /\ step[c] \in 1 .. 5
              /\ step[c] = 1 => Access(c) = Write("alarm_hour")
              /\ step[c] = 2 => Access(c) = Write("alarm_min")
              /\ step[c] = 3 => Access(c) = Write("alarm_sec")
              /\ step[c] = 4 => Access(c) = Write("B")
            BY <2>1, <2>6, AccessTable DEF Length
        <3> QED
            BY <1>1, <2>6, <3>1 DEF Write
    <2> QED
        BY <2>3, <2>4, <2>5, <2>6
<1>4. pc'[c] = After(c) /\ step'[c] = 1
    <2>1. step[c] = Len(Accesses(pc[c]))
        BY <1>3, AccessTable
    <2> QED
        BY <1>1, <2>1, ProceedEffect
<1>5. After(c) # "write_alarm"
    BY <1>3, AfterBoot, AfterHandler DEF BootInv, BootLabels, HandlerLabels, Contexts
<1>6. \A d \in Contexts : ~ReadsTime(d) /\ pc'[d] # "write_alarm"
    BY <1>2, <1>3, <1>4, <1>5 DEF ReadsTime
<1>7. \A d \in Contexts : step'[d] \in 1 .. Length(pc'[d])
    BY <1>2, <1>4 DEF Length
<1>8. \A d \in Contexts : ReadsTime(d)' => step'[d] = 1
    BY <1>2, <1>4 DEF ReadsTime
<1>9. tm' \in [Contexts -> [DOMAIN Blank -> Int]]
    BY <1>1 DEF Blank
<1> QED
    BY <1>1, <1>6, <1>7, <1>8, <1>9

\* The loop of time_read_bcd.
LEMMA RegisterInvReadTime ==
    ASSUME BootInv, RegisterInv, NEW c \in Contexts,
           ReadTime(c) \/ ReadTimeAgain(c)
    PROVE  RegisterInv'
<1> USE DEF RegisterInv
<1>1. /\ running = c /\ ReadsTime(c) /\ UNCHANGED <<now, alarm>>
    <2>1. CASE ReadTime(c)
        BY <2>1 DEF ReadTime, AtAccess, ReadsTime, chipVars
    <2>2. CASE ReadTimeAgain(c)
        <3>1. pc[c] \in Routines /\ step[c] = 9 /\ step[c] \in 1 .. Length(pc[c])
            BY <2>2 DEF ReadTimeAgain, AtAccess
        <3>2. ReadsTime(c)
            BY <3>1 DEF Length, Routines, ReadsTime
        <3> QED
            BY <2>2, <3>2 DEF ReadTimeAgain, AtAccess, chipVars
    <2> QED
        BY <2>1, <2>2
<1>2. step[c] \in 1 .. 9 /\ step \in [Contexts -> Nat]
    BY <1>1 DEF Length, ReadsTime, BootInv
<1>3. CASE ReadTimeAgain(c)
    <2>1. /\ step' = [step EXCEPT ![c] = 1] /\ UNCHANGED <<pc, tm, century>>
        BY <1>3 DEF ReadTimeAgain
    <2>2. \A d \in Contexts : step'[d] \in 1 .. Length(pc'[d])
        BY <1>2, <2>1 DEF Length
    <2>3. /\ step'[c] = 1
          /\ \A d \in Contexts \ {c} : step'[d] = step[d] /\ ~ReadsTime(d)
                                    /\ pc[d] # "write_alarm"
        BY <1>1, <1>2, <2>1, OthersIdle
    <2>4. \A d \in Contexts : ReadsTime(d)' = ReadsTime(d) /\ pc'[d] # "write_alarm"
        BY <1>1, <2>1, <2>3 DEF ReadsTime
    <2> QED
        BY <1>1, <2>1, <2>2, <2>3, <2>4
<1>4. CASE ReadTime(c)
    <2> DEFINE reg == Access(c).reg
    <2>1. /\ step[c] < 9 /\ index = reg /\ Proceed(c)
          /\ tm' = IF reg \in DOMAIN Blank THEN [tm EXCEPT ![c][reg] = Cmos(reg)] ELSE tm
          /\ century' = IF reg = "century" THEN Cmos(reg) ELSE century
        BY <1>4 DEF ReadTime, BootInv
    <2>2. /\ pc'[c] = pc[c] /\ step'[c] = step[c] + 1
          /\ \A d \in Contexts \ {c} : /\ ~ReadsTime(d) /\ pc[d] # "write_alarm"
                                    /\ pc'[d] = pc[d] /\ step'[d] = step[d]
        <3>1. step[c] # Len(Accesses(pc[c]))
            <4>1. step[c] \in 1 .. Length(pc[c])
                OBVIOUS
            <4>2. Len(Accesses(pc[c])) = 9
                BY <1>1, <4>1, AccessTable
            <4> QED
                BY <1>2, <2>1, <4>2
        <3> QED
            BY <1>1, <2>1, <3>1, OthersIdle, ProceedEffect
    <2>3. /\ step[c] = 1 => reg = "sec"
          /\ step[c] = 2 => reg = "min"
          /\ step[c] = 3 => reg = "hour"
          /\ step[c] = 8 => reg = "century"
          /\ step[c] > 3 => reg \notin {"min", "hour"}
          /\ step[c] \in 2 .. 8 => reg # "sec"
        BY <1>1, AccessTable
    <2>4. /\ Cmos("sec") \in Bcd(60) /\ Cmos("min") \in Bcd(60)
          /\ Cmos("hour") \in Bcd(24) /\ Cmos("century") \in {25, 32}
          /\ \A r \in DOMAIN Blank : Cmos(r) \in Int
        BY CmosValues
    <2> HIDE DEF reg
    <2>5. DOMAIN Blank = {"sec", "min", "hour", "mday", "mon", "year"}
        BY DEF Blank
    <2>6. tm' \in [Contexts -> [DOMAIN Blank -> Int]]
        BY <2>1, <2>4
    <2>7. \A r \in DOMAIN Blank : tm'[c][r] = IF r = reg THEN Cmos(reg) ELSE tm[c][r]
        BY <2>1
    <2>8. /\ tm'[c].sec = IF "sec" = reg THEN Cmos(reg) ELSE tm[c].sec
          /\ tm'[c].min = IF "min" = reg THEN Cmos(reg) ELSE tm[c].min
          /\ tm'[c].hour = IF "hour" = reg THEN Cmos(reg) ELSE tm[c].hour
        BY <2>5, <2>7
    <2>9. /\ step'[c] > 1 => tm'[c].sec \in Bcd(60)
          /\ step'[c] > 2 => tm'[c].min \in Bcd(60)
          /\ step'[c] > 3 => tm'[c].hour \in Bcd(24)
          /\ step'[c] > 8 => century' \in {25, 32}
        <3>1. step[c] \in 1 .. 8 /\ step'[c] = step[c] + 1
            BY <1>2, <2>1, <2>2
        <3>2. /\ step[c] > 1 => tm[c].sec \in Bcd(60)
              /\ step[c] > 2 => tm[c].min \in Bcd(60)
              /\ step[c] > 3 => tm[c].hour \in Bcd(24)
            BY <1>1
        <3> QED
            BY <2>1, <2>3, <2>4, <2>8, <3>1, <3>2
    <2>10. ReadsTime(c)' /\ \A d \in Contexts \ {c} : ~ReadsTime(d)'
        BY <1>1, <2>2 DEF ReadsTime
    <2>11. \A d \in Contexts : pc'[d] # "write_alarm"
        BY <1>1, <2>2 DEF ReadsTime
    <2>12. \A d \in Contexts : step'[d] \in 1 .. Length(pc'[d])
        BY <1>1, <1>2, <2>1, <2>2 DEF Length, ReadsTime
    <2> QED
        BY <1>1, <2>6, <2>9, <2>10, <2>11, <2>12
<1> QED
    BY <1>3, <1>4

\* time_read returns, and time_init goes on to mktime.
LEMMA RegisterInvDone ==
    ASSUME BootInv, RegisterInv, NEW c \in Contexts, ReadTimeDone(c)
    PROVE  RegisterInv'
<1> DEFINE decoded == [field \in DOMAIN Blank |-> BcdToBin(tm[c][field])]
<1>1. /\ running = c /\ pc[c] \in Routines /\ step[c] = 9 /\ Proceed(c)
      /\ UNCHANGED <<now, alarm>>
      /\ century' = BcdToBin(century)
      /\ tm' = [tm EXCEPT ![c] = IF pc[c] = "time_init" THEN Blank ELSE decoded]
    BY DEF ReadTimeDone, AtAccess, chipVars
<1>2. step[c] \in 1 .. Length(pc[c])
    BY DEF RegisterInv
<1>3. ReadsTime(c)
    BY <1>1, <1>2 DEF Length, Routines, ReadsTime
<1>4. step[c] = Len(Accesses(pc[c]))
    BY <1>1, <1>2, <1>3, AccessTable
<1>5. /\ pc'[c] = After(c) /\ step'[c] = 1
      /\ \A d \in Contexts \ {c} : /\ ~ReadsTime(d) /\ pc[d] # "write_alarm"
                                /\ pc'[d] = pc[d] /\ step'[d] = step[d]
    BY <1>1, <1>4, OthersIdle, ProceedEffect
<1>6. \/ pc[c] = "time_init" /\ pc'[c] = "rtc_init"
      \/ pc[c] = "time_read" /\ pc'[c] = "write_alarm"
    BY <1>3, <1>5, AfterBoot, AfterHandler
       DEF ReadsTime, BootInv, BootLabels, HandlerLabels, Contexts
<1>7. /\ tm[c].sec \in Bcd(60) /\ tm[c].min \in Bcd(60) /\ tm[c].hour \in Bcd(24)
      /\ century \in {25, 32} /\ tm[c] \in [DOMAIN Blank -> Int]
    BY <1>1, <1>3 DEF RegisterInv
<1>8. /\ BcdToBin(tm[c].sec) \in 0 .. 59 /\ BcdToBin(tm[c].min) \in 0 .. 59
      /\ BcdToBin(tm[c].hour) \in 0 .. 23
    BY <1>7, BcdDecoded
<1>9. DOMAIN Blank = {"sec", "min", "hour", "mday", "mon", "year"}
    BY DEF Blank
<1>10. decoded \in [DOMAIN Blank -> Int] /\ Blank \in [DOMAIN Blank -> Int]
    <2>1. \A field \in DOMAIN Blank : tm[c][field] \in Int
        BY <1>7
    <2>2. \A v \in Int : BcdToBin(v) \in Int
        BY DEF BcdToBin
    <2> QED
        BY <2>1, <2>2 DEF Blank
<1>11. decoded.sec \in 0 .. 59 /\ decoded.min \in 0 .. 59 /\ decoded.hour \in 0 .. 23
    BY <1>8, <1>9
<1>12. century' \in {19, 20}
    <2>1. BcdToBin(25) = 19 /\ BcdToBin(32) = 20
        BY DEF BcdToBin
    <2> QED
        BY <1>1, <1>7, <2>1
<1> HIDE DEF decoded
<1>13. tm \in [Contexts -> [DOMAIN Blank -> Int]]
    BY DEF RegisterInv
<1>14. /\ tm' \in [Contexts -> [DOMAIN Blank -> Int]]
       /\ pc[c] = "time_read" => tm'[c] = decoded
    BY <1>1, <1>10, <1>13
<1>15. \A d \in Contexts : ~ReadsTime(d)'
    BY <1>5, <1>6 DEF ReadsTime
<1>16. \A d \in Contexts : pc'[d] = "write_alarm" => d = c /\ pc[c] = "time_read"
    BY <1>5, <1>6
<1>17. \A d \in Contexts : step'[d] \in 1 .. Length(pc'[d])
    BY <1>5, <1>6 DEF Length, RegisterInv
<1> QED
    BY <1>1, <1>5, <1>11, <1>12, <1>14, <1>15, <1>16, <1>17 DEF RegisterInv

LEMMA RegisterInvStep == BootInv /\ RegisterInv /\ [Next]_vars => RegisterInv'
<1> SUFFICES ASSUME BootInv, RegisterInv, [Next]_vars
             PROVE  RegisterInv'
    OBVIOUS
<1>1. \A c \in Contexts : step[c] \in 1 .. Length(pc[c])
    BY DEF RegisterInv
<1>2. now \in Dates /\ NextSecond(now) \in Dates
    BY NextSecondInDates DEF RegisterInv
<1>3. CASE \/ UNCHANGED vars \/ Tick \/ ClockRequest \/ ClockHandler
           \/ \E irq \in {IRQ_CLOCK, IRQ_RTC} : Accept(irq)
    <2>1. now' \in {now, NextSecond(now)} /\ UNCHANGED <<alarm, tm, century, pc, step>>
        BY <1>3 DEF vars, chipVars, codeVars, Tick, ClockRequest, ClockHandler, Accept
    <2> QED
        BY <1>1, <1>2, <2>1, RegisterInvQuiet
<1>4. CASE \E c \in Contexts : CmosStep(c)
    <2>1. PICK c \in Contexts : CmosStep(c)
        BY <1>4
    <2>2. CASE Select(c)
        <3>1. UNCHANGED <<now, alarm, tm, century, pc, step>>
            BY <2>2 DEF Select, chipVars
        <3> QED
            BY <1>1, <1>2, <3>1, RegisterInvQuiet
    <2> QED
        BY <2>1, <2>2, RegisterInvWrite, RegisterInvFlags, RegisterInvReadTime,
           RegisterInvDone DEF CmosStep
<1>5. CASE \/ ClockInit \/ EnableInterrupts \/ RtcSetRate \/ RtcSetHandler \/ RtcUnmask
           \/ CascadeUnmask
    <2>1. /\ pc["boot"] \in {"clock_init", "sti", "set_rate", "set_handler", "unmask",
                              "unmask_cascade"}
          /\ pc' = [pc EXCEPT !["boot"] = After("boot")]
          /\ UNCHANGED <<now, alarm, tm, century, step>>
        BY <1>5 DEF ClockInit, EnableInterrupts, RtcSetRate,
                    RtcSetHandler, RtcUnmask, CascadeUnmask,
                    BootStep, chipVars
    <2>2. After("boot") \in {"sti", "time_init", "time_read", "unmask", "unmask_cascade",
                         "spin"}
        BY <2>1, AfterBoot
    <2>3. /\ pc'["boot"] = After("boot") /\ pc'["rtc_handler"] = pc["rtc_handler"]
        BY <2>1 DEF BootInv, Contexts
    <2>4. step["boot"] = 1
        BY <1>1, <2>1 DEF Length, Contexts
    <2>5. step'["boot"] \in 1 .. Length(pc'["boot"])
        BY <2>1, <2>2, <2>3, <2>4 DEF Length
    <2> QED
        BY <1>1, <1>2, <2>1, <2>2, <2>3, <2>4, <2>5, RegisterInvQuiet
           DEF Contexts, ReadsTime
<1>6. CASE RtcHandlerEoi \/ RtcHandlerExit
    <2>1. /\ pc["rtc_handler"] \in {"send_eoi", "iret"}
          /\ pc' = [pc EXCEPT !["rtc_handler"] =
                        IF pc["rtc_handler"] = "send_eoi" THEN "clear_flag" ELSE "send_eoi"]
          /\ UNCHANGED <<now, alarm, tm, century, step>>
        BY <1>6, AfterHandler DEF RtcHandlerEoi, RtcHandlerExit, RtcHandlerStep, chipVars
    <2>2. /\ pc'["rtc_handler"] \in {"clear_flag", "send_eoi"}
          /\ pc'["boot"] = pc["boot"]
        BY <2>1 DEF BootInv, Contexts
    <2>3. step["rtc_handler"] = 1
        BY <1>1, <2>1 DEF Length, Contexts
    <2>4. step'["rtc_handler"] \in 1 .. Length(pc'["rtc_handler"])
        BY <2>1, <2>2, <2>3 DEF Length
    <2> QED
        BY <1>1, <1>2, <2>1, <2>2, <2>3, <2>4, RegisterInvQuiet DEF Contexts, ReadsTime
<1> QED
    BY <1>3, <1>4, <1>5, <1>6 DEF Next, Boot, Handler, Contexts

-----------------------------------------------------------------------------
(* End of interrupt *)

\* Which interrupts are in service depends on what the CPU runs: the handler of
\* the clock has its own, that of the clock chip both of its until its EOI.
ServiceInv ==
    /\ running # "rtc_handler" /\ running # "clock_handler" => in_service = {}
    /\ running = "clock_handler" => in_service = {IRQ_CLOCK} /\ ~intr
    /\ running = "rtc_handler" =>
          in_service = IF pc["rtc_handler"] = "send_eoi"
                       THEN {IRQ_RTC, IRQ_CASCADE} ELSE {}

\* The end-of-interrupt command with one interrupt in service on a chip.
LEMMA EndedOne ==
    ASSUME NEW chip, NEW irq \in Int, in_service \cap chip = {irq}
    PROVE  Ended(chip) = {irq}
<1>1. Min({irq}) = irq
    BY DEF Min
<1> QED
    BY <1>1 DEF Ended

\* Whatever is in service is ended by the handler that was called for it,
\* before it does anything else.
LEMMA ServiceInvStep == BootInv /\ ServiceInv /\ [Next]_vars => ServiceInv'
<1> SUFFICES ASSUME BootInv, ServiceInv, [Next]_vars
             PROVE  ServiceInv'
    OBVIOUS
<1>1. CASE \/ UNCHANGED vars \/ Tick \/ ClockRequest
    BY <1>1 DEF vars, picVars, codeVars, Tick, ClockRequest, ServiceInv
<1>2. CASE \E irq \in {IRQ_CLOCK, IRQ_RTC} : Accept(irq)
    <2>1. PICK irq \in {IRQ_CLOCK, IRQ_RTC} : Accept(irq)
        BY <1>2
    <2>2. /\ intr /\ ~intr' /\ irq \in Pending /\ running' = handler_table[irq]
          /\ in_service' = in_service \cup {irq, Priority(irq)} /\ UNCHANGED pc
        BY <2>1 DEF Accept, Acknowledge, codeVars
    <2>3. in_service = {} /\ pc["rtc_handler"] = "send_eoi"
        BY <2>2 DEF ServiceInv, BootInv
    <2>4. \/ irq = IRQ_CLOCK /\ running' = "clock_handler"
          \/ irq = IRQ_RTC /\ running' = "rtc_handler"
        BY <2>2, PendingHandlers
    <2>5. Priority(IRQ_CLOCK) = IRQ_CLOCK /\ Priority(IRQ_RTC) = IRQ_CASCADE
        BY DEF Priority, IRQ_CLOCK, IRQ_RTC, Slave
    <2> QED
        BY <2>2, <2>3, <2>4, <2>5 DEF ServiceInv
<1>3. CASE ClockHandler
    <2>1. /\ running = "clock_handler" /\ running' = "tasks"
          /\ in_service' = in_service \ (Ended(Master) \cup
                              (IF IRQ_CLOCK \in Slave THEN Ended(Slave) ELSE {}))
        BY <1>3 DEF ClockHandler, SendEoi
    <2>2. in_service = {IRQ_CLOCK} /\ in_service \cap Master = {IRQ_CLOCK}
        BY <2>1 DEF ServiceInv, Master, IRQ_CLOCK
    <2>3. Ended(Master) = {IRQ_CLOCK}
        BY <2>2, EndedOne DEF IRQ_CLOCK
    <2> QED
        BY <2>1, <2>2, <2>3 DEF ServiceInv
<1>4. CASE RtcHandlerEoi
    <2>1. /\ running = "rtc_handler" /\ running' = running
          /\ pc["rtc_handler"] = "send_eoi"
          /\ pc' = [pc EXCEPT !["rtc_handler"] = "clear_flag"]
          /\ in_service' = in_service \ (Ended(Master) \cup
                              (IF IRQ_RTC \in Slave THEN Ended(Slave) ELSE {}))
        BY <1>4, AfterHandler DEF RtcHandlerEoi, RtcHandlerStep, SendEoi
    <2>2. /\ in_service = {IRQ_RTC, IRQ_CASCADE} /\ IRQ_RTC \in Slave
          /\ in_service \cap Master = {IRQ_CASCADE} /\ in_service \cap Slave = {IRQ_RTC}
        BY <2>1 DEF ServiceInv, Master, Slave, IRQ_RTC, IRQ_CASCADE
    <2>3. Ended(Master) = {IRQ_CASCADE} /\ Ended(Slave) = {IRQ_RTC}
        BY <2>2, EndedOne DEF IRQ_RTC, IRQ_CASCADE
    <2>4. pc'["rtc_handler"] = "clear_flag"
        BY <2>1 DEF BootInv, Contexts
    <2> QED
        BY <2>1, <2>2, <2>3, <2>4 DEF ServiceInv
<1>5. CASE RtcHandlerExit
    <2>1. /\ running = "rtc_handler" /\ pc["rtc_handler"] = "iret"
          /\ running' = interrupted /\ UNCHANGED in_service
        BY <1>5 DEF RtcHandlerExit, RtcHandlerStep
    <2> QED
        BY <2>1 DEF ServiceInv, BootInv
<1>6. CASE \/ ClockInit \/ EnableInterrupts \/ RtcSetRate
           \/ RtcSetHandler \/ RtcUnmask \/ CascadeUnmask
    BY <1>6 DEF ClockInit, EnableInterrupts, RtcSetRate,
                RtcSetHandler, RtcUnmask, CascadeUnmask,
                BootStep, ServiceInv
<1>7. ASSUME NEW c \in Contexts, CmosStep(c)
      PROVE  ServiceInv'
    <2>1. CmosEffect(c) /\ UNCHANGED in_service
        BY <1>7, CmosStepEffect DEF CmosStep, Select, WriteData, ReadFlags, ReadTime,
                                    ReadTimeAgain, ReadTimeDone, picVars
    <2>2. /\ running = c /\ pc[c] \in Routines /\ UNCHANGED running
          /\ pc' = pc \/ pc' = [pc EXCEPT ![c] = After(c)]
        BY <2>1 DEF CmosEffect, AtAccess
    <2>3. CASE c = "boot"
        BY <2>1, <2>2, <2>3 DEF ServiceInv
    <2>4. CASE c = "rtc_handler"
        <3>1. pc[c] \in {"clear_flag", "time_read", "write_alarm"}
            BY <2>2, <2>4 DEF BootInv, Routines, HandlerLabels
        <3>2. After(c) # "send_eoi"
            BY <2>4, <3>1, AfterHandler
        <3>3. pc'[c] # "send_eoi"
            BY <2>2, <3>1, <3>2 DEF BootInv
        <3> QED
            BY <2>1, <2>2, <2>4, <3>1, <3>3 DEF ServiceInv
    <2> QED
        BY <2>3, <2>4 DEF Contexts
<1> QED
    BY <1>1, <1>2, <1>3, <1>4, <1>5, <1>6, <1>7 DEF Next, Boot, Handler, Contexts

-----------------------------------------------------------------------------
(* What a time that is being read has to do with the time it is *)

\* The access of time_read_bcd that fills a field.
Place == [sec |-> 1, min |-> 2, hour |-> 3, mday |-> 5, mon |-> 6, year |-> 7]

\* The seconds on the stack of c are those of k seconds ago; if they are those
\* of this second, so are the other fields that have been read.
ReadAgo(c, k) ==
    step[c] > 1 =>
        /\ tm[c].sec = BinToBcd((now.sec + 60 - k) % 60)
        /\ k = 0 => \A field \in DOMAIN Blank :
                        Place[field] < step[c] => tm[c][field] = BinToBcd(now[field])

\* They are of less than a minute ago, so seconds that look the same are.
SnapshotInv ==
    /\ IsDate(now)
    /\ seconds \in 0 .. MaxSeconds
    /\ age \in [Contexts -> 0 .. MaxAge]
    /\ \A c \in Contexts : ReadsTime(c) => ReadAgo(c, age[c])

\* From one second to the next, whatever else is carried.
LEMMA NextSecondIsDate ==
    ASSUME NEW d, IsDate(d)
    PROVE  /\ IsDate(NextSecond(d))
           /\ NextSecond(d).sec = IF d.sec < 59 THEN d.sec + 1 ELSE 0
<1>1. d \in Dates /\ d.mday <= DaysIn(d.mon, d.year)
      /\ DOMAIN d = {"year", "mon", "mday", "hour", "min", "sec"}
    BY DEF IsDate, Dates
<1> DEFINE n == NextSecond(d)
           e == [d EXCEPT !.sec = 0, !.min = 0, !.hour = 0]
<1>2. n \in Dates
    BY <1>1, NextSecondInDates
<1>3. CASE ~(d.sec < 59 \/ d.min < 59 \/ d.hour < 23)
    <2>1. n = NextDay(e)
        BY <1>3 DEF NextSecond
    <2>2. /\ e.sec = 0 /\ e.mday = d.mday /\ e.mon = d.mon /\ e.year = d.year
          /\ DOMAIN e = {"year", "mon", "mday", "hour", "min", "sec"}
        BY <1>1
    <2> HIDE DEF e
    <2>3. CASE e.mday < DaysIn(e.mon, e.year)
        <3>1. n = [e EXCEPT !.mday = @ + 1]
            BY <2>1, <2>3 DEF NextDay
        <3>2. n.sec = 0 /\ n.mday = d.mday + 1 /\ n.mon = d.mon /\ n.year = d.year
            BY <2>2, <3>1
        <3> HIDE DEF n
        <3>3. d.mday \in Int /\ DaysIn(d.mon, d.year) \in Int
            BY <1>1 DEF Dates, DaysIn
        <3> QED
            BY <1>2, <1>3, <2>2, <2>3, <3>2, <3>3 DEF IsDate, n
    <2>4. CASE ~(e.mday < DaysIn(e.mon, e.year))
        <3>1. n.sec = 0 /\ n.mday = 1
            BY <2>1, <2>2, <2>4 DEF NextDay
        <3>2. 1 <= DaysIn(n.mon, n.year)
            BY DEF DaysIn
        <3> QED
            BY <1>2, <1>3, <3>1, <3>2 DEF IsDate
    <2> QED
        BY <2>3, <2>4
<1>4. CASE d.sec < 59 \/ d.min < 59 \/ d.hour < 23
    <2>1. n.mday = d.mday /\ n.mon = d.mon /\ n.year = d.year
        BY <1>1, <1>4 DEF NextSecond
    <2>2. n.sec = IF d.sec < 59 THEN d.sec + 1 ELSE 0
        BY <1>1, <1>4 DEF NextSecond
    <2> QED
        BY <1>1, <1>2, <2>1, <2>2 DEF IsDate
<1> QED
    BY <1>3, <1>4

LEMMA SnapshotInvInit == Init => SnapshotInv
<1> SUFFICES ASSUME Init
             PROVE  SnapshotInv
    OBVIOUS
<1>1. /\ IsDate(now) /\ seconds \in 0 .. MaxSeconds
      /\ age \in [Contexts -> 0 .. MaxAge]
    BY RtcAssumption DEF Init
<1>2. \A c \in Contexts : ~ReadsTime(c)
    BY DEF Init, ReadsTime
<1> QED
    BY <1>1, <1>2 DEF SnapshotInv

\* How far a routine that reads the time may get in a step.
LEMMA ReadingProgress ==
    ASSUME BootInv, RegisterInv, [Next]_vars, NEW c \in Contexts, ReadsTime(c)'
    PROVE  \/ ReadTime(c)
           \/ step'[c] = 1
           \/ /\ ReadsTime(c)
              /\ step'[c] = step[c] /\ tm'[c] = tm[c]
<1>0. \A d \in Contexts : step[d] \in 1 .. Length(pc[d])
    BY DEF RegisterInv
<1>1. CASE \/ UNCHANGED vars \/ Tick \/ ClockRequest \/ ClockHandler
           \/ \E irq \in {IRQ_CLOCK, IRQ_RTC} : Accept(irq)
    BY <1>1 DEF vars, chipVars, codeVars, Tick, ClockRequest, ClockHandler, Accept,
                ReadsTime
<1>2. CASE \/ ClockInit \/ EnableInterrupts \/ RtcSetRate \/ RtcSetHandler \/ RtcUnmask
           \/ CascadeUnmask \/ RtcHandlerEoi \/ RtcHandlerExit
    <2>1. PICK d \in Contexts :
            /\ pc[d] \in {"clock_init", "sti", "set_rate", "set_handler", "unmask",
                           "unmask_cascade", "send_eoi", "iret"}
            /\ pc' = [pc EXCEPT ![d] = pc'[d]]
            /\ UNCHANGED <<step, tm>>
        BY <1>2 DEF ClockInit, EnableInterrupts, RtcSetRate,
                    RtcSetHandler, RtcUnmask, CascadeUnmask,
                    BootStep, RtcHandlerEoi, RtcHandlerExit, RtcHandlerStep, Contexts,
                    BootInv
    <2>2. CASE c = d
        <3>1. step[c] = 1
            BY <1>0, <2>1, <2>2 DEF Length
        <3> QED
            BY <2>1, <3>1
    <2>3. CASE c # d
        BY <2>1, <2>3 DEF BootInv, ReadsTime
    <2> QED
        BY <2>2, <2>3
<1>3. ASSUME NEW d \in Contexts, CmosStep(d), c # d
      PROVE  ReadsTime(c) /\ step'[c] = step[c] /\ tm'[c] = tm[c]
    <2>1. CmosEffect(d)
        BY <1>3, CmosStepEffect
    <2>2. pc'[c] = pc[c] /\ step'[c] = step[c]
        BY <1>3, <2>1 DEF CmosEffect, BootInv
    <2>3. tm'[c] = tm[c]
        BY <1>3 DEF CmosStep, Select, WriteData, ReadFlags, ReadTime, ReadTimeAgain,
                    ReadTimeDone, RegisterInv
    <2> QED
        BY <2>2, <2>3 DEF ReadsTime
<1>4. CASE CmosStep(c)
    <2>1. Proceed(c) => step'[c] = 1 \/ pc'[c] = pc[c]
        BY ProceedEffect
    <2>2. CASE Select(c)
        BY <2>2 DEF Select, ReadsTime
    <2>3. CASE WriteData(c)
        <3>1. Proceed(c) /\ Access(c).op = "write"
            BY <2>3 DEF WriteData
        <3>2. ~ReadsTime(c)
            BY <1>0, <3>1, AccessTable
        <3> QED
            BY <2>1, <3>1, <3>2 DEF ReadsTime
    <2>4. CASE ReadFlags(c)
        <3>1. Proceed(c) /\ Access(c).reg = "C"
            BY <2>4 DEF ReadFlags
        <3>2. ~ReadsTime(c)
            BY <1>0, <3>1, AccessTable
        <3> QED
            BY <2>1, <3>1, <3>2 DEF ReadsTime
    <2>5. CASE ReadTimeAgain(c)
        BY <2>5 DEF ReadTimeAgain, BootInv
    <2>6. CASE ReadTimeDone(c)
        <3>1. Proceed(c) /\ step[c] = 9 /\ pc[c] \in Routines
            BY <2>6 DEF ReadTimeDone, AtAccess
        <3>2. step[c] \in 1 .. Length(pc[c])
            BY <1>0
        <3>3. ReadsTime(c)
            BY <3>1, <3>2 DEF Length, Routines, ReadsTime
        <3> QED
            BY <3>1, <3>2, <3>3, AccessTable, ProceedEffect
    <2> QED
        BY <1>4, <2>2, <2>3, <2>4, <2>5, <2>6 DEF CmosStep
<1> QED
    BY <1>1, <1>2, <1>3, <1>4 DEF Next, Boot, Handler, Contexts

\* A register that is read in its turn has what the chip shows now.
LEMMA ReadTimeEffect ==
    ASSUME BootInv, RegisterInv, now \in Dates, NEW c \in Contexts, ReadTime(c)
    PROVE  /\ step[c] \in 1 .. 8 /\ step'[c] = step[c] + 1
           /\ UNCHANGED <<now, seconds>>
           /\ \A field \in DOMAIN Blank :
                tm'[c][field] = IF Place[field] = step[c] THEN BinToBcd(now[field])
                                ELSE tm[c][field]
<1> DEFINE reg == Access(c).reg
<1>1. /\ ReadsTime(c) /\ step[c] < 9 /\ index = reg /\ Proceed(c)
      /\ tm' = IF reg \in DOMAIN Blank THEN [tm EXCEPT ![c][reg] = Cmos(reg)] ELSE tm
      /\ UNCHANGED <<now, seconds>>
    BY DEF ReadTime, BootInv, ReadsTime, chipVars
<1>2. step[c] \in 1 .. Length(pc[c]) /\ step[c] \in 1 .. 8
    <2>1. step[c] \in 1 .. Length(pc[c])
        BY DEF RegisterInv
    <2> QED
        BY <1>1, <2>1 DEF ReadsTime, Length
<1>3. step'[c] = step[c] + 1
    <2>1. Len(Accesses(pc[c])) = 9
        BY <1>1, <1>2, AccessTable
    <2>2. step[c] # Len(Accesses(pc[c]))
        BY <1>1, <1>2, <2>1
    <2> QED
        BY <1>1, <2>2, ProceedEffect
<1>4. reg = TimeFields[step[c]]
    <2>1. Accesses(pc[c]) = TimeRead
        BY <1>1 DEF ReadsTime, Accesses
    <2>2. TimeRead[step[c]] = Read(TimeFields[step[c]])
        BY <1>2 DEF TimeRead
    <2> QED
        BY <2>1, <2>2 DEF Access, Read
<1>5. \A field \in DOMAIN Blank : reg = field <=> Place[field] = step[c]
    <2>1. /\ TimeFields[1] = "sec" /\ TimeFields[2] = "min" /\ TimeFields[3] = "hour"
          /\ TimeFields[4] = "wday" /\ TimeFields[5] = "mday" /\ TimeFields[6] = "mon"
          /\ TimeFields[7] = "year" /\ TimeFields[8] = "century"
        BY DEF TimeFields
    <2> HIDE DEF reg
    <2> QED
        BY <1>2, <1>4, <2>1 DEF Blank, Place
<1>6. \A field \in DOMAIN Blank : Cmos(field) = BinToBcd(now[field])
    BY DEF Dates, Cmos, Blank
<1> HIDE DEF reg
<1>7. tm[c] \in [DOMAIN Blank -> Int] /\ tm \in [Contexts -> [DOMAIN Blank -> Int]]
    BY DEF RegisterInv
<1>8. \A field \in DOMAIN Blank :
        tm'[c][field] = IF reg = field THEN Cmos(field) ELSE tm[c][field]
    BY <1>1, <1>7
<1> QED
    BY <1>1, <1>2, <1>3, <1>5, <1>6, <1>8

\* A second passes: what has been read is one second older, and the seconds
\* that have been read are not those of this second.
LEMMA SnapshotInvTick ==
    ASSUME SnapshotInv, Tick
    PROVE  SnapshotInv'
<1>1. /\ seconds < MaxSeconds /\ seconds' = seconds + 1 /\ now' = NextSecond(now)
      /\ \A c \in Contexts : InLoop(c) => age[c] < MaxAge
      /\ age' = [c \in Contexts |-> IF InLoop(c) THEN age[c] + 1 ELSE 0]
      /\ UNCHANGED <<pc, step, tm>>
    BY DEF Tick, codeVars
<1>2. /\ MaxAge \in 0 .. 59 /\ MaxSeconds \in Nat /\ seconds \in 0 .. MaxSeconds
      /\ IsDate(now) /\ \A c \in Contexts : age[c] \in 0 .. MaxAge
    BY RtcAssumption DEF SnapshotInv
<1>3. /\ IsDate(now') /\ now.sec \in 0 .. 59
      /\ now'.sec = IF now.sec < 59 THEN now.sec + 1 ELSE 0
    BY <1>1, <1>2, NextSecondIsDate, DateFields
<1>4. seconds' \in 0 .. MaxSeconds /\ age' \in [Contexts -> 0 .. MaxAge]
    BY <1>1, <1>2
<1>5. ASSUME NEW c \in Contexts, ReadsTime(c)'
      PROVE  ReadAgo(c, age[c])'
    <2> DEFINE k == age[c]
    <2>1. ReadsTime(c) /\ ReadAgo(c, k)
        BY <1>1, <1>5 DEF SnapshotInv, ReadsTime
    <2>2. CASE ~(step[c] > 1)
        BY <1>1, <2>2 DEF ReadAgo
    <2>3. CASE step[c] > 1
        <3>1. InLoop(c)
            BY <2>1, <2>3 DEF InLoop, ReadsTime
        <3>2. age'[c] = k + 1 /\ k \in 0 .. 58
            BY <1>1, <1>2, <3>1
        <3> HIDE DEF k
        <3>3. (now'.sec + 60 - (k + 1)) % 60 = (now.sec + 60 - k) % 60
            <4>1. CASE now.sec < 59
                <5>1. now'.sec + 60 - (k + 1) = now.sec + 60 - k
                    BY <1>3, <3>2, <4>1
                <5> QED
                    BY <5>1
            <4>2. CASE ~(now.sec < 59)
                <5>1. /\ now'.sec + 60 - (k + 1) = 59 - k
                      /\ now.sec + 60 - k = (59 - k) + 60
                    BY <1>3, <3>2, <4>2
                <5>2. 59 - k \in 0 .. 59
                    BY <3>2
                <5>3. \A x \in 0 .. 59 : (x + 60) % 60 = x % 60
                    OBVIOUS
                <5> QED
                    BY <5>1, <5>2, <5>3
            <4> QED
                BY <4>1, <4>2
        <3>4. tm[c].sec = BinToBcd((now.sec + 60 - k) % 60)
            BY <2>1, <2>3 DEF ReadAgo
        <3>5. k + 1 # 0
            BY <3>2
        <3> QED
            BY <1>1, <3>2, <3>3, <3>4, <3>5 DEF ReadAgo
    <2> QED
        BY <2>2, <2>3
<1> QED
    BY <1>3, <1>4, <1>5 DEF SnapshotInv

\* While no second passes, an age changes only when the seconds are read.
LEMMA ReadTimeOnlyAges ==
    ASSUME [Next]_vars, UNCHANGED seconds, seconds \in Nat
    PROVE  \/ UNCHANGED age
           \/ \E c \in Contexts :
                 ReadTime(c) /\ age' = IF step[c] = 1 THEN [age EXCEPT ![c] = 0] ELSE age
<1>1. ~Tick
    BY DEF Tick
<1>2. ASSUME NEW c \in Contexts, CmosStep(c)
      PROVE  \/ UNCHANGED age
             \/ ReadTime(c) /\ age' = IF step[c] = 1 THEN [age EXCEPT ![c] = 0] ELSE age
    BY <1>2 DEF CmosStep, Select, WriteData, ReadFlags, ReadTime, ReadTimeAgain,
                ReadTimeDone, chipVars
<1>3. \/ UNCHANGED age
      \/ \E c \in Contexts : CmosStep(c)
    BY <1>1 DEF vars, chipVars, Next, Boot, Handler, ClockRequest, Accept, ClockInit,
                EnableInterrupts, RtcSetRate, RtcSetHandler, RtcUnmask, CascadeUnmask, BootStep,
                ClockHandler, RtcHandlerEoi, RtcHandlerExit, RtcHandlerStep, Contexts
<1> QED
    BY <1>2, <1>3

\* A step in which no second passes.
LEMMA SnapshotInvSame ==
    ASSUME BootInv, RegisterInv, SnapshotInv, [Next]_vars, UNCHANGED <<now, seconds>>
    PROVE  SnapshotInv'
<1>1. /\ IsDate(now) /\ seconds \in 0 .. MaxSeconds /\ now \in Dates
      /\ now.sec \in 0 .. 59 /\ age \in [Contexts -> 0 .. MaxAge] /\ 0 \in 0 .. MaxAge
    BY RtcAssumption, DateFields DEF SnapshotInv
<1>2. \/ UNCHANGED age
      \/ \E c \in Contexts :
            ReadTime(c) /\ age' = IF step[c] = 1 THEN [age EXCEPT ![c] = 0] ELSE age
    BY <1>1, RtcAssumption, ReadTimeOnlyAges
<1>3. age' \in [Contexts -> 0 .. MaxAge]
    BY <1>1, <1>2
<1>4. ASSUME NEW c \in Contexts, ReadsTime(c)'
      PROVE  ReadAgo(c, age[c])'
    <2>1. CASE step'[c] = 1
        BY <2>1 DEF ReadAgo
    <2>2. CASE ReadsTime(c) /\ step'[c] = step[c] /\ tm'[c] = tm[c]
        <3>1. ReadAgo(c, age[c])
            BY <2>2 DEF SnapshotInv
        <3>2. age'[c] = age[c] \/ step[c] = 1
            BY <1>1, <1>2
        <3> QED
            BY <2>2, <3>1, <3>2 DEF ReadAgo
    <2>3. CASE ReadTime(c)
        <3>1. /\ step[c] \in 1 .. 8 /\ step'[c] = step[c] + 1
              /\ \A field \in DOMAIN Blank :
                    tm'[c][field] = IF Place[field] = step[c] THEN BinToBcd(now[field])
                                    ELSE tm[c][field]
            BY <1>1, <2>3, ReadTimeEffect
        <3>2. /\ DOMAIN Blank = {"sec", "min", "hour", "mday", "mon", "year"}
              /\ \A field \in DOMAIN Blank : Place[field] \in 1 .. 7
              /\ \A field \in DOMAIN Blank : Place[field] = 1 <=> field = "sec"
            BY DEF Blank, Place
        <3>3. tm'[c].sec = IF step[c] = 1 THEN BinToBcd(now.sec) ELSE tm[c].sec
            BY <3>1, <3>2
        <3>4. age'[c] = IF step[c] = 1 THEN 0 ELSE age[c]
            BY <1>1, <2>3 DEF ReadTime
        <3>5. CASE step[c] = 1
            <4>1. (now.sec + 60 - 0) % 60 = now.sec
                BY <1>1
            <4>2. \A field \in DOMAIN Blank : Place[field] < step'[c] => field = "sec"
                BY <3>1, <3>2, <3>5
            <4> QED
                BY <3>3, <3>4, <3>5, <4>1, <4>2 DEF ReadAgo
        <3>6. CASE step[c] # 1
            <4>1. ReadsTime(c) /\ step[c] > 1
                BY <2>3, <3>1, <3>6 DEF ReadTime, ReadsTime
            <4>2. /\ tm[c].sec = BinToBcd((now.sec + 60 - age[c]) % 60)
                  /\ age[c] = 0 =>
                        \A field \in DOMAIN Blank :
                            Place[field] < step[c] => tm[c][field] = BinToBcd(now[field])
                BY <4>1 DEF SnapshotInv, ReadAgo
            <4>3. \A field \in DOMAIN Blank :
                    Place[field] < step'[c] =>
                        Place[field] < step[c] \/ Place[field] = step[c]
                BY <3>1, <3>2
            <4>4. age[c] = 0 =>
                    \A field \in DOMAIN Blank :
                        Place[field] < step'[c] => tm'[c][field] = BinToBcd(now[field])
                BY <3>1, <4>2, <4>3
            <4> QED
                BY <3>3, <3>4, <3>6, <4>2, <4>4 DEF ReadAgo
        <3> QED
            BY <3>5, <3>6
    <2> QED
        BY <1>4, <2>1, <2>2, <2>3, ReadingProgress
<1> QED
    BY <1>1, <1>3, <1>4 DEF SnapshotInv

LEMMA SnapshotInvStep ==
    BootInv /\ RegisterInv /\ SnapshotInv /\ [Next]_vars => SnapshotInv'
<1> SUFFICES ASSUME BootInv, RegisterInv, SnapshotInv, [Next]_vars
             PROVE  SnapshotInv'
    OBVIOUS
<1>1. Tick \/ UNCHANGED <<now, seconds>>
    <2>1. ASSUME NEW c \in Contexts, CmosStep(c)
          PROVE  UNCHANGED <<now, seconds>>
        BY <2>1 DEF CmosStep, Select, WriteData, ReadFlags, ReadTime, ReadTimeAgain,
                    ReadTimeDone, chipVars
    <2> QED
        BY <2>1 DEF vars, chipVars, Next, Boot, Handler, ClockRequest, Accept, ClockInit,
                    EnableInterrupts, RtcSetRate,
                    RtcSetHandler, RtcUnmask, CascadeUnmask, BootStep,
                    ClockHandler, RtcHandlerEoi, RtcHandlerExit, RtcHandlerStep, Contexts
<1> QED
    BY <1>1, SnapshotInvTick, SnapshotInvSame

\* BinToBcd tells the numbers of two digits apart.
LEMMA BcdInjective ==
    ASSUME NEW i \in 0 .. 99, NEW j \in 0 .. 99, BinToBcd(i) = BinToBcd(j)
    PROVE  i = j
BY BcdRoundTrip

\* Seconds that look the same at the end of the loop are the same second, and
\* the fields in between are that second's.
LEMMA ReadTimeIsExact ==
    ASSUME BootInv, RegisterInv, SnapshotInv, NEW c \in Contexts, ReadTimeDone(c)
    PROVE  \A field \in DOMAIN Blank :
                BcdToBin(tm[c][field]) = now[field] /\ now[field] \in 0 .. 99
<1>1. /\ step[c] = 9 /\ pc[c] \in Routines /\ tm[c].sec = Cmos(index) /\ selected[c]
    BY DEF ReadTimeDone, AtAccess, SecondUnchanged
<1>2. step[c] \in 1 .. Length(pc[c])
    BY DEF RegisterInv
<1>3. ReadsTime(c)
    BY <1>1, <1>2 DEF Length, Routines, ReadsTime
<1>4. index = "sec"
    BY <1>1, <1>2, <1>3, AccessTable DEF BootInv
<1>5. /\ now.sec \in 0 .. 59
      /\ \A field \in DOMAIN Blank : now[field] \in 0 .. 99
      /\ "sec" \in DOMAIN now
    BY DEF SnapshotInv, IsDate, Dates, Blank
<1>6. tm[c].sec = BinToBcd(now.sec)
    BY <1>1, <1>4, <1>5 DEF Cmos
<1> DEFINE k == age[c]
<1>7. ReadAgo(c, k)
    BY <1>3 DEF SnapshotInv
<1>8. k \in 0 .. 59
    BY RtcAssumption DEF SnapshotInv
<1> HIDE DEF k
<1>9. k = 0
    <2>0. now.sec \in 0 .. 59
        BY <1>5
    <2>1. (now.sec + 60 - k) % 60 \in 0 .. 59
        BY <1>5, <1>8
    <2>2. BinToBcd((now.sec + 60 - k) % 60) = BinToBcd(now.sec)
        BY <1>1, <1>6, <1>7 DEF ReadAgo
    <2>3. (now.sec + 60 - k) % 60 = now.sec
        <3>1. \A i, j \in 0 .. 99 : BinToBcd(i) = BinToBcd(j) => i = j
            BY BcdInjective
        <3>2. (now.sec + 60 - k) % 60 \in 0 .. 99 /\ now.sec \in 0 .. 99
            BY <1>5, <2>1
        <3> QED
            BY <2>2, <3>1, <3>2
    <2>4. \A x \in 1 .. 119 : x % 60 = IF x < 60 THEN x ELSE x - 60
        OBVIOUS
    <2>5. now.sec + 60 - k \in 1 .. 119
        BY <1>5, <1>8
    <2>6. now.sec = IF now.sec + 60 - k < 60 THEN now.sec + 60 - k ELSE now.sec - k
        <3>1. (now.sec + 60 - k) - 60 = now.sec - k
            BY <1>5, <1>8
        <3> QED
            BY <2>3, <2>4, <2>5, <3>1
    <2> QED
        BY <1>8, <2>0, <2>6
<1>10. \A field \in DOMAIN Blank : tm[c][field] = BinToBcd(now[field])
    <2>1. \A field \in DOMAIN Blank : Place[field] < 9
        BY DEF Blank, Place
    <2> QED
        BY <1>1, <1>7, <1>9, <2>1 DEF ReadAgo
<1> QED
    BY <1>5, <1>10, BcdRoundTrip

\* No other step takes a context out of time_init or time_read.
LEMMA OnlyDoneLeaves ==
    ASSUME BootInv, RegisterInv, [Next]_vars, NEW c \in Contexts,
           ReadsTime(c), pc'[c] # pc[c]
    PROVE  ReadTimeDone(c)
<1>0. step[c] \in 1 .. Length(pc[c])
    BY DEF RegisterInv
<1>1. ASSUME NEW d \in Contexts, CmosStep(d)
      PROVE  CmosStep(c)
    <2>1. CmosEffect(d)
        BY <1>1, CmosStepEffect
    <2> QED
        BY <1>1, <2>1 DEF CmosEffect, BootInv
<1>2. CmosStep(c)
    <2>1. ASSUME NEW label, BootStep(label), c # "boot"
          PROVE  pc'[c] = pc[c]
        BY <2>1 DEF BootStep, BootInv, Contexts
    <2>2. ~(UNCHANGED vars \/ Tick \/ ClockRequest \/ ClockHandler
            \/ \E irq \in {IRQ_CLOCK, IRQ_RTC} : Accept(irq))
        BY DEF vars, codeVars, Tick, ClockRequest, ClockHandler, Accept
    <2>3. ~(\/ ClockInit \/ EnableInterrupts \/ RtcSetRate \/ RtcSetHandler
            \/ RtcUnmask \/ CascadeUnmask)
        <3>1. \A label : BootStep(label) => pc["boot"] = label
            BY DEF BootStep
        <3> QED
            BY <2>1, <3>1 DEF ClockInit, EnableInterrupts, RtcSetRate, RtcSetHandler, RtcUnmask,
                CascadeUnmask, ReadsTime
    <2>4. ~(RtcHandlerEoi \/ RtcHandlerExit)
        BY DEF RtcHandlerEoi, RtcHandlerExit, RtcHandlerStep, ReadsTime, BootInv, Contexts
    <2> QED
        BY <1>1, <2>2, <2>3, <2>4 DEF Next, Boot, Handler, Contexts
<1>3. Proceed(c) => step[c] = 9
    <2>1. Len(Accesses(pc[c])) = 9
        BY <1>0, AccessTable
    <2> QED
        BY <2>1, ProceedEffect
<1>4. ~Select(c) /\ ~ReadTimeAgain(c)
    BY DEF Select, ReadTimeAgain
<1>5. ~WriteData(c) /\ ~ReadFlags(c)
    <2>1. Access(c).op = "read" /\ Access(c).reg # "C"
        BY <1>0, AccessTable
    <2> QED
        BY <2>1 DEF WriteData, ReadFlags
<1>6. ~ReadTime(c)
    BY <1>3 DEF ReadTime
<1> QED
    BY <1>2, <1>4, <1>5, <1>6 DEF CmosStep

-----------------------------------------------------------------------------
(* Types *)

\* The dates of the range come at or after 1970.
LEMMA MkTimeIsNat ==
    ASSUME NEW d, IsDate(d)
    PROVE  MkTime(d) \in Nat
<1>1. /\ d.hour \in Nat /\ d.min \in Nat /\ d.sec \in Nat /\ d.mday \in 1 .. 31
      /\ d.mon \in 1 .. 12
      /\ MkTime(d) = 86400 * Days(d) + 3600 * d.hour + 60 * d.min + d.sec
    BY DateFields, MkTimeByDays
<1>2. GetYday(d) \in Nat /\ GetYday(d) >= 1
    <2>1. month[d.mon] \in Nat /\ (d.mon > 2 => month[d.mon] >= 60)
        BY <1>1 DEF month
    <2> QED
        BY <1>1, <2>1 DEF GetYday, LeapDayMissing
<1>3. Days(d) \in Nat
    <2>1. SinceEpoch(d) \in Nat /\ (SinceEpoch(d) + 1) \div 4 \in Nat
        BY SinceEpochRange
    <2> QED
        BY <1>2, <2>1 DEF Days
<1>4. 86400 * Days(d) \in Nat /\ 3600 * d.hour \in Nat /\ 60 * d.min \in Nat
    BY <1>1, <1>3
<1> QED
    BY <1>1, <1>4

\* What time_init hands to mktime is what the chip shows.
LEMMA StartupTimeIsNow ==
    ASSUME BootInv, RegisterInv, SnapshotInv, NEW c \in Contexts, ReadTimeDone(c),
           pc[c] = "time_init"
    PROVE  startup_time' = MkTime(now)
<1> DEFINE decoded == [field \in DOMAIN Blank |-> BcdToBin(tm[c][field])]
<1>1. startup_time' = MkTime(decoded)
    BY DEF ReadTimeDone
<1>2. DOMAIN Blank = {"sec", "min", "hour", "mday", "mon", "year"}
    BY DEF Blank
<1>3. \A field \in DOMAIN Blank : decoded[field] = now[field]
    BY ReadTimeIsExact
<1>4. /\ decoded.sec = now.sec /\ decoded.min = now.min /\ decoded.hour = now.hour
      /\ decoded.mday = now.mday /\ decoded.mon = now.mon /\ decoded.year = now.year
    BY <1>2, <1>3
<1> HIDE DEF decoded
<1> QED
    BY <1>1, <1>4 DEF MkTime, SinceEpoch, GetYday, LeapDayMissing

LEMMA RtcTypeInit == Init => TypeOK
<1> SUFFICES ASSUME Init
             PROVE  TypeOK
    OBVIOUS
<1>1. PicTypeOK
    BY DEF Init, PicInit, PicTypeOK
<1>2. IsDate(now) /\ MaxSeconds \in Nat /\ age \in [Contexts -> 0 .. MaxAge]
    BY RtcAssumption DEF Init
<1>3. tm \in [Contexts -> [DOMAIN Blank -> 0 .. 153]]
    BY DEF Init, Blank
<1>4. /\ alarm \in [AlarmRegs -> 0 .. 89] /\ step \in [Contexts -> 1 .. 9]
      /\ selected \in [Contexts -> BOOLEAN]
    BY DEF Init
<1>5. /\ alarm_enable \in BOOLEAN /\ alarm_flag \in BOOLEAN
      /\ running \in Contexts /\ interrupted \in {"boot", "tasks"}
    BY DEF Init, Contexts
<1>6. startup_time \in Nat /\ century \in 0 .. 32 /\ seconds \in 0 .. MaxSeconds
    BY <1>2 DEF Init
<1> QED
    BY <1>1, <1>2, <1>3, <1>4, <1>5, <1>6 DEF TypeOK

\* What a CMOS access may leave in a register or on a stack.
LEMMA RtcTypeCmos ==
    ASSUME BootInv, RegisterInv, SnapshotInv, TypeOK, NEW c \in Contexts, CmosStep(c)
    PROVE  /\ in_service' \subseteq Irqs /\ intr' \in BOOLEAN
           /\ alarm' \in [AlarmRegs -> 0 .. 89]
           /\ alarm_enable' \in BOOLEAN /\ alarm_flag' \in BOOLEAN
           /\ startup_time' \in Nat /\ century' \in 0 .. 32
           /\ tm' \in [Contexts -> [DOMAIN Blank -> 0 .. 153]]
<1>0. /\ in_service \subseteq Irqs /\ intr \in BOOLEAN
      /\ alarm \in [AlarmRegs -> 0 .. 89]
      /\ alarm_enable \in BOOLEAN /\ alarm_flag \in BOOLEAN
      /\ startup_time \in Nat /\ century \in 0 .. 32
      /\ tm \in [Contexts -> [DOMAIN Blank -> 0 .. 153]]
    BY DEF TypeOK, PicTypeOK
<1>1. Blank \in [DOMAIN Blank -> 0 .. 153]
    BY DEF Blank
<1>2. step[c] \in 1 .. Length(pc[c]) /\ now \in Dates
    BY DEF RegisterInv
<1>3. CASE Select(c) \/ ReadTimeAgain(c)
    BY <1>0, <1>3 DEF Select, ReadTimeAgain, picVars, chipVars
<1>4. CASE ReadFlags(c)
    <2>1. tm' = IF pc[c] = "write_alarm" THEN [tm EXCEPT ![c] = Blank] ELSE tm
        BY <1>4 DEF ReadFlags
    <2>2. tm' \in [Contexts -> [DOMAIN Blank -> 0 .. 153]]
        BY <1>0, <1>1, <2>1
    <2> QED
        BY <1>0, <1>4, <2>2 DEF ReadFlags
<1>5. CASE WriteData(c)
    <2> DEFINE wanted == TimeOfDay(Carried(tm[c], 1))
    <2>1. /\ index = Access(c).reg /\ Access(c).op = "write"
          /\ alarm' = IF index \in AlarmRegs
                      THEN [alarm EXCEPT ![index] = wanted[index]] ELSE alarm
          /\ pc[c] \in Routines
        BY <1>5 DEF WriteData, BootInv, AtAccess
    <2>2. index \in AlarmRegs => pc[c] = "write_alarm"
        <3>1. pc[c] \in {"rtc_init", "write_alarm"}
            BY <1>2, <2>1, AccessTable DEF Routines, ReadsTime, Length, Read
        <3>2. pc[c] = "rtc_init" => Access(c) \in {Write("B"), Read("C")}
            BY <1>2, AccessTable DEF Length
        <3> QED
            BY <2>1, <3>1, <3>2 DEF Write, Read, AlarmRegs
    <2>3. pc[c] = "write_alarm" => wanted \in [AlarmRegs -> 0 .. 89]
        <3> SUFFICES ASSUME pc[c] = "write_alarm"
                     PROVE  wanted \in [AlarmRegs -> 0 .. 89]
            OBVIOUS
        <3>1. tm[c].sec \in 0 .. 59 /\ tm[c].min \in 0 .. 59 /\ tm[c].hour \in 0 .. 23
            BY DEF RegisterInv
        <3>2. /\ Carried(tm[c], 1).sec \in 0 .. 59 /\ Carried(tm[c], 1).min \in 0 .. 59
              /\ Carried(tm[c], 1).hour \in 0 .. 59
            BY <3>1 DEF Carried
        <3>3. \A x \in 0 .. 59 : BinToBcd(x) \in 0 .. 89
            BY DEF BinToBcd
        <3> DEFINE hour == BinToBcd(Carried(tm[c], 1).hour)
                   min  == BinToBcd(Carried(tm[c], 1).min)
                   sec  == BinToBcd(Carried(tm[c], 1).sec)
        <3>4. hour \in 0 .. 89 /\ min \in 0 .. 89 /\ sec \in 0 .. 89
            BY <3>2, <3>3
        <3>5. wanted = [alarm_hour |-> hour, alarm_min |-> min, alarm_sec |-> sec]
            BY DEF TimeOfDay
        <3> HIDE DEF hour, min, sec, wanted
        <3> QED
            BY <3>4, <3>5 DEF AlarmRegs
    <2> HIDE DEF wanted
    <2>4. alarm' \in [AlarmRegs -> 0 .. 89]
        BY <1>0, <2>1, <2>2, <2>3
    <2> QED
        BY <1>0, <1>5, <2>4 DEF WriteData
<1>6. CASE ReadTime(c)
    <2>1. /\ index = Access(c).reg
          /\ tm' = IF index \in DOMAIN Blank THEN [tm EXCEPT ![c][index] = Cmos(index)]
                   ELSE tm
          /\ century' = IF index = "century" THEN Cmos(index) ELSE century
          /\ UNCHANGED <<in_service, intr, alarm, alarm_enable, alarm_flag, startup_time>>
        BY <1>6 DEF ReadTime, BootInv, picVars, chipVars
    <2>2. \A field \in DOMAIN Blank : Cmos(field) \in 0 .. 153
        <3>1. \A field \in DOMAIN Blank : /\ Cmos(field) = BinToBcd(now[field])
                                          /\ now[field] \in 0 .. 99
            BY <1>2 DEF Dates, Cmos, Blank
        <3>2. \A x \in 0 .. 99 : BinToBcd(x) \in 0 .. 153
            BY DEF BinToBcd
        <3> QED
            BY <3>1, <3>2
    <2>3. Cmos("century") \in 0 .. 32
        BY <1>2, CmosValues
    <2>4. tm' \in [Contexts -> [DOMAIN Blank -> 0 .. 153]]
        BY <1>0, <2>1, <2>2
    <2> QED
        BY <1>0, <2>1, <2>3, <2>4
<1>7. CASE ReadTimeDone(c)
    <2> DEFINE decoded == [field \in DOMAIN Blank |-> BcdToBin(tm[c][field])]
    <2>1. /\ century' = BcdToBin(century)
          /\ startup_time' = IF pc[c] = "time_init" THEN MkTime(decoded)
                             ELSE startup_time
          /\ tm' = [tm EXCEPT ![c] = IF pc[c] = "time_init" THEN Blank ELSE decoded]
          /\ UNCHANGED <<in_service, intr, alarm, alarm_enable, alarm_flag>>
        BY <1>7 DEF ReadTimeDone, picVars, chipVars
    <2>2. /\ \A v \in 0 .. 153 : BcdToBin(v) \in 0 .. 153
          /\ \A v \in 0 .. 32 : BcdToBin(v) \in 0 .. 32
        BY DEF BcdToBin
    <2>3. decoded \in [DOMAIN Blank -> 0 .. 153]
        BY <1>0, <2>2
    <2> HIDE DEF decoded
    <2>4. tm' \in [Contexts -> [DOMAIN Blank -> 0 .. 153]]
        BY <1>0, <1>1, <2>1, <2>3
    <2>5. startup_time' \in Nat
        BY <1>0, <1>7, <2>1, StartupTimeIsNow, MkTimeIsNat DEF SnapshotInv
    <2> QED
        BY <1>0, <2>1, <2>2, <2>4, <2>5
<1> QED
    BY <1>3, <1>4, <1>5, <1>6, <1>7 DEF CmosStep

LEMMA RtcTypeStep ==
    ASSUME BootInv, RegisterInv, SnapshotInv, TypeOK, [Next]_vars
    PROVE  TypeOK'
<1>1. BootInv' /\ RegisterInv' /\ SnapshotInv'
    BY BootInvStep, RegisterInvStep, SnapshotInvStep
<1>2. /\ request' \subseteq Irqs /\ selected' \in [Contexts -> BOOLEAN]
      /\ handler_table' \in [Irqs -> {"default_handler", "clock_handler", "rtc_handler"}]
      /\ running' \in Contexts \cup {"clock_handler", "tasks"}
      /\ interrupted' \in {"boot", "tasks"}
    BY <1>1 DEF BootInv, Irqs, IRQ_CLOCK, IRQ_RTC
<1>3. step' \in [Contexts -> 1 .. 9]
    <2>1. \A label : Length(label) \in 1 .. 9
        BY DEF Length
    <2>2. \A c \in Contexts : step'[c] \in 1 .. Length(pc'[c])
        BY <1>1 DEF RegisterInv
    <2>3. \A c \in Contexts : step'[c] \in 1 .. 9
        BY <2>1, <2>2
    <2>4. step' \in [Contexts -> Nat]
        BY <1>1 DEF BootInv
    <2> QED
        BY <2>3, <2>4
<1>4. /\ IsDate(now') /\ seconds' \in 0 .. MaxSeconds
      /\ age' \in [Contexts -> 0 .. MaxAge]
    BY <1>1 DEF SnapshotInv
<1>5. mask' \subseteq Irqs
    <2>1. ASSUME NEW c \in Contexts, CmosStep(c)
          PROVE  UNCHANGED mask
        BY <2>1, CmosStepEffect DEF CmosEffect
    <2>2. mask' \subseteq mask \/ UNCHANGED mask
        BY <2>1 DEF Next, Boot, Handler, Contexts, vars, picVars, Tick, ClockRequest,
            Accept, Acknowledge, ClockInit, EnableInterrupts, RtcSetRate,
            RtcSetHandler, RtcUnmask,
            CascadeUnmask, SetInterruptMask, ClockHandler, RtcHandlerEoi,
            RtcHandlerExit, RtcHandlerStep
    <2> QED
        BY <2>2 DEF TypeOK, PicTypeOK
<1>6. /\ in_service' \subseteq Irqs /\ intr' \in BOOLEAN
      /\ alarm' \in [AlarmRegs -> 0 .. 89]
      /\ alarm_enable' \in BOOLEAN /\ alarm_flag' \in BOOLEAN
      /\ startup_time' \in Nat /\ century' \in 0 .. 32
      /\ tm' \in [Contexts -> [DOMAIN Blank -> 0 .. 153]]
    <2>1. CASE \E c \in Contexts : CmosStep(c)
        BY <2>1, RtcTypeCmos
    <2> USE DEF TypeOK, PicTypeOK
    <2>2. CASE UNCHANGED vars \/ ClockRequest
        BY <2>2 DEF vars, picVars, chipVars, codeVars, ClockRequest
    <2>6. CASE Tick
        <3>1. alarm_flag' \in BOOLEAN
            BY <2>6 DEF Tick
        <3> QED
            BY <2>6, <3>1 DEF Tick, codeVars
    <2>3. CASE \E irq \in {IRQ_CLOCK, IRQ_RTC} : Accept(irq)
        <3>1. PICK irq \in {IRQ_CLOCK, IRQ_RTC} : Accept(irq)
            BY <2>3
        <3>2. irq \in Irqs /\ IRQ_CASCADE \in Irqs
            BY DEF Irqs, IRQ_CLOCK, IRQ_RTC, IRQ_CASCADE
        <3>3. in_service' = in_service \cup {irq, Priority(irq)} /\ intr' = FALSE
            BY <3>1 DEF Accept, Acknowledge
        <3>5. Priority(irq) \in Irqs
            BY <3>2 DEF Priority
        <3>4. UNCHANGED <<alarm, alarm_enable, alarm_flag, startup_time, century, tm>>
            BY <3>1 DEF Accept, chipVars, codeVars
        <3> QED
            BY <3>2, <3>3, <3>4, <3>5
    <2>4. CASE ClockHandler \/ RtcHandlerEoi \/ RtcHandlerExit
        BY <2>4 DEF ClockHandler, RtcHandlerEoi, RtcHandlerExit, RtcHandlerStep, SendEoi,
                    chipVars, codeVars
    <2>5. CASE \/ ClockInit \/ EnableInterrupts \/ RtcSetRate
               \/ RtcSetHandler \/ RtcUnmask \/ CascadeUnmask
        BY <2>5 DEF ClockInit, EnableInterrupts, RtcSetRate,
                    RtcSetHandler, RtcUnmask, CascadeUnmask,
                    BootStep, chipVars
    <2> QED
        BY <2>1, <2>2, <2>3, <2>4, <2>5, <2>6 DEF Next, Boot, Handler, Contexts
<1> QED
    BY <1>1, <1>2, <1>3, <1>4, <1>5, <1>6 DEF TypeOK, PicTypeOK

-----------------------------------------------------------------------------
(* The theorems *)

RtcInv ==
    /\ BootInv
    /\ RegisterInv
    /\ ServiceInv
    /\ SnapshotInv
    /\ TypeOK

\* They hold together, through every interleaving of kernel_init, the handlers,
\* the chip and the requests.
THEOREM RtcInvariant == Spec => []RtcInv
<1>1. Init => RtcInv
    <2>1. Init => ServiceInv
        BY DEF Init, PicInit, ServiceInv
    <2> QED
        BY <2>1, BootInvInit, RegisterInvInit, SnapshotInvInit, RtcTypeInit DEF RtcInv
<1>2. RtcInv /\ [Next]_vars => RtcInv'
    BY BootInvStep, RegisterInvStep, ServiceInvStep, SnapshotInvStep, RtcTypeStep
    DEF RtcInv
<1> QED
    BY <1>1, <1>2, PTL DEF Spec

\* Types, BCD ranges and dates.
THEOREM RtcTypeCorrect == Spec => []TypeOK
<1>1. RtcInv => TypeOK
    BY DEF RtcInv
<1> QED
    BY <1>1, RtcInvariant, PTL

\* Every interrupt is ended in the controllers that have it in service, before
\* its handler returns or switches to a task.
THEOREM NoneLeftInService == Spec => []NothingLeftInService
<1>1. RtcInv => NothingLeftInService
    BY DEF RtcInv, ServiceInv, NothingLeftInService
<1> QED
    BY <1>1, RtcInvariant, PTL

\* time_read returns the time of one second, although the chip may count up to
\* MaxAge times while it is at it.
THEOREM TimeIsOfOneSecond == Spec => TimeReadIsExact
<1>1. ASSUME RtcInv, [Next]_vars, NEW c \in Contexts,
             pc[c] = "time_read", pc'[c] # "time_read",
             NEW field \in DOMAIN Blank
      PROVE  tm'[c][field] = now[field]
    <2>1. ReadTimeDone(c)
        BY <1>1, OnlyDoneLeaves DEF RtcInv, ReadsTime
    <2>2. tm'[c] = [f \in DOMAIN Blank |-> BcdToBin(tm[c][f])]
        BY <1>1, <2>1 DEF ReadTimeDone, RtcInv, RegisterInv
    <2> QED
        BY <1>1, <2>1, <2>2, ReadTimeIsExact DEF RtcInv
<1>2. RtcInv /\ [Next]_vars =>
        [\A c \in Contexts :
             pc[c] = "time_read" /\ pc'[c] # "time_read" =>
                \A field \in DOMAIN Blank : tm'[c][field] = now[field]]_vars
    BY <1>1
<1> QED
    BY <1>2, RtcInvariant, PTL DEF Spec, TimeReadIsExact

\* startup_time is mktime of the one time that the chip shows when time_init has
\* read it; with MkTimeCountsSeconds, the seconds from 1970 to it.
THEOREM StartupTimeIsMkTime ==
    Spec => [][startup_time' # startup_time => startup_time' = MkTime(now)]_vars
<1>1. ASSUME RtcInv, [Next]_vars, startup_time' # startup_time
      PROVE  startup_time' = MkTime(now)
    <2>1. PICK c \in Contexts : ReadTimeDone(c) /\ pc[c] = "time_init"
        BY <1>1 DEF Next, Boot, Handler, Contexts, CmosStep, Select, WriteData, ReadFlags,
            ReadTime, ReadTimeAgain, ReadTimeDone, vars, codeVars, Tick, ClockRequest,
            Accept, ClockInit, EnableInterrupts, RtcSetRate,
            RtcSetHandler, RtcUnmask, CascadeUnmask,
            BootStep, ClockHandler, RtcHandlerEoi, RtcHandlerExit, RtcHandlerStep
    <2> QED
        BY <1>1, <2>1, StartupTimeIsNow DEF RtcInv
<1>2. RtcInv /\ [Next]_vars =>
        [startup_time' # startup_time => startup_time' = MkTime(now)]_vars
    BY <1>1
<1> QED
    BY <1>2, RtcInvariant, PTL DEF Spec

\* startup_time is what counting the days of the years and months yields for the
\* time of the chip.
THEOREM StartupTimeIsCounted == Spec => StartupTimeIsTrue
<1>1. RtcInv /\ [startup_time' # startup_time => startup_time' = MkTime(now)]_vars
        => [startup_time' # startup_time => startup_time' = SecondsTo(now)]_vars
    <2> SUFFICES ASSUME RtcInv, startup_time' # startup_time,
                        startup_time' = MkTime(now)
                 PROVE  startup_time' = SecondsTo(now)
        OBVIOUS
    <2>1. IsDate(now)
        BY DEF RtcInv, SnapshotInv
    <2> QED
        BY <2>1, MkTimeIsSecondsTo
<1> QED
    BY <1>1, StartupTimeIsMkTime, RtcInvariant, PTL DEF StartupTimeIsTrue

\* Whatever interrupts come, an index that is written is the one the data port
\* is then used with, and the global century holds no BCD number once time_read
\* is through: the handler that uses both cannot be let in while they are in use.
THEOREM NoInterference == Spec => []NoCmosInterference
<1>1. RtcInv => NoCmosInterference
    BY DEF RtcInv, BootInv, RegisterInv, NoCmosInterference, ReadsTime
<1> QED
    BY <1>1, RtcInvariant, PTL

\* No interrupt is delivered to default_handler, in whatever order the requests
\* come while kernel_init opens the masks.
THEOREM HandlerBeforeMask == Spec => []OwnHandler
<1>1. RtcInv => OwnHandler
    BY PendingHandlers DEF RtcInv, OwnHandler
<1> QED
    BY <1>1, RtcInvariant, PTL

\* The alarm is set to the second after the one read, on every date.
THEOREM AlarmNextSecond == Spec => []AlarmIsNextSecond
<1>1. ASSUME BootInv, RegisterInv, NEW c \in Contexts,
             pc[c] = "write_alarm", step[c] > 3
      PROVE  alarm = TimeOfDay(NextSecond(tm[c]))
    <2> DEFINE wanted == TimeOfDay(Carried(tm[c], 1))
    <2>1. wanted = TimeOfDay(NextSecond(tm[c]))
        BY <1>1, CarriedIsNextSecond DEF RegisterInv
    <2>2. /\ alarm["alarm_hour"] = wanted["alarm_hour"]
          /\ alarm["alarm_min"] = wanted["alarm_min"]
          /\ alarm["alarm_sec"] = wanted["alarm_sec"]
          /\ alarm \in [AlarmRegs -> Int]
        BY <1>1 DEF RegisterInv
    <2>3. /\ DOMAIN wanted = AlarmRegs
          /\ wanted = [reg \in AlarmRegs |-> wanted[reg]]
        BY DEF TimeOfDay, AlarmRegs
    <2> HIDE DEF wanted
    <2>4. alarm = wanted
        BY <2>2, <2>3 DEF AlarmRegs
    <2> QED
        BY <2>1, <2>4
<1>2. RtcInv => AlarmIsNextSecond
    BY <1>1 DEF RtcInv, AlarmIsNextSecond
<1> QED
    BY <1>2, RtcInvariant, PTL

=============================================================================
