------------------------------ MODULE Calendar ------------------------------
(***************************************************************************)
(* The calendar of src/src/kernel/time.c, which counts with a table of the *)
(* days before each month of a leap year, beside a calendar by definition, *)
(* which goes from one second to the next.                                 *)
(*                                                                         *)
(* A date is a record with the fields of struct tm that the kernel uses;   *)
(* year is tm_year as the CMOS has it, two digits, 70 to 99 in the 1900s.  *)
(***************************************************************************)
EXTENDS Integers, FiniteSetsExt

MINUTE == 60
HOUR   == 60 * MINUTE
DAY    == 24 * HOUR
YEAR   == 365 * DAY

\* Days before each month, of a leap year.
month == <<0, 31, 60, 91, 121, 152, 182, 213, 244, 274, 305, 335>>

\* Fault: the years are counted from 1900 on.
SinceCentury(tm) == tm.year

\* Years from 1970 on.
SinceEpoch(tm) == IF tm.year >= 70 THEN tm.year - 70 ELSE tm.year + 30

\* Fault: January and February of a common year lose the leap day as well.
LeapDayNeverMissing(tm) == (SinceEpoch(tm) + 2) % 4 # 0

\* The table counts a 29th of February that tm's year does not have.
LeapDayMissing(tm) == tm.mon > 2 /\ (SinceEpoch(tm) + 2) % 4 # 0

GetYday(tm) == month[tm.mon] + tm.mday - (IF LeapDayMissing(tm) THEN 1 ELSE 0)

\* mktime; exact in u32 for every date of the range, and in the signed `int` of
\* its first product up to 2038.
MkTime(tm) ==
    YEAR * SinceEpoch(tm)
    + DAY * ((SinceEpoch(tm) + 1) \div 4 + GetYday(tm) - 1)
    + HOUR * tm.hour + MINUTE * tm.min + tm.sec

BcdToBin(v) == (v % 16) + (v \div 16) * 10
BinToBcd(v) == (v \div 10) * 16 + (v % 10)

-----------------------------------------------------------------------------
(* The calendar by definition *)

\* 1970 to 2069: 2000 is a leap year, and no other century is in the range.
IsLeap(year) == year % 4 = 0

DaysIn(mon, year) ==
    CASE mon = 2 -> IF IsLeap(year) THEN 29 ELSE 28
      [] mon \in {4, 6, 9, 11} -> 30
      [] OTHER -> 31

Dates == [year : 0 .. 99, mon : 1 .. 12, mday : 1 .. 31,
          hour : 0 .. 23, min : 0 .. 59, sec : 0 .. 59]

IsDate(d) == d \in Dates /\ d.mday <= DaysIn(d.mon, d.year)

NextDay(d) ==
    IF d.mday < DaysIn(d.mon, d.year) THEN [d EXCEPT !.mday = @ + 1]
    ELSE IF d.mon < 12 THEN [d EXCEPT !.mday = 1, !.mon = @ + 1]
    ELSE [d EXCEPT !.mday = 1, !.mon = 1, !.year = (@ + 1) % 100]

NextSecond(d) ==
    IF d.sec < 59 THEN [d EXCEPT !.sec = @ + 1]
    ELSE IF d.min < 59 THEN [d EXCEPT !.sec = 0, !.min = @ + 1]
    ELSE IF d.hour < 23 THEN [d EXCEPT !.sec = 0, !.min = 0, !.hour = @ + 1]
    ELSE NextDay([d EXCEPT !.sec = 0, !.min = 0, !.hour = 0])

\* The days of the years from 1970 up to `year`, and of its months up to `mon`,
\* counted one by one.
DaysOfYears(year) ==
    MapThenSumSet(LAMBDA y : IF IsLeap(y) THEN 366 ELSE 365, 1970 .. year - 1)
DaysOfMonths(mon, year) ==
    MapThenSumSet(LAMBDA m : DaysIn(m, year), 1 .. mon - 1)

\* The seconds from 1970 to d.
SecondsTo(d) ==
    LET thisYear == IF d.year >= 70 THEN 1900 + d.year ELSE 2000 + d.year
    IN  DAY * (DaysOfYears(thisYear) + DaysOfMonths(d.mon, d.year) + d.mday - 1)
        + HOUR * d.hour + MINUTE * d.min + d.sec

Epoch == [year |-> 70, mon |-> 1, mday |-> 1, hour |-> 0, min |-> 0, sec |-> 0]

=============================================================================
