------------------------------- MODULE MCRtc -------------------------------
\* The last seconds before a new century, a leap day, a March of a common year,
\* and an hour.
EXTENDS Rtc

Date(y, m, d, h) ==
    [year |-> y, mon |-> m, mday |-> d, hour |-> h, min |-> 59, sec |-> 59]

MCStartDates ==
    {Date(99, 12, 31, 23), Date(24, 2, 28, 23), Date(23, 2, 28, 23),
     Date(24, 3, 10, 12)}
=============================================================================
