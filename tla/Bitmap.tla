------------------------------- MODULE Bitmap -------------------------------
(***************************************************************************)
(* src/lib/bitmap.c.  A bitmap of `length` bytes is the set of its bits    *)
(* that are 1, counted from 0; the offset is the caller's first index.     *)
(***************************************************************************)
EXTENDS Integers, FiniteSets, FiniteSetsExt

BYTE == 8
EOF  == -1

BitRange(length) == 0 .. length * BYTE - 1

\* counter[i] of the search loop: after i bits, how many clear bits end there.
ClearRun(bits, length) ==
    LET counter[i \in 0 .. length * BYTE] ==
            IF i = 0 THEN 0
            ELSE IF i - 1 \notin bits THEN counter[i - 1] + 1 ELSE 0
    IN  counter

\* Fault: the loop stops one bit late.
BitmapFindLate(bits, length, count) ==
    LET run  == ClearRun(bits, length)
        hits == {i \in 1 .. length * BYTE : run[i] > count}
    IN  IF hits = {} THEN EOF ELSE Min(hits) - count

\* The bit at which the search loop of bitmap_scan stops, or EOF.
BitmapFind(bits, length, count) ==
    LET run  == ClearRun(bits, length)
        hits == {i \in 1 .. length * BYTE : run[i] = count}
    IN  IF hits = {} THEN EOF ELSE Min(hits) - count

\* Fault: one bit too many.
BitmapMarkLong(bits, start, count) == bits \cup (start .. start + count)

\* bitmap_set on count bits from start on.
BitmapMark(bits, start, count) == bits \cup (start .. start + count - 1)

BitmapClear(bits, start, count) == bits \ (start .. start + count - 1)

\* Where count clear bits fit first, by definition.
FirstFit(bits, length, count) ==
    LET fits == {s \in BitRange(length) :
                    /\ s + count <= length * BYTE
                    /\ (s .. s + count - 1) \cap bits = {}}
    IN  IF fits = {} THEN EOF ELSE Min(fits)
=============================================================================
