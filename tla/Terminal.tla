------------------------------ MODULE Terminal ------------------------------
(***************************************************************************)
(* What a reader of the screen expects of console_write: a grid of HEIGHT  *)
(* rows that shifts up by one row when a line feed leaves the last one.    *)
(* x may be WIDTH: the next printable character then starts a new row.     *)
(***************************************************************************)
EXTENDS Integers

CONSTANTS WIDTH, HEIGHT, Chars, BLANK

VARIABLES grid, x, y

Cols == 0 .. WIDTH - 1
Rows == 0 .. HEIGHT - 1

termVars == <<grid, x, y>>

Shifted == [r \in Rows |-> IF r + 1 \in Rows THEN grid[r + 1]
                           ELSE [c \in Cols |-> BLANK]]

Init ==
    /\ grid = [r \in Rows |-> [c \in Cols |-> BLANK]]
    /\ x = 0 /\ y = 0

\* The grid and the row after a line feed.
FedGrid == IF y + 1 < HEIGHT THEN grid ELSE Shifted
FedRow  == IF y + 1 < HEIGHT THEN y + 1 ELSE y

FormFeed == grid' = FedGrid /\ y' = FedRow /\ UNCHANGED x

NewLine == grid' = FedGrid /\ y' = FedRow /\ x' = 0

Return == x' = 0 /\ UNCHANGED <<grid, y>>

BackSpace ==
    /\ x > 0
    /\ x' = x - 1
    /\ grid' = [grid EXCEPT ![y][x - 1] = BLANK]
    /\ UNCHANGED y

\* DEL clears the character under the cursor.
Delete ==
    /\ x < WIDTH
    /\ grid' = [grid EXCEPT ![y][x] = BLANK]
    /\ UNCHANGED <<x, y>>

PutChar(ch) ==
    \/ /\ x < WIDTH
       /\ grid' = [grid EXCEPT ![y][x] = ch]
       /\ x' = x + 1
       /\ UNCHANGED y
    \/ /\ x = WIDTH
       /\ grid' = [FedGrid EXCEPT ![FedRow][0] = ch]
       /\ x' = 1
       /\ y' = FedRow

Next ==
    \/ FormFeed
    \/ NewLine
    \/ Return
    \/ BackSpace
    \/ Delete
    \/ \E ch \in Chars : PutChar(ch)

Spec == Init /\ [][Next]_termVars
=============================================================================
