------------------------------- MODULE Console -------------------------------
(***************************************************************************)
(* src/src/kernel/console.c: the text screen as a window, at `screen`, on  *)
(* the video memory.  Addresses are counted in character cells from        *)
(* MEM_BASE; a cell is the u16 of a character and its attribute.           *)
(***************************************************************************)
EXTENDS Integers

CONSTANTS
    WIDTH, HEIGHT,  \* columns and rows of the screen: 80 and 25
    MEM_CELLS,      \* MEM_SIZE in cells: 0x2000
    Chars           \* printable characters

ASSUME ConsoleAssumption ==
    /\ WIDTH \in Nat \ {0}
    /\ HEIGHT \in Nat \ {0}
    /\ MEM_CELLS \in Nat
    /\ MEM_CELLS >= (HEIGHT + 2) * WIDTH

SCR_CELLS == WIDTH * HEIGHT

ERASE == "erase"    \* 0x0720, a grey space
ZERO  == "zero"     \* 0x0000, which shows as nothing too
BEYOND == "beyond"    \* whatever lies behind the video memory

ASSUME CharsAssumption == ZERO \notin Chars   \* a u16 that is 0 shows nothing

Cells == Chars \cup {ERASE, ZERO, BEYOND}

\* Memory as far as the code writes: scroll_up reaches 2 rows past a screen.
Memory == 0 .. MEM_CELLS + 2 * WIDTH

VARIABLES
    mem,     \* the cells
    screen,  \* where the visible screen starts
    pos,     \* where the next character goes
    x, y     \* the same place as column and row

vars == <<mem, screen, pos, x, y>>

-----------------------------------------------------------------------------
\* Fault: no room kept for the row that scrolls in.
WrapsLate == screen + SCR_CELLS >= MEM_CELLS

Wraps == screen + SCR_CELLS + WIDTH >= MEM_CELLS

\* Fault: the wrap moves the screen but not the cursor.
CursorLeft(from) == from

\* The cursor after the wrap of scroll_up.
CursorWrapped(from) == from - screen

\* The first half of scroll_up: at the end of the memory the screen is copied
\* to its start.
ScrollOrigin == IF Wraps THEN 0 ELSE screen

\* Fault: the row that scrolls in is left as it is.
ScrolledLeft ==
    [a \in Memory |-> IF Wraps /\ a < SCR_CELLS THEN mem[screen + a] ELSE mem[a]]

\* scroll_up's memory: the copy, then WIDTH stores of the u32 that erase is
\* extended to.  Each covers two cells, an ERASE and a ZERO, so that two rows
\* are written where one scrolls in.
ScrolledMem ==
    LET row == ScrollOrigin + SCR_CELLS
    IN  [a \in Memory |->
            IF a \in row .. row + 2 * WIDTH - 1
            THEN IF (a - row) % 2 = 0 THEN ERASE ELSE ZERO
            ELSE IF Wraps /\ a < SCR_CELLS THEN mem[screen + a] ELSE mem[a]]

\* What command_lf leaves when it starts with the cursor at `from`.
LineFeed(from) ==
    IF y + 1 < HEIGHT
    THEN [mem |-> mem, screen |-> screen, pos |-> from + WIDTH, y |-> y + 1]
    ELSE [mem |-> ScrolledMem,
          screen |-> ScrollOrigin + WIDTH,
          pos |-> (IF Wraps THEN CursorWrapped(from) ELSE from) + WIDTH,
          y |-> y]

\* FF: command_lf alone.
FormFeed ==
    LET lf == LineFeed(pos)
    IN  /\ mem' = lf.mem
        /\ screen' = lf.screen
        /\ pos' = lf.pos
        /\ y' = lf.y
        /\ UNCHANGED x

\* LF: command_lf, then command_cr.
NewLine ==
    LET lf == LineFeed(pos)
    IN  /\ mem' = lf.mem
        /\ screen' = lf.screen
        /\ pos' = lf.pos - x
        /\ y' = lf.y
        /\ x' = 0

\* CR
CarriageReturn ==
    /\ pos' = pos - x
    /\ x' = 0
    /\ UNCHANGED <<mem, screen, y>>

\* BS
BackSpace ==
    /\ x > 0
    /\ x' = x - 1
    /\ pos' = pos - 1
    /\ mem' = [mem EXCEPT ![pos - 1] = ERASE]
    /\ UNCHANGED <<screen, y>>

\* DEL: the cell at pos, whatever row it is in.
Delete ==
    /\ mem' = [mem EXCEPT ![pos] = ERASE]
    /\ UNCHANGED <<screen, pos, x, y>>

\* Any other character.  Behind the last column the cursor is first taken
\* back to column 0 and fed to the next row.
PutChar(ch) ==
    \/ /\ x < WIDTH
       /\ mem' = [mem EXCEPT ![pos] = ch]
       /\ pos' = pos + 1
       /\ x' = x + 1
       /\ UNCHANGED <<screen, y>>
    \/ /\ x >= WIDTH
       /\ LET lf == LineFeed(pos - WIDTH)
          IN  /\ mem' = [lf.mem EXCEPT ![lf.pos] = ch]
              /\ screen' = lf.screen
              /\ pos' = lf.pos + 1
              /\ y' = lf.y
              /\ x' = x - WIDTH + 1

\* console_clear, at boot.
Init ==
    /\ mem = [a \in Memory |-> IF a < MEM_CELLS THEN ERASE ELSE BEYOND]
    /\ screen = 0
    /\ pos = 0
    /\ x = 0 /\ y = 0

Next ==
    \/ FormFeed
    \/ NewLine
    \/ CarriageReturn
    \/ BackSpace
    \/ Delete
    \/ \E ch \in Chars : PutChar(ch)

Spec == Init /\ [][Next]_vars

-----------------------------------------------------------------------------
(* Properties *)

TypeOK ==
    /\ mem \in [Memory -> Cells]
    /\ screen \in 0 .. MEM_CELLS - SCR_CELLS
    /\ pos \in Memory
    /\ x \in 0 .. WIDTH
    /\ y \in 0 .. HEIGHT - 1

\* The three records of the cursor agree: pos, the pair x and y, and the start
\* of the screen they count from, through line feeds, scrolls and the wrap.
CursorInStep == pos = screen + y * WIDTH + x

\* The screen shows what a terminal shows: both empty cells look the same.
Shown(cell) == IF cell \in Chars THEN cell ELSE ERASE

Visible == [r \in 0 .. HEIGHT - 1 |-> [c \in 0 .. WIDTH - 1 |->
                Shown(mem[screen + r * WIDTH + c])]]

Screen == INSTANCE Terminal WITH BLANK <- ERASE, grid <- Visible

\* console_write implements a scrolling terminal, wherever in the memory the
\* screen is and whatever is left there from earlier rows.
ShowsTerminal == Screen!Spec

\* console.c:16 calls MEM_END the end of the video memory: nothing is written
\* behind it.
NoWritePastEnd ==
    \A a \in Memory : a >= MEM_CELLS => mem[a] = BEYOND

=============================================================================
