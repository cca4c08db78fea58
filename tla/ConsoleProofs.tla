---------------------------- MODULE ConsoleProofs ----------------------------
(***************************************************************************)
(* The console for every size of the screen and of the video memory: the   *)
(* cursor, the terminal that the screen shows, and the bell.               *)
(***************************************************************************)
EXTENDS Speaker, TLAPS

\* Multiplication by the width, as far as rows are concerned.
LEMMA Rows ==
    ASSUME NEW r \in 0 .. HEIGHT - 1
    PROVE  /\ WIDTH \in Nat \ {0} /\ HEIGHT \in Nat \ {0} /\ MEM_CELLS \in Nat
           /\ SCR_CELLS \in Nat /\ SCR_CELLS + 2 * WIDTH <= MEM_CELLS
           /\ r * WIDTH \in Nat /\ r * WIDTH + WIDTH <= SCR_CELLS
           /\ (r + 1) * WIDTH = r * WIDTH + WIDTH
<1>1. WIDTH \in Nat \ {0} /\ HEIGHT \in Nat \ {0} /\ MEM_CELLS \in Nat
    BY ConsoleAssumption
<1>2. (HEIGHT + 2) * WIDTH = SCR_CELLS + 2 * WIDTH /\ SCR_CELLS \in Nat
    BY <1>1 DEF SCR_CELLS
<1>3. (r + 1) * WIDTH = r * WIDTH + WIDTH /\ r * WIDTH \in Nat
    BY <1>1
<1>4. HEIGHT - r - 1 \in Nat /\ (HEIGHT - r - 1) * WIDTH \in Nat
    BY <1>1
<1>5. (HEIGHT - r - 1) * WIDTH = SCR_CELLS - (r * WIDTH + WIDTH)
    BY <1>1 DEF SCR_CELLS
<1> QED
    BY <1>1, <1>2, <1>3, <1>4, <1>5, ConsoleAssumption

\* pos cannot leave the memory while it agrees with x and y, nor x and y the
\* screen: neither is inductive without the other.
ConsoleInv == TypeOK /\ CursorInStep

\* The row at r and its cells lie in the memory, wherever the screen starts.
LEMMA CursorRange ==
    ASSUME NEW s \in 0 .. MEM_CELLS - SCR_CELLS, NEW r \in 0 .. HEIGHT - 1,
           NEW c \in 0 .. WIDTH
    PROVE  s + r * WIDTH + c \in Memory
BY Rows DEF Memory

\* After console_clear the cursor is at the start of a screen at MEM_BASE.
LEMMA ConsoleInvInit == Init => ConsoleInv
<1> SUFFICES ASSUME Init
             PROVE  ConsoleInv
    OBVIOUS
<1>1. 0 \in 0 .. HEIGHT - 1
    BY ConsoleAssumption
<1>2. 0 * WIDTH = 0
    BY ConsoleAssumption
<1>3. mem \in [Memory -> Cells]
    BY DEF Init, Cells
<1>4. /\ 0 \in 0 .. MEM_CELLS - SCR_CELLS /\ 0 \in 0 .. WIDTH
      /\ 0 \in Memory
    BY <1>1, Rows DEF Memory
<1> QED
    BY <1>1, <1>2, <1>3, <1>4 DEF Init, ConsoleInv, TypeOK, CursorInStep

\* command_lf keeps the cursor in its column, on the last row if need be, and
\* within a screen that lies in the memory.
LEMMA LineFeedInStep ==
    ASSUME ConsoleInv, NEW c \in 0 .. WIDTH,
           NEW lf, lf = LineFeed(screen + y * WIDTH + c)
    PROVE  /\ lf.mem \in [Memory -> Cells]
           /\ lf.screen \in 0 .. MEM_CELLS - SCR_CELLS
           /\ lf.y \in 0 .. HEIGHT - 1
           /\ lf.pos = lf.screen + lf.y * WIDTH + c
<1> DEFINE from == screen + y * WIDTH + c
<1>1. /\ mem \in [Memory -> Cells] /\ screen \in 0 .. MEM_CELLS - SCR_CELLS
      /\ y \in 0 .. HEIGHT - 1
    BY DEF ConsoleInv, TypeOK
<1>2. /\ WIDTH \in Nat \ {0} /\ HEIGHT \in Nat \ {0} /\ MEM_CELLS \in Nat
      /\ SCR_CELLS \in Nat /\ SCR_CELLS + 2 * WIDTH <= MEM_CELLS
      /\ y * WIDTH \in Nat /\ (y + 1) * WIDTH = y * WIDTH + WIDTH
    BY <1>1, Rows
<1>3. CASE y + 1 < HEIGHT
    <2>1. /\ lf.mem = mem /\ lf.screen = screen /\ lf.pos = from + WIDTH
          /\ lf.y = y + 1
        BY <1>3 DEF LineFeed
    <2>2. y + 1 \in 0 .. HEIGHT - 1
        BY <1>1, <1>2, <1>3
    <2>3. from + WIDTH = screen + (y + 1) * WIDTH + c
        BY <1>1, <1>2
    <2> QED
        BY <1>1, <2>1, <2>2, <2>3
<1>4. CASE ~(y + 1 < HEIGHT)
    <2>1. /\ lf.mem = ScrolledMem /\ lf.screen = ScrollOrigin + WIDTH
          /\ lf.pos = (IF Wraps THEN from - screen ELSE from) + WIDTH
          /\ lf.y = y
        BY <1>4 DEF LineFeed, CursorWrapped
    <2>2. ScrolledMem \in [Memory -> Cells]
        <3>1. \A a \in Memory : a < SCR_CELLS => screen + a \in Memory
            BY <1>1, <1>2 DEF Memory
        <3>2. \A a \in Memory : a < SCR_CELLS => mem[screen + a] \in Cells
            BY <1>1, <3>1
        <3>3. {ERASE, ZERO} \subseteq Cells /\ \A a \in Memory : mem[a] \in Cells
            BY <1>1 DEF Cells
        <3> QED
            BY <3>2, <3>3 DEF ScrolledMem
    <2>3. CASE Wraps
        <3>1. lf.screen = WIDTH /\ lf.pos = y * WIDTH + c + WIDTH
            BY <1>1, <1>2, <2>1, <2>3 DEF ScrollOrigin
        <3> QED
            BY <1>1, <1>2, <2>1, <2>2, <3>1
    <2>4. CASE ~Wraps
        <3>1. lf.screen = screen + WIDTH /\ lf.pos = from + WIDTH
            BY <2>1, <2>4 DEF ScrollOrigin
        <3>2. screen + SCR_CELLS + WIDTH < MEM_CELLS
            BY <1>1, <1>2, <2>4 DEF Wraps
        <3> QED
            BY <1>1, <1>2, <2>1, <2>2, <3>1, <3>2
    <2> QED
        BY <2>3, <2>4
<1> QED
    BY <1>3, <1>4

\* The control characters and the printable ones keep the three records of the
\* cursor in step.
LEMMA ConsoleInvStep == ConsoleInv /\ [Next]_vars => ConsoleInv'
<1> SUFFICES ASSUME ConsoleInv, [Next]_vars
             PROVE  ConsoleInv'
    OBVIOUS
<1>1. /\ mem \in [Memory -> Cells] /\ screen \in 0 .. MEM_CELLS - SCR_CELLS
      /\ x \in 0 .. WIDTH /\ y \in 0 .. HEIGHT - 1
      /\ pos = screen + y * WIDTH + x
    BY DEF ConsoleInv, TypeOK, CursorInStep
<1>2. /\ WIDTH \in Nat \ {0} /\ HEIGHT \in Nat \ {0} /\ MEM_CELLS \in Nat
      /\ SCR_CELLS \in Nat /\ y * WIDTH \in Nat
    BY <1>1, Rows
<1>3. ASSUME mem' \in [Memory -> Cells], screen' \in 0 .. MEM_CELLS - SCR_CELLS,
             x' \in 0 .. WIDTH, y' \in 0 .. HEIGHT - 1,
             pos' = screen' + y' * WIDTH + x'
      PROVE  ConsoleInv'
    BY <1>3, CursorRange DEF ConsoleInv, TypeOK, CursorInStep
<1>4. CASE UNCHANGED vars
    BY <1>1, <1>3, <1>4 DEF vars
<1>5. CASE FormFeed
    BY <1>1, <1>3, <1>5, LineFeedInStep DEF FormFeed
<1>6. CASE NewLine
    <2> DEFINE lf == LineFeed(screen + y * WIDTH + x)
    <2>1. /\ lf.mem \in [Memory -> Cells] /\ lf.screen \in 0 .. MEM_CELLS - SCR_CELLS
          /\ lf.y \in 0 .. HEIGHT - 1 /\ lf.pos = lf.screen + lf.y * WIDTH + x
        BY <1>1, LineFeedInStep
    <2>2. /\ mem' = lf.mem /\ screen' = lf.screen /\ pos' = lf.pos - x
          /\ y' = lf.y /\ x' = 0
        BY <1>1, <1>6 DEF NewLine
    <2> HIDE DEF lf
    <2>3. lf.y * WIDTH \in Nat
        BY <2>1, Rows
    <2>4. pos' = screen' + y' * WIDTH + x'
        BY <1>1, <1>2, <2>1, <2>2, <2>3
    <2> QED
        BY <1>2, <1>3, <2>1, <2>2, <2>4
<1>7. CASE CarriageReturn
    BY <1>1, <1>2, <1>3, <1>7 DEF CarriageReturn
<1>8. CASE BackSpace
    <2>1. /\ mem' = [mem EXCEPT ![pos - 1] = ERASE] /\ x > 0 /\ x' = x - 1
          /\ pos' = pos - 1 /\ UNCHANGED <<screen, y>>
        BY <1>8 DEF BackSpace
    <2>2. mem' \in [Memory -> Cells]
        BY <1>1, <2>1 DEF Cells
    <2>3. x' \in 0 .. WIDTH /\ pos' = screen' + y' * WIDTH + x'
        BY <1>1, <1>2, <2>1
    <2> QED
        BY <1>1, <1>3, <2>1, <2>2, <2>3
<1>9. CASE Delete
    BY <1>1, <1>3, <1>9 DEF Delete, Cells
<1>10. ASSUME NEW ch \in Chars, PutChar(ch)
       PROVE  ConsoleInv'
    <2>1. CASE x < WIDTH /\ mem' = [mem EXCEPT ![pos] = ch] /\ pos' = pos + 1
               /\ x' = x + 1 /\ UNCHANGED <<screen, y>>
        <3>1. mem' \in [Memory -> Cells]
            BY <1>1, <2>1 DEF Cells
        <3>2. x' \in 0 .. WIDTH /\ pos' = screen' + y' * WIDTH + x'
            BY <1>1, <1>2, <2>1
        <3> QED
            BY <1>1, <1>3, <2>1, <3>1, <3>2
    <2> DEFINE lf == LineFeed(screen + y * WIDTH + 0)
    <2>2. CASE /\ x >= WIDTH
               /\ mem' = [LineFeed(pos - WIDTH).mem EXCEPT ![LineFeed(pos - WIDTH).pos] = ch]
               /\ screen' = LineFeed(pos - WIDTH).screen
               /\ pos' = LineFeed(pos - WIDTH).pos + 1
               /\ y' = LineFeed(pos - WIDTH).y
               /\ x' = x - WIDTH + 1
        <3>1. x = WIDTH /\ pos - WIDTH = screen + y * WIDTH + 0 /\ 0 \in 0 .. WIDTH
            BY <1>1, <1>2, <2>2
        <3>2. /\ lf.mem \in [Memory -> Cells] /\ lf.screen \in 0 .. MEM_CELLS - SCR_CELLS
              /\ lf.y \in 0 .. HEIGHT - 1 /\ lf.pos = lf.screen + lf.y * WIDTH + 0
            BY <3>1, LineFeedInStep
        <3>3. /\ mem' = [lf.mem EXCEPT ![lf.pos] = ch] /\ screen' = lf.screen
              /\ pos' = lf.pos + 1 /\ y' = lf.y /\ x' = 1
            BY <1>2, <2>2, <3>1
        <3> HIDE DEF lf
        <3>4. lf.y * WIDTH \in Nat
            BY <3>2, Rows
        <3>5. pos' = screen' + y' * WIDTH + x'
            BY <1>2, <3>2, <3>3, <3>4
        <3>6. mem' \in [Memory -> Cells]
            BY <3>2, <3>3 DEF Cells
        <3> QED
            BY <1>2, <1>3, <3>2, <3>3, <3>5, <3>6
    <2> QED
        BY <1>10, <2>1, <2>2 DEF PutChar
<1> QED
    BY <1>4, <1>5, <1>6, <1>7, <1>8, <1>9, <1>10 DEF Next

\* Types and cursor together hold throughout.
THEOREM ConsoleInvariant == Spec => []ConsoleInv
BY ConsoleInvInit, ConsoleInvStep, PTL DEF Spec

\* The start of the screen stays where a whole screen fits into the memory,
\* and the cursor on the screen or right behind its last column.
THEOREM ConsoleTypeCorrect == Spec => []TypeOK
<1>1. ConsoleInv => TypeOK
    BY DEF ConsoleInv
<1> QED
    BY <1>1, ConsoleInvariant, PTL

\* pos, the pair x and y and the start of the screen agree through every line
\* feed, scroll and wrap.
THEOREM CursorStaysInStep == Spec => []CursorInStep
<1>1. ConsoleInv => CursorInStep
    BY DEF ConsoleInv
<1> QED
    BY <1>1, ConsoleInvariant, PTL

-----------------------------------------------------------------------------
(* The terminal that the screen shows *)

\* What the cells of `cells` show of a screen that starts at `start`.
Window(cells, start) ==
    [r \in 0 .. HEIGHT - 1 |-> [c \in 0 .. WIDTH - 1 |->
        Shown(cells[start + r * WIDTH + c])]]

\* The rows that the cursor has not come to are empty: DEL behind the last
\* column, which clears the first cell of the next row, changes nothing there.
BlankBelow ==
    \A r \in 0 .. HEIGHT - 1, c \in 0 .. WIDTH - 1 : r > y => Visible[r][c] = ERASE

\* A cell of the memory is in one place of a screen.
LEMMA CellsApart ==
    ASSUME NEW r \in 0 .. HEIGHT - 1, NEW c \in 0 .. WIDTH - 1,
           NEW q \in 0 .. HEIGHT - 1, NEW d \in 0 .. WIDTH - 1,
           r * WIDTH + c = q * WIDTH + d
    PROVE  r = q /\ c = d
<1>1. WIDTH \in Nat \ {0} /\ HEIGHT \in Nat \ {0}
    BY ConsoleAssumption
<1>2. ASSUME NEW a \in Nat, NEW b \in Nat, a < b
      PROVE  a * WIDTH + WIDTH <= b * WIDTH
    <2>1. b - a - 1 \in Nat /\ (b - a - 1) * WIDTH \in Nat
        BY <1>1, <1>2
    <2>2. (b - a - 1) * WIDTH = b * WIDTH - (a * WIDTH + WIDTH)
        BY <1>1, <1>2
    <2>3. a * WIDTH \in Nat /\ b * WIDTH \in Nat
        BY <1>1, <1>2
    <2> QED
        BY <1>1, <2>1, <2>2, <2>3
<1>3. r \in Nat /\ q \in Nat /\ r * WIDTH \in Nat /\ q * WIDTH \in Nat
    BY <1>1
<1>4. ~(r < q) /\ ~(q < r)
    BY <1>1, <1>2, <1>3
<1> QED
    BY <1>1, <1>3, <1>4

\* A store to the memory, and the grid with another cell at one place.
Stored(cells, place, cell) == [cells EXCEPT ![place] = cell]
Marked(grid, r, c, cell) == [grid EXCEPT ![r][c] = cell]

\* A store to a cell of the screen changes what shows in its place only.
LEMMA StoreShows ==
    ASSUME NEW cells \in [Memory -> Cells], NEW start \in 0 .. MEM_CELLS - SCR_CELLS,
           NEW q \in 0 .. HEIGHT - 1, NEW d \in 0 .. WIDTH - 1, NEW cell,
           NEW place, place = start + q * WIDTH + d
    PROVE  Window(Stored(cells, place, cell), start)
           = Marked(Window(cells, start), q, d, Shown(cell))
<1> DEFINE stored == [cells EXCEPT ![place] = cell]
           left   == Window(stored, start)
           right  == [Window(cells, start) EXCEPT ![q][d] = Shown(cell)]
<1>0. /\ WIDTH \in Nat \ {0} /\ HEIGHT \in Nat \ {0} /\ MEM_CELLS \in Nat
      /\ SCR_CELLS \in Nat
    BY Rows
<1>1. ASSUME NEW r \in 0 .. HEIGHT - 1, NEW c \in 0 .. WIDTH - 1
      PROVE  left[r][c] = right[r][c]
    <2>1. left[r][c] = Shown(stored[start + r * WIDTH + c])
        BY DEF Window
    <2>2. start + r * WIDTH + c \in Memory /\ start + q * WIDTH + d \in Memory
        <3>1. c \in 0 .. WIDTH /\ d \in 0 .. WIDTH
            BY <1>0
        <3> QED
            BY <3>1, CursorRange
    <2>3. /\ r * WIDTH \in Nat /\ q * WIDTH \in Nat
        BY Rows
    <2>4. CASE r = q /\ c = d
        <3>1. right[r][c] = Shown(cell)
            BY <2>4 DEF Window
        <3>2. stored[start + r * WIDTH + c] = cell
            BY <2>2, <2>4
        <3> QED
            BY <2>1, <3>1, <3>2
    <2>5. CASE ~(r = q /\ c = d)
        <3>1. right[r][c] = Shown(cells[start + r * WIDTH + c])
            BY <2>5 DEF Window
        <3>2. start + r * WIDTH + c # start + q * WIDTH + d
            BY <1>0, <2>3, <2>5, CellsApart
        <3>3. stored[start + r * WIDTH + c] = cells[start + r * WIDTH + c]
            BY <2>2, <3>2
        <3> QED
            BY <2>1, <3>1, <3>3
    <2> QED
        BY <2>4, <2>5
<1>2. /\ left = [r \in 0 .. HEIGHT - 1 |-> [c \in 0 .. WIDTH - 1 |-> left[r][c]]]
      /\ right = [r \in 0 .. HEIGHT - 1 |-> [c \in 0 .. WIDTH - 1 |-> right[r][c]]]
    <2>1. left = [r \in 0 .. HEIGHT - 1 |-> [c \in 0 .. WIDTH - 1 |-> left[r][c]]]
        BY DEF Window
    <2> DEFINE before == Window(cells, start)
    <2>5. /\ before = [r \in 0 .. HEIGHT - 1 |-> before[r]]
          /\ \A r \in 0 .. HEIGHT - 1 : before[r] = [c \in 0 .. WIDTH - 1 |-> before[r][c]]
        BY DEF Window
    <2> HIDE DEF before
    <2>2. ASSUME NEW r \in 0 .. HEIGHT - 1
          PROVE  right[r] = [c \in 0 .. WIDTH - 1 |-> right[r][c]]
        <3>1. right = [before EXCEPT ![q][d] = Shown(cell)]
            BY DEF before
        <3> HIDE DEF right
        <3> QED
            BY <2>5, <3>1
    <2>3. right = [r \in 0 .. HEIGHT - 1 |-> right[r]]
        <3>1. right = [before EXCEPT ![q][d] = Shown(cell)]
            BY DEF before
        <3> HIDE DEF right
        <3> QED
            BY <2>5, <3>1
    <2> HIDE DEF left, right
    <2>4. right = [r \in 0 .. HEIGHT - 1 |-> [c \in 0 .. WIDTH - 1 |-> right[r][c]]]
        BY <2>2, <2>3
    <2> QED
        BY <2>1, <2>4
<1> HIDE DEF left, right
<1>3. left = right
    BY <1>1, <1>2
<1> QED
    BY <1>3 DEF left, right, Marked, Stored

\* command_lf shows what a line feed of the terminal does: the next row, or
\* all rows shifted by one and an empty one, at the wrap too.
LEMMA LineFeedShows ==
    ASSUME ConsoleInv, NEW from
    PROVE  /\ Window(LineFeed(from).mem, LineFeed(from).screen) = Screen!FedGrid
           /\ LineFeed(from).y = Screen!FedRow
<1>0. /\ mem \in [Memory -> Cells] /\ screen \in 0 .. MEM_CELLS - SCR_CELLS
      /\ y \in 0 .. HEIGHT - 1
    BY DEF ConsoleInv, TypeOK
<1>1. /\ WIDTH \in Nat \ {0} /\ HEIGHT \in Nat \ {0} /\ MEM_CELLS \in Nat
      /\ SCR_CELLS \in Nat /\ SCR_CELLS + 2 * WIDTH <= MEM_CELLS
    BY <1>0, Rows
<1>2. CASE y + 1 < HEIGHT
    BY <1>2 DEF LineFeed, Window, Visible, Screen!FedGrid, Screen!FedRow
<1>3. CASE ~(y + 1 < HEIGHT)
    <2> DEFINE left == Window(ScrolledMem, ScrollOrigin + WIDTH)
    <2>1. /\ LineFeed(from).mem = ScrolledMem
          /\ LineFeed(from).screen = ScrollOrigin + WIDTH
          /\ LineFeed(from).y = y /\ Screen!FedRow = y
          /\ Screen!FedGrid = Screen!Shifted
        BY <1>3 DEF LineFeed, Screen!FedGrid, Screen!FedRow
    <2>2. /\ ScrollOrigin \in Nat /\ ScrollOrigin + SCR_CELLS + WIDTH <= MEM_CELLS
          /\ Wraps => ScrollOrigin = 0
          /\ ~Wraps => ScrollOrigin = screen
        BY <1>0, <1>1 DEF ScrollOrigin, Wraps
    <2>3. ASSUME NEW r \in 0 .. HEIGHT - 1, NEW c \in 0 .. WIDTH - 1
          PROVE  left[r][c] = Screen!Shifted[r][c]
        <3> DEFINE a == ScrollOrigin + WIDTH + r * WIDTH + c
        <3>1. left[r][c] = Shown(ScrolledMem[a])
            BY DEF Window
        <3>2. /\ r * WIDTH \in Nat /\ r * WIDTH + WIDTH <= SCR_CELLS
              /\ (r + 1) * WIDTH = r * WIDTH + WIDTH
            BY Rows
        <3>3. a \in Memory
            BY <1>1, <2>2, <3>2 DEF Memory
        <3>4. CASE r + 1 \in 0 .. HEIGHT - 1
            <4>1. Screen!Shifted[r][c] = Shown(mem[screen + (r + 1) * WIDTH + c])
                BY <3>4 DEF Screen!Shifted, Screen!Rows, Visible
            <4>2. (r + 1) * WIDTH + WIDTH <= SCR_CELLS
                BY <3>4, Rows
            <4>3. /\ a < ScrollOrigin + SCR_CELLS
                  /\ a = ScrollOrigin + (r + 1) * WIDTH + c
                BY <1>1, <2>2, <3>2, <4>2
            <4>4. ScrolledMem[a] = IF Wraps /\ a < SCR_CELLS THEN mem[screen + a]
                                   ELSE mem[a]
                BY <1>1, <2>2, <3>3, <4>3 DEF ScrolledMem
            <4>5. ScrolledMem[a] = mem[screen + (r + 1) * WIDTH + c]
                <5>1. CASE Wraps
                    <6>1. a = (r + 1) * WIDTH + c /\ a < SCR_CELLS
                        BY <1>1, <2>2, <3>2, <4>3, <5>1
                    <6>2. ScrolledMem[a] = mem[screen + a]
                        BY <4>4, <5>1, <6>1
                    <6>3. screen + a = screen + (r + 1) * WIDTH + c
                        BY <1>0, <1>1, <3>2, <6>1
                    <6> QED
                        BY <6>2, <6>3
                <5>2. CASE ~Wraps
                    BY <2>2, <4>3, <4>4, <5>2
                <5> QED
                    BY <5>1, <5>2
            <4> QED
                BY <3>1, <4>1, <4>5
        <3>5. CASE ~(r + 1 \in 0 .. HEIGHT - 1)
            <4>1. Screen!Shifted[r][c] = ERASE
                BY <3>5 DEF Screen!Shifted, Screen!Rows, Screen!Cols
            <4>2. r = HEIGHT - 1 /\ (r + 1) * WIDTH = SCR_CELLS
                BY <1>1, <3>5 DEF SCR_CELLS
            <4>3. a \in ScrollOrigin + SCR_CELLS .. ScrollOrigin + SCR_CELLS + 2 * WIDTH - 1
                BY <1>1, <2>2, <3>2, <4>2
            <4>4. ScrolledMem[a] \in {ERASE, ZERO}
                BY <3>3, <4>3 DEF ScrolledMem
            <4> QED
                BY <3>1, <4>1, <4>4, CharsAssumption DEF Shown
        <3> QED
            BY <3>4, <3>5
    <2>4. /\ left = [r \in 0 .. HEIGHT - 1 |-> [c \in 0 .. WIDTH - 1 |-> left[r][c]]]
          /\ Screen!Shifted = [r \in 0 .. HEIGHT - 1 |->
                                [c \in 0 .. WIDTH - 1 |-> Screen!Shifted[r][c]]]
        <3>1. left = [r \in 0 .. HEIGHT - 1 |-> [c \in 0 .. WIDTH - 1 |-> left[r][c]]]
            BY DEF Window
        <3>2. ASSUME NEW r \in 0 .. HEIGHT - 1
              PROVE  Screen!Shifted[r] = [c \in 0 .. WIDTH - 1 |-> Screen!Shifted[r][c]]
            BY DEF Screen!Shifted, Screen!Rows, Screen!Cols, Visible
        <3>3. Screen!Shifted = [r \in 0 .. HEIGHT - 1 |-> Screen!Shifted[r]]
            BY DEF Screen!Shifted, Screen!Rows
        <3> QED
            BY <3>1, <3>2, <3>3
    <2> HIDE DEF left
    <2>5. left = Screen!Shifted
        BY <2>3, <2>4
    <2> QED
        BY <2>1, <2>5 DEF left
<1> QED
    BY <1>2, <1>3

\* Every character does to what shows what the terminal does with it.
LEMMA StepShows ==
    ASSUME ConsoleInv, BlankBelow, [Next]_vars
    PROVE  [Screen!Next]_<<Visible, x, y>>
<1>0. /\ mem \in [Memory -> Cells] /\ screen \in 0 .. MEM_CELLS - SCR_CELLS
      /\ y \in 0 .. HEIGHT - 1 /\ x \in 0 .. WIDTH
      /\ pos = screen + y * WIDTH + x
    BY DEF ConsoleInv, TypeOK, CursorInStep
<1>1. /\ WIDTH \in Nat \ {0} /\ HEIGHT \in Nat \ {0} /\ MEM_CELLS \in Nat
      /\ SCR_CELLS \in Nat /\ y * WIDTH \in Nat
    BY <1>0, Rows
<1>2. Visible = Window(mem, screen) /\ Visible' = Window(mem', screen')
    BY DEF Visible, Window
<1>3. CASE UNCHANGED vars
    BY <1>2, <1>3 DEF vars
<1>4. CASE FormFeed
    <2>1. Visible' = Screen!FedGrid /\ y' = Screen!FedRow /\ UNCHANGED x
        BY <1>2, <1>4, LineFeedShows DEF FormFeed
    <2> QED
        BY <2>1 DEF Screen!Next, Screen!FormFeed
<1>5. CASE NewLine
    <2>1. Visible' = Screen!FedGrid /\ y' = Screen!FedRow /\ x' = 0
        BY <1>2, <1>5, LineFeedShows DEF NewLine
    <2> QED
        BY <2>1 DEF Screen!Next, Screen!NewLine
<1>6. CASE CarriageReturn
    <2>1. Visible' = Visible /\ y' = y /\ x' = 0
        BY <1>2, <1>6 DEF CarriageReturn
    <2> QED
        BY <2>1 DEF Screen!Next, Screen!Return
<1>7. CASE BackSpace
    <2>1. /\ x > 0 /\ x' = x - 1 /\ UNCHANGED <<screen, y>>
          /\ mem' = [mem EXCEPT ![pos - 1] = ERASE]
        BY <1>7 DEF BackSpace
    <2>2. pos - 1 = screen + y * WIDTH + (x - 1) /\ x - 1 \in 0 .. WIDTH - 1
        BY <1>0, <1>1, <2>1
    <2>5. Window(Stored(mem, pos - 1, ERASE), screen)
          = Marked(Window(mem, screen), y, x - 1, Shown(ERASE))
        BY <1>0, <2>2, StoreShows
    <2>3. Visible' = [Visible EXCEPT ![y][x - 1] = Shown(ERASE)]
        BY <1>2, <2>1, <2>5 DEF Marked, Stored
    <2>4. Shown(ERASE) = ERASE
        BY DEF Shown
    <2> QED
        BY <2>1, <2>3, <2>4 DEF Screen!Next, Screen!BackSpace
<1>8. CASE Delete
    <2>1. /\ UNCHANGED <<screen, x, y>> /\ mem' = [mem EXCEPT ![pos] = ERASE]
        BY <1>8 DEF Delete
    <2>2. Shown(ERASE) = ERASE
        BY DEF Shown
    <2>3. CASE x < WIDTH
        <3>1. x \in 0 .. WIDTH - 1
            BY <1>0, <1>1, <2>3
        <3>3. Window(Stored(mem, pos, ERASE), screen)
              = Marked(Window(mem, screen), y, x, Shown(ERASE))
            BY <1>0, <3>1, StoreShows
        <3>2. Visible' = [Visible EXCEPT ![y][x] = Shown(ERASE)]
            BY <1>2, <2>1, <3>3 DEF Marked, Stored
        <3> QED
            BY <2>1, <2>2, <2>3, <3>2 DEF Screen!Next, Screen!Delete
    <2>4. CASE x = WIDTH /\ y + 1 < HEIGHT
        <3>1. /\ y + 1 \in 0 .. HEIGHT - 1 /\ 0 \in 0 .. WIDTH - 1
              /\ (y + 1) * WIDTH = y * WIDTH + WIDTH
            BY <1>0, <1>1, <2>4
        <3>2. pos = screen + (y + 1) * WIDTH + 0
            BY <1>0, <1>1, <2>4, <3>1
        <3>6. Window(Stored(mem, pos, ERASE), screen)
              = Marked(Window(mem, screen), y + 1, 0, Shown(ERASE))
            BY <1>0, <3>1, <3>2, StoreShows
        <3>3. Visible' = [Visible EXCEPT ![y + 1][0] = ERASE]
            BY <1>2, <2>1, <2>2, <3>6 DEF Marked, Stored
        <3>4. Visible[y + 1][0] = ERASE
            BY <1>0, <3>1 DEF BlankBelow
        <3>5. Visible' = Visible
            <4>1. Visible[y + 1] = [c \in 0 .. WIDTH - 1 |-> Visible[y + 1][c]]
                BY <3>1 DEF Visible
            <4>2. Visible = [r \in 0 .. HEIGHT - 1 |-> Visible[r]]
                BY DEF Visible
            <4> QED
                BY <3>3, <3>4, <4>1, <4>2
        <3> QED
            BY <2>1, <3>5
    <2>5. CASE x = WIDTH /\ ~(y + 1 < HEIGHT)
        <3>1. ASSUME NEW r \in 0 .. HEIGHT - 1, NEW c \in 0 .. WIDTH - 1
              PROVE  mem'[screen + r * WIDTH + c] = mem[screen + r * WIDTH + c]
            <4>1. r * WIDTH \in Nat /\ r * WIDTH + WIDTH <= SCR_CELLS
                BY Rows
            <4>2. y = HEIGHT - 1 /\ y * WIDTH + WIDTH = SCR_CELLS
                BY <1>0, <1>1, <2>5 DEF SCR_CELLS
            <4>3. screen + r * WIDTH + c # pos
                BY <1>0, <1>1, <2>5, <4>1, <4>2
            <4> QED
                BY <1>0, <2>1, <4>3
        <3>2. Window(mem', screen) = Window(mem, screen)
            BY <3>1 DEF Window
        <3> QED
            BY <1>2, <2>1, <3>2
    <2> QED
        BY <1>0, <1>1, <2>3, <2>4, <2>5
<1>9. ASSUME NEW ch \in Chars, PutChar(ch)
      PROVE  [Screen!Next]_<<Visible, x, y>>
    <2>0. Shown(ch) = ch
        BY DEF Shown
    <2>1. CASE x < WIDTH /\ mem' = [mem EXCEPT ![pos] = ch]
               /\ x' = x + 1 /\ UNCHANGED <<screen, y>>
        <3>1. x \in 0 .. WIDTH - 1
            BY <1>0, <1>1, <2>1
        <3>4. Window(Stored(mem, pos, ch), screen)
              = Marked(Window(mem, screen), y, x, Shown(ch))
            BY <1>0, <3>1, StoreShows
        <3>2. Visible' = [Visible EXCEPT ![y][x] = ch]
            BY <1>2, <2>0, <2>1, <3>4 DEF Marked, Stored
        <3>3. Screen!PutChar(ch)
            BY <2>1, <3>2 DEF Screen!PutChar
        <3> QED
            BY <3>3 DEF Screen!Next
    <2>2. CASE /\ x >= WIDTH
               /\ mem' = [LineFeed(pos - WIDTH).mem EXCEPT ![LineFeed(pos - WIDTH).pos] = ch]
               /\ screen' = LineFeed(pos - WIDTH).screen
               /\ y' = LineFeed(pos - WIDTH).y
               /\ x' = x - WIDTH + 1
        <3> DEFINE lf == LineFeed(pos - WIDTH)
        <3>1. /\ x = WIDTH /\ pos - WIDTH = screen + y * WIDTH + 0 /\ 0 \in 0 .. WIDTH
              /\ 0 \in 0 .. WIDTH - 1
            BY <1>0, <1>1, <2>2
        <3>2. /\ lf.mem \in [Memory -> Cells] /\ lf.screen \in 0 .. MEM_CELLS - SCR_CELLS
              /\ lf.y \in 0 .. HEIGHT - 1 /\ lf.pos = lf.screen + lf.y * WIDTH + 0
            BY <3>1, LineFeedInStep
        <3>3. /\ Window(lf.mem, lf.screen) = Screen!FedGrid
              /\ lf.y = Screen!FedRow
            BY LineFeedShows
        <3>4. /\ mem' = [lf.mem EXCEPT ![lf.pos] = ch] /\ screen' = lf.screen
              /\ y' = lf.y /\ x' = 1
            BY <1>1, <2>2, <3>1
        <3> HIDE DEF lf
        <3>5. Window(mem', screen') = [Screen!FedGrid EXCEPT ![Screen!FedRow][0] = ch]
            <4>1. Window(Stored(lf.mem, lf.pos, ch), lf.screen)
                  = Marked(Window(lf.mem, lf.screen), lf.y, 0, Shown(ch))
                BY <3>1, <3>2, StoreShows
            <4> QED
                BY <2>0, <3>3, <3>4, <4>1 DEF Marked, Stored
        <3>6. Screen!PutChar(ch)
            BY <1>2, <3>1, <3>3, <3>4, <3>5 DEF Screen!PutChar
        <3> QED
            BY <3>6 DEF Screen!Next
    <2> QED
        BY <1>9, <2>1, <2>2 DEF PutChar
<1> QED
    BY <1>3, <1>4, <1>5, <1>6, <1>7, <1>8, <1>9 DEF Next

\* It is a fact about the terminal that the rows it has not come to are empty.
LEMMA BlankBelowStep ==
    ASSUME ConsoleInv, BlankBelow, [Screen!Next]_<<Visible, x, y>>, y' \in 0 .. HEIGHT - 1
    PROVE  BlankBelow'
<1> SUFFICES ASSUME NEW r \in 0 .. HEIGHT - 1, NEW c \in 0 .. WIDTH - 1, r > y'
             PROVE  Visible'[r][c] = ERASE
    BY DEF BlankBelow
<1>0. /\ y \in 0 .. HEIGHT - 1 /\ HEIGHT \in Nat \ {0} /\ WIDTH \in Nat \ {0}
    BY ConsoleAssumption DEF ConsoleInv, TypeOK
<1>1. r > y => Visible[r][c] = ERASE
    BY DEF BlankBelow
<1>2. /\ Screen!FedRow \in {y, y + 1}
      /\ r > Screen!FedRow => Screen!FedGrid[r][c] = ERASE
    BY <1>0, <1>1 DEF Screen!FedRow, Screen!FedGrid, Screen!Shifted, Screen!Rows, Screen!Cols
<1>3. DOMAIN Visible = 0 .. HEIGHT - 1 /\ DOMAIN Screen!FedGrid = 0 .. HEIGHT - 1
    BY DEF Screen!FedGrid, Screen!Shifted, Screen!Rows, Visible
<1>4. CASE UNCHANGED <<Visible, x, y>> \/ Screen!FormFeed \/ Screen!NewLine \/ Screen!Return
    BY <1>0, <1>1, <1>2, <1>4 DEF Screen!FormFeed, Screen!NewLine, Screen!Return
<1>5. CASE Screen!BackSpace \/ Screen!Delete
    <2>1. PICK d : Visible' = [Visible EXCEPT ![y][d] = ERASE] /\ y' = y
        BY <1>5 DEF Screen!BackSpace, Screen!Delete
    <2>2. Visible'[r] = Visible[r]
        BY <1>0, <1>3, <2>1
    <2> QED
        BY <1>1, <2>1, <2>2
<1>6. CASE \E ch \in Chars : Screen!PutChar(ch)
    <2>1. PICK ch \in Chars : Screen!PutChar(ch)
        BY <1>6
    <2>2. CASE Visible' = [Visible EXCEPT ![y][x] = ch] /\ y' = y
        <3>1. Visible'[r] = Visible[r]
            BY <1>0, <1>3, <2>2
        <3> QED
            BY <1>1, <2>2, <3>1
    <2>3. CASE /\ Visible' = [Screen!FedGrid EXCEPT ![Screen!FedRow][0] = ch]
               /\ y' = Screen!FedRow
        <3>1. Visible'[r] = Screen!FedGrid[r]
            BY <1>0, <1>2, <1>3, <2>3
        <3> QED
            BY <1>2, <2>3, <3>1
    <2> QED
        BY <2>1, <2>2, <2>3 DEF Screen!PutChar
<1> QED
    BY <1>4, <1>5, <1>6 DEF Screen!Next

\* console_write shows what a scrolling terminal of HEIGHT rows shows, wherever
\* in the video memory the screen is, through the wrap of scroll_up, and
\* whatever earlier rows have left in the cells that scroll in.
THEOREM ConsoleShowsTerminal == Spec => ShowsTerminal
<1>1. Init => Screen!Init /\ BlankBelow
    <2> SUFFICES ASSUME Init
                 PROVE  Screen!Init /\ BlankBelow
        OBVIOUS
    <2>1. ASSUME NEW r \in 0 .. HEIGHT - 1, NEW c \in 0 .. WIDTH - 1
          PROVE  Shown(mem[screen + r * WIDTH + c]) = ERASE
        <3>1. /\ WIDTH \in Nat \ {0} /\ HEIGHT \in Nat \ {0} /\ MEM_CELLS \in Nat
              /\ SCR_CELLS \in Nat /\ SCR_CELLS + 2 * WIDTH <= MEM_CELLS
              /\ r * WIDTH \in Nat /\ r * WIDTH + WIDTH <= SCR_CELLS
            BY Rows
        <3>2. /\ screen + r * WIDTH + c \in Memory
              /\ screen + r * WIDTH + c < MEM_CELLS
            BY <3>1 DEF Init, Memory
        <3>3. mem[screen + r * WIDTH + c] = ERASE
            BY <3>2 DEF Init
        <3> QED
            BY <3>3 DEF Shown
    <2>2. Visible = [r \in 0 .. HEIGHT - 1 |-> [c \in 0 .. WIDTH - 1 |-> ERASE]]
        BY <2>1 DEF Visible
    <2>3. Screen!Init
        BY <2>2 DEF Init, Screen!Init, Screen!Rows, Screen!Cols
    <2>4. BlankBelow
        BY <2>2 DEF BlankBelow
    <2> QED
        BY <2>3, <2>4
<1>2. /\ ConsoleInv /\ BlankBelow /\ [Next]_vars
      => [Screen!Next]_<<Visible, x, y>>
    BY StepShows
<1>3. ConsoleInv /\ ConsoleInv' /\ BlankBelow /\ [Next]_vars => BlankBelow'
    <2> SUFFICES ASSUME ConsoleInv, ConsoleInv', BlankBelow, [Next]_vars
                 PROVE  BlankBelow'
        OBVIOUS
    <2>1. y' \in 0 .. HEIGHT - 1
        BY DEF ConsoleInv, TypeOK
    <2> QED
        BY <2>1, StepShows, BlankBelowStep
<1>4. Spec => [](ConsoleInv /\ BlankBelow)
    BY <1>1, <1>3, ConsoleInvariant, PTL DEF Spec
<1> QED
    BY <1>1, <1>2, <1>4, PTL DEF Spec, ShowsTerminal, Screen!Spec, Screen!termVars

-----------------------------------------------------------------------------
(* The bell *)

\* A deadline is at most BEEP_TICKS ahead when it is computed, and may be past
\* when it is stored; one that is stored is never 0, which would read as silent.
DeadlineInv ==
    /\ jiffies \in Nat /\ last_bell \in Nat /\ beeping \in Nat /\ until \in Nat
    /\ writer \in {"console", "outb", "add", "store"}
    /\ last_bell <= jiffies
    /\ writer = "store" => until # 0 /\ until <= jiffies + BEEP_TICKS
    /\ beeping # 0 => beeping <= last_bell + BEEP_TICKS
    /\ speaker /\ writer = "console" =>
            beeping # 0 /\ (jiffies <= beeping + 1 \/ jiffies = last_bell)

LEMMA DeadlineInvStep == DeadlineInv /\ [SpeakerNext]_allVars => DeadlineInv'
<1> SUFFICES ASSUME DeadlineInv, [SpeakerNext]_allVars
             PROVE  DeadlineInv'
    OBVIOUS
<1> USE DEF DeadlineInv
<1>0. BEEP_TICKS \in Nat \ {0}
    BY SpeakerAssumption
<1>1. CASE Character \/ UNCHANGED allVars
    BY <1>1 DEF Character, allVars, speakerVars
<1>2. CASE Bell
    BY <1>2 DEF Bell, BellStep
<1>3. CASE SpeakerOn
    BY <1>3 DEF SpeakerOn, BellStep
<1>4. CASE AddTicks
    BY <1>0, <1>4 DEF AddTicks, BellStep
<1>5. CASE StoreDeadline
    BY <1>0, <1>5 DEF StoreDeadline, BellStep
<1>6. CASE ClockTick
    <2>0. jiffies' = jiffies + 1 /\ UNCHANGED <<until, writer, last_bell>>
        BY <1>6 DEF ClockTick
    <2>1. CASE Overdue
        <3>1. ~speaker' /\ beeping' = 0
            BY <1>6, <2>1 DEF ClockTick
        <3> QED
            BY <1>0, <2>0, <3>1
    <2>2. CASE ~Overdue
        <3>1. UNCHANGED <<speaker, beeping>>
            BY <1>6, <2>2 DEF ClockTick
        <3>2. beeping # 0 => jiffies <= beeping
            BY <2>2 DEF Overdue
        <3> QED
            BY <1>0, <2>0, <3>1, <3>2
    <2> QED
        BY <2>1, <2>2
<1> QED
    BY <1>1, <1>2, <1>3, <1>4, <1>5, <1>6 DEF SpeakerNext

\* The speaker is silent BEEP_TICKS + 1 ticks after the last bell, whatever
\* ticks come between the accesses of start_beep and stop_beep.
THEOREM EveryBeepEnds == SpeakerSpec => []BeepEnds
<1>1. SpeakerInit => DeadlineInv
    BY DEF SpeakerInit, DeadlineInv
<1>2. DeadlineInv => BeepEnds
    BY SpeakerAssumption DEF DeadlineInv, BeepEnds
<1> QED
    BY <1>1, <1>2, DeadlineInvStep, PTL DEF SpeakerSpec

\* Neither the bell nor the ticks of the clock between its accesses disturb the
\* screen: beside them too it shows the terminal.
THEOREM TerminalBesideBell == SpeakerSpec => ShowsTerminal
<1>1. SpeakerInit => Init
    BY DEF SpeakerInit
<1>2. [SpeakerNext]_allVars => [Next]_vars
    BY DEF SpeakerNext, Character, Bell, SpeakerOn, AddTicks, StoreDeadline, BellStep,
           ClockTick, allVars
<1>3. SpeakerSpec => Spec
    BY <1>1, <1>2, PTL DEF SpeakerSpec, Spec
<1> QED
    BY <1>3, ConsoleShowsTerminal

=============================================================================
