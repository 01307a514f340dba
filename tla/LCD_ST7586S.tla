---------------------------- MODULE LCD_ST7586S ----------------------------
(***************************************************************************)
(* The L28's display controller (em16/src/LCD_ST7586S.mm) and the picture  *)
(* its window makes of it.  The controller is a record l; an access of the *)
(* processor yields the new record and whether it told the window that     *)
(* there is something to draw (the flag dirty).                            *)
(***************************************************************************)
EXTENDS Integers, Sequences

CONSTANTS
    RamCols, Height,   \* LCD_RAM_COLS bytes of two pixels; LCD_RAM_ROWS, as many as are seen
    Width, ColOffset   \* LCD_WIDTH pixels are seen, from byte LCD_COL_OFFSET

ASSUME PanelAssumption ==
    /\ RamCols \in Nat \ {0} /\ Height \in Nat \ {0} /\ Width \in Nat /\ Width % 2 = 0
    /\ ColOffset \in Nat /\ ColOffset + Width \div 2 <= RamCols

Rows == 0 .. Height - 1
Cells == Rows \X (0 .. RamCols - 1)

\* Power on, and the command 01.
resetLCD ==
    [ram |-> [c \in Cells |-> 0], colStart |-> 0, colEnd |-> RamCols - 1, rowStart |-> 0,
     rowEnd |-> Height - 1, curCol |-> 0, curRow |-> 0, scrollStart |-> 0, scrollAreaTop |-> 0,
     scrollAreaHeight |-> 0, displayEnable |-> FALSE, inverse |-> FALSE, mirrorX |-> FALSE,
     mirrorY |-> FALSE, vopOffset |-> \h28, state |-> "IDLE", currentCmd |-> 0, params |-> <<>>,
     readDummy |-> FALSE]

\* The bytes of parameters of the commands that have any.
ParamCount(cmd) ==
    IF cmd \in {\h2A, \h2B} THEN 4
    ELSE IF cmd = \h33 THEN 6
    ELSE IF cmd \in {\h37, \hC0} THEN 2
    ELSE IF cmd \in {\h36, \h3A, \hB0, \hB5, \hC3, \hC4, \hC7, \hD0} THEN 1
    ELSE 0

Told(l) == [lcd |-> l, tell |-> TRUE]
Untold(l) == [lcd |-> l, tell |-> FALSE]
AtWindowStart(l, state) == [l EXCEPT !.state = state, !.curCol = l.colStart, !.curRow = l.rowStart]

\* A command ends whatever was going on.
executeCommand(old, cmd) ==
    LET l == [old EXCEPT !.state = "IDLE", !.currentCmd = cmd, !.params = <<>>]
    IN  IF cmd = \h01 THEN Untold(resetLCD)
        ELSE IF cmd \in {\h20, \h21} THEN Told([l EXCEPT !.inverse = (cmd = \h21)])
        ELSE IF cmd \in {\h28, \h29} THEN Told([l EXCEPT !.displayEnable = (cmd = \h29)])
        ELSE IF cmd = \h2C THEN Untold(AtWindowStart(l, "RAM_WRITE"))
        ELSE IF cmd = \h2E THEN Untold([AtWindowStart(l, "RAM_READ") EXCEPT !.readDummy = TRUE])
        ELSE IF ParamCount(cmd) > 0 THEN Untold([l EXCEPT !.state = "PARAM"])
        ELSE Untold(l)

Pair(p, k) == 256 * p[k] + p[k + 1]
finishCommand(l) ==
    LET p == l.params
        done == [l EXCEPT !.state = "IDLE"]
    IN  IF l.currentCmd = \h2A
        THEN Untold([done EXCEPT !.colStart = Pair(p, 1), !.colEnd = Pair(p, 3)])
        ELSE IF l.currentCmd = \h2B
        THEN Untold([done EXCEPT !.rowStart = Pair(p, 1), !.rowEnd = Pair(p, 3)])
        ELSE IF l.currentCmd = \h33
        THEN Untold([done EXCEPT !.scrollAreaTop = Pair(p, 1), !.scrollAreaHeight = Pair(p, 3)])
        ELSE IF l.currentCmd = \h36
        THEN Told([done EXCEPT !.mirrorY = (p[1] >= \h80), !.mirrorX = ((p[1] \div \h40) % 2 = 1)])
        ELSE IF l.currentCmd = \h37 THEN Told([done EXCEPT !.scrollStart = Pair(p, 1)])
        ELSE IF l.currentCmd = \hC7 THEN Told([done EXCEPT !.vopOffset = p[1]])
        ELSE Untold(done)

processParam(l, data) ==
    LET m == [l EXCEPT !.params = Append(@, data)]
    IN  IF Len(m.params) >= ParamCount(l.currentCmd) THEN finishCommand(m) ELSE Untold(m)

\* Through the window by rows, then again.  The cursor may stand outside the
\* RAM, where it writes nothing; its two halves have sixteen bits.
Following(n) == (n + 1) % 65536

advanceWindowPos(l) ==
    LET col == Following(l.curCol)
        row == IF Following(l.curRow) > l.rowEnd THEN l.rowStart ELSE Following(l.curRow)
    IN  IF col > l.colEnd THEN [l EXCEPT !.curCol = l.colStart, !.curRow = row] ELSE [l EXCEPT !.curCol = col]

Cursor(l) == <<l.curRow, l.curCol>>
writeRAM(l, data) ==
    LET inside == Cursor(l) \in Cells
    IN  [lcd |-> advanceWindowPos(IF inside THEN [l EXCEPT !.ram[Cursor(l)] = data] ELSE l),
         tell |-> inside]

\* The first read after the command is a dummy that stays where it is.
readRAM(l) ==
    IF l.state # "RAM_READ" THEN l
    ELSE IF l.readDummy THEN [l EXCEPT !.readDummy = FALSE]
    ELSE advanceWindowPos(l)

setLCD(l, offset, data) ==
    IF offset = 0 THEN executeCommand(l, data)
    ELSE IF offset = 1 /\ l.state = "PARAM" THEN processParam(l, data)
    ELSE IF offset = 1 /\ l.state = "RAM_WRITE" THEN writeRAM(l, data)
    ELSE Untold(l)
getLCD(l, offset) == IF offset = 1 THEN readRAM(l) ELSE l

-----------------------------------------------------------------------------
(* drawRect.                                                               *)

\* The registers it takes before it reads the RAM row by row.
Setup(l) == [on |-> l.displayEnable, inv |-> l.inverse, my |-> l.mirrorY, mx |-> l.mirrorX,
             start |-> l.scrollStart, top |-> l.scrollAreaTop, height |-> l.scrollAreaHeight,
             contrast |-> l.vopOffset]

\* The row of the RAM that is seen as row of the panel.
RamRow(s, row) ==
    LET scrolled == IF row \in s.top .. s.top + s.height - 1
                    THEN s.top + ((row - s.top + s.start) % s.height) ELSE row
    IN  IF s.my THEN Height - 1 - scrolled ELSE scrolled

\* A pixel that is on is as dark as the contrast says, between 10 and 50.
Dark(contrast) == IF contrast < 10 THEN 10 ELSE IF contrast > 50 THEN 50 ELSE contrast
Pixel(s, ram, row, col) ==
    LET c == IF s.mx THEN Width - 1 - col ELSE col
        byte == ram[<<RamRow(s, row), c \div 2 + ColOffset>>]
        set == IF c % 2 = 0 THEN byte \div \h40 # 0 ELSE (byte \div 8) % 4 # 0
    IN  IF s.on /\ set # s.inv THEN Dark(s.contrast) ELSE 0

DrawnRow(s, ram, row) == [col \in 0 .. Width - 1 |-> Pixel(s, ram, row, col)]
Picture(l) == [row \in Rows |-> DrawnRow(Setup(l), l.ram, row)]
=============================================================================
