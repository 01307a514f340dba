------------------------ MODULE L28Handheld_proofs ------------------------
(***************************************************************************)
(* Proofs about the handheld: that what is typed arrives, that the screen  *)
(* is fresh, that the flash needs its unlocking, and that timer 1 keeps    *)
(* its pace, for any ring, panel and contents of the chips and, but for    *)
(* the first, any firmware.                                                *)
(***************************************************************************)
EXTENDS L28Handheld, SequenceTheorems, WellFoundedInduction, TLAPS

-----------------------------------------------------------------------------
(* Induction over the naturals.                                            *)

Less == {p \in Nat \X Nat : p[1] < p[2]}

\* Every nonempty set of naturals has a least element: the form of induction the
\* loop proofs use, on the set of counterexamples.
LEMMA LeastElement ==
  ASSUME NEW T \in SUBSET Nat, T # {}
  PROVE  \E n \in T : \A m \in T : n <= m
<1>1. IsWellFoundedOn(Less, Nat)
  BY NatLessThanWellFounded DEF OpToRel, Less
<1>2. PICK n \in T : \A m \in T : ~ (<<m, n>> \in Less)
  BY <1>1, WFMin
<1>3. ASSUME NEW m \in T PROVE n <= m
  <2>1. n \in Nat /\ m \in Nat
    OBVIOUS
  <2>2. ~ (m < n)
    BY <1>2, <2>1 DEF Less
  <2>3. QED
    BY <2>1, <2>2
<1>4. QED
  BY <1>3

-----------------------------------------------------------------------------
(* The types.                                                              *)

Access == [op : {"store", "load", "await"}, ea : Nat, data : 0 .. 255]
Events == [base : STRING, chars : STRING, shift : BOOLEAN, ctrl : BOOLEAN]
Characters == {CharOf(event) : event \in Events} \cup {NoChar}
Places == 0 .. KEY_BUF_SIZE - 1
Matrix == (0 .. 7) \X (0 .. 7)
Pixels == [0 .. Width - 1 -> Nat]
Setups == [on : BOOLEAN, inv : BOOLEAN, my : BOOLEAN, mx : BOOLEAN, start : Nat, top : Nat,
           height : Nat, contrast : Nat]
Displays ==
    [ram : [Cells -> Nat], colStart : Nat, colEnd : Nat, rowStart : Nat, rowEnd : Nat,
     curCol : Nat, curRow : Nat, scrollStart : Nat, scrollAreaTop : Nat, scrollAreaHeight : Nat,
     displayEnable : BOOLEAN, inverse : BOOLEAN, mirrorX : BOOLEAN, mirrorY : BOOLEAN,
     vopOffset : Nat, state : {"IDLE", "PARAM", "RAM_WRITE", "RAM_READ"}, currentCmd : Nat,
     params : Seq(0 .. 255), readDummy : BOOLEAN]
FlashStates == {"IDLE", "CYCLE1", "CYCLE2", "BYTE_PROGRAM", "ERASE_SETUP", "ERASE_1", "ERASE_2"}

SessionOK ==
    session \in [l28 : BOOLEAN, console : BOOLEAN, programs : SUBSET Seq(Access), events : SUBSET Events,
                 pieces : Nat, keys : Nat, bytes : Nat]
Cpus ==
    [pc : {"access", "end", "tell", "press"}, todo : Seq(Access), handling : BOOLEAN,
     taken : Characters]
CpuOK == cpu \in Cpus
Windows ==
    [pc : {"idle", "room", "put", "publish", "draw"}, ch : Characters, needsDisplay : BOOLEAN,
     setup : Setups, frame : Seq(Pixels)]
WindowOK == window \in Windows
RingOK == keyBuf \in [Places -> Characters] /\ keyBufWrite \in Places /\ keyBufRead \in Places
KeySets ==
    [matrix : SUBSET Positions, portD : 0 .. 255, enabled : BOOLEAN, edge : BOOLEAN, pa0 : BOOLEAN]
KeysOK == keys \in KeySets
LcdOK == lcd \in Displays /\ dirty \in BOOLEAN
Chip == [state : FlashStates, data : [Addresses -> Nat]]
FlashOK == flash \in [Chips -> Chip]
BsrOK == bsr \in [0 .. 7 -> 0 .. 255]
VIAs == [t1_counter : Nat, t1_latch : Nat, t1_running : BOOLEAN, freeRun : BOOLEAN,
         ifr : SUBSET {"T1", "IRQ"}, ier : SUBSET {"T1"}]
ViaOK == via \in VIAs
FlashWrites == Nat \X Nat
SerialOK == serial \in [full : BOOLEAN, data : Nat, stdin : Seq(Nat)]
Pasts ==
    [accepted : Seq(SUBSET Matrix), seen : SUBSET Matrix, scanned : Seq(SUBSET Matrix),
     sent : Seq(Nat), received : Seq(Nat), lost : BOOLEAN, untold : BOOLEAN,
     recent : [Chips -> Seq(FlashWrites)], pace : [kept : BOOLEAN, since : Int]]
PastOK == past \in Pasts

TypeOK ==
    /\ SessionOK /\ CpuOK /\ WindowOK /\ RingOK /\ KeysOK /\ LcdOK
    /\ FlashOK /\ BsrOK /\ ViaOK /\ SerialOK /\ PastOK

-----------------------------------------------------------------------------
(* What the operators return.                                              *)

\* The keys of a character are keys of the matrix (asciiToKey, pollKeyboard).
LEMMA KeysInMatrix == \A ch : KeysOf(ch) \in SUBSET Positions
<1>1. \A table, sym : At(table, sym) \subseteq Positions
  BY DEF At
<1>2. SHIFT \in Positions /\ CTRL \in Positions
  BY DEF SHIFT, CTRL, Positions
<1>3. \A sym : asciiToKey(sym) \subseteq Positions
  BY <1>1, <1>2 DEF asciiToKey
<1>4. QED
  BY <1>2, <1>3 DEF KeysOf

LEMMA PositionsInMatrix == Positions \subseteq Matrix
  BY DEF Positions, Matrix

LEMMA AfterIsPlace == \A n \in Places : After(n) \in Places
  BY SessionAssumption DEF After, Places

\* A VIA stays one: tick, and the stores and loads of its registers.

LEMMA updateIRQType == \A v \in VIAs : updateIRQ(v) \in VIAs
  BY DEF VIAs, updateIRQ, irqPending

LEMMA ClearedType == ASSUME NEW v \in VIAs, NEW flags PROVE Cleared(v, flags) \in VIAs
<1>1. [v EXCEPT !.ifr = @ \ flags] \in VIAs
  BY DEF VIAs
<1>2. QED
  BY <1>1, updateIRQType DEF Cleared

LEMMA tickType == \A v \in VIAs, elapsed \in Nat : tick(v, elapsed) \in VIAs
<1> SUFFICES ASSUME NEW v \in VIAs, NEW elapsed \in Nat PROVE tick(v, elapsed) \in VIAs
  OBVIOUS
<1>0. v.t1_counter \in Nat /\ v.t1_latch \in Nat
  BY DEF VIAs
<1>1. CASE ~v.t1_running
  BY <1>1 DEF tick
<1>2. CASE v.t1_running /\ elapsed < v.t1_counter
  BY <1>0, <1>2 DEF tick, VIAs
<1>3. CASE v.t1_running /\ ~(elapsed < v.t1_counter)
  <2> DEFINE beyond == (elapsed - v.t1_counter) % (v.t1_latch + 1)
             w == [v EXCEPT !.ifr = @ \cup {"T1"}, !.t1_running = v.freeRun,
                            !.t1_counter = IF v.freeRun THEN v.t1_latch - beyond ELSE 0]
  <2>1. beyond \in 0 .. v.t1_latch
    BY <1>0, <1>3
  <2>2. v.t1_latch - beyond \in Nat
    BY <1>0, <2>1
  <2> HIDE DEF beyond
  <2>3. w \in VIAs
    BY <2>2 DEF VIAs
  <2>4. tick(v, elapsed) = updateIRQ(w)
    BY <1>3 DEF tick, beyond
  <2>5. QED
    BY <2>3, <2>4, updateIRQType
<1>4. QED
  BY <1>1, <1>2, <1>3

LEMMA setVIAType ==
  ASSUME NEW v \in VIAs, NEW reg, NEW data \in 0 .. 255
  PROVE  setVIA(v, reg, data) \in VIAs
<1>0. v.t1_latch \in Nat
  BY DEF VIAs
<1>1. LowByte(v) \in Nat /\ HighByte(v) \in Nat
  BY <1>0 DEF LowByte, HighByte
<1>2. 256 * data + LowByte(v) \in Nat /\ HighByte(v) + data \in Nat
  BY <1>1
<1> DEFINE latch == 256 * data + LowByte(v)
<1>3. [v EXCEPT !.t1_latch = HighByte(v) + data] \in VIAs
  BY <1>2 DEF VIAs
<1>4. [v EXCEPT !.t1_latch = latch, !.t1_counter = latch, !.t1_running = TRUE] \in VIAs
  BY <1>2 DEF VIAs
<1>5. [v EXCEPT !.t1_latch = 256 * data + LowByte(v)] \in VIAs
  BY <1>2 DEF VIAs
<1>6. [v EXCEPT !.freeRun = (data \div \h40) % 2 = 1] \in VIAs
  BY DEF VIAs
<1>7. Timer1(data) \subseteq {"T1"}
  BY DEF Timer1
<1>8. [v EXCEPT !.ier = IF data >= \h80 THEN @ \cup Timer1(data) ELSE @ \ Timer1(data)] \in VIAs
  BY <1>7 DEF VIAs
<1>9. QED
  BY <1>3, <1>4, <1>5, <1>6, <1>8, ClearedType, updateIRQType DEF setVIA

LEMMA getVIAType == ASSUME NEW v \in VIAs, NEW reg PROVE getVIA(v, reg) \in VIAs
  BY ClearedType DEF getVIA

-----------------------------------------------------------------------------
\* A display stays one: the commands, their parameters, and the bytes of the RAM.

Answers == [lcd : Displays, tell : BOOLEAN]

LEMMA DisplayOfReset == resetLCD \in Displays
<1>1. [c \in Cells |-> 0] \in [Cells -> Nat] /\ <<>> \in Seq(0 .. 255)
  OBVIOUS
<1>2. RamCols - 1 \in Nat /\ Height - 1 \in Nat
  BY PanelAssumption
<1>3. QED
  BY <1>1, <1>2 DEF resetLCD, Displays

LEMMA executeCommandType ==
  ASSUME NEW l \in Displays, NEW cmd \in 0 .. 255
  PROVE  executeCommand(l, cmd) \in Answers
<1> DEFINE m == [l EXCEPT !.state = "IDLE", !.currentCmd = cmd, !.params = <<>>]
<1>1. m \in Displays
  <2>1. \A p \in Seq(0 .. 255) : [l EXCEPT !.state = "IDLE", !.currentCmd = cmd, !.params = p] \in Displays
    <3>1. cmd \in Nat
      OBVIOUS
    <3>2. QED
      BY <3>1 DEF Displays
  <2>2. <<>> \in Seq(0 .. 255)
    OBVIOUS
  <2>3. QED
    BY <2>1, <2>2
<1> HIDE DEF m
<1>2. /\ [m EXCEPT !.inverse = (cmd = \h21)] \in Displays
      /\ [m EXCEPT !.displayEnable = (cmd = \h29)] \in Displays
      /\ [m EXCEPT !.state = "PARAM"] \in Displays
  BY <1>1 DEF Displays
<1>3. /\ AtWindowStart(m, "RAM_WRITE") \in Displays
      /\ [AtWindowStart(m, "RAM_READ") EXCEPT !.readDummy = TRUE] \in Displays
  BY <1>1 DEF Displays, AtWindowStart
<1>4. executeCommand(l, cmd) \in
        {Told([m EXCEPT !.inverse = (cmd = \h21)]), Told([m EXCEPT !.displayEnable = (cmd = \h29)]),
         Untold(resetLCD), Untold(AtWindowStart(m, "RAM_WRITE")),
         Untold([AtWindowStart(m, "RAM_READ") EXCEPT !.readDummy = TRUE]),
         Untold([m EXCEPT !.state = "PARAM"]), Untold(m)}
  BY DEF executeCommand, m
<1>5. \A w \in Displays : Told(w) \in Answers /\ Untold(w) \in Answers
  BY DEF Told, Untold, Answers
<1>6. QED
  BY <1>1, <1>2, <1>3, <1>4, <1>5, DisplayOfReset

\* A parameter that has arrived is a byte.
LEMMA Parameter ==
  ASSUME NEW p \in Seq(0 .. 255), NEW k \in Nat, 1 <= k, k <= Len(p)
  PROVE  p[k] \in 0 .. 255 /\ p[k] \in Nat
<1>1. Len(p) \in Nat
  BY LenProperties
<1>2. k \in 1 .. Len(p)
  BY <1>1
<1>3. p[k] \in 0 .. 255
  BY <1>2, ElementOfSeq
<1>4. \A x \in 0 .. 255 : x \in Nat
  OBVIOUS
<1>5. QED
  BY <1>3, <1>4

LEMMA finishCommandType ==
  ASSUME NEW l \in Displays, Len(l.params) >= ParamCount(l.currentCmd)
  PROVE  finishCommand(l) \in Answers
<1> DEFINE p == l.params
           done == [l EXCEPT !.state = "IDLE"]
<1>1. done \in Displays
  BY DEF Displays
<1>2. p \in Seq(0 .. 255) /\ l.currentCmd \in Nat /\ Len(p) >= ParamCount(l.currentCmd)
  BY DEF Displays
<1> HIDE DEF p
<1>3. ParamCount(l.currentCmd) \in Nat /\ Len(p) \in Nat
  BY <1>2 DEF ParamCount
<1>4. ASSUME l.currentCmd \in {\h2A, \h2B, \h33} PROVE Pair(p, 1) \in Nat /\ Pair(p, 3) \in Nat
  <2>1. ParamCount(l.currentCmd) >= 4
    BY <1>4 DEF ParamCount
  <2>2. Len(p) >= 4
    BY <1>2, <1>3, <2>1
  <2>3. p[1] \in Nat /\ p[2] \in Nat /\ p[3] \in Nat /\ p[4] \in Nat
    BY <1>2, <1>3, <2>2, Parameter
  <2>4. Pair(p, 1) \in Nat
    <3>1. p[1] \in Nat /\ p[1 + 1] \in Nat
      BY <2>3
    <3>2. QED
      BY ONLY <3>1 DEF Pair
  <2>5. Pair(p, 3) \in Nat
    <3>1. p[3] \in Nat /\ p[3 + 1] \in Nat
      BY <2>3
    <3>2. QED
      BY ONLY <3>1 DEF Pair
  <2>6. QED
    BY <2>4, <2>5
<1>5. ASSUME l.currentCmd = \h37 PROVE Pair(p, 1) \in Nat
  <2>1. ParamCount(l.currentCmd) = 2
    BY <1>5 DEF ParamCount
  <2>2. p[1] \in Nat /\ p[2] \in Nat
    BY <1>2, <1>3, <2>1, Parameter
  <2>3. QED
    BY <2>2 DEF Pair
<1>6. ASSUME l.currentCmd \in {\h36, \hC7} PROVE p[1] \in Nat
  <2>1. ParamCount(l.currentCmd) = 1
    BY <1>6 DEF ParamCount
  <2>2. QED
    BY <1>2, <1>3, <2>1, Parameter
<1> HIDE DEF done
<1>7. \A a, b \in Nat :
        /\ [done EXCEPT !.colStart = a, !.colEnd = b] \in Displays
        /\ [done EXCEPT !.rowStart = a, !.rowEnd = b] \in Displays
        /\ [done EXCEPT !.scrollAreaTop = a, !.scrollAreaHeight = b] \in Displays
        /\ [done EXCEPT !.scrollStart = a] \in Displays
        /\ [done EXCEPT !.vopOffset = a] \in Displays
  <2> TAKE a, b \in Nat
  <2>1. [done EXCEPT !.colStart = a, !.colEnd = b] \in Displays
    BY <1>1 DEF Displays
  <2>2. [done EXCEPT !.rowStart = a, !.rowEnd = b] \in Displays
    BY <1>1 DEF Displays
  <2>3. [done EXCEPT !.scrollAreaTop = a, !.scrollAreaHeight = b] \in Displays
    BY <1>1 DEF Displays
  <2>4. [done EXCEPT !.scrollStart = a] \in Displays
    BY <1>1 DEF Displays
  <2>5. [done EXCEPT !.vopOffset = a] \in Displays
    BY <1>1 DEF Displays
  <2>6. QED
    BY <2>1, <2>2, <2>3, <2>4, <2>5
<1>11. \A x, y \in BOOLEAN : [done EXCEPT !.mirrorY = x, !.mirrorX = y] \in Displays
  BY <1>1 DEF Displays
<1>8. \A w \in Displays : Told(w) \in Answers /\ Untold(w) \in Answers
  BY DEF Told, Untold, Answers
<1>9. finishCommand(l) =
        IF l.currentCmd = \h2A THEN Untold([done EXCEPT !.colStart = Pair(p, 1), !.colEnd = Pair(p, 3)])
        ELSE IF l.currentCmd = \h2B
        THEN Untold([done EXCEPT !.rowStart = Pair(p, 1), !.rowEnd = Pair(p, 3)])
        ELSE IF l.currentCmd = \h33
        THEN Untold([done EXCEPT !.scrollAreaTop = Pair(p, 1), !.scrollAreaHeight = Pair(p, 3)])
        ELSE IF l.currentCmd = \h36
        THEN Told([done EXCEPT !.mirrorY = (p[1] >= \h80), !.mirrorX = ((p[1] \div \h40) % 2 = 1)])
        ELSE IF l.currentCmd = \h37 THEN Told([done EXCEPT !.scrollStart = Pair(p, 1)])
        ELSE IF l.currentCmd = \hC7 THEN Told([done EXCEPT !.vopOffset = p[1]])
        ELSE Untold(done)
  BY DEF finishCommand, done, p
<1>12. CASE l.currentCmd \in {\h2A, \h2B, \h33}
  <2>1. /\ [done EXCEPT !.colStart = Pair(p, 1), !.colEnd = Pair(p, 3)] \in Displays
        /\ [done EXCEPT !.rowStart = Pair(p, 1), !.rowEnd = Pair(p, 3)] \in Displays
        /\ [done EXCEPT !.scrollAreaTop = Pair(p, 1), !.scrollAreaHeight = Pair(p, 3)] \in Displays
    BY <1>4, <1>7, <1>12
  <2>2. QED
    BY <1>8, <1>9, <1>12, <2>1
<1>13. CASE l.currentCmd = \h37
  <2>1. [done EXCEPT !.scrollStart = Pair(p, 1)] \in Displays
    BY <1>5, <1>7, <1>13
  <2>2. QED
    BY <1>8, <1>9, <1>13, <2>1
<1>14. CASE l.currentCmd = \hC7
  <2>1. \A a \in Nat : [done EXCEPT !.vopOffset = a] \in Displays
    BY <1>7
  <2>3. p[1] \in Nat
    BY <1>6, <1>14
  <2>2. QED
    BY <1>8, <1>9, <1>14, <2>1, <2>3
<1>15. CASE l.currentCmd = \h36
  <2> DEFINE my == p[1] >= \h80
             mx == (p[1] \div \h40) % 2 = 1
  <2>1. my \in BOOLEAN /\ mx \in BOOLEAN
    BY <1>6, <1>15
  <2>2. finishCommand(l) = Told([done EXCEPT !.mirrorY = my, !.mirrorX = mx])
    BY <1>9, <1>15
  <2> HIDE DEF my, mx
  <2>3. QED
    BY <1>8, <1>11, <2>1, <2>2
<1>16. CASE l.currentCmd \notin {\h2A, \h2B, \h33, \h36, \h37, \hC7}
  BY <1>1, <1>8, <1>9, <1>16
<1>17. QED
  BY <1>12, <1>13, <1>14, <1>15, <1>16

LEMMA processParamType ==
  ASSUME NEW l \in Displays, NEW data \in 0 .. 255
  PROVE  processParam(l, data) \in Answers
<1> DEFINE m == [l EXCEPT !.params = Append(@, data)]
<1>1. \A p \in Seq(0 .. 255) : [l EXCEPT !.params = p] \in Displays
  BY DEF Displays
<1>2. l.params \in Seq(0 .. 255)
  BY DEF Displays
<1>3. Append(l.params, data) \in Seq(0 .. 255)
  BY <1>2
<1>4. m \in Displays
  BY <1>1, <1>3
<1>5. m.currentCmd = l.currentCmd
  BY DEF Displays
<1> HIDE DEF m
<1>6. processParam(l, data) =
        IF Len(m.params) >= ParamCount(l.currentCmd) THEN finishCommand(m) ELSE Untold(m)
  BY DEF processParam, m
<1>7. QED
  BY <1>4, <1>5, <1>6, finishCommandType DEF Untold, Answers

LEMMA advanceType == \A l \in Displays : advanceWindowPos(l) \in Displays
<1> SUFFICES ASSUME NEW l \in Displays PROVE advanceWindowPos(l) \in Displays
  OBVIOUS
<1> DEFINE col == Following(l.curCol)
           row == IF Following(l.curRow) > l.rowEnd THEN l.rowStart ELSE Following(l.curRow)
<1>1. row \in Nat /\ l.colStart \in Nat /\ col \in Nat
  BY DEF Displays, Following
<1> HIDE DEF row, col
<1>2. [l EXCEPT !.curCol = l.colStart, !.curRow = row] \in Displays /\ [l EXCEPT !.curCol = col] \in Displays
  BY <1>1 DEF Displays
<1>3. QED
  BY <1>2 DEF advanceWindowPos, row, col

LEMMA setLCDType ==
  ASSUME NEW l \in Displays, NEW offset, NEW data \in 0 .. 255
  PROVE  setLCD(l, offset, data) \in Answers
<1>1. \A w \in Displays : Untold(w) \in Answers
  BY DEF Untold, Answers
<1>2. writeRAM(l, data) \in Answers
  <2>1. [l EXCEPT !.ram[Cursor(l)] = data] \in Displays
    <3>1. [l.ram EXCEPT ![Cursor(l)] = data] \in [Cells -> Nat]
      <4>1. l.ram \in [Cells -> Nat] /\ data \in Nat
        BY DEF Displays
      <4>2. QED
        BY <4>1
    <3>2. \A r \in [Cells -> Nat] : [l EXCEPT !.ram = r] \in Displays
      BY DEF Displays
    <3>3. QED
      BY <3>1, <3>2
  <2>2. QED
    BY <2>1, advanceType DEF writeRAM, Answers
<1>3. QED
  BY <1>1, <1>2, executeCommandType, processParamType DEF setLCD

LEMMA getLCDType == ASSUME NEW l \in Displays, NEW offset PROVE getLCD(l, offset) \in Displays
<1>1. [l EXCEPT !.readDummy = FALSE] \in Displays
  BY DEF Displays
<1>2. QED
  BY <1>1, advanceType DEF getLCD, readRAM

LEMMA SetupType == \A l \in Displays : Setup(l) \in Setups
  BY DEF Setup, Setups, Displays

LEMMA DrawnRowType == ASSUME NEW s \in Setups, NEW ram, NEW row PROVE DrawnRow(s, ram, row) \in Pixels
<1>1. Dark(s.contrast) \in Nat
  BY DEF Dark, Setups
<1>2. \A col : Pixel(s, ram, row, col) \in Nat
  BY <1>1 DEF Pixel
<1>3. QED
  BY <1>2 DEF DrawnRow, Pixels

\* A chip stays one, and changes its bytes only in two of its states (SST39F010::write).
LEMMA writeType ==
  ASSUME NEW f \in Chip, NEW addr, NEW val \in 0 .. 255
  PROVE  write(f, addr, val) \in Chip
<1>1. \A x, y : BitAnd(x, y) \in Nat
  <2>1. \A a, b, c, d, e, f1, g, h \in Nat : a + b + c + d + e + f1 + g + h \in Nat
    OBVIOUS
  <2>2. QED
    BY <2>1 DEF BitAnd
<1>2. NextData(f, addr, val) \in [Addresses -> Nat]
  BY <1>1 DEF NextData, Chip
<1>3. NextState(f.state, addr, val) \in FlashStates
  BY DEF NextState, FlashStates
<1>4. QED
  BY <1>2, <1>3 DEF write, Chip
-----------------------------------------------------------------------------
(* Every step keeps the types.                                             *)

LEMMA OpType ==
  ASSUME CpuOK, cpu.todo # <<>>
  PROVE  /\ Op \in Access /\ Op.data \in 0 .. 255 /\ Op.ea \in Nat
         /\ Op.op \in {"store", "load", "await"} /\ Tail(cpu.todo) \in Seq(Access)
<1>1. cpu.todo \in Seq(Access)
  BY DEF CpuOK, Cpus
<1>2. Head(cpu.todo) \in Access /\ Tail(cpu.todo) \in Seq(Access)
  BY <1>1
<1>3. QED
  BY <1>2 DEF Op, Access

LEMMA EndedType ==
  ASSUME CpuOK, cpu.todo # <<>>, NEW pc \in {"access", "end", "tell", "press"}
  PROVE  [cpu EXCEPT !.pc = pc, !.todo = Tail(@)] \in Cpus
<1>1. Tail(cpu.todo) \in Seq(Access)
  BY OpType
<1>2. QED
  BY <1>1 DEF CpuOK, Cpus

LEMMA DoneType == CpuOK /\ cpu.todo # <<>> /\ Done => CpuOK'
  BY EndedType DEF Done, CpuOK, Cpus

LEMMA TableIsSeq == ASSUME NEW S, NEW n \in Nat, NEW f \in [1 .. n -> S] PROVE f \in Seq(S) /\ Len(f) = n
<1>1. [k \in 1 .. n |-> f[k]] \in Seq(S)
  OBVIOUS
<1>2. f = [k \in 1 .. n |-> f[k]]
  OBVIOUS
<1>3. f \in Seq(S)
  BY <1>1, <1>2
<1>4. DOMAIN f = 1 .. n /\ DOMAIN f = 1 .. Len(f) /\ Len(f) \in Nat
  BY <1>3, LenProperties
<1>5. QED
  BY <1>3, <1>4

LEMMA HandlerType == Handler \in Seq(Access) /\ Len(Handler) = 15
<1>1. \A n \in 1 .. 8 : Bits[n] \in 0 .. 255
  BY DEF Bits
<1>2. \A k \in 1 .. 15 : k % 2 = 1 => (k + 1) \div 2 \in 1 .. 8
  OBVIOUS
<1>3. Load(\h02) \in Access /\ Store(CIR, \hBF) \in Access
  BY DEF Load, Store, CIR, Access
<1>4. \A n \in 1 .. 8 : Store(\h03, Bits[n]) \in Access
  BY <1>1 DEF Store, Access
<1>5. \A k \in 1 .. 15 : Handler[k] \in Access
  <2> SUFFICES ASSUME NEW k \in 1 .. 15 PROVE Handler[k] \in Access
    OBVIOUS
  <2>1. Handler[k] = IF k = 15 THEN Store(CIR, \hBF)
                     ELSE IF k % 2 = 1 THEN Store(\h03, Bits[(k + 1) \div 2])
                     ELSE Load(\h02)
    BY DEF Handler
  <2>2. QED
    BY <1>2, <1>3, <1>4, <2>1
<1>6. Handler \in [1 .. 15 -> Access]
  BY <1>5 DEF Handler
<1>7. \A n \in Nat : \A f \in [1 .. n -> Access] : f \in Seq(Access) /\ Len(f) = n
  BY TableIsSeq
<1>8. 15 \in Nat
  OBVIOUS
<1>9. QED
  BY <1>6, <1>7, <1>8, Zenon

LEMMA ChipsAtFirst == Flash(Erased) \in Chip /\ Flash(Rom) \in Chip
<1>1. Erased \in [Addresses -> Nat]
  BY DEF Erased
<1>2. Rom \in [Addresses -> Nat]
  <2>1. Rom \in [Addresses -> 0 .. 255]
    BY SessionAssumption
  <2>2. \A a \in Addresses : Rom[a] \in Nat
    <3> TAKE a \in Addresses
    <3>1. Rom[a] \in 0 .. 255
      BY <2>1
    <3>2. QED
      BY <3>1
  <2>3. QED
    BY <2>1, <2>2
<1>3. QED
  BY <1>1, <1>2 DEF Flash, Chip, FlashStates

LEMMA InitTypes == Init => TypeOK
<1> SUFFICES ASSUME Init PROVE TypeOK
  OBVIOUS
<1> USE DEF Init
<1>1. SessionOK
  BY SessionAssumption DEF SessionOK, Access, Events
<1>2. <<>> \in Seq(Access) /\ <<>> \in Seq(Pixels) /\ <<>> \in Seq(Nat) /\ <<>> \in Seq(SUBSET Matrix)
      /\ <<>> \in Seq(FlashWrites)
  OBVIOUS
<1>3. NoChar \in Characters
  BY DEF Characters
<1>4. CpuOK
  BY <1>2, <1>3 DEF CpuOK, Cpus
<1>5. Setup(resetLCD) \in Setups
  BY DisplayOfReset, SetupType
<1>6. WindowOK
  BY <1>2, <1>3, <1>5 DEF WindowOK, Windows
<1>7. RingOK
  BY <1>3, SessionAssumption DEF RingOK, Places
<1>8. KeysOK
  BY DEF KeysOK, KeySets
<1>9. LcdOK
  BY DisplayOfReset DEF LcdOK
<1>10. FlashOK
  <2>3. flash = [c \in Chips |-> IF c = "ES2" THEN Flash(Erased) ELSE Flash(Rom)]
    BY DEF Chips
  <2>4. flash \in [Chips -> Chip]
    BY ChipsAtFirst, <2>3
  <2>5. QED
    BY <2>4 DEF FlashOK, Chip
<1>11. BsrOK
  BY DEF BsrOK
<1>12. ViaOK
  BY DEF ViaOK, VIAs, resetVIA
<1>13. SerialOK
  BY <1>2 DEF SerialOK
<1>14. PastOK
  BY <1>2 DEF PastOK, Pasts
<1>15. QED
  BY <1>1, <1>4, <1>6, <1>7, <1>8, <1>9, <1>10, <1>11, <1>12, <1>13, <1>14 DEF TypeOK
\* What a step leaves alone keeps its type.
LEMMA Kept ==
  /\ SessionOK /\ UNCHANGED session => SessionOK'
  /\ CpuOK /\ UNCHANGED cpu => CpuOK'
  /\ WindowOK /\ UNCHANGED window => WindowOK'
  /\ RingOK /\ UNCHANGED <<keyBuf, keyBufWrite, keyBufRead>> => RingOK'
  /\ KeysOK /\ UNCHANGED keys => KeysOK'
  /\ LcdOK /\ UNCHANGED <<lcd, dirty>> => LcdOK'
  /\ FlashOK /\ UNCHANGED flash => FlashOK'
  /\ BsrOK /\ UNCHANGED bsr => BsrOK'
  /\ ViaOK /\ UNCHANGED via => ViaOK'
  /\ SerialOK /\ UNCHANGED serial => SerialOK'
  /\ PastOK /\ UNCHANGED past => PastOK'
<1>1. SessionOK /\ UNCHANGED session => SessionOK'
  BY DEF SessionOK
<1>2. CpuOK /\ UNCHANGED cpu => CpuOK'
  BY DEF CpuOK, Cpus
<1>3. WindowOK /\ UNCHANGED window => WindowOK'
  BY DEF WindowOK, Windows
<1>4. RingOK /\ UNCHANGED <<keyBuf, keyBufWrite, keyBufRead>> => RingOK'
  BY DEF RingOK
<1>5. KeysOK /\ UNCHANGED keys => KeysOK'
  BY DEF KeysOK, KeySets
<1>6. LcdOK /\ UNCHANGED <<lcd, dirty>> => LcdOK'
  BY DEF LcdOK
<1>7. FlashOK /\ UNCHANGED flash => FlashOK'
  BY DEF FlashOK
<1>8. BsrOK /\ UNCHANGED bsr => BsrOK'
  BY DEF BsrOK
<1>9. ViaOK /\ UNCHANGED via => ViaOK'
  BY DEF ViaOK, VIAs
<1>10. SerialOK /\ UNCHANGED serial => SerialOK'
  BY DEF SerialOK
<1>11. PastOK /\ UNCHANGED past => PastOK'
  BY DEF PastOK, Pasts
<1>12. QED
  BY <1>1, <1>2, <1>3, <1>4, <1>5, <1>6, <1>7, <1>8, <1>9, <1>10, <1>11

LEMMA TypeType == ASSUME TypeOK, NEW event \in session.events, Type(event) PROVE TypeOK'
<1>1. CpuOK' /\ RingOK' /\ KeysOK' /\ LcdOK' /\ FlashOK' /\ BsrOK' /\ ViaOK' /\ SerialOK' /\ PastOK'
  BY Kept DEF Type, TypeOK
<1>2. SessionOK'
  BY DEF Type, TypeOK, SessionOK
<1>3. WindowOK'
  <2>1. session.events \subseteq Events
    BY DEF TypeOK, SessionOK
  <2>2. CharOf(event) \in Characters
    BY <2>1 DEF Characters
  <2>3. QED
    BY <2>2 DEF Type, TypeOK, WindowOK, Windows
<1>4. QED
  BY <1>1, <1>2, <1>3 DEF TypeOK

LEMMA LookForRoomType == TypeOK /\ LookForRoom => TypeOK'
<1> SUFFICES ASSUME TypeOK, LookForRoom PROVE TypeOK'
  OBVIOUS
<1>1. SessionOK' /\ CpuOK' /\ RingOK' /\ KeysOK' /\ LcdOK' /\ FlashOK' /\ BsrOK' /\ ViaOK' /\ SerialOK' /\ PastOK'
  BY Kept DEF LookForRoom, TypeOK
<1>2. WindowOK'
  BY DEF LookForRoom, TypeOK, WindowOK, Windows
<1>3. QED
  BY <1>1, <1>2 DEF TypeOK

LEMMA PutCharType == TypeOK /\ PutChar => TypeOK'
<1> SUFFICES ASSUME TypeOK, PutChar PROVE TypeOK'
  OBVIOUS
<1>1. SessionOK' /\ CpuOK' /\ KeysOK' /\ LcdOK' /\ FlashOK' /\ BsrOK' /\ ViaOK' /\ SerialOK' /\ PastOK'
  BY Kept DEF PutChar, TypeOK
<1>2. WindowOK'
  BY DEF PutChar, TypeOK, WindowOK, Windows
<1>3. RingOK'
  BY DEF PutChar, TypeOK, WindowOK, Windows, RingOK
<1>4. QED
  BY <1>1, <1>2, <1>3 DEF TypeOK

LEMMA PublishType == TypeOK /\ Publish => TypeOK'
<1> SUFFICES ASSUME TypeOK, Publish PROVE TypeOK'
  OBVIOUS
<1>1. SessionOK' /\ CpuOK' /\ KeysOK' /\ LcdOK' /\ FlashOK' /\ BsrOK' /\ ViaOK' /\ SerialOK'
  BY Kept DEF Publish, TypeOK
<1>2. WindowOK'
  BY DEF Publish, TypeOK, WindowOK, Windows
<1>3. RingOK'
  BY AfterIsPlace DEF Publish, TypeOK, RingOK
<1>4. PastOK'
  <2>1. past.accepted \in Seq(SUBSET Matrix)
    BY DEF TypeOK, PastOK, Pasts
  <2>2. KeysOf(window.ch) \in SUBSET Matrix
    BY KeysInMatrix, PositionsInMatrix
  <2>3. Append(past.accepted, KeysOf(window.ch)) \in Seq(SUBSET Matrix)
    BY <2>1, <2>2
  <2>4. QED
    BY <2>3 DEF Publish, TypeOK, PastOK, Pasts
<1>5. QED
  BY <1>1, <1>2, <1>3, <1>4 DEF TypeOK

LEMMA RefreshType == TypeOK /\ Refresh => TypeOK'
<1> SUFFICES ASSUME TypeOK, Refresh PROVE TypeOK'
  OBVIOUS
<1>1. SessionOK' /\ CpuOK' /\ RingOK' /\ KeysOK' /\ FlashOK' /\ BsrOK' /\ ViaOK' /\ SerialOK' /\ PastOK'
  BY Kept DEF Refresh, TypeOK
<1>2. WindowOK'
  BY DEF Refresh, TypeOK, WindowOK, Windows
<1>3. LcdOK'
  BY DEF Refresh, TypeOK, LcdOK
<1>4. QED
  BY <1>1, <1>2, <1>3 DEF TypeOK

LEMMA StartDrawingType == TypeOK /\ StartDrawing => TypeOK'
<1> SUFFICES ASSUME TypeOK, StartDrawing PROVE TypeOK'
  OBVIOUS
<1>1. SessionOK' /\ CpuOK' /\ RingOK' /\ KeysOK' /\ LcdOK' /\ FlashOK' /\ BsrOK' /\ ViaOK' /\ SerialOK' /\ PastOK'
  BY Kept DEF StartDrawing, TypeOK
<1>2. WindowOK'
  <2>1. Setup(lcd) \in Setups
    BY SetupType DEF TypeOK, LcdOK
  <2>2. <<>> \in Seq(Pixels)
    OBVIOUS
  <2>3. QED
    BY <2>1, <2>2 DEF StartDrawing, TypeOK, WindowOK, Windows
<1>3. QED
  BY <1>1, <1>2 DEF TypeOK

LEMMA DrawRowType == TypeOK /\ DrawRow => TypeOK'
<1> SUFFICES ASSUME TypeOK, DrawRow PROVE TypeOK'
  OBVIOUS
<1>1. SessionOK' /\ CpuOK' /\ RingOK' /\ KeysOK' /\ LcdOK' /\ FlashOK' /\ BsrOK' /\ ViaOK' /\ SerialOK' /\ PastOK'
  BY Kept DEF DrawRow, ShowRow, TypeOK
<1>2. WindowOK'
  <2>1. window.setup \in Setups /\ window.frame \in Seq(Pixels)
    BY DEF TypeOK, WindowOK, Windows
  <2>2. DrawnRow(window.setup, lcd.ram, Len(window.frame)) \in Pixels
    BY <2>1, DrawnRowType
  <2>3. Drawn \in Seq(Pixels) /\ <<>> \in Seq(Pixels)
    BY <2>1, <2>2 DEF Drawn
  <2>4. QED
    BY <2>3 DEF DrawRow, ShowRow, TypeOK, WindowOK, Windows
<1>3. QED
  BY <1>1, <1>2 DEF TypeOK

LEMMA TypeByteType == TypeOK /\ TypeByte => TypeOK'
<1> SUFFICES ASSUME TypeOK, TypeByte PROVE TypeOK'
  OBVIOUS
<1>1. CpuOK' /\ WindowOK' /\ RingOK' /\ KeysOK' /\ LcdOK' /\ FlashOK' /\ BsrOK' /\ ViaOK'
  BY Kept DEF TypeByte, TypeOK
<1>2. SessionOK'
  BY DEF TypeByte, TypeOK, SessionOK
<1>3. SerialOK'
  <2>1. serial.stdin \in Seq(Nat) /\ session.bytes \in Nat
    BY DEF TypeOK, SerialOK, SessionOK
  <2>2. Append(serial.stdin, session.bytes) \in Seq(Nat)
    BY <2>1
  <2>3. QED
    BY <2>2 DEF TypeByte, TypeOK, SerialOK
<1>4. PastOK'
  <2>1. past.sent \in Seq(Nat) /\ session.bytes \in Nat
    BY DEF TypeOK, PastOK, Pasts, SessionOK
  <2>2. Append(past.sent, session.bytes) \in Seq(Nat)
    BY <2>1
  <2>3. QED
    BY <2>2 DEF TypeByte, TypeOK, PastOK, Pasts
<1>5. QED
  BY <1>1, <1>2, <1>3, <1>4 DEF TypeOK

LEMMA BeginType == ASSUME TypeOK, NEW piece \in session.programs, Begin(piece) PROVE TypeOK'
<1>1. WindowOK' /\ RingOK' /\ KeysOK' /\ LcdOK' /\ FlashOK' /\ BsrOK' /\ ViaOK' /\ SerialOK' /\ PastOK'
  BY Kept DEF Begin, TypeOK
<1>2. SessionOK'
  BY DEF Begin, TypeOK, SessionOK
<1>3. CpuOK'
  <2>1. piece \in Seq(Access)
    BY DEF TypeOK, SessionOK
  <2>2. QED
    BY <2>1 DEF Begin, TypeOK, CpuOK, Cpus
<1>4. QED
  BY <1>1, <1>2, <1>3 DEF TypeOK

LEMMA IdleType == TypeOK /\ Idle => TypeOK'
<1> SUFFICES ASSUME TypeOK, Idle PROVE TypeOK'
  OBVIOUS
<1>1. SessionOK' /\ WindowOK' /\ RingOK' /\ KeysOK' /\ LcdOK' /\ FlashOK' /\ BsrOK' /\ ViaOK' /\ SerialOK' /\ PastOK'
  BY Kept DEF Idle, TypeOK
<1>2. CpuOK'
  BY DEF Idle, TypeOK, CpuOK, Cpus
<1>3. QED
  BY <1>1, <1>2 DEF TypeOK

LEMMA StorePortType == TypeOK /\ StorePort => TypeOK'
<1> SUFFICES ASSUME TypeOK, StorePort PROVE TypeOK'
  OBVIOUS
<1>1. SessionOK' /\ WindowOK' /\ RingOK' /\ LcdOK' /\ FlashOK' /\ BsrOK' /\ ViaOK' /\ SerialOK'
  BY Kept DEF StorePort, TypeOK
<1>2. CpuOK'
  <2>1. Tail(cpu.todo) \in Seq(Access)
    BY OpType DEF StorePort, Accesses, TypeOK
  <2>2. (cpu.handling /\ ~Clears(Op.ea, Op.data)) \in BOOLEAN
    BY DEF TypeOK, CpuOK, Cpus
  <2>3. QED
    BY <2>1, <2>2 DEF StorePort, TypeOK, CpuOK, Cpus
<1>3. KeysOK'
  <2>1. Op.data \in 0 .. 255 /\ Op.ea \in Nat
    BY OpType DEF StorePort, Accesses, TypeOK
  <2>2. (Op.data % 2 = 1) \in BOOLEAN /\ ((Op.data \div \h40) % 2 = 1) \in BOOLEAN
    BY <2>1
  <2>3. \A data \in 0 .. 255, x, y \in BOOLEAN :
          /\ [keys EXCEPT !.portD = data] \in KeySets
          /\ [keys EXCEPT !.enabled = x, !.edge = y] \in KeySets
          /\ [keys EXCEPT !.edge = FALSE, !.pa0 = FALSE, !.matrix = {}] \in KeySets
    BY DEF TypeOK, KeysOK, KeySets
  <2>4. /\ [keys EXCEPT !.portD = Op.data] \in KeySets
        /\ [keys EXCEPT !.enabled = (Op.data % 2 = 1), !.edge = ((Op.data \div \h40) % 2 = 1)] \in KeySets
        /\ [keys EXCEPT !.edge = FALSE, !.pa0 = FALSE, !.matrix = {}] \in KeySets
    BY <2>1, <2>2, <2>3, Zenon
  <2>5. setPort(keys, Op.ea, Op.data) \in KeySets
    BY <2>4 DEF setPort, TypeOK, KeysOK, KeySets
  <2>6. QED
    BY <2>5 DEF StorePort, KeysOK, KeySets
<1>4. PastOK'
  <2>1. past.scanned \in Seq(SUBSET Matrix) /\ past.seen \in SUBSET Matrix
    BY DEF TypeOK, PastOK, Pasts
  <2>2. Append(past.scanned, past.seen) \in Seq(SUBSET Matrix)
    BY <2>1
  <2>4. \A q \in Seq(SUBSET Matrix) : [past EXCEPT !.scanned = q, !.seen = {}] \in Pasts
    BY DEF TypeOK, PastOK, Pasts
  <2>5. past \in Pasts
    BY DEF TypeOK, PastOK, Pasts
  <2>6. past' \in Pasts
    BY <2>2, <2>4, <2>5 DEF StorePort
  <2>7. QED
    BY <2>6 DEF PastOK, Pasts
<1>5. QED
  BY <1>1, <1>2, <1>3, <1>4 DEF TypeOK

LEMMA LoadPortType == TypeOK /\ LoadPort => TypeOK'
<1> SUFFICES ASSUME TypeOK, LoadPort PROVE TypeOK'
  OBVIOUS
<1>1. SessionOK' /\ WindowOK' /\ RingOK' /\ KeysOK' /\ LcdOK' /\ FlashOK' /\ BsrOK' /\ ViaOK' /\ SerialOK'
  BY Kept DEF LoadPort, TypeOK
<1>2. CpuOK'
  BY DoneType DEF LoadPort, Accesses, TypeOK
<1>3. PastOK'
  <2>1. Driven(keys) \subseteq 0 .. 7
    BY DEF Driven
  <2>2. Columns(keys) \subseteq 0 .. 7
    <3>1. keys.matrix \subseteq (0 .. 6) \X (0 .. 7)
      BY DEF TypeOK, KeysOK, KeySets, Positions
    <3>2. QED
      BY <3>1 DEF Columns
  <2>3. past.seen \cup (Driven(keys) \X Columns(keys)) \in SUBSET Matrix
    BY <2>1, <2>2 DEF TypeOK, PastOK, Pasts, Matrix
  <2>4. QED
    BY <2>3 DEF LoadPort, TypeOK, PastOK, Pasts
<1>4. QED
  BY <1>1, <1>2, <1>3 DEF TypeOK

LEMMA StoreBSRType == TypeOK /\ StoreBSR => TypeOK'
<1> SUFFICES ASSUME TypeOK, StoreBSR PROVE TypeOK'
  OBVIOUS
<1>1. SessionOK' /\ WindowOK' /\ RingOK' /\ KeysOK' /\ LcdOK' /\ FlashOK' /\ ViaOK' /\ SerialOK' /\ PastOK'
  BY Kept DEF StoreBSR, TypeOK
<1>2. CpuOK'
  BY DoneType DEF StoreBSR, Accesses, TypeOK
<1>3. BsrOK'
  <2>1. Op.data \in 0 .. 255 /\ Op.ea \in Nat
    BY OpType DEF StoreBSR, Accesses, TypeOK
  <2>2. QED
    BY <2>1 DEF StoreBSR, TypeOK, BsrOK
<1>4. QED
  BY <1>1, <1>2, <1>3 DEF TypeOK
\* The tail of the writes that Recent keeps is there, and the longest that begins an
\* unlocking.
Starts(all) == {k \in 1 .. Len(all) + 1 : Begins(SubSeq(all, k, Len(all)))}

AllOf(writes, addr, val) == Append(writes, <<addr, val>>)
IsRecentTail(all, k, q) ==
    /\ q = SubSeq(all, k, Len(all)) /\ Begins(SubSeq(all, k, Len(all)))
    /\ \A j \in 1 .. Len(all) + 1 : Begins(SubSeq(all, j, Len(all))) => k <= j

LEMMA RecentIsTail ==
  ASSUME NEW writes \in Seq(FlashWrites), NEW addr, NEW val, <<addr, val>> \in FlashWrites
  PROVE  \E k \in 1 .. Len(AllOf(writes, addr, val)) + 1 :
             IsRecentTail(AllOf(writes, addr, val), k, Recent(writes, addr, val))
<1> DEFINE all == AllOf(writes, addr, val)
<1>1. all \in Seq(FlashWrites) /\ Len(all) \in Nat
  BY AppendProperties, LenProperties DEF AllOf
<1>0. Recent(writes, addr, val) =
        SubSeq(all, CHOOSE i \in Starts(all) : \A j \in Starts(all) : i <= j, Len(all))
  BY DEF Recent, Starts, AllOf
<1> HIDE DEF all
<1>2. Begins(<<>>)
  <2>1. Len(<<>>) = 0 /\ Len(UnlockByte) = 3
    BY DEF UnlockByte
  <2>2. IsPrefix(<<>>, UnlockByte)
    BY <2>1 DEF IsPrefix
  <2>3. QED
    BY <2>2 DEF Begins
<1>3. SubSeq(all, Len(all) + 1, Len(all)) = <<>>
  BY <1>1, SubSeqEmpty
<1>4. Starts(all) \in SUBSET Nat /\ Starts(all) # {}
  <2>1. Starts(all) \in SUBSET Nat
    BY <1>1 DEF Starts
  <2>2. Len(all) + 1 \in 1 .. Len(all) + 1
    BY <1>1
  <2>3. Len(all) + 1 \in Starts(all)
    BY <1>2, <1>3, <2>2, Zenon DEF Starts
  <2>4. QED
    BY <2>1, <2>3
<1>5. \E k \in Starts(all) : \A j \in Starts(all) : k <= j
  BY <1>4, LeastElement
<1> DEFINE k == CHOOSE k \in Starts(all) : \A j \in Starts(all) : k <= j
<1>6. k \in Starts(all) /\ \A j \in Starts(all) : k <= j
  BY <1>5
<1>7. Recent(writes, addr, val) = SubSeq(all, k, Len(all))
  BY <1>0
<1> HIDE DEF k
<1>8. IsRecentTail(all, k, Recent(writes, addr, val)) /\ k \in 1 .. Len(all) + 1
  BY <1>6, <1>7 DEF Starts, IsRecentTail
<1>9. QED
  BY <1>8 DEF all

LEMMA RecentType ==
  ASSUME NEW writes \in Seq(FlashWrites), NEW addr, NEW val, <<addr, val>> \in FlashWrites
  PROVE  Recent(writes, addr, val) \in Seq(FlashWrites)
<1> DEFINE all == AllOf(writes, addr, val)
<1>1. all \in Seq(FlashWrites) /\ Len(all) \in Nat
  BY AppendProperties, LenProperties DEF AllOf
<1>3. PICK k \in 1 .. Len(all) + 1 : Recent(writes, addr, val) = SubSeq(all, k, Len(all))
  BY RecentIsTail DEF IsRecentTail
<1> HIDE DEF all
<1>2. \A i \in 1 .. Len(all) : all[i] \in FlashWrites
  BY <1>1, ElementOfSeq
<1>4. SubSeq(all, k, Len(all)) \in Seq(FlashWrites)
  BY <1>1, <1>2, SubSeqProperties
<1>5. QED
  BY <1>3, <1>4

LEMMA PhysicalType == ASSUME NEW b \in Nat, NEW ea \in Nat PROVE Physical(b, ea) \in Nat
  BY DEF Physical

LEMMA WriteType == ASSUME NEW addr \in Nat, NEW val \in Nat PROVE <<addr, val>> \in FlashWrites
  BY DEF FlashWrites

LEMMA ChipOfStore ==
  ASSUME TypeOK, StoreFlash
  PROVE  /\ Device(Op.ea) \in Chips /\ Op.data \in 0 .. 255 /\ Op.ea \in Nat
         /\ Physical(bsr[(Op.ea \div \h2000) % 8], Op.ea) \in Nat
<1>1. Op.data \in 0 .. 255 /\ Op.ea \in Nat
  BY OpType DEF StoreFlash, Accesses, TypeOK
<1>2. (Op.ea \div \h2000) % 8 \in 0 .. 7
  BY <1>1
<1>3. bsr[(Op.ea \div \h2000) % 8] \in Nat
  BY <1>2 DEF TypeOK, BsrOK
<1>4. Physical(bsr[(Op.ea \div \h2000) % 8], Op.ea) \in Nat
  <2> DEFINE b == bsr[(Op.ea \div \h2000) % 8]
             ea == Op.ea
  <2>1. b \in Nat /\ ea \in Nat
    BY <1>1, <1>3
  <2> HIDE DEF b, ea
  <2>2. Physical(b, ea) \in Nat
    BY <2>1, PhysicalType
  <2>3. QED
    BY <2>2 DEF b, ea
<1>5. Device(Op.ea) \in Chips
  BY Zenon DEF StoreFlash, Accesses
<1>6. QED
  BY <1>1, <1>4, <1>5

LEMMA StoreFlashType == TypeOK /\ StoreFlash => TypeOK'
<1> SUFFICES ASSUME TypeOK, StoreFlash PROVE TypeOK'
  OBVIOUS
<1>1. SessionOK' /\ WindowOK' /\ RingOK' /\ KeysOK' /\ LcdOK' /\ BsrOK' /\ ViaOK' /\ SerialOK'
  BY Kept DEF StoreFlash, TypeOK
<1>2. CpuOK'
  BY DoneType DEF StoreFlash, Accesses, TypeOK
<1> DEFINE chip == Device(Op.ea)
           addr == Physical(bsr[(Op.ea \div \h2000) % 8], Op.ea)
<1>3. chip \in Chips /\ addr \in Nat /\ Op.data \in 0 .. 255 /\ Op.data \in Nat
  BY ChipOfStore
<1>4. FlashOK'
  <2>1. write(flash[chip], addr, Op.data) \in Chip
    BY <1>3, writeType DEF TypeOK, FlashOK
  <2>2. flash' = [flash EXCEPT ![chip] = write(flash[chip], addr, Op.data)]
    BY DEF StoreFlash
  <2> HIDE DEF chip, addr
  <2>3. QED
    BY <1>3, <2>1, <2>2 DEF TypeOK, FlashOK
<1>5. PastOK'
  <2>1. past.recent \in [Chips -> Seq(FlashWrites)]
    BY DEF TypeOK, PastOK, Pasts
  <2>2. Recent(past.recent[chip], addr, Op.data) \in Seq(FlashWrites)
    <3>0. <<addr, Op.data>> \in FlashWrites
      BY <1>3, WriteType
    <3>1. <<addr, Op.data>> \in FlashWrites /\ past.recent[chip] \in Seq(FlashWrites)
      BY <1>3, <2>1, <3>0
    <3>2. QED
      BY <3>1, RecentType
  <2>3. past' = [past EXCEPT !.recent = [past.recent EXCEPT ![chip] = Recent(past.recent[chip], addr, Op.data)]]
    BY DEF StoreFlash, TypeOK, PastOK, Pasts
  <2> HIDE DEF chip, addr
  <2>4. [past.recent EXCEPT ![chip] = Recent(past.recent[chip], addr, Op.data)] \in [Chips -> Seq(FlashWrites)]
    BY <2>1, <2>2
  <2>5. QED
    BY <2>3, <2>4 DEF TypeOK, PastOK, Pasts
<1>6. QED
  BY <1>1, <1>2, <1>4, <1>5 DEF TypeOK

LEMMA StoreLCDType == TypeOK /\ StoreLCD => TypeOK'
<1> SUFFICES ASSUME TypeOK, StoreLCD PROVE TypeOK'
  OBVIOUS
<1>1. SessionOK' /\ WindowOK' /\ RingOK' /\ KeysOK' /\ FlashOK' /\ BsrOK' /\ ViaOK' /\ SerialOK'
  BY Kept DEF StoreLCD, TypeOK
<1>2. CpuOK'
  <2>1. cpu.todo # <<>>
    BY DEF StoreLCD, Accesses
  <2> DEFINE pc == IF setLCD(lcd, Op.ea - \h600, Op.data).tell THEN "tell" ELSE "end"
  <2>3. cpu' = [cpu EXCEPT !.pc = pc, !.todo = Tail(@)] /\ pc \in {"access", "end", "tell", "press"}
    BY DEF StoreLCD
  <2> HIDE DEF pc
  <2>2. QED
    BY <2>1, <2>3, EndedType DEF TypeOK, CpuOK
<1>3. LcdOK'
  <2>1. Op.data \in 0 .. 255 /\ Op.ea \in Nat
    BY OpType DEF StoreLCD, Accesses, TypeOK
  <2>2. setLCD(lcd, Op.ea - \h600, Op.data) \in Answers
    BY <2>1, setLCDType DEF TypeOK, LcdOK
  <2>3. QED
    BY <2>2 DEF StoreLCD, Answers, TypeOK, LcdOK
<1>4. PastOK'
  <2>1. \A x \in BOOLEAN : [past EXCEPT !.untold = x] \in Pasts
    <3>1. past \in Pasts
      BY DEF TypeOK, PastOK
    <3>2. QED
      BY <3>1 DEF Pasts
  <2>2. past.untold \in BOOLEAN
    BY DEF TypeOK, PastOK, Pasts
  <2> DEFINE untold == past.untold \/ (Untells(Op) /\ Alters(setLCD(lcd, Op.ea - \h600, Op.data).lcd))
  <2>3. past' = [past EXCEPT !.untold = untold]
    BY DEF StoreLCD
  <2>4. untold \in BOOLEAN
    OBVIOUS
  <2> HIDE DEF untold
  <2>5. QED
    BY <2>1, <2>3, <2>4 DEF PastOK
<1>5. QED
  BY <1>1, <1>2, <1>3, <1>4 DEF TypeOK

LEMMA TellWindowType == TypeOK /\ TellWindow => TypeOK'
<1> SUFFICES ASSUME TypeOK, TellWindow PROVE TypeOK'
  OBVIOUS
<1>1. SessionOK' /\ WindowOK' /\ RingOK' /\ KeysOK' /\ FlashOK' /\ BsrOK' /\ ViaOK' /\ SerialOK'
  BY Kept DEF TellWindow, TypeOK
<1>2. CpuOK'
  BY DEF TellWindow, TypeOK, CpuOK, Cpus
<1>3. LcdOK'
  BY DEF TellWindow, TypeOK, LcdOK
<1>4. PastOK'
  BY DEF TellWindow, TypeOK, PastOK, Pasts
<1>5. QED
  BY <1>1, <1>2, <1>3, <1>4 DEF TypeOK

LEMMA LoadLCDType == TypeOK /\ LoadLCD => TypeOK'
<1> SUFFICES ASSUME TypeOK, LoadLCD PROVE TypeOK'
  OBVIOUS
<1>1. SessionOK' /\ WindowOK' /\ RingOK' /\ KeysOK' /\ FlashOK' /\ BsrOK' /\ ViaOK' /\ SerialOK' /\ PastOK'
  BY Kept DEF LoadLCD, TypeOK
<1>2. CpuOK'
  BY DoneType DEF LoadLCD, Accesses, TypeOK
<1>3. LcdOK'
  BY getLCDType DEF LoadLCD, TypeOK, LcdOK
<1>4. QED
  BY <1>1, <1>2, <1>3 DEF TypeOK

LEMMA StoreVIAType == TypeOK /\ StoreVIA => TypeOK'
<1> SUFFICES ASSUME TypeOK, StoreVIA PROVE TypeOK'
  OBVIOUS
<1>1. SessionOK' /\ WindowOK' /\ RingOK' /\ KeysOK' /\ LcdOK' /\ FlashOK' /\ BsrOK' /\ SerialOK'
  BY Kept DEF StoreVIA, TypeOK
<1>2. CpuOK'
  BY DoneType DEF StoreVIA, Accesses, TypeOK
<1>3. ViaOK'
  <2>1. Op.data \in 0 .. 255 /\ Op.ea \in Nat
    BY OpType DEF StoreVIA, Accesses, TypeOK
  <2>2. setVIA(via, Op.ea % 16, Op.data) \in VIAs
    BY <2>1, setVIAType DEF TypeOK, ViaOK
  <2>3. QED
    BY <2>2 DEF StoreVIA, ViaOK
<1>4. PastOK'
  <2>1. via.freeRun \in BOOLEAN
    BY DEF TypeOK, ViaOK, VIAs
  <2>2. \A x \in BOOLEAN : [kept |-> x, since |-> 0] \in [kept : BOOLEAN, since : Int]
    OBVIOUS
  <2>3. \A q \in [kept : BOOLEAN, since : Int] : [past EXCEPT !.pace = q] \in Pasts
    BY DEF TypeOK, PastOK, Pasts
  <2>4. past.pace \in [kept : BOOLEAN, since : Int]
    BY DEF TypeOK, PastOK, Pasts
  <2>5. QED
    BY <2>1, <2>2, <2>3, <2>4 DEF StoreVIA, PastOK
<1>5. QED
  BY <1>1, <1>2, <1>3, <1>4 DEF TypeOK

LEMMA LoadVIAType == TypeOK /\ LoadVIA => TypeOK'
<1> SUFFICES ASSUME TypeOK, LoadVIA PROVE TypeOK'
  OBVIOUS
<1>1. SessionOK' /\ WindowOK' /\ RingOK' /\ KeysOK' /\ LcdOK' /\ FlashOK' /\ BsrOK' /\ SerialOK' /\ PastOK'
  BY Kept DEF LoadVIA, TypeOK
<1>2. CpuOK'
  BY DoneType DEF LoadVIA, Accesses, TypeOK
<1>3. ViaOK'
  BY getVIAType DEF LoadVIA, TypeOK, ViaOK
<1>4. QED
  BY <1>1, <1>2, <1>3 DEF TypeOK

\* What the receiver holds after a look at its status: nothing new, or the next byte.
Serials == [full : BOOLEAN, data : Nat, stdin : Seq(Nat)]

LEMMA statusType == SerialOK => status(serial) \in Serials
<1> SUFFICES ASSUME SerialOK PROVE status(serial) \in Serials
  OBVIOUS
<1>1. serial.stdin \in Seq(Nat)
  BY DEF SerialOK
<1>2. serial.stdin # <<>> => Head(serial.stdin) \in Nat /\ Tail(serial.stdin) \in Seq(Nat)
  BY <1>1
<1>3. QED
  BY <1>2 DEF status, SerialOK, Serials

LEMMA LoadSerialType == TypeOK /\ LoadSerial => TypeOK'
<1> SUFFICES ASSUME TypeOK, LoadSerial PROVE TypeOK'
  OBVIOUS
<1>1. SessionOK' /\ WindowOK' /\ RingOK' /\ KeysOK' /\ LcdOK' /\ FlashOK' /\ BsrOK' /\ ViaOK'
  BY Kept DEF LoadSerial, TypeOK
<1>2. CpuOK'
  <2>1. cpu.todo # <<>>
    BY DEF LoadSerial, Accesses
  <2>2. [cpu EXCEPT !.pc = "end", !.todo = Tail(@)] \in Cpus
    BY <2>1, EndedType DEF TypeOK
  <2>3. [cpu EXCEPT !.pc = "end", !.todo = @] \in Cpus
    BY DEF TypeOK, CpuOK, Cpus
  <2>4. cpu' \in {[cpu EXCEPT !.pc = "end", !.todo = Tail(@)], [cpu EXCEPT !.pc = "end", !.todo = @]}
    BY DEF LoadSerial
  <2>5. QED
    BY <2>2, <2>3, <2>4 DEF CpuOK
<1>3. SerialOK'
  <2>1. status(serial) \in Serials
    BY statusType DEF TypeOK
  <2>2. QED
    BY <2>1 DEF LoadSerial, TypeOK, SerialOK, Serials
<1>4. PastOK'
  <2>1. status(serial).data \in Nat
    BY statusType DEF TypeOK, Serials
  <2>2. past.received \in Seq(Nat)
    BY DEF TypeOK, PastOK, Pasts
  <2>3. Append(past.received, status(serial).data) \in Seq(Nat)
    BY <2>1, <2>2
  <2>4. \A q \in Seq(Nat) : [past EXCEPT !.received = q] \in Pasts
    BY DEF TypeOK, PastOK, Pasts
  <2>5. past' = past \/ past' = [past EXCEPT !.received = Append(past.received, status(serial).data)]
    BY DEF LoadSerial
  <2>6. QED
    BY <2>3, <2>4, <2>5 DEF TypeOK, PastOK
<1>5. QED
  BY <1>1, <1>2, <1>3, <1>4 DEF TypeOK

LEMMA StoreSerialType == TypeOK /\ StoreSerial => TypeOK'
<1> SUFFICES ASSUME TypeOK, StoreSerial PROVE TypeOK'
  OBVIOUS
<1>1. SessionOK' /\ WindowOK' /\ RingOK' /\ KeysOK' /\ LcdOK' /\ FlashOK' /\ BsrOK' /\ ViaOK'
  BY Kept DEF StoreSerial, TypeOK
<1>2. CpuOK'
  BY DoneType DEF StoreSerial, Accesses, TypeOK
<1>3. SerialOK'
  BY DEF StoreSerial, TypeOK, SerialOK
<1>4. PastOK'
  BY DEF StoreSerial, TypeOK, PastOK, Pasts
<1>5. QED
  BY <1>1, <1>2, <1>3, <1>4 DEF TypeOK

LEMMA ElsewhereType == TypeOK /\ Elsewhere => TypeOK'
<1> SUFFICES ASSUME TypeOK, Elsewhere PROVE TypeOK'
  OBVIOUS
<1>1. SessionOK' /\ WindowOK' /\ RingOK' /\ KeysOK' /\ LcdOK' /\ FlashOK' /\ BsrOK' /\ ViaOK' /\ SerialOK' /\ PastOK'
  BY Kept DEF Elsewhere, TypeOK
<1>2. CpuOK'
  BY DoneType DEF Elsewhere, Accesses, TypeOK
<1>3. QED
  BY <1>1, <1>2 DEF TypeOK

LEMMA PacedType == ASSUME TypeOK, NEW elapsed \in Nat PROVE Paced(elapsed) \in [kept : BOOLEAN, since : Int]
<1>1. past.pace \in [kept : BOOLEAN, since : Int] /\ past.pace.since \in Int
  BY DEF TypeOK, PastOK, Pasts
<1>2. via.t1_counter \in Nat /\ via.t1_latch \in Nat
  BY DEF TypeOK, ViaOK, VIAs
<1>3. QED
  BY <1>1, <1>2 DEF Paced

LEMMA EndType ==
  ASSUME TypeOK, RingOK', NEW k \in KeySets, NEW scanned \in Seq(SUBSET Matrix), End(k, scanned)
  PROVE  TypeOK'
<1>1. SessionOK' /\ WindowOK' /\ LcdOK' /\ FlashOK' /\ BsrOK' /\ SerialOK'
  BY Kept DEF End, TypeOK
<1>2. KeysOK'
  BY DEF End, KeysOK
<1>3. PICK elapsed \in Cycles : /\ via' = tick(via, elapsed)
                               /\ past' = [past EXCEPT !.pace = Paced(elapsed), !.scanned = scanned]
  BY DEF End
<1>4. elapsed \in Nat
  BY <1>3, SessionAssumption DEF Cycles
<1>5. ViaOK'
  BY <1>3, <1>4, tickType DEF TypeOK, ViaOK
<1>6. PastOK'
  <2>1. Paced(elapsed) \in [kept : BOOLEAN, since : Int]
    BY <1>4, PacedType
  <2>2. QED
    BY <1>3, <2>1 DEF TypeOK, PastOK, Pasts
<1>7. CpuOK'
  <2>1. NoChar \in Characters
    BY DEF Characters
  <2>2. Handler \o cpu.todo \in Seq(Access)
    BY HandlerType, ConcatProperties DEF TypeOK, CpuOK, Cpus
  <2>3. /\ [cpu EXCEPT !.pc = "access", !.taken = NoChar] \in Cpus
        /\ \A todo \in Seq(Access) :
             [cpu EXCEPT !.pc = "access", !.taken = NoChar, !.todo = todo, !.handling = TRUE] \in Cpus
    BY <2>1 DEF TypeOK, CpuOK, Cpus
  <2>4. cpu' \in {[cpu EXCEPT !.pc = "access", !.taken = NoChar],
                  [cpu EXCEPT !.pc = "access", !.taken = NoChar, !.todo = Handler \o cpu.todo,
                              !.handling = TRUE]}
    BY DEF End
  <2>5. QED
    BY <2>2, <2>3, <2>4 DEF CpuOK
<1>8. QED
  BY <1>1, <1>2, <1>5, <1>6, <1>7 DEF TypeOK

LEMMA PollNothingType == TypeOK /\ PollNothing => TypeOK'
<1> SUFFICES ASSUME TypeOK, PollNothing PROVE TypeOK'
  OBVIOUS
<1>1. RingOK'
  BY DEF PollNothing, End, TypeOK, RingOK
<1>2. keys \in KeySets /\ past.scanned \in Seq(SUBSET Matrix)
  BY DEF TypeOK, KeysOK, PastOK, Pasts
<1>3. QED
  BY <1>1, <1>2, EndType DEF PollNothing

LEMMA PollPressType == TypeOK /\ PollPress => TypeOK'
<1> SUFFICES ASSUME TypeOK, PollPress PROVE TypeOK'
  OBVIOUS
<1>1. RingOK'
  BY AfterIsPlace DEF PollPress, End, TypeOK, RingOK
<1> DEFINE pressed == KeysOf(cpu.taken)
<1>2. pressed \in SUBSET Positions
  BY KeysInMatrix
<1> HIDE DEF pressed
<1>3. /\ keys \in KeySets /\ past.scanned \in Seq(SUBSET Matrix)
      /\ [keys EXCEPT !.matrix = @ \cup pressed, !.pa0 = TRUE, !.edge = TRUE] \in KeySets
  BY <1>2 DEF TypeOK, KeysOK, KeySets, PastOK, Pasts
<1>4. {} \in SUBSET Matrix /\ Append(past.scanned, {}) \in Seq(SUBSET Matrix)
  BY <1>3
<1>5. \/ End(keys, Append(past.scanned, {}))
      \/ End([keys EXCEPT !.matrix = @ \cup pressed, !.pa0 = TRUE, !.edge = TRUE], past.scanned)
  BY DEF PollPress, pressed
<1>6. QED
  BY <1>1, <1>3, <1>4, <1>5, EndType

LEMMA PollTakeType == TypeOK /\ PollTake => TypeOK'
<1> SUFFICES ASSUME TypeOK, PollTake PROVE TypeOK'
  OBVIOUS
<1>1. SessionOK' /\ WindowOK' /\ RingOK' /\ KeysOK' /\ LcdOK' /\ FlashOK' /\ BsrOK' /\ ViaOK' /\ SerialOK' /\ PastOK'
  BY Kept DEF PollTake, TypeOK
<1>2. CpuOK'
  <2>1. keyBuf[keyBufRead] \in Characters
    BY DEF TypeOK, RingOK
  <2>2. QED
    BY <2>1 DEF PollTake, TypeOK, CpuOK, Cpus
<1>3. QED
  BY <1>1, <1>2 DEF TypeOK

LEMMA NextType == TypeOK /\ [Next]_vars => TypeOK'
<1> SUFFICES ASSUME TypeOK, [Next]_vars PROVE TypeOK'
  OBVIOUS
<1>1. CASE UNCHANGED vars
  BY <1>1, Kept DEF vars, TypeOK
<1>2. CASE Window
  BY <1>2, TypeType, LookForRoomType, PutCharType, PublishType, RefreshType, StartDrawingType,
     DrawRowType, TypeByteType DEF Window
<1>3. CASE Processor
  BY <1>3, BeginType, IdleType, StorePortType, LoadPortType, StoreBSRType, StoreFlashType,
     StoreLCDType, TellWindowType, LoadLCDType, StoreVIAType, LoadVIAType, LoadSerialType,
     StoreSerialType, ElsewhereType, PollNothingType, PollTakeType, PollPressType DEF Processor
<1>4. QED
  BY <1>1, <1>2, <1>3 DEF Next

\* Every register, the ring and the display keep their types, whatever the firmware
\* stores where (mem816::setByte and the devices behind it).
THEOREM TypesStay == Spec => []TypeOK
<1>1. QED
  BY InitTypes, NextType, PTL DEF Spec
-----------------------------------------------------------------------------
(* Timer 1.                                                                *)

FlagsTold(v) == "IRQ" \in v.ifr <=> irqPending(v)

LEMMA updateIRQTells == \A v \in VIAs : FlagsTold(updateIRQ(v))
  BY DEF VIAs, updateIRQ, irqPending, FlagsTold

LEMMA ClearedTells == ASSUME NEW v \in VIAs, NEW flags PROVE FlagsTold(Cleared(v, flags))
<1>1. [v EXCEPT !.ifr = @ \ flags] \in VIAs
  BY DEF VIAs
<1>2. QED
  BY <1>1, updateIRQTells DEF Cleared

\* What updateIRQ and the clearing of flags leave alone.
LEMMA updateIRQKeeps ==
  \A v \in VIAs : /\ updateIRQ(v).t1_counter = v.t1_counter
                  /\ updateIRQ(v).t1_latch = v.t1_latch
                  /\ updateIRQ(v).freeRun = v.freeRun
  BY DEF VIAs, updateIRQ

LEMMA ClearedKeeps ==
  ASSUME NEW v \in VIAs, NEW flags
  PROVE  Cleared(v, flags).t1_counter = v.t1_counter /\ Cleared(v, flags).t1_latch = v.t1_latch
<1>1. [v EXCEPT !.ifr = @ \ flags] \in VIAs
  BY DEF VIAs
<1>2. QED
  BY <1>1, updateIRQKeeps DEF Cleared, VIAs

LEMMA StoreVIAPaces == TypeOK /\ TimerKeepsPace /\ StoreVIA => TimerKeepsPace'
<1> SUFFICES ASSUME TypeOK, TimerKeepsPace, StoreVIA PROVE TimerKeepsPace'
  OBVIOUS
<1> DEFINE reg == Op.ea % 16
           data == Op.data
<1>1. data \in Nat
  <2>1. Op.data \in 0 .. 255
    BY OpType DEF StoreVIA, Accesses, TypeOK
  <2>2. QED
    BY <2>1
<1>2. via \in VIAs /\ via.t1_latch \in Nat /\ LowByte(via) \in Nat /\ HighByte(via) \in Nat
  BY DEF TypeOK, ViaOK, VIAs, LowByte, HighByte
<1>3. via' = setVIA(via, reg, data)
  BY DEF StoreVIA
<1>4. past'.pace = IF reg = \h5 THEN [kept |-> via.freeRun, since |-> 0]
                   ELSE IF reg \in {\h4, \h6, \h7, \hB} THEN [kept |-> FALSE, since |-> 0]
                   ELSE past.pace
  BY DEF StoreVIA, TypeOK, PastOK, Pasts
<1>5. FlagsTold(via)
  BY DEF TimerKeepsPace, FlagsTold
<1> HIDE DEF reg, data
<1> DEFINE w == [via EXCEPT !.t1_latch = 256 * data + LowByte(via), !.t1_counter = 256 * data + LowByte(via),
                            !.t1_running = TRUE]
<1>6. w \in VIAs /\ w.t1_latch = w.t1_counter /\ w.t1_latch \in Nat
  <2>1. 256 * data + LowByte(via) \in Nat
    BY <1>1, <1>2
  <2>2. QED
    BY <1>2, <2>1 DEF VIAs
<1>7. CASE reg = \h5
  <2>1. via' = Cleared(w, {"T1"})
    BY <1>3, <1>7 DEF setVIA
  <2> HIDE DEF w
  <2>2. FlagsTold(via')
    BY <1>6, <2>1, ClearedTells
  <2>3. via'.t1_latch = via'.t1_counter /\ via'.t1_latch \in Nat
    BY <1>6, <2>1, ClearedKeeps
  <2>4. past'.pace.since = 0
    BY <1>4, <1>7
  <2>5. QED
    BY <2>2, <2>3, <2>4 DEF TimerKeepsPace, FlagsTold
<1>8. CASE reg \in {\h4, \h6, \h7, \hB}
  <2>1. ~past'.pace.kept
    BY <1>4, <1>8
  <2>2. FlagsTold(via')
    <3>1. CASE reg = \h7
      <4>1. [via EXCEPT !.t1_latch = 256 * data + LowByte(via)] \in VIAs
        BY <1>1, <1>2 DEF VIAs
      <4>2. QED
        BY <1>3, <3>1, <4>1, ClearedTells DEF setVIA
    <3>2. CASE reg \in {\h4, \h6, \hB}
      <4>1. via'.ifr = via.ifr /\ via'.ier = via.ier
        BY <1>2, <1>3, <3>2 DEF setVIA, VIAs
      <4>2. QED
        BY <1>5, <4>1 DEF FlagsTold, irqPending
    <3>3. QED
      BY <1>8, <3>1, <3>2
  <2>3. QED
    BY <2>1, <2>2 DEF TimerKeepsPace, FlagsTold
<1>9. CASE reg \notin {\h4, \h5, \h6, \h7, \hB}
  <2>1. past'.pace = past.pace
    BY <1>4, <1>9
  <2>2. FlagsTold(via') /\ via'.t1_counter = via.t1_counter /\ via'.t1_latch = via.t1_latch
    <3>1. CASE reg = \hD
      BY <1>2, <1>3, <3>1, ClearedTells, ClearedKeeps DEF setVIA
    <3>2. CASE reg = \hE
      <4> DEFINE e == [via EXCEPT !.ier = IF data >= \h80 THEN @ \cup Timer1(data) ELSE @ \ Timer1(data)]
      <4>1. Timer1(data) \subseteq {"T1"}
        BY DEF Timer1
      <4>2. e \in VIAs /\ e.t1_counter = via.t1_counter /\ e.t1_latch = via.t1_latch
        BY <1>2, <4>1 DEF VIAs
      <4>3. via' = updateIRQ(e)
        BY <1>3, <3>2 DEF setVIA
      <4> HIDE DEF e
      <4>4. QED
        BY <4>2, <4>3, updateIRQTells, updateIRQKeeps
    <3>3. CASE reg \notin {\hD, \hE}
      BY <1>3, <1>5, <1>9, <3>3 DEF setVIA
    <3>4. QED
      BY <3>1, <3>2, <3>3
  <2>3. QED
    BY <2>1, <2>2 DEF TimerKeepsPace, FlagsTold
<1>10. QED
  BY <1>7, <1>8, <1>9

LEMMA LoadVIAPaces == TypeOK /\ TimerKeepsPace /\ LoadVIA => TimerKeepsPace'
<1> SUFFICES ASSUME TypeOK, TimerKeepsPace, LoadVIA PROVE TimerKeepsPace'
  OBVIOUS
<1>1. past' = past /\ via' = getVIA(via, Op.ea % 16) /\ via \in VIAs
  BY DEF LoadVIA, TypeOK, ViaOK
<1>2. FlagsTold(via)
  BY DEF TimerKeepsPace, FlagsTold
<1>3. FlagsTold(via') /\ via'.t1_counter = via.t1_counter /\ via'.t1_latch = via.t1_latch
  BY <1>1, <1>2, ClearedTells, ClearedKeeps DEF getVIA
<1>4. QED
  BY <1>1, <1>3 DEF TimerKeepsPace, FlagsTold

\* An instruction's cycles: the counter goes back by them, or starts again from the
\* latch less what went beyond its end (tick).
LEMMA tickPaces ==
  ASSUME TypeOK, TimerKeepsPace, NEW elapsed \in Nat, via' = tick(via, elapsed),
         past'.pace = Paced(elapsed)
  PROVE  TimerKeepsPace'
<1>1. via \in VIAs /\ via.t1_counter \in Nat /\ via.t1_latch \in Nat /\ past.pace.since \in Int
  BY DEF TypeOK, ViaOK, VIAs, PastOK, Pasts
<1>2. past.pace \in [kept : BOOLEAN, since : Int]
  BY DEF TypeOK, PastOK, Pasts
<1>3. FlagsTold(via)
  BY DEF TimerKeepsPace, FlagsTold
<1>4. CASE ~via.t1_running
  <2>1. via' = via /\ past'.pace = past.pace
    BY <1>4 DEF tick, Paced
  <2>2. QED
    BY <2>1, <1>3 DEF TimerKeepsPace, FlagsTold
<1>5. CASE via.t1_running /\ elapsed < via.t1_counter
  <2>1. via' = [via EXCEPT !.t1_counter = @ - elapsed]
    BY <1>5 DEF tick
  <2>2. /\ via'.t1_counter = via.t1_counter - elapsed /\ via'.t1_latch = via.t1_latch
        /\ via'.ifr = via.ifr /\ via'.ier = via.ier
    BY <1>1, <2>1 DEF VIAs
  <2>3. elapsed - via.t1_counter < 0
    BY <1>1, <1>5
  <2>4. past'.pace = [past.pace EXCEPT !.since = IF past.pace.kept THEN @ + elapsed ELSE 0]
    BY <1>5, <2>3 DEF Paced
  <2>5. past'.pace.kept = past.pace.kept /\ (past.pace.kept => past'.pace.since = past.pace.since + elapsed)
    BY <1>2, <2>4
  <2>6. past.pace.kept => past.pace.since = via.t1_latch - via.t1_counter
    BY DEF TimerKeepsPace
  <2>7. past'.pace.kept => past'.pace.since = via'.t1_latch - via'.t1_counter
    BY <1>1, <2>2, <2>5, <2>6
  <2>8. FlagsTold(via')
    BY <1>3, <2>2 DEF FlagsTold, irqPending
  <2>9. QED
    BY <2>7, <2>8 DEF TimerKeepsPace, FlagsTold
<1>6. CASE via.t1_running /\ ~(elapsed < via.t1_counter)
  <2> DEFINE beyond == elapsed - via.t1_counter
             left == beyond % (via.t1_latch + 1)
             w == [via EXCEPT !.ifr = @ \cup {"T1"}, !.t1_running = via.freeRun,
                              !.t1_counter = IF via.freeRun THEN via.t1_latch - left ELSE 0]
  <2>1. beyond \in Nat /\ left \in 0 .. via.t1_latch
    BY <1>1, <1>6
  <2>2. beyond <= via.t1_latch => left = beyond
    BY <1>1, <2>1
  <2>3. past'.pace = IF past.pace.kept /\ via.freeRun /\ beyond <= via.t1_latch
                     THEN [past.pace EXCEPT !.since = @ + elapsed - via.t1_latch]
                     ELSE [kept |-> FALSE, since |-> 0]
    BY <1>6, <2>1 DEF Paced
  <2>4. via' = updateIRQ(w)
    BY <1>6 DEF tick
  <2>5. past.pace.kept => past.pace.since = via.t1_latch - via.t1_counter
    BY DEF TimerKeepsPace
  <2>6. elapsed = beyond + via.t1_counter
    BY <1>1
  <2> HIDE DEF beyond, left
  <2>7. via.t1_latch - left \in Nat
    BY <1>1, <2>1
  <2>8. /\ w \in VIAs /\ w.t1_latch = via.t1_latch
        /\ via.freeRun => w.t1_counter = via.t1_latch - left
    BY <1>1, <2>7 DEF VIAs
  <2> HIDE DEF w
  <2>9. /\ FlagsTold(via') /\ via'.t1_latch = via.t1_latch
        /\ via.freeRun => via'.t1_counter = via.t1_latch - left
    BY <2>4, <2>8, updateIRQTells, updateIRQKeeps
  <2>10. ASSUME past'.pace.kept PROVE past'.pace.since = via'.t1_latch - via'.t1_counter
    <3>1. past.pace.kept /\ via.freeRun /\ beyond <= via.t1_latch
      BY <2>3, <2>10
    <3>2. past'.pace.since = past.pace.since + elapsed - via.t1_latch
      BY <1>2, <2>3, <3>1
    <3>3. QED
      BY <1>1, <2>1, <2>2, <2>5, <2>6, <2>9, <3>1, <3>2
  <2>11. QED
    BY <2>9, <2>10 DEF TimerKeepsPace, FlagsTold
<1>7. QED
  BY <1>4, <1>5, <1>6

LEMMA EndPaces ==
  ASSUME TypeOK, TimerKeepsPace, NEW k, NEW scanned, End(k, scanned)
  PROVE  TimerKeepsPace'
<1>1. PICK elapsed \in Cycles : /\ via' = tick(via, elapsed)
                               /\ past' = [past EXCEPT !.pace = Paced(elapsed), !.scanned = scanned]
  BY DEF End
<1>2. elapsed \in Nat
  BY <1>1, SessionAssumption DEF Cycles
<1>3. past'.pace = Paced(elapsed)
  BY <1>1 DEF TypeOK, PastOK, Pasts
<1>4. QED
  BY <1>1, <1>2, <1>3, tickPaces

LEMMA NextPaces == TypeOK /\ TimerKeepsPace /\ [Next]_vars => TimerKeepsPace'
<1> SUFFICES ASSUME TypeOK, TimerKeepsPace, [Next]_vars PROVE TimerKeepsPace'
  OBVIOUS
<1>1. ASSUME via' = via, past'.pace = past.pace PROVE TimerKeepsPace'
  BY <1>1 DEF TimerKeepsPace, irqPending
<1>2. CASE UNCHANGED vars
  BY <1>1, <1>2 DEF vars
<1>3. CASE Window
  <2>1. via' = via /\ past'.pace = past.pace
    BY <1>3 DEF Window, Type, LookForRoom, PutChar, Publish, Refresh, StartDrawing, DrawRow, ShowRow,
                TypeByte, TypeOK, PastOK, Pasts
  <2>2. QED
    BY <1>1, <2>1
<1>4. CASE (\E piece \in session.programs : Begin(piece)) \/ Idle \/ StorePort \/ LoadPort \/ StoreBSR
           \/ StoreFlash \/ StoreLCD
  <2>1. past'.pace = past.pace
    <3>1. past \in Pasts
      BY DEF TypeOK, PastOK
    <3>2. CASE StorePort
      BY <3>1, <3>2 DEF StorePort, Pasts
    <3>3. CASE LoadPort
      BY <3>1, <3>3 DEF LoadPort, Pasts
    <3>4. CASE StoreFlash
      BY <3>1, <3>4 DEF StoreFlash, Pasts
    <3>5. CASE StoreLCD
      BY <3>1, <3>5 DEF StoreLCD, Pasts
    <3>6. QED
      BY <1>4, <3>2, <3>3, <3>4, <3>5 DEF Begin, Idle, StoreBSR
  <2>2. via' = via
    BY <1>4 DEF Begin, Idle, StorePort, LoadPort, StoreBSR, StoreFlash, StoreLCD
  <2>3. QED
    BY <1>1, <2>1, <2>2
<1>5. CASE TellWindow \/ LoadLCD \/ LoadSerial \/ StoreSerial \/ Elsewhere \/ PollTake
  <2>1. past'.pace = past.pace
    <3>1. past \in Pasts
      BY DEF TypeOK, PastOK
    <3>2. CASE TellWindow
      BY <3>1, <3>2 DEF TellWindow, Pasts
    <3>3. CASE LoadSerial
      BY <3>1, <3>3 DEF LoadSerial, Pasts
    <3>4. CASE StoreSerial
      BY <3>1, <3>4 DEF StoreSerial, Pasts
    <3>5. QED
      BY <1>5, <3>2, <3>3, <3>4 DEF LoadLCD, Elsewhere, PollTake
  <2>2. via' = via
    BY <1>5 DEF TellWindow, LoadLCD, LoadSerial, StoreSerial, Elsewhere, PollTake
  <2>3. QED
    BY <1>1, <2>1, <2>2
<1>6. CASE StoreVIA \/ LoadVIA
  BY <1>6, StoreVIAPaces, LoadVIAPaces
<1>7. CASE PollNothing \/ PollPress
  BY <1>7, EndPaces DEF PollNothing, PollPress
<1>8. QED
  BY <1>2, <1>3, <1>4, <1>5, <1>6, <1>7 DEF Next, Processor

\* Timer 1 loses no cycle and counts none twice, however far each instruction
\* overshoots, as long as none outlasts the period; and bit 7 of IFR is up exactly
\* when an enabled flag is (tick, updateIRQ and the stores that set the latch).
THEOREM TimerStaysInPace == Spec => []TimerKeepsPace
<1>1. Init => TimerKeepsPace
  BY DEF Init, resetVIA, TimerKeepsPace, irqPending
<1>2. QED
  BY <1>1, TypesStay, NextPaces, PTL DEF Spec
-----------------------------------------------------------------------------
(* The screen.                                                             *)

\* Something is still to be drawn, or the last change was not told.
Pending == dirty \/ cpu.pc = "tell" \/ past.untold \/ window.needsDisplay

\* While the window draws and nothing is pending, what it has drawn is the display
\* as it is; when it does not draw, the screen is.
Fresh ==
    /\ window.pc = "draw" =>
           /\ Len(window.frame) < Height
           /\ ~Pending => /\ window.setup = Setup(lcd)
                          /\ \A k \in 1 .. Len(window.frame) :
                                 window.frame[k] = DrawnRow(Setup(lcd), lcd.ram, k - 1)
    /\ window.pc # "draw" /\ ~Pending => shown = Picture(lcd)

\* A display that looks the same: the picture is made of the setup and the RAM only.
Same(l, m) == Setup(l) = Setup(m) /\ l.ram = m.ram

LEMMA SamePicture == ASSUME NEW l, NEW m, Same(l, m) PROVE Picture(l) = Picture(m)
  BY DEF Same, Picture

LEMMA advanceLooksSame == \A l \in Displays : Same(l, advanceWindowPos(l))
<1> SUFFICES ASSUME NEW l \in Displays PROVE Same(l, advanceWindowPos(l))
  OBVIOUS
<1> DEFINE col == Following(l.curCol)
           row == IF Following(l.curRow) > l.rowEnd THEN l.rowStart ELSE Following(l.curRow)
<1>1. advanceWindowPos(l) \in {[l EXCEPT !.curCol = l.colStart, !.curRow = row], [l EXCEPT !.curCol = col]}
  BY DEF advanceWindowPos
<1> HIDE DEF row, col
<1>2. QED
  BY <1>1 DEF Displays, Same, Setup

LEMMA getLCDLooksSame == ASSUME NEW l \in Displays, NEW offset PROVE Same(l, getLCD(l, offset))
<1>1. Same(l, l) /\ Same(l, [l EXCEPT !.readDummy = FALSE])
  BY DEF Displays, Same, Setup
<1>2. QED
  BY <1>1, advanceLooksSame DEF getLCD, readRAM

\* A command that does not tell the window changes nothing that is seen, except the reset.
LEMMA executeCommandTells ==
  ASSUME NEW l \in Displays, NEW cmd \in 0 .. 255, cmd # \h01, ~executeCommand(l, cmd).tell
  PROVE  Same(l, executeCommand(l, cmd).lcd)
<1> DEFINE m == [l EXCEPT !.state = "IDLE", !.currentCmd = cmd, !.params = <<>>]
<1>1. \A st : /\ Same(l, m) /\ Same(l, [m EXCEPT !.state = st])
              /\ Same(l, AtWindowStart(m, st)) /\ Same(l, [AtWindowStart(m, st) EXCEPT !.readDummy = TRUE])
  BY DEF Displays, Same, Setup, AtWindowStart
<1>2. executeCommand(l, cmd) =
        IF cmd = \h01 THEN Untold(resetLCD)
        ELSE IF cmd \in {\h20, \h21} THEN Told([m EXCEPT !.inverse = (cmd = \h21)])
        ELSE IF cmd \in {\h28, \h29} THEN Told([m EXCEPT !.displayEnable = (cmd = \h29)])
        ELSE IF cmd = \h2C THEN Untold(AtWindowStart(m, "RAM_WRITE"))
        ELSE IF cmd = \h2E THEN Untold([AtWindowStart(m, "RAM_READ") EXCEPT !.readDummy = TRUE])
        ELSE IF ParamCount(cmd) > 0 THEN Untold([m EXCEPT !.state = "PARAM"])
        ELSE Untold(m)
  BY DEF executeCommand
<1> HIDE DEF m
<1>3. \A w : Untold(w).lcd = w
  BY DEF Untold
<1>4. ASSUME cmd \in {\h20, \h21, \h28, \h29} PROVE FALSE
  <2>1. PICK w : executeCommand(l, cmd) = Told(w)
    BY <1>2, <1>4
  <2>2. executeCommand(l, cmd).tell
    BY <2>1 DEF Told
  <2>3. QED
    BY <2>2, Zenon
<1>5. executeCommand(l, cmd) \in
        {Untold(AtWindowStart(m, "RAM_WRITE")), Untold(m), Untold([m EXCEPT !.state = "PARAM"]),
         Untold([AtWindowStart(m, "RAM_READ") EXCEPT !.readDummy = TRUE])}
  BY <1>2, <1>4
<1>6. executeCommand(l, cmd).lcd \in
        {AtWindowStart(m, "RAM_WRITE"), m, [m EXCEPT !.state = "PARAM"],
         [AtWindowStart(m, "RAM_READ") EXCEPT !.readDummy = TRUE]}
  BY <1>3, <1>5
<1>7. QED
  BY <1>1, <1>6

LEMMA processParamTells ==
  ASSUME NEW l \in Displays, NEW data, l.currentCmd # \h33, ~processParam(l, data).tell
  PROVE  Same(l, processParam(l, data).lcd)
<1> DEFINE m == [l EXCEPT !.params = Append(@, data)]
           p == m.params
           done == [m EXCEPT !.state = "IDLE"]
<1>1. processParam(l, data) =
        IF Len(m.params) >= ParamCount(l.currentCmd) THEN finishCommand(m) ELSE Untold(m)
  BY DEF processParam
<1>2. m.currentCmd = l.currentCmd
  BY DEF Displays
<1>3. finishCommand(m) =
        IF m.currentCmd = \h2A THEN Untold([done EXCEPT !.colStart = Pair(p, 1), !.colEnd = Pair(p, 3)])
        ELSE IF m.currentCmd = \h2B
        THEN Untold([done EXCEPT !.rowStart = Pair(p, 1), !.rowEnd = Pair(p, 3)])
        ELSE IF m.currentCmd = \h33
        THEN Untold([done EXCEPT !.scrollAreaTop = Pair(p, 1), !.scrollAreaHeight = Pair(p, 3)])
        ELSE IF m.currentCmd = \h36
        THEN Told([done EXCEPT !.mirrorY = (p[1] >= \h80), !.mirrorX = ((p[1] \div \h40) % 2 = 1)])
        ELSE IF m.currentCmd = \h37 THEN Told([done EXCEPT !.scrollStart = Pair(p, 1)])
        ELSE IF m.currentCmd = \hC7 THEN Told([done EXCEPT !.vopOffset = p[1]])
        ELSE Untold(done)
  BY DEF finishCommand
<1>4. \A a, b : /\ Same(l, m) /\ Same(l, done)
                /\ Same(l, [done EXCEPT !.colStart = a, !.colEnd = b])
                /\ Same(l, [done EXCEPT !.rowStart = a, !.rowEnd = b])
  BY DEF Displays, Same, Setup
<1> HIDE DEF m, p, done
<1>5. ASSUME NEW w, processParam(l, data) = Told(w) PROVE FALSE
  <2>1. processParam(l, data).tell
    BY <1>5 DEF Told
  <2>2. QED
    BY <2>1, Zenon
<1>6. processParam(l, data) \in
        {Untold([done EXCEPT !.colStart = Pair(p, 1), !.colEnd = Pair(p, 3)]),
         Untold([done EXCEPT !.rowStart = Pair(p, 1), !.rowEnd = Pair(p, 3)]), Untold(done), Untold(m)}
  BY <1>1, <1>2, <1>3, <1>5
<1>7. PICK w : processParam(l, data) = Untold(w) /\ Same(l, w)
  BY <1>4, <1>6
<1>8. QED
  BY <1>7 DEF Untold

LEMMA writeRAMTells ==
  ASSUME NEW l \in Displays, NEW data, ~writeRAM(l, data).tell
  PROVE  Same(l, writeRAM(l, data).lcd)
<1>1. writeRAM(l, data).lcd = advanceWindowPos(l)
  BY DEF writeRAM
<1>2. QED
  BY <1>1, advanceLooksSame

LEMMA setLCDTells ==
  ASSUME NEW l \in Displays, NEW offset, NEW data \in 0 .. 255, ~setLCD(l, offset, data).tell
  PROVE  \/ offset = 0 /\ data = \h01
         \/ offset = 1 /\ l.state = "PARAM" /\ l.currentCmd = \h33
         \/ Same(l, setLCD(l, offset, data).lcd)
<1>1. Same(l, Untold(l).lcd)
  BY DEF Same, Untold
<1>2. QED
  BY <1>1, executeCommandTells, processParamTells, writeRAMTells DEF setLCD

\* A step that touches nothing of the display, the screen and the window.
LEMMA StaysFresh ==
  ASSUME Fresh, window' = window, shown' = shown, lcd' = lcd, dirty' <=> dirty,
         past'.untold <=> past.untold, cpu.pc # "tell"
  PROVE  Fresh'
<1>1. ~Pending' => ~Pending
  BY DEF Pending
<1>2. QED
  BY <1>1 DEF Fresh

LEMMA StoreLCDFresh == TypeOK /\ Fresh /\ StoreLCD => Fresh'
<1> SUFFICES ASSUME TypeOK, Fresh, StoreLCD PROVE Fresh'
  OBVIOUS
<1> DEFINE r == setLCD(lcd, Op.ea - \h600, Op.data)
<1>1. Op.data \in 0 .. 255 /\ Op.ea \in Nat
  BY OpType DEF StoreLCD, Accesses, TypeOK
<1>2. lcd \in Displays /\ past \in Pasts /\ cpu \in Cpus
  BY DEF TypeOK, LcdOK, PastOK, CpuOK
<1>3. lcd' = r.lcd
  BY DEF StoreLCD
<1>4. cpu.pc = "access" /\ (cpu'.pc # "tell" => ~r.tell)
  BY <1>2 DEF StoreLCD, Accesses, Cpus
<1>5. past'.untold <=> past.untold \/ (Untells(Op) /\ Alters(r.lcd))
  <2> DEFINE untold == past.untold \/ (Untells(Op) /\ Alters(r.lcd))
  <2>1. past' = [past EXCEPT !.untold = untold]
    BY DEF StoreLCD
  <2>2. untold \in BOOLEAN
    OBVIOUS
  <2> HIDE DEF untold
  <2>3. past'.untold <=> untold
    BY <1>2, <2>1, <2>2 DEF Pasts
  <2>4. QED
    BY <2>3, Zenon DEF untold
<1>6. window' = window /\ shown' = shown /\ (dirty' <=> dirty)
  BY DEF StoreLCD
<1>7. CASE Pending'
  BY <1>6, <1>7 DEF Fresh
<1>8. CASE ~Pending'
  <2>1. ~Pending /\ ~r.tell /\ ~(Untells(Op) /\ Alters(r.lcd))
    BY <1>4, <1>5, <1>6, <1>8 DEF Pending
  <2>2. \/ Op.ea - \h600 = 0 /\ Op.data = \h01
        \/ Op.ea - \h600 = 1 /\ lcd.state = "PARAM" /\ lcd.currentCmd = \h33
        \/ Same(lcd, r.lcd)
    <3> DEFINE offset == Op.ea - \h600
               data == Op.data
    <3>1. data \in 0 .. 255 /\ lcd \in Displays /\ ~setLCD(lcd, offset, data).tell
      BY <1>1, <1>2, <2>1
    <3> HIDE DEF offset, data
    <3>2. \/ offset = 0 /\ data = \h01
          \/ offset = 1 /\ lcd.state = "PARAM" /\ lcd.currentCmd = \h33
          \/ Same(lcd, setLCD(lcd, offset, data).lcd)
      BY <3>1, setLCDTells
    <3>3. QED
      BY <3>2 DEF offset, data
  <2>3. Untells(Op) \/ Same(lcd, r.lcd)
    BY <1>1, <2>2 DEF Untells
  <2> HIDE DEF r
  <2>4. CASE window.pc = "draw"
    <3>1. Same(lcd, r.lcd)
      BY <2>1, <2>3, <2>4 DEF Alters, Same
    <3>2. QED
      BY <1>3, <1>6, <2>1, <2>4, <3>1 DEF Fresh, Same
  <2>5. CASE window.pc # "draw"
    <3>1. Picture(lcd) = Picture(r.lcd)
      BY <2>1, <2>3, <2>5, SamePicture DEF Alters
    <3>2. QED
      BY <1>3, <1>6, <2>1, <2>5, <3>1 DEF Fresh
  <2>6. QED
    BY <2>4, <2>5
<1>9. QED
  BY <1>7, <1>8

LEMMA LoadLCDFresh == TypeOK /\ Fresh /\ LoadLCD => Fresh'
<1> SUFFICES ASSUME TypeOK, Fresh, LoadLCD PROVE Fresh'
  OBVIOUS
<1>1. Same(lcd, lcd')
  BY getLCDLooksSame DEF LoadLCD, TypeOK, LcdOK
<1>2. Picture(lcd) = Picture(lcd')
  BY <1>1, SamePicture
<1>3. window' = window /\ shown' = shown /\ (dirty' <=> dirty) /\ past' = past /\ cpu.pc = "access"
  BY DEF LoadLCD, Accesses
<1>4. ~Pending' => ~Pending
  BY <1>3 DEF Pending
<1>5. QED
  BY <1>1, <1>2, <1>3, <1>4 DEF Fresh, Same

\* A row is drawn: of the display as it is, if nothing is pending.
LEMMA DrawRowFresh == TypeOK /\ Fresh /\ DrawRow => Fresh'
<1> SUFFICES ASSUME TypeOK, Fresh, DrawRow PROVE Fresh'
  OBVIOUS
<1> DEFINE n == Len(window.frame)
           row == DrawnRow(window.setup, lcd.ram, n)
<1>1. window.frame \in Seq(Pixels) /\ n \in Nat /\ row \in Pixels
  <2>1. window.setup \in Setups /\ window.frame \in Seq(Pixels)
    BY DEF TypeOK, WindowOK, Windows
  <2>2. QED
    BY <2>1, DrawnRowType, LenProperties
<1>2. /\ Len(Drawn) = n + 1 /\ Drawn[n + 1] = row
      /\ \A k \in 1 .. n : Drawn[k] = window.frame[k]
  BY <1>1, AppendProperties DEF Drawn
<1>3. lcd' = lcd /\ window.pc = "draw" /\ window'.needsDisplay = window.needsDisplay
  BY DEF DrawRow, ShowRow, TypeOK, WindowOK, Windows
<1>4. (dirty' <=> dirty) /\ past' = past /\ cpu' = cpu
  BY DEF DrawRow, ShowRow
<1>5. Pending' <=> Pending
  BY <1>3, <1>4 DEF Pending
<1>6. n < Height /\ n + 1 <= Height
  BY <1>1, <1>3, PanelAssumption DEF Fresh
<1>7. ASSUME ~Pending PROVE \A k \in 1 .. n + 1 : Drawn[k] = DrawnRow(Setup(lcd), lcd.ram, k - 1)
  <2>1. window.setup = Setup(lcd) /\ \A k \in 1 .. n : window.frame[k] = DrawnRow(Setup(lcd), lcd.ram, k - 1)
    BY <1>3, <1>7 DEF Fresh
  <2>2. row = DrawnRow(Setup(lcd), lcd.ram, (n + 1) - 1)
    BY <1>1, <2>1
  <2>3. ASSUME NEW k \in 1 .. n + 1 PROVE k = n + 1 \/ k \in 1 .. n
    BY <1>1
  <2> HIDE DEF n, row
  <2>4. QED
    BY <1>2, <2>1, <2>2, <2>3
<1>8. CASE Complete
  <2>1. window'.pc = "idle" /\ shown' = [k \in Rows |-> Drawn[k + 1]]
    BY <1>8 DEF DrawRow, ShowRow, TypeOK, WindowOK, Windows
  <2>2. ASSUME ~Pending PROVE shown' = Picture(lcd)
    <3>1. \A k \in Rows : k + 1 \in 1 .. n + 1 /\ (k + 1) - 1 = k
      BY <1>1, <1>2, <1>8, PanelAssumption DEF Complete, Rows
    <3> HIDE DEF n
    <3>2. \A k \in Rows : Drawn[k + 1] = DrawnRow(Setup(lcd), lcd.ram, k)
      BY <1>7, <2>2, <3>1
    <3>3. QED
      BY <2>1, <3>2 DEF Picture
  <2>3. QED
    BY <1>3, <1>5, <2>1, <2>2 DEF Fresh
<1>9. CASE ~Complete
  <2>1. window'.frame = Drawn /\ window'.setup = window.setup /\ window'.pc = "draw"
    BY <1>3, <1>9 DEF DrawRow, ShowRow, TypeOK, WindowOK, Windows
  <2>2. Len(Drawn) < Height
    BY <1>1, <1>2, <1>6, <1>9, PanelAssumption DEF Complete
  <2>3. ~Pending => window.setup = Setup(lcd)
    BY <1>3 DEF Fresh
  <2> HIDE DEF n
  <2>4. QED
    BY <1>2, <1>3, <1>5, <1>7, <2>1, <2>2, <2>3 DEF Fresh
<1>10. QED
  BY <1>8, <1>9

LEMMA NextFresh == TypeOK /\ Fresh /\ [Next]_vars => Fresh'
<1> SUFFICES ASSUME TypeOK, Fresh, [Next]_vars PROVE Fresh'
  OBVIOUS
<1>1. CASE UNCHANGED vars
  BY <1>1 DEF vars, Fresh, Pending
<1>2. CASE Window
  <2>1. CASE (\E event \in session.events : Type(event)) \/ LookForRoom \/ PutChar \/ Publish
    <3>1. window.pc # "draw" /\ window'.pc # "draw" /\ window'.needsDisplay = window.needsDisplay
      <4>0. window \in Windows
        BY DEF TypeOK, WindowOK, Windows
      <4>1. CASE (\E event \in session.events : Type(event)) \/ LookForRoom
        <5>1. window.pc # "draw"
          BY <4>1 DEF Type, LookForRoom
        <5>2. CASE \E event \in session.events : Type(event)
          BY <4>0, <5>1, <5>2 DEF Type, Windows
        <5>3. CASE LookForRoom
          BY <4>0, <5>1, <5>3 DEF LookForRoom, Windows
        <5>4. QED
          BY <4>1, <5>2, <5>3
      <4>2. CASE PutChar
        BY <4>0, <4>2 DEF PutChar, Windows
      <4>3. CASE Publish
        <5>1. window.pc = "publish" /\ window' = [window EXCEPT !.pc = "idle"]
          BY <4>3 DEF Publish
        <5>2. QED
          BY <4>0, <5>1 DEF Windows
      <4>4. QED
        BY <2>1, <4>1, <4>2, <4>3
    <3>2. lcd' = lcd /\ shown' = shown /\ dirty' = dirty /\ past'.untold = past.untold /\ cpu' = cpu
      <4>0. past \in Pasts
        BY DEF TypeOK, PastOK
      <4>1. CASE (\E event \in session.events : Type(event)) \/ LookForRoom \/ PutChar
        BY <4>1 DEF Type, LookForRoom, PutChar
      <4>2. CASE Publish
        BY <4>0, <4>2 DEF Publish, Pasts
      <4>3. QED
        BY <2>1, <4>1, <4>2
    <3>3. ~Pending' => ~Pending
      BY <3>1, <3>2 DEF Pending
    <3>4. QED
      BY <3>1, <3>2, <3>3 DEF Fresh
  <2>2. CASE Refresh
    <3>1. Pending' /\ window'.pc # "draw"
      BY <2>2 DEF Refresh, Pending, TypeOK, WindowOK, Windows
    <3>2. QED
      BY <3>1 DEF Fresh
  <2>3. CASE StartDrawing
    <3>1. window'.setup = Setup(lcd) /\ window'.frame = <<>> /\ lcd' = lcd /\ window'.pc = "draw"
      BY <2>3 DEF StartDrawing, TypeOK, WindowOK, Windows
    <3>2. Len(<<>>) = 0 /\ 0 < Height
      BY PanelAssumption
    <3>3. QED
      BY <3>1, <3>2 DEF Fresh
  <2>4. CASE DrawRow
    BY <2>4, DrawRowFresh
  <2>5. CASE TypeByte
    <3>1. past'.untold = past.untold
      BY <2>5 DEF TypeByte, TypeOK, PastOK, Pasts
    <3>2. window' = window /\ lcd' = lcd /\ shown' = shown /\ dirty' = dirty /\ cpu' = cpu
      BY <2>5 DEF TypeByte
    <3>3. QED
      BY <3>1, <3>2 DEF Fresh, Pending
  <2>6. QED
    BY <1>2, <2>1, <2>2, <2>3, <2>4, <2>5 DEF Window
<1>3. CASE TellWindow
  <2>1. dirty' /\ window' = window
    BY <1>3 DEF TellWindow
  <2>2. QED
    BY <2>1 DEF Fresh, Pending
<1>4. CASE StoreLCD \/ LoadLCD
  BY <1>4, StoreLCDFresh, LoadLCDFresh
<1>5. ASSUME window' = window, shown' = shown, lcd' = lcd, dirty' = dirty,
             past'.untold = past.untold, cpu.pc # "tell"
      PROVE  Fresh'
  BY <1>5, StaysFresh
<1>6. past \in Pasts
  BY DEF TypeOK, PastOK
<1>7. CASE (\E piece \in session.programs : Begin(piece)) \/ Idle \/ StoreBSR \/ LoadVIA \/ Elsewhere
           \/ PollTake
  BY <1>5, <1>7 DEF Begin, Idle, StoreBSR, LoadVIA, Elsewhere, PollTake, Accesses
<1>8. CASE StorePort
  BY <1>5, <1>6, <1>8 DEF StorePort, Accesses, Pasts
<1>9. CASE LoadPort
  BY <1>5, <1>6, <1>9 DEF LoadPort, Accesses, Pasts
<1>10. CASE StoreFlash
  BY <1>5, <1>6, <1>10 DEF StoreFlash, Accesses, Pasts
<1>11. CASE StoreVIA
  BY <1>5, <1>6, <1>11 DEF StoreVIA, Accesses, Pasts
<1>12. CASE LoadSerial
  BY <1>5, <1>6, <1>12 DEF LoadSerial, Accesses, Pasts
<1>13. CASE StoreSerial
  BY <1>5, <1>6, <1>13 DEF StoreSerial, Accesses, Pasts
<1>14. CASE PollNothing \/ PollPress
  <2>1. PICK k, scanned : End(k, scanned)
    BY <1>14 DEF PollNothing, PollPress
  <2>2. past'.untold = past.untold
    BY <1>6, <2>1 DEF End, Pasts
  <2>3. QED
    BY <1>5, <1>14, <2>1, <2>2 DEF End, PollNothing, PollPress
<1>15. QED
  BY <1>1, <1>2, <1>3, <1>4, <1>7, <1>8, <1>9, <1>10, <1>11, <1>12, <1>13, <1>14 DEF Next, Processor

\* When the window has nothing left to do, the screen shows the display as it is,
\* however the drawing and the stores fell, unless the last change was a reset or a
\* scroll area, which are not told (dirty, refresh, drawRect).
THEOREM ScreenStaysFresh == Spec => []ScreenIsFresh
<1>1. Init => Fresh
  BY DEF Init, Fresh, Pending
<1>2. Fresh => ScreenIsFresh
  BY DEF Fresh, Pending, ScreenIsFresh
<1>3. QED
  BY <1>1, <1>2, TypesStay, NextFresh, PTL DEF Spec
-----------------------------------------------------------------------------
(* The flash.                                                              *)

Unlock1 == <<\h5555, \hAA>>
Unlock2 == <<\h2AAA, \h55>>
ByteNext == <<\h5555, \hA0>>
EraseNext == <<\h5555, \h80>>

LEMMA UnlockSteps ==
  /\ Len(UnlockByte) = 3 /\ UnlockByte[1] = Unlock1 /\ UnlockByte[2] = Unlock2 /\ UnlockByte[3] = ByteNext
  /\ Len(UnlockErase) = 5 /\ UnlockErase[1] = Unlock1 /\ UnlockErase[2] = Unlock2
  /\ UnlockErase[3] = EraseNext /\ UnlockErase[4] = Unlock1 /\ UnlockErase[5] = Unlock2
  BY DEF UnlockByte, UnlockErase, Unlock1, Unlock2, ByteNext, EraseNext

LEMMA StepsDiffer ==
  /\ Unlock1 # Unlock2 /\ Unlock1 # ByteNext /\ Unlock1 # EraseNext
  /\ Unlock2 # ByteNext /\ Unlock2 # EraseNext /\ ByteNext # EraseNext
<1>1. \A a, b, c, d : <<a, b>> = <<c, d>> => a = c /\ b = d
  OBVIOUS
<1>2. QED
  BY <1>1 DEF Unlock1, Unlock2, ByteNext, EraseNext

\* s agrees with the first writes of t.
StartsLike(s, t) == Len(s) <= Len(t) /\ \A i \in 1 .. Len(s) : s[i] = t[i]

LEMMA UnlockSequences == UnlockByte \in Seq(FlashWrites) /\ UnlockErase \in Seq(FlashWrites)
<1>1. Unlock1 \in FlashWrites /\ Unlock2 \in FlashWrites /\ ByteNext \in FlashWrites /\ EraseNext \in FlashWrites
  BY DEF Unlock1, Unlock2, ByteNext, EraseNext, FlashWrites
<1>2. UnlockByte = <<Unlock1, Unlock2, ByteNext>> /\ UnlockErase = <<Unlock1, Unlock2, EraseNext, Unlock1, Unlock2>>
  BY DEF UnlockByte, UnlockErase, Unlock1, Unlock2, ByteNext, EraseNext
<1>3. QED
  BY <1>1, <1>2

LEMMA PrefixIsStart ==
  ASSUME NEW S, NEW s \in Seq(S), NEW t \in Seq(S)
  PROVE  IsPrefix(s, t) <=> StartsLike(s, t)
<1>1. Len(s) \in Nat /\ Len(t) \in Nat
  BY LenProperties
<1>2. CASE ~(Len(s) <= Len(t))
  BY <1>2 DEF IsPrefix, StartsLike
<1>3. CASE Len(s) <= Len(t)
  <2> DEFINE n == Len(s)
             a == SubSeq(s, 1, n)
             b == SubSeq(t, 1, n)
  <2>1. (\A i \in 1 .. n : s[i] \in S) /\ (\A i \in 1 .. n : t[i] \in S)
    BY <1>1, <1>3, ElementOfSeq
  <2>2. n \in Nat /\ 1 \in Int /\ n \in Int
    BY <1>1
  <2> HIDE DEF n
  <2>3. a \in Seq(S) /\ Len(a) = n /\ \A i \in 1 .. n : a[i] = s[i]
    BY <2>1, <2>2, SubSeqProperties
  <2>4. b \in Seq(S) /\ Len(b) = n /\ \A i \in 1 .. n : b[i] = t[i]
    BY <2>1, <2>2, SubSeqProperties
  <2> HIDE DEF a, b
  <2>5. a = b <=> \A i \in 1 .. n : s[i] = t[i]
    <3>1. ASSUME \A i \in 1 .. n : s[i] = t[i] PROVE a = b
      BY <2>3, <2>4, <3>1, SeqEqual
    <3>2. ASSUME a = b PROVE \A i \in 1 .. n : s[i] = t[i]
      BY <2>3, <2>4, <3>2
    <3>3. QED
      BY <3>1, <3>2
  <2>6. QED
    BY <1>3, <2>5 DEF IsPrefix, StartsLike, n, a, b
<1>4. QED
  BY <1>2, <1>3

LEMMA BeginsIsStart ==
  ASSUME NEW s \in Seq(FlashWrites)
  PROVE  Begins(s) <=> StartsLike(s, UnlockByte) \/ StartsLike(s, UnlockErase)
  BY UnlockSequences, PrefixIsStart DEF Begins

\* How far a chip has been unlocked, its recent writes say too.
Steps(state, r) ==
    /\ Begins(r)
    /\ state = "CYCLE1" => Len(r) \in {1, 4}
    /\ state = "CYCLE2" => Len(r) \in {2, 5}
    /\ state = "BYTE_PROGRAM" => Len(r) = 3 /\ r[3] = ByteNext
    /\ state = "ERASE_SETUP" => Len(r) = 3 /\ r[3] = EraseNext
    /\ state = "ERASE_1" => Len(r) = 4
    /\ state = "ERASE_2" => Len(r) = 5

Unlocking == \A c \in Chips : Steps(flash[c].state, past.recent[c])

\* All the writes: the recent ones and the new one.
LEMMA AllWrites ==
  ASSUME NEW r \in Seq(FlashWrites), NEW addr, NEW val, <<addr, val>> \in FlashWrites
  PROVE  /\ AllOf(r, addr, val) \in Seq(FlashWrites) /\ Len(r) \in Nat
         /\ Len(AllOf(r, addr, val)) = Len(r) + 1
         /\ AllOf(r, addr, val)[Len(r) + 1] = <<addr, val>>
         /\ \A i \in 1 .. Len(r) : AllOf(r, addr, val)[i] = r[i]
  BY AppendProperties, LenProperties DEF AllOf

\* The tail of the writes from one of them on.
LEMMA TailOfWrites ==
  ASSUME NEW all \in Seq(FlashWrites), NEW k \in 1 .. Len(all) + 1
  PROVE  /\ SubSeq(all, k, Len(all)) \in Seq(FlashWrites)
         /\ Len(SubSeq(all, k, Len(all))) = Len(all) + 1 - k
         /\ \A i \in 1 .. Len(all) + 1 - k : SubSeq(all, k, Len(all))[i] = all[k + i - 1]
<1> DEFINE n == Len(all)
<1>0. n \in Nat /\ \A i \in 1 .. n : all[i] \in FlashWrites
  BY ElementOfSeq, LenProperties
<1>4. k \in 1 .. n + 1
  OBVIOUS
<1> HIDE DEF n
<1>1. (\A i \in k .. n : all[i] \in FlashWrites) /\ k \in Int /\ n \in Int
  BY <1>0, <1>4
<1>2. /\ SubSeq(all, k, n) \in Seq(FlashWrites) /\ Len(SubSeq(all, k, n)) = (IF k <= n THEN n - k + 1 ELSE 0)
      /\ \A i \in 1 .. n - k + 1 : SubSeq(all, k, n)[i] = all[k + i - 1]
  BY <1>1, SubSeqProperties
<1>3. (IF k <= n THEN n - k + 1 ELSE 0) = n + 1 - k /\ n - k + 1 = n + 1 - k
  BY <1>0, <1>4
<1>5. QED
  BY <1>2, <1>3 DEF n

\* The tail that is recent: it begins an unlocking and ends with the new write, and
\* no longer tail begins one.
LEMMA RecentReaches ==
  ASSUME NEW r \in Seq(FlashWrites), NEW addr, NEW val, <<addr, val>> \in FlashWrites
  PROVE  /\ Recent(r, addr, val) \in Seq(FlashWrites) /\ Begins(Recent(r, addr, val))
         /\ Len(Recent(r, addr, val)) \in 0 .. Len(r) + 1
         /\ Len(Recent(r, addr, val)) > 0 => Recent(r, addr, val)[Len(Recent(r, addr, val))] = <<addr, val>>
         /\ \A j \in 1 .. Len(r) + 2 :
                Begins(SubSeq(AllOf(r, addr, val), j, Len(AllOf(r, addr, val))))
                    => Len(Recent(r, addr, val)) >= Len(r) + 2 - j
<1> DEFINE all == AllOf(r, addr, val)
           q == Recent(r, addr, val)
           n == Len(all)
<1>1. all \in Seq(FlashWrites) /\ Len(r) \in Nat /\ n = Len(r) + 1 /\ all[n] = <<addr, val>>
  BY AllWrites
<1>2. PICK k \in 1 .. Len(all) + 1 : IsRecentTail(all, k, q)
  BY RecentIsTail
<1> HIDE DEF q, all
<1>3. /\ q = SubSeq(all, k, n) /\ Begins(SubSeq(all, k, n))
      /\ \A j \in 1 .. n + 1 : Begins(SubSeq(all, j, n)) => k <= j
  BY <1>2 DEF IsRecentTail
<1>4. q \in Seq(FlashWrites) /\ Len(q) = n + 1 - k /\ \A i \in 1 .. n + 1 - k : q[i] = all[k + i - 1]
  BY <1>1, <1>3, TailOfWrites
<1>9. k \in 1 .. n + 1 /\ n \in Nat
  BY <1>1
<1> HIDE DEF n
<1>5. Len(q) \in 0 .. n
  BY <1>4, <1>9
<1>6. ASSUME Len(q) > 0 PROVE q[Len(q)] = <<addr, val>>
  <2>1. Len(q) \in 1 .. n + 1 - k /\ k + Len(q) - 1 = n
    BY <1>4, <1>6, <1>9
  <2>2. q[Len(q)] = all[k + Len(q) - 1]
    BY <1>4, <2>1
  <2>3. QED
    BY <1>1, <2>1, <2>2
<1>7. ASSUME NEW j \in 1 .. n + 1, Begins(SubSeq(all, j, n)) PROVE Len(q) >= n + 1 - j
  <2>1. k <= j
    BY <1>3, <1>7, Zenon
  <2>2. QED
    BY <1>4, <1>9, <2>1
<1>8. Begins(q)
  BY <1>3, Zenon
<1>10. n + 1 = Len(r) + 2 /\ n \in Nat /\ Len(r) \in Nat
  BY <1>1
<1>11. \A j \in 1 .. Len(r) + 2 : Begins(SubSeq(all, j, n)) => Len(q) >= Len(r) + 2 - j
  <2>1. ASSUME NEW j \in 1 .. Len(r) + 2, Begins(SubSeq(all, j, n)) PROVE Len(q) >= Len(r) + 2 - j
    <3>1. j \in 1 .. n + 1
      BY <1>10
    <3>2. Len(q) >= n + 1 - j
      BY <1>7, <2>1, <3>1
    <3>3. n + 1 - j = Len(r) + 2 - j
      BY <1>10
    <3>4. QED
      BY <3>2, <3>3
  <2>2. QED
    BY <2>1
<1>12. Len(q) \in 0 .. Len(r) + 1
  BY <1>1, <1>5
<1>13. QED
  BY <1>4, <1>6, <1>8, <1>11, <1>12 DEF q, all, n

\* The recent writes reach back at least to where a tail begins an unlocking.
LEMMA RecentAtLeast ==
  ASSUME NEW r \in Seq(FlashWrites), NEW addr, NEW val, <<addr, val>> \in FlashWrites,
         NEW j \in 1 .. Len(r) + 2, NEW t \in {UnlockByte, UnlockErase}, Len(r) + 2 - j <= Len(t),
         \A i \in 1 .. Len(r) + 2 - j : AllOf(r, addr, val)[j + i - 1] = t[i]
  PROVE  Len(Recent(r, addr, val)) >= Len(r) + 2 - j
<1> DEFINE all == AllOf(r, addr, val)
           n == Len(all)
           tail == SubSeq(all, j, n)
<1>1. all \in Seq(FlashWrites) /\ Len(r) \in Nat /\ n = Len(r) + 1
  BY AllWrites
<1>2. \A i \in 1 .. Len(r) + 2 - j : all[j + i - 1] = t[i]
  OBVIOUS
<1>3. Begins(tail) => Len(Recent(r, addr, val)) >= Len(r) + 2 - j
  BY RecentReaches
<1> HIDE DEF all
<1>4. j \in 1 .. Len(all) + 1 /\ Len(all) + 1 - j = Len(r) + 2 - j
  BY <1>1
<1>5. tail \in Seq(FlashWrites) /\ Len(tail) = Len(r) + 2 - j /\ \A i \in 1 .. Len(tail) : tail[i] = all[j + i - 1]
  BY <1>1, <1>4, TailOfWrites
<1> HIDE DEF tail
<1>6. StartsLike(tail, t)
  BY <1>2, <1>5 DEF StartsLike
<1>7. Begins(tail)
  BY <1>5, <1>6, BeginsIsStart
<1>8. QED
  BY <1>3, <1>7

\* How long a beginning is that ends with a step of an unlocking.
LEMMA LengthOfBeginning ==
  ASSUME NEW q \in Seq(FlashWrites), Begins(q), Len(q) > 0
  PROVE  /\ Len(q) \in 1 .. 5
         /\ q[Len(q)] = Unlock1 => Len(q) \in {1, 4}
         /\ q[Len(q)] \in {ByteNext, EraseNext} => Len(q) = 3
<1>1. (StartsLike(q, UnlockByte) \/ StartsLike(q, UnlockErase)) /\ Len(q) \in Nat
  BY BeginsIsStart, LenProperties
<1> DEFINE n == Len(q)
<1>0. n > 0 /\ n \in Nat
  BY <1>1
<1>2. CASE StartsLike(q, UnlockByte)
  <2>1. n <= 3 /\ \A i \in 1 .. n : q[i] = UnlockByte[i]
    BY <1>2, UnlockSteps DEF StartsLike
  <2> HIDE DEF n
  <2>2. n \in {1, 2, 3} /\ q[n] = UnlockByte[n]
    BY <1>0, <2>1
  <2>3. /\ n \in 1 .. 5 /\ q[n] = Unlock1 => n \in {1, 4}
        /\ q[n] \in {ByteNext, EraseNext} => n = 3
    BY <2>2, UnlockSteps, StepsDiffer
  <2>4. QED
    BY <2>2, <2>3 DEF n
<1>3. CASE StartsLike(q, UnlockErase)
  <2>1. n <= 5 /\ \A i \in 1 .. n : q[i] = UnlockErase[i]
    BY <1>3, UnlockSteps DEF StartsLike
  <2> HIDE DEF n
  <2>2. n \in {1, 2, 3, 4, 5} /\ q[n] = UnlockErase[n]
    BY <1>0, <2>1
  <2>3. /\ n \in 1 .. 5 /\ q[n] = Unlock1 => n \in {1, 4}
        /\ q[n] \in {ByteNext, EraseNext} => n = 3
    BY <2>2, UnlockSteps, StepsDiffer
  <2>4. QED
    BY <2>2, <2>3 DEF n
<1>4. QED
  BY <1>1, <1>2, <1>3

LEMMA RecentSteps ==
  ASSUME NEW r \in Seq(FlashWrites), NEW addr \in Nat, NEW val \in Nat, NEW state, Steps(state, r)
  PROVE  Steps(NextState(state, addr, val), Recent(r, addr, val))
<1> DEFINE w == <<addr, val>>
           all == AllOf(r, addr, val)
           q == Recent(r, addr, val)
           n == Len(r) + 1
           next == NextState(state, addr, val)
<1>1. <<addr, val>> \in FlashWrites
  BY WriteType
<1>2. w = <<addr, val>> /\ next = NextState(state, addr, val) /\ n = Len(r) + 1
  OBVIOUS
<1>3. Len(r) \in Nat /\ all[n] = w /\ \A i \in 1 .. Len(r) : all[i] = r[i]
  BY <1>1, AllWrites
<1>4. /\ q \in Seq(FlashWrites) /\ Begins(q) /\ Len(q) \in 0 .. n
      /\ Len(q) > 0 => q[Len(q)] = w
  BY <1>1, RecentReaches
<1>6. ASSUME NEW j \in 1 .. n + 1, NEW t \in {UnlockByte, UnlockErase}, n + 1 - j <= Len(t),
             \A i \in 1 .. n + 1 - j : all[j + i - 1] = t[i]
      PROVE  Len(q) >= n + 1 - j
  <2>1. n + 1 = Len(r) + 2
    BY <1>3
  <2>2. /\ j \in 1 .. Len(r) + 2 /\ Len(r) + 2 - j <= Len(t)
        /\ \A i \in 1 .. Len(r) + 2 - j : AllOf(r, addr, val)[j + i - 1] = t[i]
    BY <1>6, <2>1
  <2>3. Len(Recent(r, addr, val)) >= Len(r) + 2 - j
    BY <1>1, <2>2, RecentAtLeast
  <2>4. QED
    BY <2>1, <2>3
<1> HIDE DEF w, all, q, n, next
<1>5. (StartsLike(r, UnlockByte) \/ StartsLike(r, UnlockErase)) /\ n \in Nat /\ n = Len(r) + 1
  BY <1>2, <1>3, BeginsIsStart DEF Steps
<1>7. /\ next = "CYCLE1" => w = Unlock1
      /\ next = "CYCLE2" => w = Unlock2 /\ state = "CYCLE1"
      /\ next = "BYTE_PROGRAM" => w = ByteNext /\ state = "CYCLE2"
      /\ next = "ERASE_SETUP" => w = EraseNext /\ state = "CYCLE2"
      /\ next = "ERASE_1" => w = Unlock1 /\ state = "ERASE_SETUP"
      /\ next = "ERASE_2" => w = Unlock2 /\ state = "ERASE_1"
  BY <1>2 DEF NextState, Command, Unlock1, Unlock2, ByteNext, EraseNext
<1>8. ASSUME next = "CYCLE1" PROVE Len(q) \in {1, 4}
  <2>1. n \in 1 .. n + 1 /\ n + 1 - n = 1 /\ 1 <= Len(UnlockByte) /\ UnlockByte[1] = w
    BY <1>3, <1>5, <1>7, <1>8, UnlockSteps
  <2>2. \A i \in 1 .. n + 1 - n : i = 1 /\ n + i - 1 = n
    BY <1>3, <1>5
  <2>6. all[n] = UnlockByte[1]
    BY <1>3, <1>5, <2>1
  <2>7. \A i \in 1 .. n + 1 - n : all[n + i - 1] = UnlockByte[i]
    BY <2>2, <2>6
  <2>3. Len(q) >= n + 1 - n
    BY <1>6, <2>1, <2>7
  <2>4. Len(q) > 0
    BY <1>3, <1>5, <1>4, <2>3
  <2>5. QED
    BY <1>4, <1>7, <1>8, <2>4, LengthOfBeginning
<1>9. ASSUME NEW t \in {UnlockByte, UnlockErase}, n <= Len(t), \A i \in 1 .. n : all[i] = t[i]
      PROVE  Len(q) = n
  <2>1. 1 \in 1 .. n + 1 /\ n + 1 - 1 = n
    BY <1>3, <1>5
  <2>2. \A i \in 1 .. n : 1 + i - 1 = i
    OBVIOUS
  <2>3. Len(q) >= n
    BY <1>6, <1>9, <2>1, <2>2
  <2>4. QED
    BY <1>3, <1>5, <1>4, <2>3
<1>10. ASSUME NEW t \in {UnlockByte, UnlockErase}, n <= Len(t), t[n] = w, \A i \in 1 .. Len(r) : r[i] = t[i]
       PROVE  Len(q) = n
  <2>1. \A i \in 1 .. n : i = n \/ i \in 1 .. Len(r)
    BY <1>3, <1>5
  <2>2. \A i \in 1 .. n : all[i] = t[i]
    BY <1>3, <1>5, <1>10, <2>1
  <2>3. QED
    BY <1>9, <1>10, <2>2
<1>11. ASSUME next = "CYCLE2" PROVE Len(q) \in {2, 5}
  <2>1. w = Unlock2 /\ Len(r) \in {1, 4}
    BY <1>7, <1>11 DEF Steps
  <2>2. CASE Len(r) = 1
    <3>1. n = 2 /\ UnlockByte[n] = w /\ n <= Len(UnlockByte)
      BY <1>3, <1>5, <2>1, <2>2, UnlockSteps
    <3>2. \A i \in 1 .. Len(r) : r[i] = UnlockByte[i]
      BY <1>5, <2>2, UnlockSteps DEF StartsLike
    <3>3. QED
      BY <1>10, <3>1, <3>2
  <2>3. CASE Len(r) = 4
    <3>1. n = 5 /\ UnlockErase[n] = w /\ n <= Len(UnlockErase)
      BY <1>3, <1>5, <2>1, <2>3, UnlockSteps
    <3>2. \A i \in 1 .. Len(r) : r[i] = UnlockErase[i]
      BY <1>5, <2>3, UnlockSteps DEF StartsLike
    <3>3. QED
      BY <1>10, <3>1, <3>2
  <2>4. QED
    BY <2>1, <2>2, <2>3
<1>12. ASSUME NEW t \in {UnlockByte, UnlockErase}, state = "CYCLE2", w = t[3], w \in {ByteNext, EraseNext}
       PROVE  Len(q) = 3 /\ q[3] = w
  <2>8. Len(r) \in {2, 5}
    BY <1>12 DEF Steps
  <2>0. Len(r) \in {2, 5} /\ n \in {3, 6}
    <3>1. Len(r) = 2 => n = 3
      BY <1>5
    <3>2. Len(r) = 5 => n = 6
      BY <1>5
    <3>3. QED
      BY <2>8, <3>1, <3>2
  <2>1. Len(r) \in {2, 5} /\ n - 2 \in 1 .. n + 1 /\ n + 1 - (n - 2) = 3
    BY <2>0
  <2>2. r[Len(r) - 1] = Unlock1 /\ r[Len(r)] = Unlock2
    <3>1. CASE Len(r) = 2
      BY <1>5, <3>1, UnlockSteps DEF StartsLike
    <3>2. CASE Len(r) = 5
      BY <1>5, <3>2, UnlockSteps DEF StartsLike
    <3>3. QED
      BY <2>1, <3>1, <3>2
  <2>3. all[n - 2] = t[1] /\ all[n - 1] = t[2] /\ all[n] = t[3] /\ 3 <= Len(t)
    <3>1. n - 2 \in 1 .. Len(r) /\ n - 1 \in 1 .. Len(r) /\ n - 2 = Len(r) - 1 /\ n - 1 = Len(r)
      BY <1>3, <1>5, <2>1
    <3>2. QED
      BY <1>3, <1>5, <1>12, <2>2, <3>1, UnlockSteps
  <2>4. \A i \in 1 .. 3 : all[(n - 2) + i - 1] = t[i]
    <3>1. /\ (n - 2) + 1 - 1 = n - 2 /\ (n - 2) + 2 - 1 = n - 1 /\ (n - 2) + 3 - 1 = n
          /\ \A i \in 1 .. 3 : i = 1 \/ i = 2 \/ i = 3
      BY <1>3, <1>5
    <3>2. QED
      BY <2>3, <3>1
  <2>5. Len(q) >= n + 1 - (n - 2)
    BY <1>6, <2>1, <2>3, <2>4
  <2>6. Len(q) > 0
    BY <1>4, <2>1, <2>5
  <2>7. QED
    BY <1>4, <1>12, <2>6, LengthOfBeginning
<1>13. ASSUME next \in {"BYTE_PROGRAM", "ERASE_SETUP"}
       PROVE  Len(q) = 3 /\ q[3] = IF next = "BYTE_PROGRAM" THEN ByteNext ELSE EraseNext
  BY <1>7, <1>12, <1>13, UnlockSteps
<1>14. ASSUME next \in {"ERASE_1", "ERASE_2"} PROVE Len(q) = IF next = "ERASE_1" THEN 4 ELSE 5
  <2>1. CASE next = "ERASE_1"
    <3>1. w = Unlock1 /\ Len(r) = 3 /\ r[3] = EraseNext
      BY <1>7, <2>1 DEF Steps
    <3>2. n = 4 /\ UnlockErase[n] = w /\ n <= Len(UnlockErase)
      BY <1>3, <1>5, <3>1, UnlockSteps
    <3>3. \A i \in 1 .. Len(r) : r[i] = UnlockErase[i]
      BY <1>5, <3>1, UnlockSteps, StepsDiffer DEF StartsLike
    <3>4. QED
      BY <1>10, <2>1, <3>2, <3>3
  <2>2. CASE next = "ERASE_2"
    <3>1. w = Unlock2 /\ Len(r) = 4
      BY <1>7, <2>2 DEF Steps
    <3>2. n = 5 /\ UnlockErase[n] = w /\ n <= Len(UnlockErase)
      BY <1>3, <1>5, <3>1, UnlockSteps
    <3>3. \A i \in 1 .. Len(r) : r[i] = UnlockErase[i]
      BY <1>5, <3>1, UnlockSteps DEF StartsLike
    <3>4. QED
      BY <1>10, <2>2, <3>2, <3>3
  <2>3. QED
    BY <1>14, <2>1, <2>2
<1>15. Steps(next, q)
  BY <1>4, <1>8, <1>11, <1>13, <1>14 DEF Steps
<1>16. QED
  BY <1>15 DEF q, next

LEMMA UnlockingAtFirst == Init => Unlocking
<1> SUFFICES ASSUME Init, NEW c \in Chips PROVE Steps(flash[c].state, past.recent[c])
  BY DEF Unlocking
<1>1. flash[c].state = "IDLE" /\ past.recent[c] = <<>>
  BY DEF Init, Chips, Flash
<1>2. <<>> \in Seq(FlashWrites) /\ StartsLike(<<>>, UnlockByte)
  BY UnlockSteps DEF StartsLike
<1>3. QED
  BY <1>1, <1>2, BeginsIsStart DEF Steps

\* What a store to a chip does to it, and to the writes remembered of it.
LEMMA StoredFlash ==
  ASSUME TypeOK, StoreFlash, NEW chip, chip = Device(Op.ea),
         NEW addr, addr = Physical(bsr[(Op.ea \div \h2000) % 8], Op.ea)
  PROVE  /\ chip \in Chips /\ addr \in Nat /\ Op.data \in Nat
         /\ flash'[chip] = write(flash[chip], addr, Op.data)
         /\ past'.recent[chip] = Recent(past.recent[chip], addr, Op.data)
         /\ \A c \in Chips : c # chip => flash'[c] = flash[c] /\ past'.recent[c] = past.recent[c]
<1>1. chip \in Chips /\ addr \in Nat /\ Op.data \in 0 .. 255 /\ Op.data \in Nat
  BY ChipOfStore
<1>2. flash \in [Chips -> Chip] /\ past \in Pasts /\ past.recent \in [Chips -> Seq(FlashWrites)]
  BY DEF TypeOK, FlashOK, PastOK, Pasts
<1>3. flash' = [flash EXCEPT ![chip] = write(flash[chip], addr, Op.data)]
  BY DEF StoreFlash
<1>4. past' = [past EXCEPT !.recent = [past.recent EXCEPT ![chip] = Recent(past.recent[chip], addr, Op.data)]]
  BY <1>2 DEF StoreFlash, Pasts
<1>5. past'.recent = [past.recent EXCEPT ![chip] = Recent(past.recent[chip], addr, Op.data)]
  BY <1>2, <1>4 DEF Pasts
<1>6. QED
  BY <1>1, <1>2, <1>3, <1>5

\* Only a store to a chip touches the chips and what is remembered of them.
LEMMA ChipsKept ==
  ASSUME TypeOK, [Next]_vars, ~StoreFlash
  PROVE  flash' = flash /\ past'.recent = past.recent
<1>1. past \in Pasts
  BY DEF TypeOK, PastOK
<1>2. CASE UNCHANGED vars
  BY <1>2 DEF vars
<1>3. CASE Window
  <2>1. CASE (\E event \in session.events : Type(event)) \/ LookForRoom \/ PutChar \/ Refresh
             \/ StartDrawing \/ DrawRow
    BY <2>1 DEF Type, LookForRoom, PutChar, Refresh, StartDrawing, DrawRow, ShowRow
  <2>2. CASE Publish
    BY <1>1, <2>2 DEF Publish, Pasts
  <2>3. CASE TypeByte
    BY <1>1, <2>3 DEF TypeByte, Pasts
  <2>4. QED
    BY <1>3, <2>1, <2>2, <2>3 DEF Window
<1>4. CASE (\E piece \in session.programs : Begin(piece)) \/ Idle \/ StoreBSR \/ LoadLCD \/ LoadVIA
           \/ Elsewhere \/ PollTake
  BY <1>4 DEF Begin, Idle, StoreBSR, LoadLCD, LoadVIA, Elsewhere, PollTake
<1>5. CASE StorePort
  BY <1>1, <1>5 DEF StorePort, Pasts
<1>6. CASE LoadPort
  BY <1>1, <1>6 DEF LoadPort, Pasts
<1>7. CASE StoreLCD
  BY <1>1, <1>7 DEF StoreLCD, Pasts
<1>8. CASE TellWindow
  BY <1>1, <1>8 DEF TellWindow, Pasts
<1>9. CASE StoreVIA
  BY <1>1, <1>9 DEF StoreVIA, Pasts
<1>10. CASE LoadSerial
  BY <1>1, <1>10 DEF LoadSerial, Pasts
<1>11. CASE StoreSerial
  BY <1>1, <1>11 DEF StoreSerial, Pasts
<1>12. CASE PollNothing \/ PollPress
  <2>1. PICK k, scanned : End(k, scanned)
    BY <1>12 DEF PollNothing, PollPress
  <2>2. QED
    BY <1>1, <2>1 DEF End, Pasts
<1>13. QED
  BY <1>2, <1>3, <1>4, <1>5, <1>6, <1>7, <1>8, <1>9, <1>10, <1>11, <1>12 DEF Next, Processor

LEMMA NextUnlocking == TypeOK /\ Unlocking /\ [Next]_vars => Unlocking'
<1> SUFFICES ASSUME TypeOK, Unlocking, [Next]_vars PROVE Unlocking'
  OBVIOUS
<1>1. CASE ~StoreFlash
  BY <1>1, ChipsKept DEF Unlocking
<1>2. CASE StoreFlash
  <2> DEFINE chip == Device(Op.ea)
             addr == Physical(bsr[(Op.ea \div \h2000) % 8], Op.ea)
             data == Op.data
  <2>1. /\ chip \in Chips /\ addr \in Nat /\ data \in Nat
        /\ flash'[chip] = write(flash[chip], addr, data)
        /\ past'.recent[chip] = Recent(past.recent[chip], addr, data)
        /\ \A c \in Chips : c # chip => flash'[c] = flash[c] /\ past'.recent[c] = past.recent[c]
    BY <1>2, StoredFlash
  <2> HIDE DEF chip, addr, data
  <2>2. past.recent[chip] \in Seq(FlashWrites) /\ Steps(flash[chip].state, past.recent[chip])
    BY <2>1 DEF TypeOK, PastOK, Pasts, Unlocking
  <2>3. Steps(NextState(flash[chip].state, addr, data), Recent(past.recent[chip], addr, data))
    BY <2>1, <2>2, RecentSteps
  <2>4. Steps(flash'[chip].state, past'.recent[chip])
    BY <2>1, <2>3 DEF write
  <2>5. ASSUME NEW c \in Chips PROVE Steps(flash'[c].state, past'.recent[c])
    BY <2>1, <2>4 DEF Unlocking
  <2>6. QED
    BY <2>5 DEF Unlocking
<1>3. QED
  BY <1>1, <1>2

\* The bytes that a write changes.
LEMMA WriteChanges ==
  ASSUME NEW f \in Chip, NEW addr, NEW val, NEW changed,
         changed = {a \in Addresses : write(f, addr, val).data[a] # f.data[a]},
         write(f, addr, val).data # f.data
  PROVE  \/ f.state = "BYTE_PROGRAM" /\ changed = {addr}
         \/ f.state = "ERASE_2" /\ val = \h10
         \/ /\ f.state = "ERASE_2" /\ val = \h30
            /\ \A a \in changed : a \div \h1000 = addr \div \h1000
<1>1. f.data \in [Addresses -> Nat] /\ write(f, addr, val).data = NextData(f, addr, val)
  BY DEF Chip, write
<1>2. \A a \in Addresses : NextData(f, addr, val)[a] =
        IF f.state = "BYTE_PROGRAM" /\ a = addr THEN BitAnd(f.data[a], val)
        ELSE IF f.state = "ERASE_2" /\ a \in Erases(val, addr) THEN \hFF
        ELSE f.data[a]
  BY DEF NextData
<1>3. PICK a \in Addresses : NextData(f, addr, val)[a] # f.data[a]
  <2>1. NextData(f, addr, val) = [a \in Addresses |-> NextData(f, addr, val)[a]]
    BY DEF NextData
  <2>2. f.data = [a \in Addresses |-> f.data[a]]
    BY <1>1
  <2>3. QED
    BY <1>1, <2>1, <2>2
<1>4. CASE f.state = "BYTE_PROGRAM"
  <2>1. a = addr /\ \A b \in changed : b = addr
    BY <1>1, <1>2, <1>3, <1>4
  <2>2. a \in changed
    BY <1>1, <1>3
  <2>3. QED
    BY <1>4, <2>1, <2>2
<1>5. CASE f.state # "BYTE_PROGRAM"
  <2>1. f.state = "ERASE_2" /\ a \in Erases(val, addr)
    BY <1>2, <1>3, <1>5
  <2>2. \A b \in changed : b \in Erases(val, addr)
    BY <1>1, <1>2, <1>5
  <2>3. val \in {\h30, \h10}
    BY <2>1 DEF Erases
  <2>4. QED
    BY <2>1, <2>2, <2>3 DEF Erases
<1>6. QED
  BY <1>4, <1>5

LEMMA StepsUnlock ==
  ASSUME NEW r \in Seq(FlashWrites)
  PROVE  /\ Steps("BYTE_PROGRAM", r) => r = UnlockByte
         /\ Steps("ERASE_2", r) => r = UnlockErase
<1>1. Begins(r) => StartsLike(r, UnlockByte) \/ StartsLike(r, UnlockErase)
  BY BeginsIsStart
<1>2. ASSUME Begins(r), Len(r) = 3, r[3] = ByteNext PROVE r = UnlockByte
  <2>1. \A i \in 1 .. 3 : r[i] = UnlockByte[i]
    BY <1>1, <1>2, UnlockSteps, StepsDiffer DEF StartsLike
  <2>2. QED
    BY <1>2, <2>1, UnlockSequences, UnlockSteps, SeqEqual
<1>3. ASSUME Begins(r), Len(r) = 5 PROVE r = UnlockErase
  <2>1. \A i \in 1 .. 5 : r[i] = UnlockErase[i]
    BY <1>1, <1>3, UnlockSteps DEF StartsLike
  <2>2. QED
    BY <1>3, <2>1, UnlockSequences, UnlockSteps, SeqEqual
<1>4. QED
  BY <1>2, <1>3 DEF Steps

\* A byte of flash changes only when the last writes to its chip, through whichever
\* windows they went, were the steps that unlock it, and no byte changes that they
\* did not unlock (SST39F010::write, the BSR registers).
THEOREM FlashStaysLocked == Spec => FlashNeedsUnlock
<1>1. TypeOK /\ Unlocking /\ [Next]_vars =>
        [\A c \in Chips : flash'[c].data # flash[c].data =>
            LET addr == Physical(bsr[(Op.ea \div \h2000) % 8], Op.ea)
                changed == {a \in Addresses : flash'[c].data[a] # flash[c].data[a]}
            IN  \/ past.recent[c] = UnlockByte /\ changed = {addr}
                \/ past.recent[c] = UnlockErase /\ Op.data = \h10
                \/ /\ past.recent[c] = UnlockErase /\ Op.data = \h30
                   /\ \A a \in changed : a \div \h1000 = addr \div \h1000]_vars
  <2> SUFFICES ASSUME TypeOK, Unlocking, [Next]_vars, NEW c \in Chips, flash'[c].data # flash[c].data
               PROVE  LET addr == Physical(bsr[(Op.ea \div \h2000) % 8], Op.ea)
                          changed == {a \in Addresses : flash'[c].data[a] # flash[c].data[a]}
                      IN  \/ past.recent[c] = UnlockByte /\ changed = {addr}
                          \/ past.recent[c] = UnlockErase /\ Op.data = \h10
                          \/ /\ past.recent[c] = UnlockErase /\ Op.data = \h30
                             /\ \A a \in changed : a \div \h1000 = addr \div \h1000
    OBVIOUS
  <2> DEFINE addr == Physical(bsr[(Op.ea \div \h2000) % 8], Op.ea)
             changed == {a \in Addresses : flash'[c].data[a] # flash[c].data[a]}
             chip == Device(Op.ea)
             data == Op.data
  <2>1. StoreFlash
    BY ChipsKept
  <2>2. /\ chip \in Chips /\ flash'[chip] = write(flash[chip], addr, data)
        /\ \A d \in Chips : d # chip => flash'[d] = flash[d]
    BY <2>1, StoredFlash
  <2> HIDE DEF addr, chip, data
  <2>3. c = chip
    BY <2>2
  <2>4. flash[c] \in Chip /\ past.recent[c] \in Seq(FlashWrites) /\ Steps(flash[c].state, past.recent[c])
    BY DEF TypeOK, FlashOK, PastOK, Pasts, Unlocking
  <2>5. flash'[c] = write(flash[c], addr, data)
    BY <2>2, <2>3
  <2>6. /\ changed = {a \in Addresses : write(flash[c], addr, data).data[a] # flash[c].data[a]}
        /\ write(flash[c], addr, data).data # flash[c].data
    BY <2>5
  <2> HIDE DEF changed
  <2>7. \/ flash[c].state = "BYTE_PROGRAM" /\ changed = {addr}
        \/ flash[c].state = "ERASE_2" /\ data = \h10
        \/ /\ flash[c].state = "ERASE_2" /\ data = \h30
           /\ \A a \in changed : a \div \h1000 = addr \div \h1000
    BY <2>4, <2>6, WriteChanges
  <2>8. /\ flash[c].state = "BYTE_PROGRAM" => past.recent[c] = UnlockByte
        /\ flash[c].state = "ERASE_2" => past.recent[c] = UnlockErase
    BY <2>4, StepsUnlock
  <2>9. \/ past.recent[c] = UnlockByte /\ changed = {addr}
        \/ past.recent[c] = UnlockErase /\ data = \h10
        \/ /\ past.recent[c] = UnlockErase /\ data = \h30
           /\ \A a \in changed : a \div \h1000 = addr \div \h1000
    BY <2>7, <2>8
  <2>10. QED
    BY <2>9 DEF addr, changed, data
<1>2. Spec => []Unlocking
  BY UnlockingAtFirst, TypesStay, NextUnlocking, PTL DEF Spec
<1>3. QED
  BY <1>1, <1>2, TypesStay, PTL DEF Spec, FlashNeedsUnlock
-----------------------------------------------------------------------------
(* What is typed: the ring, the matrix and the handler.                    *)

\* The characters taken from the ring and put into it; the place k on from h.
Polled == IF keys.pa0 THEN Len(past.scanned) + 1 ELSE Len(past.scanned)
Typed == Len(past.accepted)
Place(h, k) == IF h + k < KEY_BUF_SIZE THEN h + k ELSE h + k - KEY_BUF_SIZE

\* The ring holds the keys of the characters not yet taken, in their order.
RingHolds ==
    /\ Polled <= Typed /\ Typed - Polled < KEY_BUF_SIZE
    /\ keyBufWrite = Place(keyBufRead, Typed - Polled)
    /\ \A k \in 0 .. Typed - Polled - 1 :
           KeysOf(keyBuf[Place(keyBufRead, k)]) = past.accepted[Polled + k + 1]
    /\ window.pc \in {"put", "publish"} => Typed - Polled < KEY_BUF_SIZE - 1
    /\ window.pc = "publish" => keyBuf[keyBufWrite] = window.ch
    /\ cpu.pc = "press" =>
           /\ ~keys.pa0 /\ Polled < Typed /\ KeysOf(cpu.taken) = past.accepted[Polled + 1]
           /\ session.l28 /\ session.console

\* The matrix holds the keys of the last character taken, until they are released.
KeysHeld ==
    /\ StartsLike(past.scanned, past.accepted)
    /\ keys.portD \in {0} \cup {Bits[n] : n \in 1 .. 8}
    /\ past.seen \subseteq keys.matrix
    /\ keys.pa0 => keys.matrix = past.accepted[Polled] /\ session.l28 /\ session.console
    /\ ~keys.pa0 => keys.matrix = {}

\* The handler has done j of its accesses, and has seen the keys of the rows it read;
\* what is left to do after it is the firmware's own.
Under(j) ==
    /\ Len(cpu.todo) >= 15 - j
    /\ \A k \in 1 .. 15 - j : cpu.todo[k] = Handler[j + k]
    /\ \A k \in 16 - j .. Len(cpu.todo) : ~LeftToHandler(cpu.todo[k])
    /\ j % 2 = 1 => keys.portD = Bits[(j + 1) \div 2]
    /\ \A p \in keys.matrix : p[1] < j \div 2 => p \in past.seen
Handled ==
    /\ cpu.handling => keys.pa0 /\ \E j \in 0 .. 14 : Under(j)
    /\ ~cpu.handling => \A k \in 1 .. Len(cpu.todo) : ~LeftToHandler(cpu.todo[k])
    /\ \A piece \in session.programs : \A k \in 1 .. Len(piece) : ~LeftToHandler(piece[k])

KeysInv == RingHolds /\ KeysHeld /\ Handled

LEMMA PlaceType == ASSUME NEW h \in Places, NEW k \in Places PROVE Place(h, k) \in Places
  BY SessionAssumption DEF Place, Places

LEMMA PlaceApart ==
  ASSUME NEW h \in Places, NEW j \in Places, NEW k \in Places, Place(h, j) = Place(h, k) PROVE j = k
  BY SessionAssumption DEF Place, Places

LEMMA AfterIsNext == ASSUME NEW h \in Places PROVE After(h) = IF h + 1 < KEY_BUF_SIZE THEN h + 1 ELSE 0
<1>1. KEY_BUF_SIZE \in Nat /\ KEY_BUF_SIZE > 1 /\ h + 1 \in Nat /\ h + 1 <= KEY_BUF_SIZE
  BY SessionAssumption DEF Places
<1>2. CASE h + 1 < KEY_BUF_SIZE
  BY <1>1, <1>2 DEF After
<1>3. CASE h + 1 = KEY_BUF_SIZE
  BY <1>1, <1>3 DEF After
<1>4. QED
  BY <1>1, <1>2, <1>3

LEMMA PlaceNext ==
  ASSUME NEW h \in Places, NEW k \in Places, k + 1 \in Places
  PROVE  After(Place(h, k)) = Place(h, k + 1) /\ Place(After(h), k) = Place(h, k + 1)
<1>1. Place(h, k) \in Places
  BY PlaceType
<1>2. /\ After(h) = IF h + 1 < KEY_BUF_SIZE THEN h + 1 ELSE 0
      /\ After(Place(h, k)) = IF Place(h, k) + 1 < KEY_BUF_SIZE THEN Place(h, k) + 1 ELSE 0
  BY <1>1, AfterIsNext
<1>3. KEY_BUF_SIZE \in Nat /\ KEY_BUF_SIZE > 1
  BY SessionAssumption
<1>4. QED
  BY <1>2, <1>3 DEF Place, Places

\* One row is driven at a time, if any.
LEMMA DrivesOne ==
  /\ \A k : k.portD = 0 => Driven(k) = {}
  /\ \A k, n : n \in 1 .. 8 /\ k.portD = Bits[n] => Driven(k) = {n - 1}
<1>1. ASSUME NEW k, k.portD = 0 PROVE Driven(k) = {}
  <2>1. \A row \in 0 .. 7 : Bits[row + 1] \in {1, 2, 4, 8, 16, 32, 64, 128}
    BY DEF Bits
  <2>2. \A b \in {1, 2, 4, 8, 16, 32, 64, 128} : (0 \div b) % 2 = 0
    OBVIOUS
  <2>3. QED
    BY <1>1, <2>1, <2>2 DEF Driven
<1>2. ASSUME NEW k, NEW n \in 1 .. 8, k.portD = Bits[n] PROVE Driven(k) = {n - 1}
  <2>1. \A row \in 0 .. 7 : (Bits[n] \div Bits[row + 1]) % 2 = 1 <=> row = n - 1
    BY DEF Bits
  <2>2. n - 1 \in 0 .. 7
    OBVIOUS
  <2>3. QED
    BY <1>2, <2>1, <2>2 DEF Driven
<1>3. QED
  BY <1>1, <1>2

\* What a look at the columns sees is pressed, and it sees every key of the row driven.
LEMMA SeesPressed ==
  ASSUME KeysOK, keys.portD \in {0} \cup {Bits[n] : n \in 1 .. 8}
  PROVE  /\ Driven(keys) \X Columns(keys) \subseteq keys.matrix
         /\ \A n \in 1 .. 8 : keys.portD = Bits[n] =>
                \A p \in keys.matrix : p[1] = n - 1 => p \in Driven(keys) \X Columns(keys)
<1>1. keys.matrix \subseteq (0 .. 6) \X (0 .. 7)
  BY DEF KeysOK, KeySets, Positions
<1>2. \A p \in keys.matrix : p = <<p[1], p[2]>>
  BY <1>1
<1>3. ASSUME NEW row \in Driven(keys), NEW col \in Columns(keys) PROVE <<row, col>> \in keys.matrix
  <2>1. PICK p \in keys.matrix : p[1] \in Driven(keys) /\ p[2] = col
    BY DEF Columns
  <2>2. \A a, b \in Driven(keys) : a = b
    BY DrivesOne
  <2>3. p[1] = row
    BY <2>1, <2>2
  <2>4. QED
    BY <1>2, <2>1, <2>3
<1>4. ASSUME NEW n \in 1 .. 8, keys.portD = Bits[n], NEW p \in keys.matrix, p[1] = n - 1
      PROVE  p \in Driven(keys) \X Columns(keys)
  <2>1. p[1] \in Driven(keys)
    BY <1>4, DrivesOne
  <2>2. p[2] \in Columns(keys)
    BY <2>1 DEF Columns
  <2>3. QED
    BY <1>2, <2>1, <2>2
<1>5. QED
  BY <1>3, <1>4

\* The accesses of the handler.
LEMMA HandlerAccess ==
  \A j \in 0 .. 14 :
    /\ j = 14 => Handler[j + 1] = Store(CIR, \hBF)
    /\ j < 14 /\ j % 2 = 0 => Handler[j + 1] = Store(\h03, Bits[(j + 2) \div 2]) /\ (j + 2) \div 2 \in 1 .. 8
    /\ j % 2 = 1 => Handler[j + 1] = Load(\h02)
    /\ Handler[j + 1].ea \in {\h02, \h03, CIR}
<1> SUFFICES ASSUME NEW j \in 0 .. 14
             PROVE  /\ j = 14 => Handler[j + 1] = Store(CIR, \hBF)
                    /\ j < 14 /\ j % 2 = 0 => /\ Handler[j + 1] = Store(\h03, Bits[(j + 2) \div 2])
                                              /\ (j + 2) \div 2 \in 1 .. 8
                    /\ j % 2 = 1 => Handler[j + 1] = Load(\h02)
                    /\ Handler[j + 1].ea \in {\h02, \h03, CIR}
  OBVIOUS
<1>1. j + 1 \in 1 .. 15 /\ (j + 1) + 1 = j + 2
  OBVIOUS
<1>2. Handler[j + 1] = IF j + 1 = 15 THEN Store(CIR, \hBF)
                       ELSE IF (j + 1) % 2 = 1 THEN Store(\h03, Bits[(j + 2) \div 2])
                       ELSE Load(\h02)
  BY <1>1 DEF Handler
<1>3. /\ j % 2 = 0 => (j + 1) % 2 = 1
      /\ j % 2 = 1 => (j + 1) % 2 = 0
      /\ j < 14 => (j + 2) \div 2 \in 1 .. 8
      /\ j + 1 = 15 <=> j = 14
      /\ j % 2 = 1 => j + 1 # 15
  OBVIOUS
<1>4. \A x : Store(CIR, x).ea = CIR /\ Store(\h03, x).ea = \h03 /\ Load(\h02).ea = \h02
  BY DEF Store, Load
<1>5. QED
  BY <1>2, <1>3, <1>4

\* What is left to do after an access.
LEMMA TailOf ==
  ASSUME CpuOK, cpu.todo # <<>>
  PROVE  /\ Len(cpu.todo) \in Nat /\ Len(cpu.todo) > 0 /\ Op = cpu.todo[1]
         /\ Tail(cpu.todo) \in Seq(Access) /\ Len(Tail(cpu.todo)) = Len(cpu.todo) - 1
         /\ \A k \in 1 .. Len(cpu.todo) - 1 : Tail(cpu.todo)[k] = cpu.todo[k + 1]
<1>1. cpu.todo \in Seq(Access)
  BY DEF CpuOK, Cpus
<1>2. QED
  BY <1>1, HeadTailProperties, LenProperties DEF Op

-----------------------------------------------------------------------------
(* What the steps leave of it.                                             *)

LEMMA RingSame ==
  ASSUME RingHolds, UNCHANGED <<keyBuf, keyBufWrite, keyBufRead>>, keys'.pa0 <=> keys.pa0,
         past'.accepted = past.accepted, past'.scanned = past.scanned,
         window' = window \/ window'.pc \notin {"put", "publish"}, cpu'.pc # "press"
  PROVE  RingHolds'
<1>1. Polled' = Polled /\ Typed' = Typed
  BY DEF Polled, Typed
<1>2. QED
  BY <1>1 DEF RingHolds

LEMMA KeysSame ==
  ASSUME KeysHeld, keys' = keys, past'.accepted = past.accepted, past'.scanned = past.scanned,
         past'.seen = past.seen, session'.l28 = session.l28, session'.console = session.console
  PROVE  KeysHeld'
<1>1. Polled' = Polled
  BY DEF Polled
<1>2. QED
  BY <1>1 DEF KeysHeld, StartsLike

LEMMA HandledSame ==
  ASSUME Handled, keys' = keys, past'.seen = past.seen, session'.programs = session.programs,
         cpu'.todo = cpu.todo, cpu'.handling <=> cpu.handling
  PROVE  Handled'
<1>1. \A j \in 0 .. 14 : Under(j) => Under(j)'
  BY DEF Under
<1>2. QED
  BY <1>1 DEF Handled

\* An access that is not one to the port is not the handler's.
LEMMA HandledAccess ==
  ASSUME TypeOK, KeysHeld, Handled, cpu.todo # <<>>, Device(Op.ea) # "port",
         keys' = keys, past'.seen = past.seen, session'.programs = session.programs,
         cpu'.handling <=> cpu.handling, cpu'.todo = Tail(cpu.todo) \/ cpu'.todo = cpu.todo
  PROVE  Handled'
<1>0. CpuOK
  BY DEF TypeOK
<1>1. ~cpu.handling
  <2>1. SUFFICES ASSUME cpu.handling PROVE FALSE
    OBVIOUS
  <2>2. PICK j \in 0 .. 14 : Under(j)
    BY <2>1 DEF Handled
  <2>3. cpu.todo[1] = Handler[j + 1]
    BY <2>2 DEF Under
  <2>4. Op.ea \in {\h02, \h03, CIR} /\ session.l28
    BY <1>0, <2>1, <2>3, TailOf, HandlerAccess DEF Handled, KeysHeld
  <2>5. QED
    BY <2>4 DEF Device, CIR
<1>2. \A k \in 1 .. Len(cpu.todo) : ~LeftToHandler(cpu.todo[k])
  BY <1>1 DEF Handled
<1>3. \A k \in 1 .. Len(Tail(cpu.todo)) : ~LeftToHandler(Tail(cpu.todo)[k])
  BY <1>0, <1>2, TailOf
<1>4. QED
  BY <1>1, <1>2, <1>3 DEF Handled

\* The accesses to the other devices.
OtherDevice ==
    StoreBSR \/ StoreFlash \/ StoreLCD \/ LoadLCD \/ StoreVIA \/ LoadVIA \/ LoadSerial \/ StoreSerial \/ Elsewhere

LEMMA OtherAccess ==
  ASSUME TypeOK, OtherDevice
  PROVE  /\ UNCHANGED <<session, window, keyBuf, keyBufWrite, keyBufRead, keys>>
         /\ past'.accepted = past.accepted /\ past'.scanned = past.scanned /\ past'.seen = past.seen
         /\ cpu.todo # <<>> /\ Device(Op.ea) # "port" /\ cpu'.pc # "press"
         /\ cpu'.handling <=> cpu.handling
         /\ cpu'.todo = Tail(cpu.todo) \/ cpu'.todo = cpu.todo
<1>1. past \in Pasts /\ cpu \in Cpus
  BY DEF TypeOK, PastOK, CpuOK
<1>2. UNCHANGED <<session, window, keyBuf, keyBufWrite, keyBufRead, keys>>
  BY DEF OtherDevice, StoreBSR, StoreFlash, StoreLCD, LoadLCD, StoreVIA, LoadVIA, LoadSerial, StoreSerial,
         Elsewhere
<1>3. cpu.todo # <<>> /\ Device(Op.ea) # "port"
  BY DEF OtherDevice, StoreBSR, StoreFlash, StoreLCD, LoadLCD, StoreVIA, LoadVIA, LoadSerial, StoreSerial,
         Elsewhere, Accesses, Chips
<1>4. ASSUME Done PROVE cpu'.pc = "end" /\ cpu'.handling = cpu.handling /\ cpu'.todo = Tail(cpu.todo)
  BY <1>1, <1>4 DEF Done, Cpus
<1>5. cpu'.pc # "press" /\ cpu'.handling = cpu.handling /\ (cpu'.todo = Tail(cpu.todo) \/ cpu'.todo = cpu.todo)
  <2>1. CASE StoreLCD
    BY <1>1, <2>1 DEF StoreLCD, Cpus
  <2>2. CASE LoadSerial
    BY <1>1, <2>2 DEF LoadSerial, Cpus
  <2>3. CASE ~StoreLCD /\ ~LoadSerial
    <3>1. Done
      BY <2>3 DEF OtherDevice, StoreBSR, StoreFlash, LoadLCD, StoreVIA, LoadVIA, StoreSerial, Elsewhere
    <3>2. QED
      BY <1>4, <3>1
  <2>4. QED
    BY <2>1, <2>2, <2>3
<1>6. past'.accepted = past.accepted /\ past'.scanned = past.scanned /\ past'.seen = past.seen
  <2>1. CASE StoreFlash
    BY <1>1, <2>1 DEF StoreFlash, Pasts
  <2>2. CASE StoreLCD
    BY <1>1, <2>2 DEF StoreLCD, Pasts
  <2>3. CASE StoreVIA
    BY <1>1, <2>3 DEF StoreVIA, Pasts
  <2>4. CASE LoadSerial
    BY <1>1, <2>4 DEF LoadSerial, Pasts
  <2>5. CASE StoreSerial
    BY <1>1, <2>5 DEF StoreSerial, Pasts
  <2>6. CASE StoreBSR \/ LoadLCD \/ LoadVIA \/ Elsewhere
    BY <2>6 DEF StoreBSR, LoadLCD, LoadVIA, Elsewhere
  <2>7. QED
    BY <2>1, <2>2, <2>3, <2>4, <2>5, <2>6 DEF OtherDevice
<1>7. QED
  BY <1>2, <1>3, <1>5, <1>6

LEMMA OtherAccessKeys == TypeOK /\ KeysInv /\ OtherDevice => KeysInv'
<1> SUFFICES ASSUME TypeOK, KeysInv, OtherDevice PROVE KeysInv'
  OBVIOUS
<1> USE DEF KeysInv
<1>1. RingHolds'
  BY OtherAccess, RingSame
<1>2. KeysHeld'
  BY OtherAccess, KeysSame
<1>3. Handled'
  BY OtherAccess, HandledAccess
<1>4. QED
  BY <1>1, <1>2, <1>3

LEMMA Counts ==
  ASSUME TypeOK
  PROVE  /\ Polled \in Nat /\ Typed \in Nat /\ Len(past.scanned) \in Nat
         /\ keyBufRead \in Places /\ keyBufWrite \in Places
         /\ past.accepted \in Seq(SUBSET Matrix) /\ past.scanned \in Seq(SUBSET Matrix)
         /\ KEY_BUF_SIZE \in Nat /\ KEY_BUF_SIZE > 1
<1>1. past.accepted \in Seq(SUBSET Matrix) /\ past.scanned \in Seq(SUBSET Matrix)
  BY DEF TypeOK, PastOK, Pasts
<1>2. Len(past.accepted) \in Nat /\ Len(past.scanned) \in Nat
  BY <1>1, LenProperties
<1>3. QED
  BY <1>1, <1>2, SessionAssumption DEF TypeOK, RingOK, Polled, Typed

\* There is room when the next place is not the one to be read.
LEMMA RoomIsThere ==
  ASSUME TypeOK, RingHolds, After(keyBufWrite) # keyBufRead
  PROVE  Typed - Polled < KEY_BUF_SIZE - 1
<1>1. SUFFICES ASSUME Typed - Polled = KEY_BUF_SIZE - 1 PROVE FALSE
  BY Counts DEF RingHolds
<1>2. keyBufWrite = Place(keyBufRead, KEY_BUF_SIZE - 1)
  BY <1>1 DEF RingHolds
<1>3. After(keyBufWrite) = IF keyBufWrite + 1 < KEY_BUF_SIZE THEN keyBufWrite + 1 ELSE 0
  BY Counts, AfterIsNext
<1>4. keyBufRead \in Nat /\ keyBufRead < KEY_BUF_SIZE /\ KEY_BUF_SIZE \in Nat /\ KEY_BUF_SIZE > 1
  BY Counts DEF Places
<1>5. QED
  BY <1>2, <1>3, <1>4 DEF Place

LEMMA LookForRoomKeys == TypeOK /\ KeysInv /\ LookForRoom => KeysInv'
<1> SUFFICES ASSUME TypeOK, KeysInv, LookForRoom PROVE KeysInv'
  OBVIOUS
<1> USE DEF KeysInv
<1>1. KeysHeld' /\ Handled'
  BY KeysSame, HandledSame DEF LookForRoom
<1>2. Polled' = Polled /\ Typed' = Typed
  BY DEF Polled, Typed, LookForRoom
<1>3. window'.pc \in {"idle", "put"} /\ (window'.pc = "put" => After(keyBufWrite) # keyBufRead)
  BY DEF LookForRoom, TypeOK, WindowOK, Windows
<1>4. window'.pc \in {"put", "publish"} => Typed - Polled < KEY_BUF_SIZE - 1
  BY <1>3, RoomIsThere
<1>5. RingHolds'
  BY <1>2, <1>3, <1>4 DEF RingHolds, LookForRoom
<1>6. QED
  BY <1>1, <1>5

LEMMA PutCharKeys == TypeOK /\ KeysInv /\ PutChar => KeysInv'
<1> SUFFICES ASSUME TypeOK, KeysInv, PutChar PROVE KeysInv'
  OBVIOUS
<1> USE DEF KeysInv
<1>1. KeysHeld' /\ Handled'
  BY KeysSame, HandledSame DEF PutChar
<1>2. Polled' = Polled /\ Typed' = Typed
  BY DEF Polled, Typed, PutChar
<1>3. Typed - Polled < KEY_BUF_SIZE - 1 /\ Typed - Polled \in Places
  BY Counts DEF RingHolds, PutChar, Places
<1>4. window'.pc = "publish" /\ window'.ch = window.ch
  BY DEF PutChar, TypeOK, WindowOK, Windows
<1>5. keyBuf' = [keyBuf EXCEPT ![keyBufWrite] = window.ch] /\ DOMAIN keyBuf = Places
  BY DEF PutChar, TypeOK, RingOK
<1>6. ASSUME NEW k \in 0 .. Typed - Polled - 1
      PROVE  keyBuf'[Place(keyBufRead, k)] = keyBuf[Place(keyBufRead, k)]
  <2>1. k \in Places /\ k # Typed - Polled
    BY <1>3, Counts DEF Places
  <2>2. Place(keyBufRead, k) \in Places /\ Place(keyBufRead, k) # keyBufWrite
    BY <1>3, <2>1, Counts, PlaceType, PlaceApart DEF RingHolds
  <2>3. QED
    BY <1>5, <2>2
<1>7. keyBuf'[keyBufWrite] = window.ch
  BY <1>5, Counts
<1>8. /\ Polled <= Typed /\ Typed - Polled < KEY_BUF_SIZE
      /\ keyBufWrite = Place(keyBufRead, Typed - Polled)
      /\ \A k \in 0 .. Typed - Polled - 1 :
             KeysOf(keyBuf[Place(keyBufRead, k)]) = past.accepted[Polled + k + 1]
      /\ cpu.pc = "press" =>
           /\ ~keys.pa0 /\ Polled < Typed /\ KeysOf(cpu.taken) = past.accepted[Polled + 1]
           /\ session.l28 /\ session.console
  BY DEF RingHolds
<1>9. UNCHANGED <<keyBufRead, keyBufWrite, keys, cpu, past, session>>
  BY DEF PutChar
<1>10. RingHolds'
  BY <1>2, <1>3, <1>4, <1>6, <1>7, <1>8, <1>9 DEF RingHolds
<1>11. QED
  BY <1>1, <1>10

LEMMA PublishKeys == TypeOK /\ KeysInv /\ Publish => KeysInv'
<1> SUFFICES ASSUME TypeOK, KeysInv, Publish PROVE KeysInv'
  OBVIOUS
<1> USE DEF KeysInv
<1>0. past \in Pasts /\ window \in Windows
  BY DEF TypeOK, PastOK, WindowOK
<1>1. /\ past'.accepted = Append(past.accepted, KeysOf(window.ch))
      /\ past'.scanned = past.scanned /\ past'.seen = past.seen
      /\ window'.pc = "idle" /\ keyBufWrite' = After(keyBufWrite)
      /\ UNCHANGED <<session, cpu, keyBuf, keyBufRead, keys>>
  BY <1>0 DEF Publish, Pasts, Windows
<1>2. Handled'
  BY <1>1, HandledSame
<1>3. KeysOf(window.ch) \in SUBSET Matrix
  BY KeysInMatrix, PositionsInMatrix
<1>4. /\ Typed' = Typed + 1 /\ Polled' = Polled
      /\ \A k \in 1 .. Typed : past'.accepted[k] = past.accepted[k]
      /\ past'.accepted[Typed + 1] = KeysOf(window.ch)
  BY <1>1, <1>3, Counts, AppendProperties DEF Typed, Polled
<1>5. /\ Polled <= Typed /\ Typed - Polled < KEY_BUF_SIZE - 1
      /\ keyBufWrite = Place(keyBufRead, Typed - Polled) /\ keyBuf[keyBufWrite] = window.ch
      /\ Polled \in Nat /\ Typed \in Nat
  BY Counts DEF RingHolds, Publish
<1>6. KeysHeld'
  <2>1. Len(past'.accepted) = Typed + 1 /\ Len(past.scanned) <= Typed /\ (keys.pa0 => Polled \in 1 .. Typed)
    BY <1>4, <1>5, Counts DEF Typed, Polled
  <2>2. StartsLike(past'.scanned, past'.accepted)
    BY <1>1, <1>4, <2>1, Counts DEF StartsLike, KeysHeld, Typed
  <2>3. keys.pa0 => past'.accepted[Polled'] = past.accepted[Polled]
    BY <1>4, <2>1
  <2>4. QED
    BY <1>1, <2>2, <2>3 DEF KeysHeld
<1>7. keyBufWrite' = Place(keyBufRead, Typed' - Polled')
  <2>1. Typed - Polled \in Places /\ (Typed - Polled) + 1 \in Places /\ Typed' - Polled' = (Typed - Polled) + 1
    BY <1>4, <1>5, Counts DEF Places
  <2>2. QED
    BY <1>1, <1>5, <2>1, Counts, PlaceNext
<1>8. ASSUME NEW k \in 0 .. Typed' - Polled' - 1
      PROVE  KeysOf(keyBuf[Place(keyBufRead, k)]) = past'.accepted[Polled + k + 1]
  <2>1. CASE k = Typed - Polled
    <3>1. Polled + k + 1 = Typed + 1
      BY <1>5, <2>1
    <3>2. QED
      BY <1>4, <1>5, <2>1, <3>1
  <2>2. CASE k # Typed - Polled
    <3>1. k \in 0 .. Typed - Polled - 1 /\ Polled + k + 1 \in 1 .. Typed
      BY <1>4, <1>5, <2>2
    <3>2. QED
      BY <1>4, <3>1 DEF RingHolds
  <2>3. QED
    BY <2>1, <2>2
<1>9. cpu.pc = "press" =>
          /\ ~keys.pa0 /\ Polled < Typed + 1 /\ KeysOf(cpu.taken) = past'.accepted[Polled + 1]
          /\ session.l28 /\ session.console
  <2>1. SUFFICES ASSUME cpu.pc = "press"
                 PROVE  /\ ~keys.pa0 /\ Polled < Typed + 1 /\ KeysOf(cpu.taken) = past'.accepted[Polled + 1]
                        /\ session.l28 /\ session.console
    OBVIOUS
  <2>2. /\ ~keys.pa0 /\ Polled < Typed /\ KeysOf(cpu.taken) = past.accepted[Polled + 1]
        /\ session.l28 /\ session.console
    BY <2>1 DEF RingHolds
  <2>3. Polled + 1 \in 1 .. Typed /\ Polled < Typed + 1
    BY <1>5, <2>2
  <2>4. QED
    BY <1>4, <2>2, <2>3
<1>10. Polled' <= Typed' /\ Typed' - Polled' < KEY_BUF_SIZE
  BY <1>4, <1>5, Counts
<1>11. RingHolds'
  BY <1>1, <1>4, <1>7, <1>8, <1>9, <1>10 DEF RingHolds
<1>12. QED
  BY <1>2, <1>6, <1>11

\* The other steps of the window, and those of the processor that are not at a device.
LEMMA WindowKeys ==
  ASSUME TypeOK, KeysInv,
         \/ \E event \in session.events : Type(event)
         \/ Refresh \/ StartDrawing \/ DrawRow \/ TypeByte
  PROVE  KeysInv'
<1> USE DEF KeysInv
<1>0. past \in Pasts /\ session \in [l28 : BOOLEAN, console : BOOLEAN, programs : SUBSET Seq(Access),
                                     events : SUBSET Events, pieces : Nat, keys : Nat, bytes : Nat]
      /\ window \in Windows
  BY DEF TypeOK, PastOK, SessionOK, WindowOK
<1>1. UNCHANGED <<keyBuf, keyBufWrite, keyBufRead, keys, cpu>>
  BY DEF Type, Refresh, StartDrawing, DrawRow, ShowRow, TypeByte
<1>2. /\ past'.accepted = past.accepted /\ past'.scanned = past.scanned /\ past'.seen = past.seen
      /\ session'.l28 = session.l28 /\ session'.console = session.console /\ session'.programs = session.programs
  <2>1. CASE TypeByte
    BY <1>0, <2>1 DEF TypeByte, Pasts
  <2>2. CASE \E event \in session.events : Type(event)
    BY <1>0, <2>2 DEF Type
  <2>3. CASE Refresh \/ StartDrawing \/ DrawRow
    BY <2>3 DEF Refresh, StartDrawing, DrawRow, ShowRow
  <2>4. QED
    BY <2>1, <2>2, <2>3
<1>3. window' = window \/ window'.pc \notin {"put", "publish"}
  <2>1. CASE \E event \in session.events : Type(event)
    BY <1>0, <2>1 DEF Type, Windows
  <2>2. CASE Refresh
    BY <1>0, <2>2 DEF Refresh, Windows
  <2>3. CASE StartDrawing
    BY <1>0, <2>3 DEF StartDrawing, Windows
  <2>4. CASE DrawRow
    BY <1>0, <2>4 DEF DrawRow, ShowRow, Windows
  <2>5. CASE TypeByte
    BY <2>5 DEF TypeByte
  <2>6. QED
    BY <2>1, <2>2, <2>3, <2>4, <2>5
<1>4. Polled' = Polled /\ Typed' = Typed
  BY <1>1, <1>2 DEF Polled, Typed
<1>5. RingHolds'
  BY <1>1, <1>2, <1>3, <1>4 DEF RingHolds
<1>6. KeysHeld' /\ Handled'
  BY <1>1, <1>2, KeysSame, HandledSame
<1>7. QED
  BY <1>5, <1>6

LEMMA RestKeys ==
  ASSUME TypeOK, KeysInv, Idle \/ TellWindow \/ (\E piece \in session.programs : Begin(piece))
  PROVE  KeysInv'
<1> USE DEF KeysInv
<1>0. /\ past \in Pasts /\ cpu \in Cpus
      /\ session \in [l28 : BOOLEAN, console : BOOLEAN, programs : SUBSET Seq(Access),
                      events : SUBSET Events, pieces : Nat, keys : Nat, bytes : Nat]
  BY DEF TypeOK, PastOK, SessionOK, CpuOK
<1>1. /\ UNCHANGED <<window, keyBuf, keyBufWrite, keyBufRead, keys>>
      /\ past'.accepted = past.accepted /\ past'.scanned = past.scanned /\ past'.seen = past.seen
      /\ session'.l28 = session.l28 /\ session'.console = session.console /\ session'.programs = session.programs
      /\ cpu'.pc # "press" /\ (cpu'.handling <=> cpu.handling)
  <2>1. CASE Idle
    BY <1>0, <2>1 DEF Idle, Cpus
  <2>2. CASE TellWindow
    BY <1>0, <2>2 DEF TellWindow, Cpus, Pasts
  <2>3. CASE \E piece \in session.programs : Begin(piece)
    BY <1>0, <2>3 DEF Begin, Cpus
  <2>4. QED
    BY <2>1, <2>2, <2>3
<1>2. RingHolds' /\ KeysHeld'
  BY <1>1, RingSame, KeysSame
<1>3. CASE Idle \/ TellWindow
  <2>1. cpu'.todo = cpu.todo
    BY <1>0, <1>3 DEF Idle, TellWindow, Cpus
  <2>2. QED
    BY <1>1, <1>2, <2>1, HandledSame
<1>4. CASE \E piece \in session.programs : Begin(piece)
  <2>1. PICK piece \in session.programs : Begin(piece)
    BY <1>4
  <2>2. cpu.todo = <<>> /\ cpu'.todo = piece
    BY <1>0, <2>1 DEF Begin, Cpus
  <2>3. ~cpu.handling
    <3>1. Len(cpu.todo) = 0
      BY <2>2
    <3>2. \A j \in 0 .. 14 : ~(Len(cpu.todo) >= 15 - j)
      BY <3>1
    <3>3. QED
      BY <3>2 DEF Handled, Under
  <2>4. Handled'
    BY <1>1, <2>2, <2>3 DEF Handled
  <2>5. QED
    BY <1>2, <2>4
<1>5. QED
  BY <1>3, <1>4

-----------------------------------------------------------------------------
(* The accesses to the ports, the handler's and others.                    *)

\* The ports are among the first bytes.
LEMMA HandlerAtPort ==
  ASSUME session.l28, Op.ea \in {\h02, \h03, CIR} PROVE Device(Op.ea) = "port"
  BY DEF Device, CIR

\* A store to another register of the ports leaves the matrix alone.
LEMMA OtherPort ==
  ASSUME NEW k \in KeySets, NEW ea, NEW data, ea \notin {\h03, CIR}
  PROVE  /\ ~Clears(ea, data)
         /\ setPort(k, ea, data).matrix = k.matrix /\ setPort(k, ea, data).portD = k.portD
         /\ setPort(k, ea, data).pa0 = k.pa0
  BY DEF Clears, setPort, CIR, EIR, KeySets

\* A step at the ports out of the handler.
LEMMA PlainPortKeys ==
  ASSUME TypeOK, KeysInv, StorePort \/ LoadPort, ~cpu.handling
  PROVE  KeysInv'
<1> USE DEF KeysInv
<1>0. past \in Pasts /\ cpu \in Cpus /\ keys \in KeySets /\ CpuOK
  BY DEF TypeOK, PastOK, KeysOK, CpuOK
<1>1. cpu.todo # <<>> /\ ~LeftToHandler(Op)
  BY <1>0, TailOf DEF StorePort, LoadPort, Accesses, Handled
<1>2. /\ UNCHANGED <<session, window, keyBuf, keyBufWrite, keyBufRead>>
      /\ cpu'.pc # "press" /\ ~cpu'.handling /\ cpu'.todo = Tail(cpu.todo)
      /\ past'.accepted = past.accepted /\ past'.scanned = past.scanned
  <2>1. CASE StorePort
    BY <1>0, <2>1 DEF StorePort, Cpus
  <2>2. CASE LoadPort
    BY <1>0, <2>2 DEF LoadPort, Done, Cpus, Pasts
  <2>3. QED
    BY <2>1, <2>2
<1>3. keys'.matrix = keys.matrix /\ keys'.portD = keys.portD /\ keys'.pa0 = keys.pa0
  <2>1. CASE StorePort
    <3>1. Op.ea \notin {\h03, CIR}
      BY <1>1, <2>1 DEF StorePort, Accesses, LeftToHandler
    <3>2. QED
      BY <1>0, <2>1, <3>1, OtherPort DEF StorePort
  <2>2. CASE LoadPort
    BY <2>2 DEF LoadPort
  <2>3. QED
    BY <2>1, <2>2
<1>4. past'.seen \subseteq keys.matrix
  <2>1. CASE StorePort
    BY <2>1 DEF StorePort, KeysHeld
  <2>2. CASE LoadPort
    <3>1. past'.seen = past.seen \cup (Driven(keys) \X Columns(keys))
      BY <1>0, <2>2 DEF LoadPort, Pasts
    <3>2. Driven(keys) \X Columns(keys) \subseteq keys.matrix
      BY SeesPressed DEF TypeOK, KeysHeld
    <3>3. QED
      BY <3>1, <3>2 DEF KeysHeld
  <2>3. QED
    BY <2>1, <2>2
<1>5. Polled' = Polled /\ Typed' = Typed
  BY <1>2, <1>3 DEF Polled, Typed
<1>6. RingHolds'
  BY <1>2, <1>3, <1>5 DEF RingHolds
<1>7. KeysHeld'
  BY <1>2, <1>3, <1>4, <1>5 DEF KeysHeld, StartsLike
<1>8. Handled'
  <2>1. \A k \in 1 .. Len(Tail(cpu.todo)) : ~LeftToHandler(Tail(cpu.todo)[k])
    BY <1>0, <1>1, TailOf DEF Handled
  <2>2. QED
    BY <1>2, <2>1 DEF Handled
<1>9. QED
  BY <1>6, <1>7, <1>8

\* The handler's next access: it has done j of them.
LEMMA HandlerIsNext ==
  ASSUME TypeOK, Handled, cpu.todo # <<>>, NEW j \in 0 .. 14, Under(j)
  PROVE  Op = Handler[j + 1]
<1>1. cpu.todo[1] = Handler[j + 1]
  BY DEF Under
<1>2. QED
  BY <1>1, TailOf DEF TypeOK

\* What is left of it after the access.
LEMMA UnderNext ==
  ASSUME TypeOK, cpu.todo # <<>>, NEW j \in 0 .. 14, Under(j)
  PROVE  /\ Len(Tail(cpu.todo)) >= 15 - (j + 1)
         /\ \A k \in 1 .. 15 - (j + 1) : Tail(cpu.todo)[k] = Handler[(j + 1) + k]
         /\ \A k \in 16 - (j + 1) .. Len(Tail(cpu.todo)) : ~LeftToHandler(Tail(cpu.todo)[k])
<1>1. /\ Len(cpu.todo) \in Nat /\ Len(cpu.todo) > 0
      /\ Len(Tail(cpu.todo)) = Len(cpu.todo) - 1
      /\ \A k \in 1 .. Len(cpu.todo) - 1 : Tail(cpu.todo)[k] = cpu.todo[k + 1]
  BY TailOf DEF TypeOK
<1>2. /\ Len(cpu.todo) >= 15 - j
      /\ \A k \in 1 .. 15 - j : cpu.todo[k] = Handler[j + k]
      /\ \A k \in 16 - j .. Len(cpu.todo) : ~LeftToHandler(cpu.todo[k])
  BY DEF Under
<1>3. ASSUME NEW k \in 1 .. 15 - (j + 1) PROVE Tail(cpu.todo)[k] = Handler[(j + 1) + k]
  <2>1. k + 1 \in 1 .. 15 - j /\ k \in 1 .. Len(cpu.todo) - 1 /\ (j + 1) + k = j + (k + 1)
    BY <1>1, <1>2
  <2>2. QED
    BY <1>1, <1>2, <2>1
<1>4. ASSUME NEW k \in 16 - (j + 1) .. Len(Tail(cpu.todo)) PROVE ~LeftToHandler(Tail(cpu.todo)[k])
  <2>1. k + 1 \in 16 - j .. Len(cpu.todo) /\ k \in 1 .. Len(cpu.todo) - 1
    BY <1>1
  <2>2. QED
    BY <1>1, <1>2, <2>1
<1>5. QED
  BY <1>1, <1>2, <1>3, <1>4

\* The handler has read all rows: it saw the keys of the character, and releases them.
LEMMA ReleaseKeys ==
  ASSUME TypeOK, KeysInv, StorePort, cpu.handling, Under(14)
  PROVE  KeysInv'
<1> USE DEF KeysInv
<1>0. past \in Pasts /\ cpu \in Cpus /\ keys \in KeySets /\ cpu.todo # <<>>
  BY DEF TypeOK, PastOK, KeysOK, CpuOK, StorePort, Accesses
<1>1. Op = Store(CIR, \hBF)
  <2>1. Op = Handler[14 + 1]
    BY <1>0, HandlerIsNext
  <2>2. QED
    BY <2>1, HandlerAccess
<1>2. Op.ea = CIR /\ Clears(Op.ea, Op.data)
  BY <1>1 DEF Store, Clears
<1>3. /\ UNCHANGED <<session, window, keyBuf, keyBufWrite, keyBufRead>>
      /\ cpu'.pc # "press" /\ ~cpu'.handling /\ cpu'.todo = Tail(cpu.todo)
      /\ past'.accepted = past.accepted /\ past'.scanned = Append(past.scanned, past.seen) /\ past'.seen = {}
      /\ keys' = setPort(keys, Op.ea, Op.data)
  BY <1>0, <1>2 DEF StorePort, Cpus, Pasts
<1>4. keys'.matrix = {} /\ ~keys'.pa0 /\ keys'.portD = keys.portD
  BY <1>0, <1>2, <1>3 DEF setPort, KeySets, CIR, EIR
<1>5. keys.pa0 /\ past.seen = past.accepted[Polled]
  <2>1. keys.pa0 /\ keys.matrix = past.accepted[Polled] /\ past.seen \subseteq keys.matrix
    BY DEF Handled, KeysHeld
  <2>2. keys.matrix \subseteq Positions
    BY <1>0 DEF KeySets
  <2>3. \A p \in keys.matrix : p[1] < 7
    BY <2>2 DEF Positions
  <2>4. \A p \in keys.matrix : p \in past.seen
    BY <2>3 DEF Under
  <2>5. QED
    BY <2>1, <2>4
<1>6. /\ Len(past'.scanned) = Len(past.scanned) + 1 /\ past'.scanned[Len(past.scanned) + 1] = past.seen
      /\ \A k \in 1 .. Len(past.scanned) : past'.scanned[k] = past.scanned[k]
  <2>1. past.seen \in SUBSET Matrix
    BY <1>0 DEF Pasts
  <2>2. QED
    BY <1>3, <2>1, Counts, AppendProperties
<1>7. Polled' = Polled /\ Typed' = Typed /\ Polled = Len(past.scanned) + 1
  BY <1>3, <1>4, <1>5, <1>6 DEF Polled, Typed
<1>8. RingHolds'
  BY <1>3, <1>4, <1>7 DEF RingHolds
<1>9. StartsLike(past'.scanned, past.accepted)
  <2>1. Len(past.scanned) + 1 <= Len(past.accepted) /\ Len(past.scanned) \in Nat
    BY <1>7, Counts DEF RingHolds, Typed
  <2>2. ASSUME NEW k \in 1 .. Len(past.scanned) + 1 PROVE past'.scanned[k] = past.accepted[k]
    <3>1. CASE k = Len(past.scanned) + 1
      BY <1>5, <1>6, <1>7, <3>1
    <3>2. CASE k # Len(past.scanned) + 1
      <4>1. k \in 1 .. Len(past.scanned)
        BY <2>1, <3>2
      <4>2. QED
        BY <1>6, <4>1 DEF KeysHeld, StartsLike
    <3>3. QED
      BY <3>1, <3>2
  <2>3. QED
    BY <1>6, <2>1, <2>2 DEF StartsLike
<1>10. KeysHeld'
  BY <1>3, <1>4, <1>9 DEF KeysHeld
<1>11. Handled'
  <2>1. \A k \in 16 - (14 + 1) .. Len(Tail(cpu.todo)) : ~LeftToHandler(Tail(cpu.todo)[k])
    BY <1>0, UnderNext
  <2>2. QED
    BY <1>3, <2>1 DEF Handled
<1>12. QED
  BY <1>8, <1>10, <1>11

\* It drives the next row.
LEMMA DriveKeys ==
  ASSUME TypeOK, KeysInv, StorePort, cpu.handling, NEW j \in 0 .. 13, j % 2 = 0, Under(j)
  PROVE  KeysInv'
<1> USE DEF KeysInv
<1> DEFINE n == (j + 2) \div 2
<1>0. past \in Pasts /\ cpu \in Cpus /\ keys \in KeySets /\ cpu.todo # <<>> /\ j \in 0 .. 14
  BY DEF TypeOK, PastOK, KeysOK, CpuOK, StorePort, Accesses
<1>1. Op = Store(\h03, Bits[n]) /\ n \in 1 .. 8
  <2>1. Op = Handler[j + 1]
    BY <1>0, HandlerIsNext
  <2>2. j < 14
    OBVIOUS
  <2>3. QED
    BY <1>0, <2>1, <2>2, HandlerAccess
<1> HIDE DEF n
<1>2. Op.ea = \h03 /\ Op.data = Bits[n] /\ ~Clears(Op.ea, Op.data)
  BY <1>1 DEF Store, Clears, CIR
<1>3. /\ UNCHANGED <<session, window, keyBuf, keyBufWrite, keyBufRead, past>>
      /\ cpu'.pc # "press" /\ cpu'.handling /\ cpu'.todo = Tail(cpu.todo)
      /\ keys' = [keys EXCEPT !.portD = Bits[n]]
  BY <1>0, <1>2 DEF StorePort, Cpus, setPort
<1>4. keys'.matrix = keys.matrix /\ keys'.pa0 = keys.pa0 /\ keys'.portD = Bits[n]
  BY <1>0, <1>3 DEF KeySets
<1>5. Polled' = Polled /\ Typed' = Typed
  BY <1>3, <1>4 DEF Polled, Typed
<1>6. RingHolds'
  BY <1>3, <1>4, <1>5 DEF RingHolds
<1>7. KeysHeld'
  BY <1>1, <1>3, <1>4, <1>5 DEF KeysHeld, StartsLike
<1>8. Under(j + 1)'
  <2>1. /\ Len(Tail(cpu.todo)) >= 15 - (j + 1)
        /\ \A k \in 1 .. 15 - (j + 1) : Tail(cpu.todo)[k] = Handler[(j + 1) + k]
        /\ \A k \in 16 - (j + 1) .. Len(Tail(cpu.todo)) : ~LeftToHandler(Tail(cpu.todo)[k])
    BY <1>0, UnderNext
  <2>2. ((j + 1) + 1) \div 2 = n /\ (j + 1) \div 2 = j \div 2
    BY DEF n
  <2>3. \A p \in keys.matrix : p[1] < j \div 2 => p \in past.seen
    BY DEF Under
  <2>4. QED
    BY <1>3, <1>4, <2>1, <2>2, <2>3 DEF Under
<1>9. Handled'
  <2>1. j + 1 \in 0 .. 14
    OBVIOUS
  <2>2. QED
    BY <1>3, <1>4, <1>8, <2>1 DEF Handled
<1>10. QED
  BY <1>6, <1>7, <1>9

\* It reads the row it drives, and sees its keys.
LEMMA ReadKeys ==
  ASSUME TypeOK, KeysInv, LoadPort, cpu.handling, NEW j \in 0 .. 13, j % 2 = 1, Under(j)
  PROVE  KeysInv'
<1> USE DEF KeysInv
<1> DEFINE n == (j + 1) \div 2
<1>0. past \in Pasts /\ cpu \in Cpus /\ keys \in KeySets /\ cpu.todo # <<>> /\ j \in 0 .. 14 /\ n \in 1 .. 8
  BY DEF TypeOK, PastOK, KeysOK, CpuOK, LoadPort, Accesses
<1>1. /\ UNCHANGED <<session, window, keyBuf, keyBufWrite, keyBufRead, keys>>
      /\ cpu'.pc # "press" /\ cpu'.handling /\ cpu'.todo = Tail(cpu.todo)
      /\ past'.accepted = past.accepted /\ past'.scanned = past.scanned
      /\ past'.seen = past.seen \cup (Driven(keys) \X Columns(keys))
  BY <1>0 DEF LoadPort, Done, Cpus, Pasts
<1>2. /\ Driven(keys) \X Columns(keys) \subseteq keys.matrix
      /\ keys.portD = Bits[n] => \A p \in keys.matrix : p[1] = n - 1 => p \in Driven(keys) \X Columns(keys)
  BY <1>0, SeesPressed DEF TypeOK, KeysHeld
<1>3. keys.portD = Bits[n] /\ (j + 1) \div 2 = n /\ j \div 2 = n - 1
  BY DEF Under
<1> HIDE DEF n
<1>4. Polled' = Polled /\ Typed' = Typed
  BY <1>1 DEF Polled, Typed
<1>5. RingHolds'
  BY <1>1, <1>4 DEF RingHolds
<1>6. KeysHeld'
  BY <1>1, <1>2, <1>4 DEF KeysHeld, StartsLike
<1>7. Under(j + 1)'
  <2>1. /\ Len(Tail(cpu.todo)) >= 15 - (j + 1)
        /\ \A k \in 1 .. 15 - (j + 1) : Tail(cpu.todo)[k] = Handler[(j + 1) + k]
        /\ \A k \in 16 - (j + 1) .. Len(Tail(cpu.todo)) : ~LeftToHandler(Tail(cpu.todo)[k])
    BY <1>0, UnderNext
  <2>2. (j + 1) % 2 # 1
    OBVIOUS
  <2>3. ASSUME NEW p \in keys.matrix, p[1] < n PROVE p \in past'.seen
    <3>1. p[1] \in Nat
      BY <1>0 DEF KeySets, Positions
    <3>2. CASE p[1] < n - 1
      BY <1>1, <1>3, <3>2 DEF Under
    <3>3. CASE p[1] = n - 1
      BY <1>1, <1>2, <1>3, <3>3
    <3>4. QED
      BY <1>0, <2>3, <3>1, <3>2, <3>3
  <2>4. QED
    BY <1>1, <1>3, <2>1, <2>2, <2>3 DEF Under
<1>8. Handled'
  <2>1. j + 1 \in 0 .. 14
    OBVIOUS
  <2>2. QED
    BY <1>1, <1>7, <2>1 DEF Handled
<1>9. QED
  BY <1>5, <1>6, <1>8

LEMMA PortKeys ==
  ASSUME TypeOK, KeysInv, StorePort \/ LoadPort
  PROVE  KeysInv'
<1>1. CASE ~cpu.handling
  BY <1>1, PlainPortKeys
<1>2. CASE cpu.handling
  <2>1. PICK j \in 0 .. 14 : Under(j)
    BY <1>2 DEF KeysInv, Handled
  <2>2. Op = Handler[j + 1]
    BY <2>1, HandlerIsNext DEF KeysInv, StorePort, LoadPort, Accesses
  <2>3. \A ea, data : Store(ea, data).op = "store" /\ Load(ea).op = "load"
    BY DEF Store, Load
  <2>4. CASE StorePort
    <3>1. Op.op = "store"
      BY <2>4 DEF StorePort, Accesses
    <3>2. j % 2 # 1
      BY <2>2, <2>3, <3>1, HandlerAccess
    <3>3. j % 2 = 0
      BY <3>2
    <3>4. CASE j = 14
      BY <1>2, <2>1, <2>4, <3>4, ReleaseKeys
    <3>5. CASE j # 14
      <4>1. j \in 0 .. 13
        BY <3>5
      <4>2. QED
        BY <1>2, <2>1, <2>4, <3>3, <4>1, DriveKeys
    <3>6. QED
      BY <3>4, <3>5
  <2>5. CASE LoadPort
    <3>1. Op.op = "load"
      BY <2>5 DEF LoadPort, Accesses
    <3>2. j # 14 /\ ~(j < 14 /\ j % 2 = 0)
      BY <2>2, <2>3, <3>1, HandlerAccess
    <3>3. j \in 0 .. 13 /\ j % 2 = 1
      BY <3>2
    <3>4. QED
      BY <1>2, <2>1, <2>5, <3>3, ReadKeys
  <2>6. QED
    BY <2>4, <2>5
<1>3. QED
  BY <1>1, <1>2

-----------------------------------------------------------------------------
(* The end of an instruction.                                              *)

LEMMA RingRead ==
  ASSUME TypeOK, RingHolds, Polled < Typed, Polled' = Polled + 1, Typed' = Typed,
         keyBufRead' = After(keyBufRead), UNCHANGED <<keyBuf, keyBufWrite, window>>,
         past'.accepted = past.accepted, cpu'.pc # "press"
  PROVE  RingHolds'
<1>1. /\ Polled <= Typed /\ Typed - Polled < KEY_BUF_SIZE
      /\ keyBufWrite = Place(keyBufRead, Typed - Polled)
      /\ Polled \in Nat /\ Typed \in Nat /\ KEY_BUF_SIZE \in Nat /\ keyBufRead \in Places
  BY Counts DEF RingHolds
<1>2. ASSUME NEW k \in Nat, k < Typed - Polled
      PROVE  Place(After(keyBufRead), k) = Place(keyBufRead, k + 1)
  <2>1. k \in Places /\ k + 1 \in Places
    BY <1>1, <1>2 DEF Places
  <2>2. QED
    BY <1>1, <2>1, PlaceNext
<1>3. keyBufWrite = Place(After(keyBufRead), Typed - (Polled + 1))
  <2>1. Typed - (Polled + 1) \in Nat /\ (Typed - (Polled + 1)) + 1 = Typed - Polled /\ Typed - (Polled + 1) < Typed - Polled
    BY <1>1
  <2>2. QED
    BY <1>1, <1>2, <2>1
<1>4. ASSUME NEW k \in 0 .. Typed - (Polled + 1) - 1
      PROVE  KeysOf(keyBuf[Place(After(keyBufRead), k)]) = past.accepted[(Polled + 1) + k + 1]
  <2>1. k \in Nat /\ k < Typed - Polled /\ k + 1 \in 0 .. Typed - Polled - 1 /\ (Polled + 1) + k + 1 = Polled + (k + 1) + 1
    BY <1>1
  <2>2. KeysOf(keyBuf[Place(keyBufRead, k + 1)]) = past.accepted[Polled + (k + 1) + 1]
    BY <2>1 DEF RingHolds
  <2>3. QED
    BY <1>2, <2>1, <2>2
<1>5. window.pc \in {"put", "publish"} => Typed - (Polled + 1) < KEY_BUF_SIZE - 1
  BY <1>1
<1>6. window.pc = "publish" => keyBuf[keyBufWrite] = window.ch
  BY DEF RingHolds
<1>7. Polled + 1 <= Typed /\ Typed - (Polled + 1) < KEY_BUF_SIZE
  BY <1>1
<1>8. QED
  BY <1>3, <1>4, <1>5, <1>6, <1>7 DEF RingHolds

\* What the interrupt does to the firmware's program.
LEMMA EndTodo ==
  ASSUME TypeOK, NEW k, NEW scanned, End(k, scanned)
  PROVE  /\ UNCHANGED <<session, window, keyBuf, keyBufWrite>> /\ keys' = k /\ cpu'.pc = "access"
         /\ past'.accepted = past.accepted /\ past'.seen = past.seen /\ past'.scanned = scanned
         /\ irq0Pending(k) /\ ~cpu.handling => cpu'.handling /\ cpu'.todo = Handler \o cpu.todo
         /\ ~(irq0Pending(k) /\ ~cpu.handling) => cpu'.todo = cpu.todo /\ (cpu'.handling <=> cpu.handling)
<1>1. past \in Pasts /\ cpu \in Cpus
  BY DEF TypeOK, PastOK, CpuOK
<1>2. PICK elapsed \in Cycles : past' = [past EXCEPT !.pace = Paced(elapsed), !.scanned = scanned]
  BY DEF End
<1>3. past'.accepted = past.accepted /\ past'.seen = past.seen /\ past'.scanned = scanned
  BY <1>1, <1>2 DEF Pasts
<1>4. UNCHANGED <<session, window, keyBuf, keyBufWrite>> /\ keys' = k
  BY DEF End
<1>5. CASE irq0Pending(k) /\ ~cpu.handling
  <2>1. cpu' = [cpu EXCEPT !.pc = "access", !.taken = NoChar, !.todo = Handler \o @, !.handling = TRUE]
    BY <1>5 DEF End
  <2>2. cpu'.pc = "access" /\ cpu'.handling /\ cpu'.todo = Handler \o cpu.todo
    BY <1>1, <2>1 DEF Cpus
  <2>3. QED
    BY <1>3, <1>4, <1>5, <2>2
<1>6. CASE ~(irq0Pending(k) /\ ~cpu.handling)
  <2>1. cpu' = [cpu EXCEPT !.pc = "access", !.taken = NoChar]
    BY <1>6 DEF End
  <2>2. cpu'.pc = "access" /\ (cpu'.handling <=> cpu.handling) /\ cpu'.todo = cpu.todo
    BY <1>1, <2>1 DEF Cpus
  <2>3. QED
    BY <1>3, <1>4, <1>6, <2>2
<1>7. QED
  BY <1>5, <1>6

\* The handler comes before the rest of the program.
LEMMA HandlerFirst ==
  ASSUME TypeOK
  PROVE  /\ Len(Handler \o cpu.todo) = 15 + Len(cpu.todo) /\ Len(cpu.todo) \in Nat
         /\ \A k \in 1 .. 15 : (Handler \o cpu.todo)[k] = Handler[k]
         /\ \A k \in 16 .. 15 + Len(cpu.todo) :
                k - 15 \in 1 .. Len(cpu.todo) /\ (Handler \o cpu.todo)[k] = cpu.todo[k - 15]
<1>1. cpu.todo \in Seq(Access) /\ Handler \in Seq(Access) /\ Len(Handler) = 15
  BY HandlerType DEF TypeOK, CpuOK, Cpus
<1>2. Len(cpu.todo) \in Nat
  BY <1>1, LenProperties
<1>3. /\ Len(Handler \o cpu.todo) = Len(Handler) + Len(cpu.todo)
      /\ \A k \in 1 .. Len(Handler) + Len(cpu.todo) :
             (Handler \o cpu.todo)[k] = IF k <= Len(Handler) THEN Handler[k] ELSE cpu.todo[k - Len(Handler)]
  BY <1>1, ConcatProperties
<1>4. ASSUME NEW k \in 1 .. 15 PROVE (Handler \o cpu.todo)[k] = Handler[k]
  BY <1>1, <1>2, <1>3
<1>5. ASSUME NEW k \in 16 .. 15 + Len(cpu.todo)
      PROVE  k - 15 \in 1 .. Len(cpu.todo) /\ (Handler \o cpu.todo)[k] = cpu.todo[k - 15]
  BY <1>1, <1>2, <1>3
<1>6. QED
  BY <1>1, <1>2, <1>3, <1>4, <1>5

LEMMA EndHandled ==
  ASSUME TypeOK, Handled, NEW k \in KeySets, NEW scanned, End(k, scanned), k = keys \/ ~cpu.handling
  PROVE  Handled'
<1>1. /\ session' = session /\ keys' = k /\ past'.seen = past.seen
      /\ irq0Pending(k) /\ ~cpu.handling => cpu'.handling /\ cpu'.todo = Handler \o cpu.todo
      /\ ~(irq0Pending(k) /\ ~cpu.handling) => cpu'.todo = cpu.todo /\ (cpu'.handling <=> cpu.handling)
  BY EndTodo
<1>2. CASE irq0Pending(k) /\ ~cpu.handling
  <2>1. \A i \in 1 .. Len(cpu.todo) : ~LeftToHandler(cpu.todo[i])
    BY <1>2 DEF Handled
  <2>2. Under(0)'
    <3>1. Len(cpu'.todo) >= 15 - 0 /\ \A i \in 1 .. 15 - 0 : cpu'.todo[i] = Handler[0 + i]
      BY <1>1, <1>2, HandlerFirst
    <3>2. ASSUME NEW i \in 16 - 0 .. Len(cpu'.todo) PROVE ~LeftToHandler(cpu'.todo[i])
      <4>0. cpu'.todo = Handler \o cpu.todo
        BY <1>1, <1>2
      <4>1. cpu'.todo = Handler \o cpu.todo /\ i \in 16 .. 15 + Len(cpu.todo)
        <5>1. Len(cpu'.todo) = 15 + Len(cpu.todo)
          BY <4>0, HandlerFirst
        <5>2. i \in 16 .. Len(cpu'.todo)
          OBVIOUS
        <5>3. QED
          BY <4>0, <5>1, <5>2
      <4>2. i - 15 \in 1 .. Len(cpu.todo) /\ cpu'.todo[i] = cpu.todo[i - 15]
        BY <4>1, HandlerFirst
      <4>3. QED
        BY <2>1, <4>2
    <3>3. \A p \in k.matrix : ~(p[1] < 0 \div 2)
      BY DEF KeySets, Positions
    <3>4. 0 % 2 # 1
      OBVIOUS
    <3>5. QED
      BY <1>1, <3>1, <3>2, <3>3, <3>4 DEF Under
  <2>3. QED
    BY <1>1, <1>2, <2>2 DEF Handled, irq0Pending
<1>3. CASE ~(irq0Pending(k) /\ ~cpu.handling)
  <2>1. CASE k = keys
    BY <1>1, <1>3, <2>1, HandledSame
  <2>2. CASE ~cpu.handling
    BY <1>1, <1>3, <2>2 DEF Handled
  <2>3. QED
    BY <2>1, <2>2
<1>4. QED
  BY <1>2, <1>3

LEMMA PollNothingKeys == TypeOK /\ KeysInv /\ PollNothing => KeysInv'
<1> SUFFICES ASSUME TypeOK, KeysInv, PollNothing PROVE KeysInv'
  OBVIOUS
<1> USE DEF KeysInv
<1>1. keys \in KeySets /\ End(keys, past.scanned) /\ keyBufRead' = keyBufRead
  BY DEF TypeOK, KeysOK, PollNothing
<1>2. /\ UNCHANGED <<session, window, keyBuf, keyBufWrite>> /\ keys' = keys /\ cpu'.pc = "access"
      /\ past'.accepted = past.accepted /\ past'.seen = past.seen /\ past'.scanned = past.scanned
  BY <1>1, EndTodo
<1>3. QED
  BY <1>1, <1>2, RingSame, KeysSame, EndHandled

LEMMA PollTakeKeys == TypeOK /\ KeysInv /\ PollTake => KeysInv'
<1> SUFFICES ASSUME TypeOK, KeysInv, PollTake PROVE KeysInv'
  OBVIOUS
<1> USE DEF KeysInv
<1>1. /\ cpu'.pc = "press" /\ cpu'.taken = keyBuf[keyBufRead] /\ cpu'.todo = cpu.todo
      /\ (cpu'.handling <=> cpu.handling)
      /\ UNCHANGED <<session, window, keyBuf, keyBufWrite, keyBufRead, keys, past>>
  BY DEF PollTake, TypeOK, CpuOK, Cpus
<1>2. KeysHeld' /\ Handled'
  BY <1>1, KeysSame, HandledSame
<1>3. ~keys.pa0 /\ keyBufRead # keyBufWrite /\ session.l28 /\ session.console
  BY DEF PollTake, Takes, Waiting, Polls
<1>4. Place(keyBufRead, 0) = keyBufRead
  BY Counts DEF Place, Places
<1>5. Polled < Typed
  <2>1. Typed - Polled # 0
    BY <1>3, <1>4 DEF RingHolds
  <2>2. QED
    BY <2>1, Counts DEF RingHolds
<1>6. KeysOf(keyBuf[keyBufRead]) = past.accepted[Polled + 1]
  <2>1. 0 \in 0 .. Typed - Polled - 1 /\ Polled + 0 + 1 = Polled + 1
    BY <1>5, Counts
  <2>2. QED
    BY <1>4, <2>1 DEF RingHolds
<1>7. Polled' = Polled /\ Typed' = Typed
  BY <1>1 DEF Polled, Typed
<1>8. RingHolds'
  BY <1>1, <1>3, <1>5, <1>6, <1>7 DEF RingHolds
<1>9. QED
  BY <1>2, <1>8

LEMMA PollPressKeys == TypeOK /\ KeysInv /\ PollPress => KeysInv'
<1> SUFFICES ASSUME TypeOK, KeysInv, PollPress PROVE KeysInv'
  OBVIOUS
<1> USE DEF KeysInv
<1> DEFINE pressed == KeysOf(cpu.taken)
           k == IF pressed = {} THEN keys
                ELSE [keys EXCEPT !.matrix = @ \cup pressed, !.pa0 = TRUE, !.edge = TRUE]
           scanned == IF pressed = {} THEN Append(past.scanned, {}) ELSE past.scanned
<1>1. /\ ~keys.pa0 /\ Polled < Typed /\ pressed = past.accepted[Polled + 1]
      /\ session.l28 /\ session.console
  BY DEF RingHolds, PollPress
<1>2. pressed \in SUBSET Positions
  BY KeysInMatrix
<1>3. End(k, scanned) /\ keyBufRead' = After(keyBufRead)
  BY DEF PollPress
<1> HIDE DEF pressed
<1>4. keys \in KeySets /\ k \in KeySets
  BY <1>2 DEF TypeOK, KeysOK, KeySets
<1>5. ~cpu.handling
  BY <1>1 DEF Handled
<1>6. keys.matrix = {} /\ past.seen = {}
  BY <1>1 DEF KeysHeld
<1>7. /\ k.portD = keys.portD /\ k.matrix = pressed /\ (k.pa0 <=> pressed # {})
  BY <1>1, <1>4, <1>6 DEF KeySets
<1>8. /\ pressed = {} => /\ Len(scanned) = Len(past.scanned) + 1 /\ scanned[Len(past.scanned) + 1] = {}
                         /\ \A i \in 1 .. Len(past.scanned) : scanned[i] = past.scanned[i]
      /\ pressed # {} => scanned = past.scanned
  <2>1. {} \in SUBSET Matrix
    OBVIOUS
  <2>2. QED
    BY <2>1, Counts, AppendProperties
<1> HIDE DEF k, scanned
<1>9. /\ UNCHANGED <<session, window, keyBuf, keyBufWrite>> /\ keys' = k /\ cpu'.pc = "access"
      /\ past'.accepted = past.accepted /\ past'.seen = past.seen /\ past'.scanned = scanned
  BY <1>3, <1>4, EndTodo
<1>10. Polled = Len(past.scanned) /\ Polled' = Polled + 1 /\ Typed' = Typed
  BY <1>1, <1>7, <1>8, <1>9 DEF Polled, Typed
<1>11. RingHolds'
  BY <1>1, <1>3, <1>9, <1>10, RingRead
<1>12. StartsLike(scanned, past.accepted)
  <2>1. StartsLike(past.scanned, past.accepted)
    BY DEF KeysHeld
  <2>2. CASE pressed # {}
    BY <1>8, <2>1, <2>2
  <2>3. CASE pressed = {}
    <3>1. Len(past.scanned) + 1 <= Len(past.accepted) /\ Len(past.scanned) \in Nat
      BY <1>1, <1>10, Counts DEF Typed
    <3>2. \A i \in 1 .. Len(past.scanned) + 1 : i = Len(past.scanned) + 1 \/ i \in 1 .. Len(past.scanned)
      BY <3>1
    <3>3. QED
      BY <1>1, <1>8, <1>10, <2>1, <2>3, <3>1, <3>2 DEF StartsLike
  <2>4. QED
    BY <2>2, <2>3
<1>13. KeysHeld'
  BY <1>1, <1>6, <1>7, <1>9, <1>10, <1>12 DEF KeysHeld
<1>14. Handled'
  BY <1>3, <1>4, <1>5, EndHandled
<1>15. QED
  BY <1>11, <1>13, <1>14

\* At first nothing is typed or pressed; the firmware leaves the keys to its handler.
LEMMA InitKeys == ASSUME Init, LeavesKeysToHandler PROVE KeysInv
<1> USE DEF Init
<1>1. Polled = 0 /\ Typed = 0 /\ Place(0, 0) = 0
  BY SessionAssumption DEF Polled, Typed, Place
<1>2. RingHolds
  BY <1>1, SessionAssumption DEF RingHolds
<1>3. KeysHeld
  BY DEF KeysHeld, StartsLike
<1>4. Handled
  BY DEF Handled, LeavesKeysToHandler
<1>5. QED
  BY <1>2, <1>3, <1>4 DEF KeysInv

LEMMA NextKeys == TypeOK /\ KeysInv /\ [Next]_vars => KeysInv'
<1> SUFFICES ASSUME TypeOK, KeysInv, [Next]_vars PROVE KeysInv'
  OBVIOUS
<1>1. CASE UNCHANGED vars
  <2>1. Polled' = Polled /\ Typed' = Typed
    BY <1>1 DEF vars, Polled, Typed
  <2>2. RingHolds'
    BY <1>1, <2>1 DEF KeysInv, RingHolds, vars
  <2>3. KeysHeld' /\ Handled'
    BY <1>1, KeysSame, HandledSame DEF KeysInv, vars
  <2>4. QED
    BY <2>2, <2>3 DEF KeysInv
<1>2. CASE Window
  BY <1>2, WindowKeys, LookForRoomKeys, PutCharKeys, PublishKeys DEF Window
<1>3. CASE Processor
  BY <1>3, RestKeys, PortKeys, OtherAccessKeys, PollNothingKeys, PollTakeKeys, PollPressKeys
     DEF Processor, OtherDevice
<1>4. QED
  BY <1>1, <1>2, <1>3 DEF Next

-----------------------------------------------------------------------------
(* What is typed at the terminal: the receiver.                            *)

\* The receiver's byte, if there is one; and every byte typed is received, there or
\* still to come, unless a reset forgot one.
Held(s) == IF s.full THEN <<s.data>> ELSE <<>>
Balanced == past.lost \/ past.sent = past.received \o Held(serial) \o serial.stdin

\* A byte is taken only right after it has been awaited: what comes first takes a
\* byte only if there is one.
Awaited ==
    \A k \in 1 .. Len(cpu.todo) :
        TakesByte(session.l28, cpu.todo[k]) =>
            IF k = 1 THEN serial.full ELSE AwaitsByte(session.l28, cpu.todo[k - 1])
Pieces ==
    \A piece \in session.programs : \A k \in 1 .. Len(piece) :
        TakesByte(session.l28, piece[k]) => k > 1 /\ AwaitsByte(session.l28, piece[k - 1])
SerialInv == (serial.full => ~session.console) /\ Awaited /\ Pieces /\ Balanced

\* Which accesses take a byte, and which await one.
LEMMA SerialAccess ==
  ASSUME TypeOK, NEW op \in Access
  PROVE  /\ AwaitsByte(session.l28, op) =>
                Device(op.ea) = "serial" /\ SerialRegister(op.ea) = "status" /\ op.op = "await"
         /\ TakesByte(session.l28, op) <=>
                op.op # "store" /\ Device(op.ea) = "serial" /\ SerialRegister(op.ea) = "data"
<1>1. op.ea \in Nat /\ session.l28 \in BOOLEAN
  BY DEF Access, TypeOK, SessionOK
<1>2. CASE session.l28
  <2>1. Device(op.ea) = "serial" <=> op.ea \in \h38 .. \h3F
    <3>1. \A b : Selected(b) # "serial"
      BY DEF Selected
    <3>2. QED
      BY <1>1, <1>2, <3>1 DEF Device
  <2>2. op.ea \in \h38 .. \h3F => /\ op.ea % 8 = op.ea - \h38
                                  /\ SerialRegister(op.ea) = IF op.ea = \h38 THEN "data"
                                                             ELSE IF op.ea = \h3C THEN "status" ELSE "other"
    BY <1>1, <1>2 DEF SerialRegister
  <2>3. QED
    BY <1>1, <1>2, <2>1, <2>2 DEF AwaitsByte, TakesByte
<1>3. CASE ~session.l28
  <2>1. Device(op.ea) = "serial" <=> op.ea \in \hC000 .. \hC00F
    BY <1>1, <1>3 DEF Device
  <2>2. op.ea \in \hC000 .. \hC00F =>
            /\ op.ea % 4 = 0 <=> op.ea \in {\hC000, \hC004, \hC008, \hC00C}
            /\ op.ea % 4 = 1 <=> op.ea \in {\hC001, \hC005, \hC009, \hC00D}
    BY <1>1
  <2>3. SerialRegister(op.ea) = IF op.ea % 4 = 0 THEN "data" ELSE IF op.ea % 4 = 1 THEN "status" ELSE "other"
    BY <1>3 DEF SerialRegister
  <2>4. \A x \in {\hC000, \hC004, \hC008, \hC00C, \hC001, \hC005, \hC009, \hC00D} : x \in \hC000 .. \hC00F
    OBVIOUS
  <2>5. AwaitsByte(session.l28, op) <=> op.op = "await" /\ op.ea \in {\hC001, \hC005, \hC009, \hC00D}
    BY <1>3 DEF AwaitsByte
  <2>6. TakesByte(session.l28, op) <=> op.op # "store" /\ op.ea \in {\hC000, \hC004, \hC008, \hC00C}
    BY <1>3 DEF TakesByte
  <2>7. QED
    BY <2>1, <2>2, <2>3, <2>4, <2>5, <2>6
<1>4. QED
  BY <1>1, <1>2, <1>3

\* After an access that leaves a byte in the receiver if it awaited one.
LEMMA AwaitedTail ==
  ASSUME TypeOK, Awaited, cpu.todo # <<>>, cpu'.todo = Tail(cpu.todo), session'.l28 = session.l28,
         AwaitsByte(session.l28, Op) => serial'.full
  PROVE  Awaited'
<1>1. /\ Len(cpu.todo) \in Nat /\ Op = cpu.todo[1] /\ Len(Tail(cpu.todo)) = Len(cpu.todo) - 1
      /\ \A k \in 1 .. Len(cpu.todo) - 1 : Tail(cpu.todo)[k] = cpu.todo[k + 1]
  BY TailOf DEF TypeOK
<1>2. ASSUME NEW k \in 1 .. Len(cpu.todo) - 1, TakesByte(session.l28, Tail(cpu.todo)[k])
      PROVE  IF k = 1 THEN serial'.full ELSE AwaitsByte(session.l28, Tail(cpu.todo)[k - 1])
  <2>1. k + 1 \in 1 .. Len(cpu.todo) /\ k + 1 # 1 /\ (k + 1) - 1 = k /\ Tail(cpu.todo)[k] = cpu.todo[k + 1]
    BY <1>1
  <2>2. AwaitsByte(session.l28, cpu.todo[k])
    BY <1>2, <2>1 DEF Awaited
  <2>3. CASE k = 1
    BY <1>1, <2>2, <2>3
  <2>4. CASE k # 1
    <3>1. k - 1 \in 1 .. Len(cpu.todo) - 1 /\ (k - 1) + 1 = k
      BY <1>1, <2>4
    <3>2. Tail(cpu.todo)[k - 1] = cpu.todo[k]
      BY <1>1, <3>1
    <3>3. QED
      BY <2>2, <2>4, <3>2
  <2>5. QED
    BY <2>3, <2>4
<1>3. QED
  BY <1>1, <1>2 DEF Awaited

\* A step that leaves the receiver and the program alone.
LEMMA SerialSame ==
  ASSUME SerialInv, serial' = serial, cpu'.todo = cpu.todo, session'.l28 = session.l28,
         session'.console = session.console, session'.programs = session.programs,
         past'.lost <=> past.lost, past'.sent = past.sent, past'.received = past.received
  PROVE  SerialInv'
  BY DEF SerialInv, Awaited, Pieces, Balanced

\* An access to another device.
LEMMA SerialElsewhere ==
  ASSUME TypeOK, SerialInv, serial' = serial, cpu.todo # <<>>, cpu'.todo = Tail(cpu.todo),
         Device(Op.ea) # "serial", session' = session,
         past'.lost <=> past.lost, past'.sent = past.sent, past'.received = past.received
  PROVE  SerialInv'
<1>1. ~AwaitsByte(session.l28, Op)
  BY SerialAccess, OpType DEF TypeOK
<1>2. Awaited'
  BY <1>1, AwaitedTail DEF SerialInv
<1>3. QED
  BY <1>2 DEF SerialInv, Pieces, Balanced

LEMMA SerialTypes ==
  ASSUME TypeOK
  PROVE  /\ past.sent \in Seq(Nat) /\ past.received \in Seq(Nat) /\ past.lost \in BOOLEAN
         /\ serial.stdin \in Seq(Nat) /\ serial.data \in Nat /\ serial.full \in BOOLEAN
         /\ Held(serial) \in Seq(Nat) /\ past \in Pasts /\ cpu \in Cpus /\ serial \in Serials
<1>1. past \in Pasts /\ cpu \in Cpus /\ serial \in Serials
  BY DEF TypeOK, PastOK, CpuOK, SerialOK, Serials
<1>2. serial.data \in Nat /\ serial.full \in BOOLEAN
  BY <1>1 DEF Serials
<1>3. <<serial.data>> \in Seq(Nat) /\ <<>> \in Seq(Nat)
  BY <1>2
<1>4. QED
  BY <1>1, <1>2, <1>3 DEF Pasts, Serials, Held

LEMMA TypeByteSerial == TypeOK /\ SerialInv /\ TypeByte => SerialInv'
<1> SUFFICES ASSUME TypeOK, SerialInv, TypeByte PROVE SerialInv'
  OBVIOUS
<1> DEFINE b == session.bytes
<1>0. session \in [l28 : BOOLEAN, console : BOOLEAN, programs : SUBSET Seq(Access),
                   events : SUBSET Events, pieces : Nat, keys : Nat, bytes : Nat]
  BY DEF TypeOK, SessionOK
<1>1. b \in Nat
  BY <1>0
<1>2. /\ session'.l28 = session.l28 /\ session'.console = session.console /\ session'.programs = session.programs
      /\ cpu' = cpu
  BY <1>0 DEF TypeByte
<1>3. serial'.full = serial.full /\ serial'.data = serial.data /\ serial'.stdin = Append(serial.stdin, b)
  BY SerialTypes DEF TypeByte, Serials
<1>4. past'.lost = past.lost /\ past'.received = past.received /\ past'.sent = Append(past.sent, b)
  BY SerialTypes DEF TypeByte, Pasts
<1> HIDE DEF b
<1>5. ASSUME past.sent = past.received \o Held(serial) \o serial.stdin
      PROVE  Append(past.sent, b) = past.received \o Held(serial) \o Append(serial.stdin, b)
  <2>1. <<b>> \in Seq(Nat) /\ past.received \o Held(serial) \in Seq(Nat)
    BY <1>1, SerialTypes, ConcatProperties
  <2>2. Append(past.sent, b) = past.sent \o <<b>> /\ Append(serial.stdin, b) = serial.stdin \o <<b>>
    BY <1>1, SerialTypes, AppendIsConcat
  <2>3. (past.received \o Held(serial) \o serial.stdin) \o <<b>>
            = past.received \o Held(serial) \o (serial.stdin \o <<b>>)
    <3>1. \A t, u, w \in Seq(Nat) : (t \o u) \o w = t \o (u \o w)
      BY ConcatAssociative
    <3>2. QED
      BY <2>1, <3>1, SerialTypes
  <2>4. QED
    BY <1>5, <2>2, <2>3
<1>6. Held(serial)' = Held(serial)
  BY <1>3 DEF Held
<1>7. Balanced'
  BY <1>3, <1>4, <1>5, <1>6 DEF SerialInv, Balanced
<1>8. Awaited' /\ Pieces'
  BY <1>2, <1>3 DEF SerialInv, Awaited, Pieces
<1>9. QED
  BY <1>2, <1>3, <1>7, <1>8 DEF SerialInv

LEMMA BeginSerial == ASSUME TypeOK, SerialInv, NEW piece \in session.programs, Begin(piece) PROVE SerialInv'
<1>0. session \in [l28 : BOOLEAN, console : BOOLEAN, programs : SUBSET Seq(Access),
                   events : SUBSET Events, pieces : Nat, keys : Nat, bytes : Nat]
  BY DEF TypeOK, SessionOK
<1>1. /\ session'.l28 = session.l28 /\ session'.console = session.console /\ session'.programs = session.programs
      /\ cpu'.todo = piece /\ serial' = serial /\ past' = past
  BY <1>0, SerialTypes DEF Begin, Cpus
<1>2. ASSUME NEW k \in 1 .. Len(piece), TakesByte(session.l28, piece[k])
      PROVE  k > 1 /\ AwaitsByte(session.l28, piece[k - 1])
  BY <1>2 DEF SerialInv, Pieces
<1>3. Awaited'
  BY <1>1, <1>2 DEF Awaited
<1>4. QED
  BY <1>1, <1>3 DEF SerialInv, Pieces, Balanced

\* What a look at the receiver does to it: at most a byte moves into it.
LEMMA statusMoves ==
  ASSUME TypeOK, NEW s, s = status(serial)
  PROVE  /\ s.full \in BOOLEAN /\ s.data \in Nat /\ s.stdin \in Seq(Nat)
         /\ Held(s) \o s.stdin = Held(serial) \o serial.stdin
         /\ Held(s) \in Seq(Nat)
         /\ serial.full => s = serial
         /\ s.full => serial.full \/ ~session.console
<1>1. s \in Serials
  BY statusType DEF TypeOK
<1>2. s.full \in BOOLEAN /\ s.data \in Nat /\ s.stdin \in Seq(Nat)
  BY <1>1 DEF Serials
<1>3. CASE serial.full \/ session.console \/ serial.stdin = <<>>
  <2>1. s = serial
    BY <1>3 DEF status
  <2>2. QED
    BY <1>2, <1>3, <2>1, SerialTypes
<1>4. CASE ~(serial.full \/ session.console \/ serial.stdin = <<>>)
  <2>1. s = [full |-> TRUE, data |-> Head(serial.stdin), stdin |-> Tail(serial.stdin)]
    BY <1>4 DEF status
  <2>2. s.full /\ s.data = Head(serial.stdin) /\ s.stdin = Tail(serial.stdin)
    BY <2>1
  <2>3. Held(s) = <<Head(serial.stdin)>> /\ Held(serial) = <<>>
    BY <1>4, <2>2 DEF Held
  <2>4. <<Head(serial.stdin)>> \o Tail(serial.stdin) = serial.stdin
    BY <1>4, SerialTypes
  <2>5. <<>> \o serial.stdin = serial.stdin
    BY SerialTypes, ConcatEmptySeq
  <2>6. <<Head(serial.stdin)>> \in Seq(Nat)
    BY <1>2, <2>2
  <2>7. QED
    BY <1>2, <1>4, <2>2, <2>3, <2>4, <2>5, <2>6
<1>5. QED
  BY <1>3, <1>4

LEMMA LoadSerialKeeps == TypeOK /\ SerialInv /\ LoadSerial => SerialInv'
<1> SUFFICES ASSUME TypeOK, SerialInv, LoadSerial PROVE SerialInv'
  OBVIOUS
<1> DEFINE s == status(serial)
           reg == SerialRegister(Op.ea)
           stays == Op.op = "await" /\ ~s.full
<1>1. /\ session' = session /\ cpu.todo # <<>> /\ Op.op # "store" /\ Device(Op.ea) = "serial"
      /\ serial' = IF reg = "status" THEN s ELSE IF reg = "data" THEN [s EXCEPT !.full = FALSE] ELSE serial
      /\ past' = IF reg = "data" THEN [past EXCEPT !.received = Append(@, s.data)] ELSE past
      /\ cpu'.todo = IF stays THEN cpu.todo ELSE Tail(cpu.todo)
  BY SerialTypes DEF LoadSerial, Accesses, Cpus
<1>2. Op \in Access /\ Op = cpu.todo[1] /\ Len(cpu.todo) \in Nat /\ Len(cpu.todo) > 0
  BY <1>1, OpType, TailOf DEF TypeOK
<1>3. /\ AwaitsByte(session.l28, Op) => reg = "status" /\ Op.op = "await"
      /\ TakesByte(session.l28, Op) <=> reg = "data"
  BY <1>1, <1>2, SerialAccess
<1>4. TakesByte(session.l28, Op) => serial.full
  <2>1. 1 \in 1 .. Len(cpu.todo)
    BY <1>2
  <2>2. QED
    BY <1>2, <2>1 DEF SerialInv, Awaited
<1>5. /\ s.full \in BOOLEAN /\ s.data \in Nat /\ s.stdin \in Seq(Nat)
      /\ Held(s) \o s.stdin = Held(serial) \o serial.stdin /\ Held(s) \in Seq(Nat)
      /\ serial.full => s = serial
      /\ s.full => serial.full \/ ~session.console
  BY statusMoves
<1>6. s \in Serials
  BY statusType DEF TypeOK
<1> HIDE DEF s, reg
<1>7. serial'.full => ~session.console
  BY <1>1, <1>5, <1>6 DEF SerialInv, Serials
<1>8. Awaited'
  <2>1. CASE stays
    <3>1. ~serial.full /\ reg # "data"
      BY <1>3, <1>4, <1>5, <2>1
    <3>2. cpu'.todo = cpu.todo /\ (serial.full <=> FALSE)
      BY <1>1, <2>1, <3>1
    <3>3. ~TakesByte(session.l28, cpu.todo[1])
      BY <1>2, <1>3, <3>1
    <3>4. QED
      BY <1>1, <3>2, <3>3 DEF SerialInv, Awaited
  <2>2. CASE ~stays
    <3>1. AwaitsByte(session.l28, Op) => serial'.full
      BY <1>1, <1>3, <2>2
    <3>2. QED
      BY <1>1, <2>2, <3>1, AwaitedTail DEF SerialInv
  <2>3. QED
    BY <2>1, <2>2
<1>9. Balanced'
  <2>0. \A t, u, w \in Seq(Nat) : (t \o u) \o w = t \o (u \o w)
    BY ConcatAssociative
  <2>1. CASE reg = "status"
    <3>1. serial' = s /\ past' = past
      BY <1>1, <2>1
    <3>2. past.received \o Held(s) \o s.stdin = past.received \o Held(serial) \o serial.stdin
      <4>1. past.received \o Held(s) \o s.stdin = past.received \o (Held(s) \o s.stdin)
        BY <1>5, <2>0, SerialTypes
      <4>2. past.received \o Held(serial) \o serial.stdin = past.received \o (Held(serial) \o serial.stdin)
        BY <2>0, SerialTypes
      <4>3. QED
        BY <1>5, <4>1, <4>2
    <3>3. Held(serial)' = Held(s)
      BY <3>1 DEF Held
    <3>4. QED
      BY <3>1, <3>2, <3>3 DEF SerialInv, Balanced
  <2>2. CASE reg = "data"
    <3>1. serial.full /\ s = serial
      BY <1>3, <1>4, <1>5, <2>2
    <3>2. ~serial'.full /\ serial'.stdin = serial.stdin
      BY <1>1, <1>6, <2>2, <3>1 DEF Serials
    <3>3. past'.lost = past.lost /\ past'.sent = past.sent /\ past'.received = Append(past.received, serial.data)
      BY <1>1, <2>2, <3>1, SerialTypes DEF Pasts
    <3>4. Held(serial) = <<serial.data>> /\ Held(serial)' = <<>>
      BY <3>1, <3>2 DEF Held
    <3>5. Append(past.received, serial.data) = past.received \o <<serial.data>>
      BY SerialTypes, AppendIsConcat
    <3>6. Append(past.received, serial.data) \o <<>> = Append(past.received, serial.data)
      BY SerialTypes, AppendProperties, ConcatEmptySeq
    <3>7. past'.received \o Held(serial)' \o serial'.stdin = past.received \o Held(serial) \o serial.stdin
      BY <3>2, <3>3, <3>4, <3>5, <3>6
    <3>8. QED
      BY <3>3, <3>7 DEF SerialInv, Balanced
  <2>3. CASE reg \notin {"status", "data"}
    <3>1. serial' = serial /\ past' = past
      BY <1>1, <2>3
    <3>2. QED
      BY <3>1 DEF SerialInv, Balanced, Held
  <2>4. QED
    BY <2>1, <2>2, <2>3
<1>10. QED
  BY <1>1, <1>7, <1>8, <1>9 DEF SerialInv, Pieces

LEMMA StoreSerialKeeps == TypeOK /\ SerialInv /\ StoreSerial => SerialInv'
<1> SUFFICES ASSUME TypeOK, SerialInv, StoreSerial PROVE SerialInv'
  OBVIOUS
<1> DEFINE reset == ~session.l28 /\ SerialRegister(Op.ea) = "status"
<1>1. /\ session' = session /\ cpu.todo # <<>> /\ Op.op = "store" /\ cpu'.todo = Tail(cpu.todo)
      /\ serial' = IF reset THEN [serial EXCEPT !.full = FALSE] ELSE serial
      /\ past' = [past EXCEPT !.lost = @ \/ (reset /\ serial.full)]
  BY SerialTypes DEF StoreSerial, Accesses, Done, Cpus
<1> HIDE DEF reset
<1>2. ~AwaitsByte(session.l28, Op)
  BY <1>1 DEF AwaitsByte
<1>3. Awaited'
  BY <1>1, <1>2, AwaitedTail DEF SerialInv
<1>4. CASE reset /\ serial.full
  <2>1. past'.lost /\ ~serial'.full
    BY <1>1, <1>4, SerialTypes DEF Pasts, Serials
  <2>2. QED
    BY <1>1, <1>3, <2>1 DEF SerialInv, Pieces, Balanced
<1>5. CASE ~(reset /\ serial.full)
  <2>1. serial' = serial
    BY <1>1, <1>5, SerialTypes DEF Serials
  <2>2. past'.sent = past.sent /\ past'.received = past.received
    BY <1>1, SerialTypes DEF Pasts
  <2>3. past'.lost = (past.lost \/ (reset /\ serial.full))
    BY <1>1, SerialTypes DEF Pasts
  <2>4. past'.lost <=> past.lost
    BY <1>5, <2>3, Zenon
  <2>5. QED
    BY <1>1, <1>3, <2>1, <2>2, <2>4 DEF SerialInv, Pieces, Balanced, Held
<1>6. QED
  BY <1>4, <1>5

\* The handler is called only on the console's session, where no byte is received.
LEMMA EndSerial ==
  ASSUME TypeOK, SerialInv, NEW k, NEW scanned, End(k, scanned), k.pa0 => session.console
  PROVE  SerialInv'
<1>1. /\ session' = session
      /\ irq0Pending(k) /\ ~cpu.handling => cpu'.handling /\ cpu'.todo = Handler \o cpu.todo
      /\ ~(irq0Pending(k) /\ ~cpu.handling) => cpu'.todo = cpu.todo
  BY EndTodo
<1>2. serial' = serial /\ past'.lost = past.lost /\ past'.sent = past.sent /\ past'.received = past.received
  BY SerialTypes DEF End, Pasts
<1>3. CASE ~(irq0Pending(k) /\ ~cpu.handling)
  BY <1>1, <1>2, <1>3, SerialSame
<1>4. CASE irq0Pending(k) /\ ~cpu.handling
  <2>1. cpu'.todo = Handler \o cpu.todo /\ ~serial.full
    BY <1>1, <1>4 DEF irq0Pending, SerialInv
  <2>2. ASSUME NEW i \in 1 .. Len(Handler \o cpu.todo), TakesByte(session.l28, (Handler \o cpu.todo)[i])
        PROVE  i # 1 /\ AwaitsByte(session.l28, (Handler \o cpu.todo)[i - 1])
    <3>1. i \notin 1 .. 15
      <4>1. SUFFICES ASSUME i \in 1 .. 15 PROVE FALSE
        OBVIOUS
      <4>2. i - 1 \in 0 .. 14 /\ (i - 1) + 1 = i
        BY <4>1
      <4>3. Handler[i].ea \in {\h02, \h03, CIR}
        BY <4>2, HandlerAccess
      <4>4. (Handler \o cpu.todo)[i] = Handler[i]
        BY <4>1, HandlerFirst
      <4>5. QED
        BY <2>2, <4>3, <4>4 DEF TakesByte, CIR
    <3>2. i \in 16 .. 15 + Len(cpu.todo) /\ Len(cpu.todo) \in Nat
      BY <3>1, HandlerFirst
    <3>3. i - 15 \in 1 .. Len(cpu.todo) /\ (Handler \o cpu.todo)[i] = cpu.todo[i - 15]
      BY <3>2, HandlerFirst
    <3>4. IF i - 15 = 1 THEN serial.full ELSE AwaitsByte(session.l28, cpu.todo[(i - 15) - 1])
      BY <2>2, <3>3 DEF SerialInv, Awaited
    <3>5. i # 16 /\ AwaitsByte(session.l28, cpu.todo[(i - 15) - 1])
      BY <2>1, <3>2, <3>4
    <3>6. i - 1 \in 16 .. 15 + Len(cpu.todo) /\ (i - 1) - 15 = (i - 15) - 1
      BY <3>2, <3>5
    <3>7. (Handler \o cpu.todo)[i - 1] = cpu.todo[(i - 1) - 15]
      BY <3>6, HandlerFirst
    <3>8. QED
      BY <3>2, <3>5, <3>6, <3>7
  <2>3. Awaited'
    BY <1>1, <2>1, <2>2 DEF Awaited
  <2>4. QED
    BY <1>1, <1>2, <2>3 DEF SerialInv, Pieces, Balanced, Held
<1>5. QED
  BY <1>3, <1>4

LEMMA NextSerial == TypeOK /\ KeysInv /\ SerialInv /\ [Next]_vars => SerialInv'
<1> SUFFICES ASSUME TypeOK, KeysInv, SerialInv, [Next]_vars PROVE SerialInv'
  OBVIOUS
<1>1. CASE UNCHANGED vars
  BY <1>1, SerialSame DEF vars
<1>2. CASE Window
  <2>1. CASE TypeByte
    BY <2>1, TypeByteSerial
  <2>2. CASE \E event \in session.events : Type(event)
    <3>1. /\ session'.l28 = session.l28 /\ session'.console = session.console
          /\ session'.programs = session.programs
      BY <2>2 DEF Type, TypeOK, SessionOK
    <3>2. serial' = serial /\ cpu' = cpu /\ past' = past
      BY <2>2 DEF Type
    <3>3. QED
      BY <3>1, <3>2, SerialSame
  <2>3. CASE Publish
    <3>1. past'.lost = past.lost /\ past'.sent = past.sent /\ past'.received = past.received
      BY <2>3, SerialTypes DEF Publish, Pasts
    <3>2. serial' = serial /\ cpu' = cpu /\ session' = session
      BY <2>3 DEF Publish
    <3>3. QED
      BY <3>1, <3>2, SerialSame
  <2>4. CASE LookForRoom \/ PutChar \/ Refresh \/ StartDrawing \/ DrawRow
    <3>1. serial' = serial /\ cpu' = cpu /\ session' = session /\ past' = past
      BY <2>4 DEF LookForRoom, PutChar, Refresh, StartDrawing, DrawRow, ShowRow
    <3>2. QED
      BY <3>1, SerialSame
  <2>5. QED
    BY <1>2, <2>1, <2>2, <2>3, <2>4 DEF Window
<1>3. CASE Processor
  <2>1. CASE \E piece \in session.programs : Begin(piece)
    BY <2>1, BeginSerial
  <2>2. CASE LoadSerial \/ StoreSerial
    BY <2>2, LoadSerialKeeps, StoreSerialKeeps
  <2>3. CASE Idle \/ TellWindow \/ PollTake
    <3>1. serial' = serial /\ session' = session
      BY <2>3 DEF Idle, TellWindow, PollTake
    <3>2. cpu'.todo = cpu.todo
      BY <2>3, SerialTypes DEF Idle, TellWindow, PollTake, Cpus
    <3>3. past'.lost = past.lost /\ past'.sent = past.sent /\ past'.received = past.received
      BY <2>3, SerialTypes DEF Idle, TellWindow, PollTake, Pasts
    <3>4. QED
      BY <3>1, <3>2, <3>3, SerialSame
  <2>4. CASE PollNothing
    BY <2>4, EndSerial DEF PollNothing, KeysInv, KeysHeld
  <2>5. CASE PollPress
    <3>1. session.console
      BY <2>5 DEF PollPress, KeysInv, RingHolds
    <3>2. \E k, scanned : End(k, scanned)
      BY <2>5 DEF PollPress
    <3>3. QED
      BY <3>1, <3>2, EndSerial
  <2>6. CASE StorePort \/ LoadPort \/ StoreBSR \/ StoreFlash \/ StoreLCD \/ LoadLCD \/ StoreVIA \/ LoadVIA \/ Elsewhere
    <3>1. serial' = serial /\ session' = session /\ cpu.todo # <<>>
      BY <2>6 DEF StorePort, LoadPort, StoreBSR, StoreFlash, StoreLCD, LoadLCD, StoreVIA, LoadVIA, Elsewhere, Accesses
    <3>2. Device(Op.ea) # "serial"
      BY <2>6 DEF StorePort, LoadPort, StoreBSR, StoreFlash, StoreLCD, LoadLCD, StoreVIA, LoadVIA, Elsewhere,
                  Accesses, Chips
    <3>3. cpu'.todo = Tail(cpu.todo)
      <4>1. CASE StorePort
        BY <4>1, SerialTypes DEF StorePort, Cpus
      <4>2. CASE StoreLCD
        BY <4>2, SerialTypes DEF StoreLCD, Cpus
      <4>3. CASE LoadPort \/ StoreBSR \/ StoreFlash \/ LoadLCD \/ StoreVIA \/ LoadVIA \/ Elsewhere
        <5>1. Done
          BY <4>3 DEF LoadPort, StoreBSR, StoreFlash, LoadLCD, StoreVIA, LoadVIA, Elsewhere
        <5>2. QED
          BY <5>1, SerialTypes DEF Done, Cpus
      <4>4. QED
        BY <2>6, <4>1, <4>2, <4>3
    <3>4. past'.lost = past.lost /\ past'.sent = past.sent /\ past'.received = past.received
      <4>1. CASE StorePort
        BY <4>1, SerialTypes DEF StorePort, Pasts
      <4>2. CASE LoadPort
        BY <4>2, SerialTypes DEF LoadPort, Pasts
      <4>3. CASE StoreFlash
        BY <4>3, SerialTypes DEF StoreFlash, Pasts
      <4>4. CASE StoreLCD
        BY <4>4, SerialTypes DEF StoreLCD, Pasts
      <4>5. CASE StoreVIA
        BY <4>5, SerialTypes DEF StoreVIA, Pasts
      <4>6. CASE StoreBSR \/ LoadLCD \/ LoadVIA \/ Elsewhere
        BY <4>6 DEF StoreBSR, LoadLCD, LoadVIA, Elsewhere
      <4>7. QED
        BY <2>6, <4>1, <4>2, <4>3, <4>4, <4>5, <4>6
    <3>5. QED
      BY <3>1, <3>2, <3>3, <3>4, SerialElsewhere
  <2>7. QED
    BY <1>3, <2>1, <2>2, <2>3, <2>4, <2>5, <2>6 DEF Processor
<1>4. QED
  BY <1>1, <1>2, <1>3 DEF Next

LEMMA InitSerial == ASSUME Init, WaitsForBytes PROVE SerialInv
<1> USE DEF Init
<1>1. Pieces
  BY DEF Pieces, WaitsForBytes
<1>2. Balanced
  BY DEF Balanced, Held
<1>3. Awaited
  BY DEF Awaited
<1>4. QED
  BY <1>1, <1>2, <1>3 DEF SerialInv

-----------------------------------------------------------------------------
\* Every character the ring accepts is scanned once, in its order, with its own keys
\* (injectChar, pollKeyboard, the handler), and every byte of the terminal is received
\* once, in its order (status, getByte), when the firmware leaves the keys to its
\* handler and takes a byte where it has awaited one.
THEOREM InputAlwaysArrives ==
  ASSUME LeavesKeysToHandler, WaitsForBytes
  PROVE  Spec => []InputArrives
<1>1. Init => KeysInv /\ SerialInv
  BY InitKeys, InitSerial
<1>2. TypeOK /\ (KeysInv /\ SerialInv) /\ [Next]_vars => (KeysInv /\ SerialInv)'
  BY NextKeys, NextSerial
<1>3. TypeOK /\ KeysInv /\ SerialInv => InputArrives
  <2> SUFFICES ASSUME TypeOK, KeysInv, SerialInv PROVE InputArrives
    OBVIOUS
  <2>1. IsPrefix(past.scanned, past.accepted)
    <3>1. StartsLike(past.scanned, past.accepted)
      BY DEF KeysInv, KeysHeld
    <3>2. QED
      BY <3>1, Counts, PrefixIsStart
  <2>2. Balanced
    BY DEF SerialInv
  <2>3. QED
    BY <2>1, <2>2 DEF InputArrives, Balanced, Held
<1>4. QED
  BY <1>1, <1>2, <1>3, TypesStay, PTL DEF Spec
=============================================================================
