---------------------------- MODULE L28Handheld ----------------------------
(***************************************************************************)
(* The L28 handheld as em16 runs it on two threads: the processor, whose   *)
(* loads and stores go to the devices (em16/include/mem816.h) and which    *)
(* polls the keyboard and ticks the VIA after every instruction (step_l28  *)
(* of emu816.cpp); and the window, which takes keys and draws the panel    *)
(* (em16/src/LCD_ST7586S.mm).  They share the key ring and the display     *)
(* without a lock, so every access to those is a step of its own.          *)
(*                                                                         *)
(* The firmware is not in the repository.  It is taken to run one piece of *)
(* a session's program after another, in any order, and to answer the      *)
(* keyboard's interrupt by scanning the matrix row by row.  The same model *)
(* with l28 FALSE is the other machine's UART and VIA.                     *)
(***************************************************************************)
EXTENDS LCD_ST7586S, L28Devices, SequencesExt

CONSTANTS
    Sessions,      \* what may be done: see SessionAssumption
    Rom,           \* the image initFlash puts into ES3
    KEY_BUF_SIZE,  \* the places of the key ring, one of which stays empty
    Elapsed        \* the cycles an instruction may take

ASSUME SessionAssumption ==
    /\ Rom \in [Addresses -> 0 .. \hFF]
    /\ KEY_BUF_SIZE \in Nat \ {0, 1} /\ Elapsed \subseteq Nat
    /\ Sessions \subseteq
         [l28 : BOOLEAN, console : BOOLEAN,      \* which machine; keyboard or serial input
          programs : SUBSET Seq([op : {"store", "load", "await"}, ea : Nat, data : 0 .. \hFF]),
          events : SUBSET [base : STRING, chars : STRING, shift : BOOLEAN, ctrl : BOOLEAN],
          pieces : Nat, keys : Nat, bytes : Nat] \* how much the firmware runs and the user types

VARIABLES
    session,       \* the session, and what is left of it
    cpu,           \* where the processor is in an instruction, and what it will do
    window,        \* where the window's thread is, and the frame it draws
    keyBuf, keyBufWrite, keyBufRead,   \* the key ring
    keys,          \* the keyboard's registers
    lcd, dirty, shown,                 \* the display, its flag, the picture on the screen
    flash, bsr,    \* the chips ES2 and ES3, and the eight windows on them
    via,           \* timer 1
    serial,        \* the receiver, and what has been typed for it
    past           \* history: see the properties

vars == <<session, cpu, window, keyBuf, keyBufWrite, keyBufRead, keys, lcd, dirty, shown,
          flash, bsr, via, serial, past>>

Chips == {"ES2", "ES3"}
Store(ea, data) == [op |-> "store", ea |-> ea, data |-> data]
Load(ea) == [op |-> "load", ea |-> ea, data |-> 0]
Await(ea) == [op |-> "await", ea |-> ea, data |-> 0]
EIR == \h0A
CIR == \h0B

Init ==
    /\ session \in Sessions
    /\ cpu = [pc |-> "access", todo |-> <<>>, handling |-> FALSE, taken |-> NoChar]
    /\ window = [pc |-> "idle", ch |-> NoChar, needsDisplay |-> FALSE, setup |-> Setup(resetLCD), frame |-> <<>>]
    /\ keyBuf = [k \in 0 .. KEY_BUF_SIZE - 1 |-> NoChar] /\ keyBufWrite = 0 /\ keyBufRead = 0
    /\ keys = [matrix |-> {}, portD |-> 0, enabled |-> FALSE, edge |-> FALSE, pa0 |-> FALSE]
    /\ lcd = resetLCD /\ dirty = FALSE /\ shown = Picture(resetLCD)
    /\ flash = [ES2 |-> Flash(Erased), ES3 |-> Flash(Rom)] /\ bsr = [k \in 0 .. 7 |-> \h50 + k]
    /\ via = resetVIA
    /\ serial = [full |-> FALSE, data |-> 0, stdin |-> <<>>]
    /\ past = [accepted |-> <<>>, seen |-> {}, scanned |-> <<>>,
               sent |-> <<>>, received |-> <<>>, lost |-> FALSE,
               untold |-> FALSE, recent |-> [c \in Chips |-> <<>>],
               pace |-> [kept |-> FALSE, since |-> 0]]

-----------------------------------------------------------------------------
(* Addresses.                                                              *)

\* The device behind an address, in the order in which getByte and setByte ask.
Device(ea) ==
    IF session.l28 /\ ea \in 0 .. \hB THEN "port"
    ELSE IF session.l28 /\ ea \in \h18 .. \h1F THEN "bsr"
    ELSE IF session.l28 /\ ea \in \h38 .. \h3F THEN "serial"
    ELSE IF session.l28 /\ ea \in \h600 .. \h601 THEN "lcd"
    ELSE IF ~session.l28 /\ ea \in \hC000 .. \hC00F THEN "serial"
    ELSE IF ea \in \hC020 .. \hC02F THEN "via"
    ELSE IF session.l28 /\ ea >= \h800 THEN Selected(bsr[(ea \div \h2000) % 8])
    ELSE "memory"

\* Which register of the serial chip: its data, its status, or another.
SerialRegister(ea) ==
    LET reg == IF session.l28 THEN ea % 8 ELSE ea % 4
    IN  IF reg = 0 THEN "data"
        ELSE IF reg = (IF session.l28 THEN 4 ELSE 1) THEN "status"
        ELSE "other"

-----------------------------------------------------------------------------
(* The window's thread.                                                    *)

After(n) == (n + 1) % KEY_BUF_SIZE

\* keyDown, and injectChar: look for room, put the character in, publish it.
Type(event) ==
    /\ session.console /\ session.keys > 0 /\ window.pc = "idle"
    /\ session' = [session EXCEPT !.keys = @ - 1]
    /\ window' = IF CharOf(event) = NoChar THEN window
                 ELSE [window EXCEPT !.pc = "room", !.ch = CharOf(event)]
    /\ UNCHANGED <<cpu, keyBuf, keyBufWrite, keyBufRead, keys, lcd, dirty, shown, flash, bsr, via,
                   serial, past>>

LookForRoom ==
    /\ window.pc = "room"
    /\ window' = [window EXCEPT !.pc = IF After(keyBufWrite) = keyBufRead THEN "idle" ELSE "put"]
    /\ UNCHANGED <<session, cpu, keyBuf, keyBufWrite, keyBufRead, keys, lcd, dirty, shown, flash,
                   bsr, via, serial, past>>

PutChar ==
    /\ window.pc = "put"
    /\ window' = [window EXCEPT !.pc = "publish"]
    /\ keyBuf' = [keyBuf EXCEPT ![keyBufWrite] = window.ch]
    /\ UNCHANGED <<session, cpu, keyBufWrite, keyBufRead, keys, lcd, dirty, shown, flash, bsr, via,
                   serial, past>>

Publish ==
    /\ window.pc = "publish"
    /\ window' = [window EXCEPT !.pc = "idle"]
    /\ keyBufWrite' = After(keyBufWrite)
    /\ past' = [past EXCEPT !.accepted = Append(@, KeysOf(window.ch))]
    /\ UNCHANGED <<session, cpu, keyBuf, keyBufRead, keys, lcd, dirty, shown, flash, bsr, via, serial>>

\* Sixty times a second the flag is taken; drawRect follows when the window gets
\* to it, takes the setup, and then reads the RAM a row at a time.
Refresh ==
    /\ window.pc = "idle" /\ dirty
    /\ dirty' = FALSE
    /\ window' = [window EXCEPT !.needsDisplay = TRUE]
    /\ UNCHANGED <<session, cpu, keyBuf, keyBufWrite, keyBufRead, keys, lcd, shown, flash, bsr, via,
                   serial, past>>

StartDrawing ==
    /\ window.pc = "idle" /\ window.needsDisplay
    /\ window' = [window EXCEPT !.pc = "draw", !.needsDisplay = FALSE, !.setup = Setup(lcd),
                                !.frame = <<>>]
    /\ UNCHANGED <<session, cpu, keyBuf, keyBufWrite, keyBufRead, keys, lcd, dirty, shown, flash,
                   bsr, via, serial, past>>

Drawn == Append(window.frame, DrawnRow(window.setup, lcd.ram, Len(window.frame)))
Complete == Len(Drawn) = Height
ShowRow ==
    /\ window.pc = "draw"
    /\ window' = IF Complete THEN [window EXCEPT !.pc = "idle", !.frame = <<>>]
                             ELSE [window EXCEPT !.frame = Drawn]
    /\ shown' = IF Complete THEN [row \in Rows |-> Drawn[row + 1]] ELSE shown
    /\ UNCHANGED <<session, cpu, keyBuf, keyBufWrite, keyBufRead, keys, lcd, flash, bsr, via,
                   serial, past>>
\* A mutant: the flag is cleared when the drawing is done.
DrawRowClears == ShowRow /\ dirty' = IF Complete THEN FALSE ELSE dirty
DrawRow == ShowRow /\ UNCHANGED dirty

\* The terminal of the host, when it is not the window.
TypeByte ==
    /\ ~session.console /\ session.bytes > 0
    /\ session' = [session EXCEPT !.bytes = @ - 1]
    /\ serial' = [serial EXCEPT !.stdin = Append(@, session.bytes)]
    /\ past' = [past EXCEPT !.sent = Append(@, session.bytes)]
    /\ UNCHANGED <<cpu, window, keyBuf, keyBufWrite, keyBufRead, keys, lcd, dirty, shown, flash,
                   bsr, via>>

-----------------------------------------------------------------------------
(* The processor: the access of an instruction.                            *)

\* The firmware: the next piece of its program, or an instruction without access.
Begin(piece) ==
    /\ cpu.pc = "access" /\ cpu.todo = <<>> /\ session.pieces > 0
    /\ session' = [session EXCEPT !.pieces = @ - 1]
    /\ cpu' = [cpu EXCEPT !.todo = piece]
    /\ UNCHANGED <<window, keyBuf, keyBufWrite, keyBufRead, keys, lcd, dirty, shown, flash, bsr, via,
                   serial, past>>
Idle ==
    /\ cpu.pc = "access" /\ cpu.todo = <<>>
    /\ cpu' = [cpu EXCEPT !.pc = "end"]
    /\ UNCHANGED <<session, window, keyBuf, keyBufWrite, keyBufRead, keys, lcd, dirty, shown, flash,
                   bsr, via, serial, past>>

Op == Head(cpu.todo)
Accesses(kinds, devices) ==
    cpu.pc = "access" /\ cpu.todo # <<>> /\ Op.op \in kinds /\ Device(Op.ea) \in devices
Done == cpu' = [cpu EXCEPT !.pc = "end", !.todo = Tail(@)]

\* setPortByte, getPortByte: the rows to drive, the columns of the rows driven,
\* the enabling of the keyboard's interrupt and its clearing, which releases the
\* keys (and which ends the handler).
Clears(ea, data) == ea = CIR /\ (data \div \h40) % 2 = 0
setPort(k, ea, data) ==
    IF ea = \h03 THEN [k EXCEPT !.portD = data]
    ELSE IF ea = EIR THEN [k EXCEPT !.enabled = (data % 2 = 1), !.edge = ((data \div \h40) % 2 = 1)]
    ELSE IF Clears(ea, data) THEN [k EXCEPT !.edge = FALSE, !.pa0 = FALSE, !.matrix = {}]
    ELSE k
Bits == <<1, 2, 4, 8, 16, 32, 64, 128>>
Driven(k) == {row \in 0 .. 7 : (k.portD \div Bits[row + 1]) % 2 = 1}
Columns(k) == {p[2] : p \in {q \in k.matrix : q[1] \in Driven(k)}}

StorePort ==
    /\ Accesses({"store"}, {"port"})
    /\ keys' = setPort(keys, Op.ea, Op.data)
    /\ cpu' = [cpu EXCEPT !.pc = "end", !.todo = Tail(@), !.handling = @ /\ ~Clears(Op.ea, Op.data)]
    /\ past' = IF cpu.handling /\ Clears(Op.ea, Op.data)
               THEN [past EXCEPT !.scanned = Append(@, past.seen), !.seen = {}] ELSE past
    /\ UNCHANGED <<session, window, keyBuf, keyBufWrite, keyBufRead, lcd, dirty, shown, flash, bsr,
                   via, serial>>
LoadPort ==
    /\ Accesses({"load"}, {"port"}) /\ Done
    /\ past' = [past EXCEPT !.seen = @ \cup (Driven(keys) \X Columns(keys))]
    /\ UNCHANGED <<session, window, keyBuf, keyBufWrite, keyBufRead, keys, lcd, dirty, shown, flash,
                   bsr, via, serial>>

StoreBSR ==
    /\ Accesses({"store"}, {"bsr"}) /\ Done
    /\ bsr' = [bsr EXCEPT ![Op.ea % 8] = Op.data]
    /\ UNCHANGED <<session, window, keyBuf, keyBufWrite, keyBufRead, keys, lcd, dirty, shown, flash,
                   via, serial, past>>

\* History: the longest tail of the writes to a chip that begins an unlocking.
UnlockByte == <<<<\h5555, \hAA>>, <<\h2AAA, \h55>>, <<\h5555, \hA0>>>>
UnlockErase == <<<<\h5555, \hAA>>, <<\h2AAA, \h55>>, <<\h5555, \h80>>, <<\h5555, \hAA>>, <<\h2AAA, \h55>>>>
Begins(s) == IsPrefix(s, UnlockByte) \/ IsPrefix(s, UnlockErase)
Recent(writes, addr, val) ==
    LET all == Append(writes, <<addr, val>>)
        starts == {k \in 1 .. Len(all) + 1 : Begins(SubSeq(all, k, Len(all)))}
    IN  SubSeq(all, CHOOSE k \in starts : \A j \in starts : k <= j, Len(all))

StoreFlash ==
    /\ Accesses({"store"}, Chips) /\ Done
    /\ LET chip == Device(Op.ea)
           addr == Physical(bsr[(Op.ea \div \h2000) % 8], Op.ea)
       IN  /\ flash' = [flash EXCEPT ![chip] = write(@, addr, Op.data)]
           /\ past' = [past EXCEPT !.recent[chip] = Recent(@, addr, Op.data)]
    /\ UNCHANGED <<session, window, keyBuf, keyBufWrite, keyBufRead, keys, lcd, dirty, shown, bsr,
                   via, serial>>

\* A store that changes the picture tells the window afterwards.  A reset and a
\* new scroll area change it without a word.
Untells(op) ==
    \/ op.ea = \h600 /\ op.data = \h01
    \/ op.ea = \h601 /\ lcd.state = "PARAM" /\ lcd.currentCmd = \h33
\* While the window draws, such a change mixes two displays that look the same.
Alters(l) == IF window.pc = "draw" THEN Setup(l) # Setup(lcd) \/ l.ram # lcd.ram
                                   ELSE Picture(l) # Picture(lcd)
StoreLCD ==
    /\ Accesses({"store"}, {"lcd"})
    /\ LET r == setLCD(lcd, Op.ea - \h600, Op.data)
       IN  /\ lcd' = r.lcd
           /\ cpu' = [cpu EXCEPT !.pc = IF r.tell THEN "tell" ELSE "end", !.todo = Tail(@)]
           /\ past' = [past EXCEPT !.untold = @ \/ (Untells(Op) /\ Alters(r.lcd))]
    /\ UNCHANGED <<session, window, keyBuf, keyBufWrite, keyBufRead, keys, dirty, shown, flash, bsr,
                   via, serial>>
TellWindow ==
    /\ cpu.pc = "tell"
    /\ dirty' = TRUE
    /\ cpu' = [cpu EXCEPT !.pc = "end"]
    /\ past' = [past EXCEPT !.untold = FALSE]
    /\ UNCHANGED <<session, window, keyBuf, keyBufWrite, keyBufRead, keys, lcd, shown, flash, bsr,
                   via, serial>>
LoadLCD ==
    /\ Accesses({"load"}, {"lcd"}) /\ Done
    /\ lcd' = getLCD(lcd, Op.ea - \h600)
    /\ UNCHANGED <<session, window, keyBuf, keyBufWrite, keyBufRead, keys, dirty, shown, flash, bsr,
                   via, serial, past>>

\* The VIA: history follows how far the counter is behind the cycles.
StoreVIA ==
    /\ Accesses({"store"}, {"via"}) /\ Done
    /\ LET reg == Op.ea % 16
       IN  /\ via' = setVIA(via, reg, Op.data)
           /\ past' = [past EXCEPT !.pace =
                  IF reg = \h5 THEN [kept |-> via.freeRun, since |-> 0]
                  ELSE IF reg \in {\h4, \h6, \h7, \hB} THEN [kept |-> FALSE, since |-> 0] ELSE @]
    /\ UNCHANGED <<session, window, keyBuf, keyBufWrite, keyBufRead, keys, lcd, dirty, shown, flash,
                   bsr, serial>>
LoadVIA ==
    /\ Accesses({"load"}, {"via"}) /\ Done
    /\ via' = getVIA(via, Op.ea % 16)
    /\ UNCHANGED <<session, window, keyBuf, keyBufWrite, keyBufRead, keys, lcd, dirty, shown, flash,
                   bsr, serial, past>>

\* The L28's USART and the UART: a look at the status or the data takes a byte
\* from the terminal when the receiver is empty; reading the data empties it.
status(s) == IF s.full \/ session.console \/ s.stdin = <<>> THEN s
             ELSE [full |-> TRUE, data |-> Head(s.stdin), stdin |-> Tail(s.stdin)]
LoadSerial ==
    /\ Accesses({"load", "await"}, {"serial"})
    /\ LET s == status(serial)
           reg == SerialRegister(Op.ea)
       IN  /\ serial' = IF reg = "status" THEN s
                        ELSE IF reg = "data" THEN [s EXCEPT !.full = FALSE] ELSE serial
           /\ past' = IF reg = "data" THEN [past EXCEPT !.received = Append(@, s.data)] ELSE past
           /\ cpu' = [cpu EXCEPT !.pc = "end", !.todo = IF Op.op = "await" /\ ~s.full THEN @ ELSE Tail(@)]
    /\ UNCHANGED <<session, window, keyBuf, keyBufWrite, keyBufRead, keys, lcd, dirty, shown, flash,
                   bsr, via>>
\* The UART's programmed reset forgets that there is a byte.
StoreSerial ==
    /\ Accesses({"store"}, {"serial"}) /\ Done
    /\ LET reset == ~session.l28 /\ SerialRegister(Op.ea) = "status"
       IN  /\ serial' = IF reset THEN [serial EXCEPT !.full = FALSE] ELSE serial
           /\ past' = [past EXCEPT !.lost = @ \/ (reset /\ serial.full)]
    /\ UNCHANGED <<session, window, keyBuf, keyBufWrite, keyBufRead, keys, lcd, dirty, shown, flash,
                   bsr, via>>

\* Elsewhere there is memory.
Elsewhere ==
    /\ \/ Accesses({"load", "store"}, {"memory", "ES0"})
       \/ Accesses({"load"}, {"bsr", "ES2", "ES3"})
    /\ Done
    /\ UNCHANGED <<session, window, keyBuf, keyBufWrite, keyBufRead, keys, lcd, dirty, shown, flash,
                   bsr, via, serial, past>>

-----------------------------------------------------------------------------
(* The processor: the end of an instruction.                               *)

\* The firmware's handler drives the rows one by one and clears the interrupt.
Handler == [k \in 1 .. 15 |-> IF k = 15 THEN Store(CIR, \hBF)
                              ELSE IF k % 2 = 1 THEN Store(\h03, Bits[(k + 1) \div 2])
                              ELSE Load(\h02)]

Cycles == IF via.t1_running THEN Elapsed ELSE {0}
Paced(elapsed) ==
    LET pace == past.pace
        beyond == elapsed - via.t1_counter
    IN  IF ~via.t1_running THEN pace
        ELSE IF beyond < 0 THEN [pace EXCEPT !.since = IF pace.kept THEN @ + elapsed ELSE 0]
        ELSE IF pace.kept /\ via.freeRun /\ beyond <= via.t1_latch
             THEN [pace EXCEPT !.since = @ + elapsed - via.t1_latch]
             ELSE [kept |-> FALSE, since |-> 0]

irq0Pending(k) == k.pa0 /\ k.enabled
End(k, scanned) ==
    /\ keys' = k
    /\ \E elapsed \in Cycles :
           /\ via' = tick(via, elapsed)
           /\ past' = [past EXCEPT !.pace = Paced(elapsed), !.scanned = scanned]
    /\ cpu' = IF irq0Pending(k) /\ ~cpu.handling
              THEN [cpu EXCEPT !.pc = "access", !.taken = NoChar, !.todo = Handler \o @, !.handling = TRUE]
              ELSE [cpu EXCEPT !.pc = "access", !.taken = NoChar]
    /\ UNCHANGED <<session, window, keyBuf, keyBufWrite, lcd, dirty, shown, flash, bsr, serial>>

\* pollKeyboard: nothing to take; or a character, whose keys are pressed when its
\* place in the ring has been given back.
Polls == session.l28 /\ session.console
Waiting == keyBufRead # keyBufWrite
\* A mutant: keys that have not been scanned yet are added to.
TakesAlways == Polls /\ Waiting
Takes == Polls /\ ~keys.pa0 /\ Waiting
PollNothing == cpu.pc = "end" /\ ~Takes /\ End(keys, past.scanned) /\ UNCHANGED keyBufRead
PollTake ==
    /\ cpu.pc = "end" /\ Takes
    /\ cpu' = [cpu EXCEPT !.pc = "press", !.taken = keyBuf[keyBufRead]]
    /\ UNCHANGED <<session, window, keyBuf, keyBufWrite, keyBufRead, keys, lcd, dirty, shown, flash,
                   bsr, via, serial, past>>
PollPress ==
    /\ cpu.pc = "press"
    /\ keyBufRead' = After(keyBufRead)
    /\ LET pressed == KeysOf(cpu.taken)
       IN  IF pressed = {} THEN End(keys, Append(past.scanned, {}))
           ELSE End([keys EXCEPT !.matrix = @ \cup pressed, !.pa0 = TRUE, !.edge = TRUE], past.scanned)

Window ==
    \/ \E event \in session.events : Type(event)
    \/ LookForRoom \/ PutChar \/ Publish \/ Refresh \/ StartDrawing \/ DrawRow \/ TypeByte
Processor ==
    \/ \E piece \in session.programs : Begin(piece)
    \/ Idle \/ StorePort \/ LoadPort \/ StoreBSR \/ StoreFlash \/ StoreLCD \/ TellWindow \/ LoadLCD
    \/ StoreVIA \/ LoadVIA \/ LoadSerial \/ StoreSerial \/ Elsewhere
    \/ PollNothing \/ PollTake \/ PollPress
Next == Window \/ Processor

Spec == Init /\ [][Next]_vars

-----------------------------------------------------------------------------
(* What the user and the firmware rely on.                                 *)

\* What the firmware has to do: leave the rows of the matrix and the clearing of its
\* interrupt to the handler, and take a byte right after it has awaited one.
LeftToHandler(op) == op.op = "store" /\ op.ea \in {\h03, CIR}
LeavesKeysToHandler ==
    \A s \in Sessions : \A piece \in s.programs : \A k \in 1 .. Len(piece) : ~LeftToHandler(piece[k])

TakesByte(l28, op) ==
    op.op # "store" /\ op.ea \in IF l28 THEN {\h38} ELSE {\hC000, \hC004, \hC008, \hC00C}
AwaitsByte(l28, op) ==
    op.op = "await" /\ op.ea \in IF l28 THEN {\h3C} ELSE {\hC001, \hC005, \hC009, \hC00D}
WaitsForBytes ==
    \A s \in Sessions : \A piece \in s.programs : \A k \in 1 .. Len(piece) :
        TakesByte(s.l28, piece[k]) => k > 1 /\ AwaitsByte(s.l28, piece[k - 1])

\* What is typed arrives: every scan of the matrix sees the keys of one character,
\* the accepted ones in their order, none twice and none run together with the next
\* (injectChar, pollKeyboard, the clearing of the interrupt), and one without keys is
\* passed over where it stands; and a byte of the
\* terminal is received, in the receiver or still to come, unless a programmed
\* reset forgot it (status, getByte).
InputArrives ==
    /\ IsPrefix(past.scanned, past.accepted)
    /\ past.lost \/ past.sent = past.received \o (IF serial.full THEN <<serial.data>> ELSE <<>>)
                                              \o serial.stdin

\* When the window has nothing left to do, the screen shows the display as it is,
\* however the drawing and the stores fell, unless the last change was one of those
\* that are not told (dirty, refresh, drawRect).
ScreenIsFresh ==
    window.pc # "draw" /\ ~window.needsDisplay /\ ~dirty /\ cpu.pc # "tell" /\ ~past.untold
        => shown = Picture(lcd)

\* A byte of flash changes only when the last writes to its chip, through whichever
\* windows they went, were the steps that unlock it, and no byte changes that they
\* did not unlock (SST39F010::write, the BSR registers).
FlashNeedsUnlock ==
    [][ \A c \in Chips : flash'[c].data # flash[c].data =>
            LET addr == Physical(bsr[(Op.ea \div \h2000) % 8], Op.ea)
                changed == {a \in Addresses : flash'[c].data[a] # flash[c].data[a]}
            IN  \/ past.recent[c] = UnlockByte /\ changed = {addr}
                \/ past.recent[c] = UnlockErase /\ Op.data = \h10
                \/ /\ past.recent[c] = UnlockErase /\ Op.data = \h30
                   /\ \A a \in changed : a \div \h1000 = addr \div \h1000 ]_vars

\* While timer 1 runs freely and no instruction outlasts its period, it interrupts
\* once every latch cycles: no cycle is lost or counted twice however far an
\* instruction overshoots.  And bit 7 of IFR always says whether an enabled flag is
\* up, which is when the processor is interrupted (tick, updateIRQ).
TimerKeepsPace ==
    /\ past.pace.kept => past.pace.since = via.t1_latch - via.t1_counter
    /\ "IRQ" \in via.ifr <=> irqPending(via)
=============================================================================
