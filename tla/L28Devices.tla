----------------------------- MODULE L28Devices -----------------------------
(***************************************************************************)
(* The devices behind the L28's addresses, as records and operators on     *)
(* them: its keyboard, its flash chips and the windows on them, and timer  *)
(* 1 of the VIA.                                                           *)
(***************************************************************************)
EXTENDS Integers, Sequences

CONSTANT Addresses    \* the addresses of a flash chip whose bytes are kept
ASSUME AddressAssumption == Addresses \subseteq 0 .. \h1FFFF

-----------------------------------------------------------------------------
(* The keyboard: which keys of its matrix stand for a character            *)
(* (asciiToKey and pollKeyboard of em16/src/L28_MCU.cpp), and which        *)
(* character the window makes of a key of the host (keyDown of             *)
(* em16/src/LCD_ST7586S.mm).  A character is a record: a control           *)
(* character, CTRL and a letter, or a symbol.  Unshifted letters are       *)
(* capitals.                                                               *)

Unshifted == << <<"1", "2", "3", "4", "5", "6", "7", "8">>,
                <<"9", "0", "-", "=", "BS", "TAB", ".", "/">>,
                <<"Q", "W", "E", "R", "T", "Y", "U", "I">>,
                <<"O", "P", "[", "]", "CR", "A", "S", "D">>,
                <<"F", "G", "H", "J", "K", "L", ";", "apostrophe">>,
                <<"Z", "X", "C", "V", "B", "N", "M", ",">>,
                <<"", "", "backquote", "backslash", "SPACE", "ESC", "DEL", "">> >>
Shifted ==   << <<"!", "@", "#", "$", "%", "^", "&", "*">>,
                <<"(", ")", "_", "+", "", "", ">", "?">>,
                <<"q", "w", "e", "r", "t", "y", "u", "i">>,
                <<"o", "p", "{", "}", "", "a", "s", "d">>,
                <<"f", "g", "h", "j", "k", "l", ":", "quote">>,
                <<"z", "x", "c", "v", "b", "n", "m", "<">>,
                <<"", "", "~", "|", "", "", "", "">> >>
SHIFT == <<6, 0>>
CTRL == <<6, 1>>

Positions == (0 .. 6) \X (0 .. 7)
At(table, sym) == {p \in Positions : sym # "" /\ table[p[1] + 1][p[2] + 1] = sym}
asciiToKey(sym) == IF At(Unshifted, sym) # {} THEN At(Unshifted, sym)
                   ELSE IF At(Shifted, sym) # {} THEN At(Shifted, sym) \cup {SHIFT} ELSE {}

\* The keys that are pressed for a character: none when it has no key.
Symbol(sym) == [ctrl |-> FALSE, sym |-> sym]
Control(letter) == [ctrl |-> TRUE, sym |-> letter]
KeysOf(ch) == IF ch.ctrl THEN asciiToKey(ch.sym) \cup {CTRL} ELSE asciiToKey(ch.sym)

\* An event of the window: the character of the key without CTRL, with it, and
\* the two modifiers; "other" is no ASCII character.
Capital == [a |-> "A", b |-> "B", c |-> "C", d |-> "D", e |-> "E", f |-> "F", g |-> "G",
            h |-> "H", i |-> "I", j |-> "J", k |-> "K", l |-> "L", m |-> "M", n |-> "N",
            o |-> "O", p |-> "P", q |-> "Q", r |-> "R", s |-> "S", t |-> "T", u |-> "U",
            v |-> "V", w |-> "W", x |-> "X", y |-> "Y", z |-> "Z"]
NoChar == Symbol("")
CharOf(event) ==
    LET letter == event.base \in DOMAIN Capital
    IN  IF event.ctrl /\ letter THEN Control(Capital[event.base])
        ELSE IF event.base \in {"CR", "LF"} THEN Control("M")
        ELSE IF event.base \in {"DEL", "BS"} THEN Symbol("DEL")
        ELSE IF event.base = "ESC" THEN Symbol("ESC")
        ELSE IF event.base = "TAB" THEN Control("I")
        ELSE IF event.shift THEN IF event.chars = "other" THEN NoChar ELSE Symbol(event.chars)
        ELSE IF event.base = "other" THEN NoChar
        ELSE Symbol(IF letter THEN Capital[event.base] ELSE event.base)

-----------------------------------------------------------------------------
(* The flash chips (SST39F010 of em16/include/L28_MCU.h) and the eight     *)
(* windows of 8K through which the processor sees them and its RAM (the    *)
(* BSR registers, em16/include/mem816.h).  A chip is a record f.           *)

Erased == [a \in Addresses |-> \hFF]
Flash(data) == [state |-> "IDLE", data |-> data]

\* A mutant: the last step of the unlocking may be written anywhere.
CommandAnywhere(addr) == TRUE
Command(addr) == addr = \h5555

\* The bytes an erasure reaches: those of a sector of 4K, or all.
Erases(val, addr) == IF val = \h30 THEN {a \in Addresses : a \div \h1000 = addr \div \h1000}
                     ELSE IF val = \h10 THEN Addresses ELSE {}

\* The bits that two bytes share.
BitAnd(x, y) ==
    LET both(bit) == IF (x \div bit) % 2 = 1 /\ (y \div bit) % 2 = 1 THEN bit ELSE 0
    IN  both(1) + both(2) + both(4) + both(8) + both(16) + both(32) + both(64) + both(128)

\* A byte written to a chip: three steps unlock the programming of one byte, which
\* can only clear bits, and five an erasure; anything else starts over.
NextState(state, addr, val) ==
    LET unlock1 == addr = \h5555 /\ val = \hAA
        unlock2 == addr = \h2AAA /\ val = \h55
    IN  IF state = "IDLE" /\ unlock1 THEN "CYCLE1"
        ELSE IF state = "CYCLE1" /\ unlock2 THEN "CYCLE2"
        ELSE IF state = "CYCLE2" /\ Command(addr) /\ val = \hA0 THEN "BYTE_PROGRAM"
        ELSE IF state = "CYCLE2" /\ Command(addr) /\ val = \h80 THEN "ERASE_SETUP"
        ELSE IF state = "ERASE_SETUP" /\ unlock1 THEN "ERASE_1"
        ELSE IF state = "ERASE_1" /\ unlock2 THEN "ERASE_2"
        ELSE "IDLE"
NextData(f, addr, val) ==
    [a \in Addresses |->
        IF f.state = "BYTE_PROGRAM" /\ a = addr THEN BitAnd(f.data[a], val)
        ELSE IF f.state = "ERASE_2" /\ a \in Erases(val, addr) THEN \hFF
        ELSE f.data[a]]
write(f, addr, val) == [state |-> NextState(f.state, addr, val), data |-> NextData(f, addr, val)]

\* What a window shows: bit 4 of its register clear selects the RAM ES0, else bit
\* 6 clear ES2, else bit 7 clear ES3, else the board's memory; the low four bits
\* are the page.  Bit 5, an address bit beyond the chips, is masked off.
Clear(bsr, bit) == (bsr \div bit) % 2 = 0
Selected(bsr) ==
    IF Clear(bsr, \h10) THEN "ES0"
    ELSE IF Clear(bsr, \h40) THEN "ES2"
    ELSE IF Clear(bsr, \h80) THEN "ES3"
    ELSE "memory"
Physical(bsr, ea) == ((bsr % 16) * \h2000) + (ea % \h2000)

-----------------------------------------------------------------------------
(* Timer 1 and the interrupt registers of the VIA (em16/src/VIA_6522.cpp). *)
(* A flag register is the set of its bits: "T1" and "IRQ", bit 7, which    *)
(* says that an enabled flag is up.  The VIA is a record v.                *)

\* An enabled flag is up: the processor is interrupted.
irqPending(v) == v.ifr \cap v.ier # {}
updateIRQ(v) == [v EXCEPT !.ifr = IF irqPending(v) THEN @ \cup {"IRQ"} ELSE @ \ {"IRQ"}]
Cleared(v, flags) == updateIRQ([v EXCEPT !.ifr = @ \ flags])

resetVIA == [t1_counter |-> 0, t1_latch |-> 0, t1_running |-> FALSE, freeRun |-> FALSE,
             ifr |-> {}, ier |-> {}]

\* A mutant: what went beyond the end is forgotten.
tickFromLatch(v, elapsed) ==
    IF ~v.t1_running THEN v
    ELSE IF elapsed < v.t1_counter THEN [v EXCEPT !.t1_counter = @ - elapsed]
    ELSE updateIRQ([v EXCEPT !.ifr = @ \cup {"T1"}, !.t1_running = v.freeRun,
                             !.t1_counter = IF v.freeRun THEN v.t1_latch ELSE 0])
\* elapsed cycles have passed.  In the free-running mode (bit 6 of the ACR) the
\* counter starts again from the latch, less what went beyond its end.
tick(v, elapsed) ==
    IF ~v.t1_running THEN v
    ELSE IF elapsed < v.t1_counter THEN [v EXCEPT !.t1_counter = @ - elapsed]
    ELSE LET beyond == (elapsed - v.t1_counter) % (v.t1_latch + 1)
         IN  updateIRQ([v EXCEPT !.ifr = @ \cup {"T1"}, !.t1_running = v.freeRun,
                                 !.t1_counter = IF v.freeRun THEN v.t1_latch - beyond ELSE 0])

LowByte(v) == v.t1_latch % 256
HighByte(v) == v.t1_latch - LowByte(v)
Timer1(data) == IF (data \div \h40) % 2 = 1 THEN {"T1"} ELSE {}
setVIA(v, reg, data) ==
    IF reg \in {\h4, \h6} THEN [v EXCEPT !.t1_latch = HighByte(v) + data]
    ELSE IF reg = \h5
         THEN LET latch == 256 * data + LowByte(v)
              IN  Cleared([v EXCEPT !.t1_latch = latch, !.t1_counter = latch,
                                    !.t1_running = TRUE], {"T1"})
    ELSE IF reg = \h7 THEN Cleared([v EXCEPT !.t1_latch = 256 * data + LowByte(v)], {"T1"})
    ELSE IF reg = \hB THEN [v EXCEPT !.freeRun = (data \div \h40) % 2 = 1]
    ELSE IF reg = \hD THEN Cleared(v, Timer1(data))
    ELSE IF reg = \hE
         THEN updateIRQ([v EXCEPT !.ier = IF data >= \h80 THEN @ \cup Timer1(data)
                                          ELSE @ \ Timer1(data)])
    ELSE v
\* Reading the low byte of the counter clears the flag.
getVIA(v, reg) == IF reg = \h4 THEN Cleared(v, {"T1"}) ELSE v
=============================================================================
