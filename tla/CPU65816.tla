------------------------------ MODULE CPU65816 ------------------------------
(***************************************************************************)
(* The 65C816 as em16 emulates it (em16/include/emu816.h, emu816.cpp): its *)
(* instructions one after another, and the interrupt the VIA may raise     *)
(* after any of them.                                                      *)
(*                                                                         *)
(* A program is arbitrary: each of its steps executes one of a set of      *)
(* instructions with operand bytes from Operands, so the text of a program *)
(* is not in memory.  Next is the instruction set of the three processors  *)
(* em16 knows, the 65C816, Rockwell's R65C02 and the L28's R65C19.         *)
(***************************************************************************)
EXTENDS Instructions65816

CONSTANTS
    Types,       \* the processors, a subset of {"WDC", "Rockwell", "L28"}
    Start,       \* where the program begins
    Programs,    \* the programs: sequences of the instructions a step may execute
    Modes,       \* the addressing modes it uses
    Operands,    \* the bytes its operands are made of
    Masks,       \* the sets of flags it gives to REP and SEP
    Traps,       \* BRK with a smaller operand goes to the trap handler: 16, or 0 without one
    NewTrap,     \* the trap that allocates, 10; the others stop the machine
    StartSP      \* the stack pointer main gives a program in native mode

\* The instructions every processor has; those only the 65C816 and the R65C02
\* have, those only the R65C02 and the L28 have, and the L28's own.
Common ==
    {"LDA", "LDX", "LDY", "STA", "STX", "STY", "ADC", "SBC", "CMP", "CPX", "CPY", "AND", "ORA",
     "EOR", "BIT", "INC", "DEC", "ASL", "LSR", "ROL", "ROR", "ASLA", "LSRA", "ROLA", "RORA",
     "INX", "DEX", "INY", "DEY", "TAX", "TXA", "TAY", "TYA", "TSX", "TXS", "CLC", "SEC", "CLD",
     "SED", "CLI", "SEI", "CLV", "PHA", "PHX", "PHY", "PHP", "PLA", "PLX", "PLY", "PLP", "BCC",
     "BCS", "BNE", "BEQ", "BPL", "BMI", "BVC", "BVS", "BRA", "JMP", "JSR", "RTS", "BRK", "RTI",
     "NOP"}
Wide == {"BRL", "COP", "INCA", "DECA", "JSL", "MVN", "MVP", "PEA", "PEI", "PER", "PHB", "PHD",
         "PHK", "PLB", "PLD", "REP", "RTL", "SEP", "STP", "STZ", "TCD", "TCS", "TDC", "TRB",
         "TSB", "TSC", "TXY", "TYX", "WAI", "WDM", "XBA", "XCE", "BITI"}
Bits == {"BBR", "BBS", "RMB", "SMB"}
Threaded == {"ADD", "ASRA", "BAR", "BAS", "CLW", "EXC", "INI", "JPI", "JSB", "LAB", "LAI", "LAN",
             "LII", "MPA", "MPY", "NEG", "NXT", "PHI", "PHW", "PIA", "PLI", "PLW", "PSH", "PUL",
             "RBA", "RND", "SBA", "STI", "TAW", "TIP", "TWA"}
Mnemonics == Common \cup Wide \cup Bits \cup Threaded

ASSUME MachineAssumption ==
    /\ Types \subseteq {"WDC", "Rockwell", "L28"}
    /\ Operands \subseteq Byte /\ Traps \in Nat /\ NewTrap \in Nat
    /\ StartSP \in Word /\ Start \in Word
    /\ Programs \subseteq Seq(SUBSET Mnemonics) /\ Masks \subseteq SUBSET Flags

VARIABLES
    cpu,         \* the machine: registers, p, e, mem, interrupted, stopped
    ir           \* the instruction executed last, where it led, whether an
                 \* interrupt followed it, and the steps still to come

vars == <<cpu, ir>>

\* The machine after reset(): emulation mode, interrupts off, 8-bit registers.
reset(type) ==
    [type |-> type, a |-> 0, x |-> 0, y |-> 0, sp |-> sp_page, dp |-> 0, pc |-> Start,
     pbr |-> 0, dbr |-> 0, p |-> {"i", "x", "m"}, e |-> TRUE, i |-> 0, wl |-> 0, wh |-> 0,
     mem |-> [ea \in 0 .. Space - 1 |-> DataCell(0)],
     interrupted |-> FALSE, stopped |-> FALSE]
\* Where the program goes on, and with which flags.
Continuation(s) == [pc |-> s.pc, pbr |-> s.pbr, p |-> s.p]
setNativeMode(s) == [s EXCEPT !.e = FALSE, !.p = s.p \ {"m", "x", "d"}]

\* main leaves only the L28 in emulation mode.
Init ==
    /\ \E type \in Types :
           cpu = IF type = "L28" THEN reset(type)
                 ELSE [setNativeMode(reset(type)) EXCEPT !.sp = StartSP]
    /\ \E program \in Programs :
           ir = [op |-> "reset", irq |-> FALSE, next |-> Continuation(cpu), left |-> program]

-----------------------------------------------------------------------------
(* One instruction.                                                        *)

Absent == [WDC |-> Bits \cup Threaded, Rockwell |-> Threaded, L28 |-> Wide]

\* step() stops at address 0 of bank 0 instead (the R65C02 runs on).
AtZero == cpu.type # "Rockwell" /\ cpu.pbr = 0 /\ cpu.pc = 0
Decoded(name) ==
    /\ ~cpu.stopped /\ ~AtZero /\ ir.left # <<>>
    /\ name \in Head(ir.left) /\ name \notin Absent[cpu.type]
Fetch(n) == [cpu EXCEPT !.pc = (cpu.pc + 1 + n) % WordSize]
OperandsOf(n) ==
    CASE n = 1 -> Operands
      [] n = 2 -> {join(l, h) : l, h \in Operands}
      [] n = 3 -> {join(l, h) + bank(b) : l, h, b \in Operands}

\* After an instruction the VIA is ticked and its line may be up; the 65C816
\* enters the interrupt as in native mode whatever its mode.  The L28 asks its
\* keyboard as well, and the R65C02 nobody.
Lines(s) ==
    CASE s.type = "WDC" -> {Interrupted(s, TRUE, s.p, Vector["IRQ"])}
      [] s.type = "Rockwell" -> {}
      [] s.type = "L28" -> {[Interrupted(s, FALSE, s.p, Vector[line]) EXCEPT !.pbr = s.pbr] :
                               line \in {"IRQ", "IRQ0"}}
Irqs(s) == IF "i" \in s.p THEN {} ELSE {[t EXCEPT !.interrupted = TRUE] : t \in Lines(s)}

Retire(name, s) ==
    /\ \/ cpu' = s
       \/ cpu' \in Irqs(s)
    /\ ir' = [op |-> name, irq |-> cpu' # s, next |-> Continuation(s), left |-> Tail(ir.left)]

Implied(name, op(_)) == Decoded(name) /\ Retire(name, op(Fetch(0)))

OnMemory(name, op(_, _), modes) ==
    /\ Decoded(name)
    /\ \E mode \in modes \cap Modes : \E o \in OperandsOf(Length(mode)) :
           LET s == Fetch(Length(mode))
           IN  Retire(name, op(s, [imm |-> FALSE, at |-> EA(s, mode, o)]))

Immediate(name, op(_, _), n) ==
    /\ Decoded(name)
    /\ \E o \in OperandsOf(n) : Retire(name, op(Fetch(n), [imm |-> TRUE, at |-> o]))

OnData(name, op(_, _), modes, N) ==
    OnMemory(name, op, modes) \/ Immediate(name, op, IF N = ByteSize THEN 1 ELSE 2)

Branch(name, taken) ==
    /\ Decoded(name)
    /\ \E o \in Operands :
           Retire(name, IF taken THEN [Fetch(1) EXCEPT !.pc = Relative(Fetch(1), o, ByteSize)]
                                 ELSE Fetch(1))

OnFlags(name, op(_, _)) ==
    Decoded(name) /\ \E mask \in Masks : Retire(name, op(Fetch(1), mask))

\* BRK with a small operand calls main's trap handler, goes on behind itself and
\* pushes nothing.
Trap(n) ==
    IF n = NewTrap
    THEN \E at \in OperandsOf(2) : Retire("trap", [Fetch(1) EXCEPT !.a = at, !.x = 0])
    ELSE Retire("trap", [Fetch(1) EXCEPT !.stopped = TRUE])
op_brk ==
    /\ Decoded("BRK")
    /\ IF cpu.type = "L28" THEN Retire("BRK", op_brk_l28(Fetch(0)))
       ELSE \E n \in Operands : IF n < Traps THEN Trap(n) ELSE Retire("BRK", Break(Fetch(1)))

\* The bit of a byte on the direct page; the bits of a mask in any byte.
BitBranch(name, value) ==
    /\ Decoded(name)
    /\ \E o, r \in Operands, k \in 0 .. ByteBits - 1 :
           LET s == Fetch(2)
           IN  Retire(name, IF Bit(getByte(s, Direct(s, o)), k) = value
                            THEN [s EXCEPT !.pc = Relative(s, r, ByteSize)] ELSE s)
BitModify(name, op(_, _, _)) ==
    /\ Decoded(name)
    /\ \E o \in Operands, k \in 0 .. ByteBits - 1 :
           Retire(name, op(Fetch(1), Direct(cpu, o), k))
MaskModify(name, op(_, _, _)) ==
    /\ Decoded(name)
    /\ \E mask \in Operands, o \in OperandsOf(2) :
           Retire(name, op(Fetch(3), bank(cpu.dbr) + o, mask))
MaskBranch(name, all) ==
    /\ Decoded(name)
    /\ \E mask, r \in Operands, o \in OperandsOf(2) :
           LET s == Fetch(4)
           IN  Retire(name, IF And(getByte(s, bank(s.dbr) + o), mask, ByteSize)
                                 = (IF all THEN mask ELSE 0)
                            THEN [s EXCEPT !.pc = Relative(s, r, ByteSize)] ELSE s)
op_sti ==
    /\ Decoded("STI")
    /\ \E v, o \in Operands : Retire("STI", setByte(Fetch(2), Direct(cpu, o), v))

\* A step at address 0 stops the machine.
Halt == ~cpu.stopped /\ AtZero /\ cpu' = [cpu EXCEPT !.stopped = TRUE] /\ UNCHANGED ir

-----------------------------------------------------------------------------
(* The opcode table.                                                       *)

AluModes ==
    CASE cpu.type = "WDC" -> {"absl", "absx", "absy", "alng", "alnx", "dpag", "dpgi", "dpgx",
                              "dpil", "dily", "dpix", "dpiy", "srel", "sriy"}
      [] cpu.type = "Rockwell" -> {"absl", "absx", "absy", "dpag", "dpgi", "dpgx", "dpix",
                                   "dpiy", "srel", "sriy"}
      [] cpu.type = "L28" -> {"absl", "absx", "absy", "dpag", "dpgi", "dpgx", "diix"}
ModifyModes == {"absl", "absx", "dpag", "dpgx"}
Plain == {"absl", "dpag"}

Loads ==
    \/ OnData("LDA", op_lda, AluModes, SizeM(cpu))
    \/ OnData("LDX", op_ldx, Plain \cup {"absy", "dpgy"}, SizeX(cpu))
    \/ OnData("LDY", op_ldy, Plain \cup {"absx", "dpgx"}, SizeX(cpu))
    \/ OnMemory("STA", op_sta, AluModes)
    \/ OnMemory("STX", op_stx, Plain \cup {"dpgy"})
    \/ OnMemory("STY", op_sty, Plain \cup {"dpgx"})
    \/ OnMemory("STZ", op_stz, ModifyModes)
    \/ OnMemory("EXC", op_exc, {"dpgx"})
    \/ op_sti
    \/ Immediate("MVN", op_mvn, 2)
    \/ Immediate("MVP", op_mvp, 2)

\* Opcode $57, EOR [d],Y, decodes as EOR [d].
Arithmetic ==
    \/ OnData("ADC", op_adc, AluModes, SizeM(cpu))
    \/ OnData("SBC", op_sbc, AluModes, SizeM(cpu))
    \/ OnData("ADD", op_add, {"dpag", "dpgx"}, SizeM(cpu))
    \/ OnData("CMP", op_cmp, AluModes, SizeM(cpu))
    \/ OnData("CPX", op_cpx, Plain, SizeX(cpu))
    \/ OnData("CPY", op_cpy, Plain, SizeX(cpu))
    \/ OnData("AND", op_and, AluModes, SizeM(cpu))
    \/ OnData("ORA", op_ora, AluModes, SizeM(cpu))
    \/ OnData("EOR", op_eor, AluModes \ {"dily"}, SizeM(cpu))
    \/ OnMemory("BIT", op_bit, IF cpu.type = "L28" THEN Plain ELSE ModifyModes)
    \/ Immediate("BITI", op_biti, IF M8(cpu) THEN 1 ELSE 2)
    \/ Implied("MPY", op_mpy)
    \/ Implied("MPA", op_mpa)
    \/ Implied("RND", op_rnd)
    \/ Implied("NEG", op_neg)
    \/ Implied("LAB", op_lab)
    \/ Implied("CLW", op_clw)

Modifications ==
    \/ OnMemory("INC", op_inc, ModifyModes) \/ Implied("INCA", op_inca)
    \/ OnMemory("DEC", op_dec, ModifyModes) \/ Implied("DECA", op_deca)
    \/ OnMemory("ASL", op_asl, ModifyModes) \/ Implied("ASLA", op_asla)
    \/ OnMemory("LSR", op_lsr, ModifyModes) \/ Implied("LSRA", op_lsra)
    \/ OnMemory("ROL", op_rol, ModifyModes) \/ Implied("ROLA", op_rola)
    \/ OnMemory("ROR", op_ror, ModifyModes) \/ Implied("RORA", op_rora)
    \/ OnMemory("TRB", op_trb, Plain)       \/ OnMemory("TSB", op_tsb, Plain)
    \/ Implied("INX", op_inx) \/ Implied("DEX", op_dex)
    \/ Implied("INY", op_iny) \/ Implied("DEY", op_dey)
    \/ Implied("ASRA", op_asra)
    \/ BitModify("RMB", op_rmb) \/ BitModify("SMB", op_smb)
    \/ MaskModify("RBA", op_rba) \/ MaskModify("SBA", op_sba)

Transfers ==
    \/ Implied("TAX", op_tax) \/ Implied("TXA", op_txa) \/ Implied("TXY", op_txy)
    \/ Implied("TAY", op_tay) \/ Implied("TYA", op_tya) \/ Implied("TYX", op_tyx)
    \/ Implied("TSX", op_tsx) \/ Implied("TXS", op_txs)
    \/ Implied("TCS", op_tcs) \/ Implied("TSC", op_tsc)
    \/ Implied("TCD", op_tcd) \/ Implied("TDC", op_tdc) \/ Implied("XBA", op_xba)
    \/ Implied("TAW", op_taw) \/ Implied("TWA", op_twa)
    \/ Implied("LII", op_lii) \/ Implied("INI", op_ini)
    \/ Implied("LAI", op_lai) \/ Implied("LAN", op_lan)

FlagChanges ==
    \/ Implied("CLC", LAMBDA s : Set(s, "c", FALSE)) \/ Implied("SEC", LAMBDA s : Set(s, "c", TRUE))
    \/ Implied("CLD", LAMBDA s : Set(s, "d", FALSE)) \/ Implied("SED", LAMBDA s : Set(s, "d", TRUE))
    \/ Implied("CLI", LAMBDA s : Set(s, "i", FALSE)) \/ Implied("SEI", LAMBDA s : Set(s, "i", TRUE))
    \/ Implied("CLV", LAMBDA s : Set(s, "v", FALSE))
    \/ OnFlags("REP", op_rep) \/ OnFlags("SEP", op_sep) \/ Implied("XCE", op_xce)

Stack ==
    \/ Implied("PHA", op_pha) \/ Implied("PHX", op_phx) \/ Implied("PHY", op_phy)
    \/ Implied("PHB", op_phb) \/ Implied("PHD", op_phd) \/ Implied("PHK", op_phk)
    \/ Implied("PHP", op_php) \/ Immediate("PEA", op_pea, 2) \/ Immediate("PER", op_per, 2)
    \/ OnMemory("PEI", op_pei, {"dpag"})
    \/ Implied("PLA", op_pla) \/ Implied("PLX", op_plx) \/ Implied("PLY", op_ply)
    \/ Implied("PLB", op_plb) \/ Implied("PLD", op_pld) \/ Implied("PLP", op_plp)
    \/ Implied("PSH", op_psh) \/ Implied("PUL", op_pul)
    \/ Implied("PHW", op_phw) \/ Implied("PLW", op_plw)
    \/ Implied("PHI", op_phi) \/ Implied("PLI", op_pli) \/ Implied("PIA", op_pia)

Branches ==
    \/ Branch("BCC", "c" \notin cpu.p) \/ Branch("BCS", "c" \in cpu.p)
    \/ Branch("BNE", "z" \notin cpu.p) \/ Branch("BEQ", "z" \in cpu.p)
    \/ Branch("BPL", "n" \notin cpu.p) \/ Branch("BMI", "n" \in cpu.p)
    \/ Branch("BVC", "v" \notin cpu.p) \/ Branch("BVS", "v" \in cpu.p)
    \/ Branch("BRA", TRUE)
    \/ Immediate("BRL", LAMBDA s, d : [s EXCEPT !.pc = Relative(s, d.at, WordSize)], 2)
    \/ BitBranch("BBR", 0) \/ BitBranch("BBS", 1)
    \/ MaskBranch("BAR", FALSE) \/ MaskBranch("BAS", TRUE)

Jumps ==
    \/ OnMemory("JMP", op_jmp, {"absl", "absi", "abxi"} \cup
                                IF cpu.type = "L28" THEN {} ELSE {"alng", "abil"})
    \/ cpu.type # "L28" /\ OnMemory("JSR", op_jsr, {"absl", "abxi"})
    \/ cpu.type = "L28" /\ OnMemory("JSR", op_jsr_l28, {"absl"})
    \/ cpu.type # "L28" /\ Implied("RTS", op_rts)
    \/ cpu.type = "L28" /\ Implied("RTS", op_rts_l28)
    \/ OnMemory("JSL", op_jsl, {"alng"}) \/ Implied("RTL", op_rtl)
    \/ Implied("JSB", op_jsb) \/ Implied("TIP", op_tip) \/ Implied("NXT", op_nxt)
    \/ Immediate("JPI", op_jpi, 2)

\* The character that WDM 2 reads is any the programs work with.
ReadConsole == Decoded("WDM") /\ \E typed \in Operands : Retire("WDM", op_wdm2(Fetch(1), typed))

Control ==
    \/ op_brk
    \/ Immediate("COP", LAMBDA s, d : op_cop(s), 1)
    \/ Implied("RTI", op_rti)
    \/ Implied("WAI", op_wai) \/ Implied("STP", op_wai)
    \/ Immediate("WDM", op_wdm, 1) \/ ReadConsole
    \/ Implied("NOP", LAMBDA s : s)
    \/ Halt

Next == \/ Loads \/ Arithmetic \/ Modifications \/ Transfers \/ FlagChanges
        \/ Stack \/ Branches \/ Jumps \/ Control

Spec == Init /\ [][Next]_vars

-----------------------------------------------------------------------------
(* What the machine keeps whatever it executes.                            *)

Machine ==
    [type : Types, a : Word, x : Word, y : Word, sp : Word, dp : Word, pc : Word,
     pbr : Byte, dbr : Byte, p : SUBSET Flags, e : BOOLEAN, i : Word, wl : Byte, wh : Byte,
     mem : [0 .. Space - 1 -> [v : Byte, f : SUBSET Flags]],
     interrupted : BOOLEAN, stopped : BOOLEAN]

\* The registers hold bytes and words whatever an operation computes on the
\* way to them (the unions REGS and FLAGS of emu816.h).
TypeOK ==
    /\ cpu \in Machine
    /\ ir.op \in Mnemonics \cup {"reset", "trap"} /\ ir.irq \in BOOLEAN
    /\ ir.next \in [pc : Word, pbr : Byte, p : SUBSET Flags]

\* In emulation mode the stack pointer stays in its page: every way to move it
\* (pushes, pulls, interrupts, TXS, TCS, XCE) sees to it, each in its own way.
EmulationStackInPage == cpu.e => cpu.sp - lo(cpu.sp) = sp_page

\* While A is a byte, its upper half B is kept for XBA: no operation of eight
\* bits may reach it.  MVN and MVP count with all of A, TDC and TSC copy a
\* whole word, and the trap that allocates returns one.  While X and Y are
\* bytes their upper halves are zero: abxi, alnx, dpix, dpiy, diix and dily add
\* the whole register whatever its width.  SEP and PLP see to it when they
\* narrow the registers and every write of eight bits keeps it; RTI and XCE
\* narrow them without, and MVN and MVP carry into the upper halves.
IndexHighZero(s) == X8(s) => hi(s.x) = 0 /\ hi(s.y) = 0
UpperHalvesKept ==
    [][ /\ \/ ~M8(cpu)
           \/ ir'.op \in {"XBA", "TDC", "TSC", "MVN", "MVP", "trap"}
           \/ hi(cpu'.a) = hi(cpu.a)
        /\ IndexHighZero(cpu) =>
            IndexHighZero(cpu') \/ ir'.op \in {"RTI", "XCE", "MVN", "MVP"} ]_vars
=============================================================================
