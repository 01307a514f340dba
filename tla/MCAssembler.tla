---------------------------- MODULE MCAssembler ----------------------------
(***************************************************************************)
(* The assembler on programs of three kinds: for every processor and every *)
(* mnemonic a program that tries it with each way to write an operand; the *)
(* programs below, each for something a run from pass to pass can get      *)
(* wrong; and the instructions of the Oberon compiler, which lays them out *)
(* with a table of its own.                                                *)
(***************************************************************************)
EXTENDS Assembler, Decoders

(* How a program is written: words of a line, lines of a program. *)
K(sym)  == <<Token(sym, NoName, 0)>>
N(n)    == <<Token("INTEGER", NoName, n)>>
I(name) == <<Token("IDENT", name, 0)>>
S(text) == <<Token("STRING", text, 0)>>
M(mnemonic) == <<Token("INSTR", mnemonic, 0)>>
X == <<Token("REGX", "x", 0)>>
Y == <<Token("REGY", "y", 0)>>
A == <<Token("REGA", "a", 0)>>
SP == <<Token("REGS", "s", 0)>>
Line(words)    == FlattenSeq(words) \o K("STATESEP")
Lines(lines)   == FlattenSeq(lines)
Let(name, e)   == Line(<<I(name), K("BECOMES"), e>>)
Lab(name)      == Line(<<I(name), K("COLON")>>)
Local(name)    == Line(<<K("PERIOD"), I(name), K("COLON")>>)
Ins(m, words)  == Line(<<M(m)>> \o words)
Data(d, words) == Line(<<K(d)>> \o words)
Cpu(name)      == Let("cpu", S(name))
Org(n)         == Let("org", N(n))
C              == K("COMMA")
At816(n)       == Cpu("65C816") \o Org(n)

-----------------------------------------------------------------------------
(* Programs that name what is set later on, or set a name twice. *)
Passes ==
    \* Two branches whose sizes depend on each other's.
    (<<"cascade">> :> Lines(<<At816(\h8000), Ins("BRA", <<I("t1")>>), Data("FILL", <<N(122), C, N(0)>>),
        Ins("BRA", <<I("t2")>>), Lab("t1"), Data("FILL", <<N(124), C, N(0)>>), Ins("LDA", <<I("t1")>>), Lab("t2")>>))
    \* lda t1 is short or long, and so is the way to t1.
    @@ (<<"oscillates">> :> Lines(<<At816(\h80), Ins("LDA", <<N(\h182), K("MINUS"), I("t1")>>), Lab("t1")>>))
    \* Two passes of one length that are not the same.
    @@ (<<"premature">> :> Lines(<<At816(\h8000), Ins("LDA", <<N(\h8105), K("MINUS"), I("t1")>>),
        Ins("LDA", <<I("t2")>>), Lab("t1"), Ins("LDA", <<N(\h8105), K("MINUS"), I("t1")>>), Lab("t2")>>))
    @@ (<<"label before org">> :> Lines(<<Lab("t1"), Data("WORD", <<I("t1")>>), At816(\h8000), Ins("JMP", <<I("t1")>>)>>))
    @@ (<<"two origins">> :> Lines(<<At816(\h8000), Ins("CLC", <<>>), Org(\h9000), Lab("t1"), Ins("JMP", <<I("t1")>>)>>))
    @@ (<<"twice">> :> Lines(<<Let("v", N(5)), Data("BYTE", <<I("v")>>), Let("v", N(7)), Data("BYTE", <<I("v")>>)>>))
    @@ (<<"alias">> :> Lines(<<Let("v", N(2)), Let("w", I("v")), Let("w", I("w") \o K("PLUS") \o N(1)),
        Data("BYTE", <<I("v"), C, I("w")>>)>>))
    @@ (<<"equates">> :> Lines(<<At816(\h8000), Let("v", I("t1")), Let("w", I("t2")), Data("WORD", <<I("v")>>),
        Lab("t1"), Data("WORD", <<I("w")>>), Lab("t2")>>))
    @@ (<<"locals">> :> Lines(<<At816(\h8000), Local("loop"), Ins("DEX", <<>>), Lab("one"), Local("loop"), Ins("DEX", <<>>),
        Ins("BNE", <<K("PERIOD"), I("loop")>>), Lab("two"), Ins("BRA", <<K("PERIOD"), I("out")>>),
        Local("loop"), Ins("JMP", <<I("one"), K("PERIOD"), I("loop")>>), Local("out")>>))
    @@ (<<"short of a brace">> :> Lines(<<At816(\h8000), Lab("t1"), Ins("BRA", <<I("t1")>>)>>) \o M("CLC"))

(* Conditions, macros, scopes. *)
If(e, body)    == K("IF") \o e \o K("BLOCKSTART") \o K("STATESEP") \o body \o K("BLOCKEND")
Else(body)     == K("ELSE") \o K("BLOCKSTART") \o K("STATESEP") \o body \o K("BLOCKEND")
Blocks ==
    (<<"conditions">> :> Lines(<<At816(\h8000), Let("v", N(2)),
        If(I("v") \o K("EQL") \o N(1), Ins("CLC", <<>>)) \o K("ELSE") \o If(I("v") \o K("EQL") \o N(2),
            If(I("later"), Ins("SEC", <<>>)) \o Else(Ins("SED", <<>>)) \o K("STATESEP")) \o Else(Ins("NOP", <<>>)) \o K("STATESEP"),
        If(I("yes"), Lab("later") \o Ins("CLD", <<>>)) \o K("STATESEP")>>))
    @@ (<<"macros">> :> Lines(<<At816(\h8000),
        I("put") \o K("MACRO") \o I("n") \o C \o I("to") \o K("BLOCKSTART") \o K("STATESEP")
            \o Ins("LDA", <<K("HASH"), I("n")>>) \o If(I("n"), Ins("STA", <<I("to")>>)) \o Else(Ins("STZ", <<I("to")>>))
            \o K("STATESEP") \o K("BLOCKEND") \o K("STATESEP"),
        Line(<<I("put"), N(1), C, N(\h20)>>), Line(<<I("put"), N(0), C, N(\h21)>>)>>))
    @@ (<<"a parameter short">> :> Lines(<<I("put") \o K("MACRO") \o I("n") \o C \o I("to") \o K("BLOCKSTART") \o K("STATESEP")
            \o Ins("LDA", <<I("n")>>) \o K("BLOCKEND") \o K("STATESEP"), Line(<<I("put"), N(1)>>)>>))
    @@ (<<"scope">> :> K("BLOCKSTART") \o K("STATESEP") \o Ins("CLC", <<>>) \o K("BLOCKEND") \o K("STATESEP"))
    @@ (<<"open block">> :> K("IF") \o N(1) \o K("BLOCKSTART") \o K("STATESEP") \o Ins("CLC", <<>>))
    @@ (<<"condition on a line">> :> Lines(<<At816(\h8000), Let("v", N(1)),
        K("IF") \o I("v") \o K("BLOCKSTART") \o M("LDA") \o N(\h10) \o K("BLOCKEND") \o K("STATESEP"), Ins("CLC", <<>>)>>))

(* Data, registers, sections. *)
Proc == K("PERIOD") \o I("proc")
ErrorIfDirective(n) ==
    Lines(<<Ins("CLC", <<>>), K("ERRORIF") \o N(0) \o K("IF") \o N(n) \o K("BLOCKSTART") \o K("STATESEP") \o K("BLOCKEND")
                              \o N(n) \o K("STATESEP")>>)
Others ==
    (<<"text">> :> Lines(<<Data("TEXT", <<S("a\\n"), C, N(\h1234), C, N(7)>>), Data("TEXT", <<K("PERIOD"), I("l"), S("a\\n"), C, N(\h1234)>>),
        Data("TEXT", <<K("PERIOD"), N(0), S("bc")>>), Data("TEXT", <<K("PERIOD"), N(7), S("a\\n"), C, S("bc")>>),
        Data("BYTE", <<S("bc"), C, N(-1)>>), Data("TEXT", <<K("PERIOD"), I("l"), I("yes")>>)>>))
    @@ (<<"fill">> :> Lines(<<Data("FILL", <<N(5), C, N(1), C, N(2)>>), Data("FILL", <<N(2), C, N(9)>>),
        Data("DATA", <<K("PERIOD"), I("w"), N(\h102), C, N(3)>>), Data("FILL", <<N(0)>>)>>))
    @@ (<<"nothing to fill with">> :> Data("FILL", <<N(5)>>))
    @@ (<<"sections">> :> Lines(<<At816(\h8000), Ins("LDA", <<I("v")>>), Ins("LDA", <<I("w")>>), Data("SECTION", <<S("data")>>),
        Org(\h300), Lab("v"), Data("BYTE", <<N(1)>>), Data("SECTION", <<S("bss")>>), Org(\h40), Data("BYTE", <<N(0), C, N(0)>>),
        Lab("w"), Data("BYTE", <<N(0)>>), Data("SECTION", <<S("far"), C, N(8)>>), Lab("z"), Data("WORD", <<N(0)>>),
        Data("SECTION", <<S("text")>>), Ins("STA", <<I("w")>>), Ins("STA", <<I("z")>>)>>))
    @@ (<<"imports">> :> Lines(<<At816(\h8000), Data("IMPORT", <<I("Out")>>), Ins("JSL", <<I("Out"), K("PERIOD"), I("Int")>>),
        Ins("JSL", <<I("Out"), K("PERIOD"), I("Ln")>>)>>))
    @@ (<<"signatures">> :> Lines(<<At816(\h8000), Lab("t1"), Ins("BRA", <<I("t1")>>), Line(<<Proc, I("Ln")>>),
        Line(<<Proc, I("Int"), K("LPAREN"), K("VAR"), I("v"), C, M("ADD"), K("RPAREN"), K("COLON"), I("w")>>),
        Data("DATA", <<K("PERIOD"), I("word"), N(\h102)>>), Data("DATA", <<K("PERIOD"), I("Abs"), N(\h102)>>),
        Lab("t2"), Data("WORD", <<I("t2")>>)>>))
    @@ (<<"no signature">> :> Lines(<<Line(<<Proc, N(1)>>), Ins("CLC", <<>>)>>))
    @@ (<<"parameter of digits">> :> Line(<<Proc, I("Int"), K("LPAREN"), N(1), K("RPAREN")>>))
    @@ (<<"includes">> :> Lines(<<At816(\h8000), Data("INCLUDE", <<S("defs")>>), K("STATESEP"), Ins("LDA", <<I("v")>>)>>))
    @@ (<<"registers">> :> Lines(<<Let("dpage", N(5)), Let("dbreg", N(-1)), Let("pbreg", N(3)), Let("pc", N(9)), Let("entry", N(7)),
        Data("BYTE", <<I("dpage"), C, I("dbreg"), C, I("pbreg"), C, I("pc"), C, I("org"), C, I("longa"), C, I("longi"), C, I("addr")>>),
        Data("TEXT", <<I("cpu")>>), Data("BYTE", <<I("pass")>>),
        Data("TITLE", <<S("bc")>>), Data("SUBHEADING", <<S("bc")>>), K("PAGE") \o K("STATESEP"), Data("MESSAGE", <<S("bc")>>)>>))
    @@ (<<"reckoning">> :> Lines(<<
        Data("WORD", <<N(7), K("SLASH"), N(2), C, N(0), K("MINUS"), N(7), K("DIV"), N(2), C, N(7), K("MOD"), N(2)>>),
        Data("BYTE", <<N(6), K("AMPERSAND"), N(3), C, N(6), K("BARC"), N(1), C, N(1), K("LEFT_SHIFT"), N(4), C, N(16), K("RIGHT_SHIFT"), N(2)>>),
        Data("BYTE", <<K("MINUS"), N(1), K("PLUS"), N(2), C, K("LPAREN"), N(2), K("PLUS"), N(1), K("RPAREN"), K("AST"), N(3)>>),
        Data("BYTE", <<K("LSS"), N(\h123456), C, K("GTR"), N(\h123456), C, K("CARET"), N(\h123456), C, K("NOT"), N(2)>>),
        Data("BYTE", <<N(3), K("LSS"), N(3), C, N(3), K("LEQ"), N(3), C, N(3), K("GTR"), N(2), C, N(3), K("GEQ"), N(3), C, N(3), K("NEQ"), N(2)>>)>>))
    @@ (<<"errors">> :> Lines(<<Data("ERROR", <<S("bc")>>), Let("pass", N(3)), Let("cpu", N(5)), Ins("CLC", <<>>)>>))
    @@ (<<"mistaken">> :> Lines(<<I("v") \o K("BECOMES") \o K("RPAREN") \o K("STATESEP"), Ins("CLC", <<>>)>>))
    @@ (<<"divided">> :> Data("BYTE", <<N(1), K("SLASH"), N(0)>>))
    @@ (<<"bad cpu">> :> Lines(<<Cpu("6510"), Ins("CLC", <<>>)>>))
    @@ (<<"to do">> :> Lines(<<Data("LONG", <<N(5)>>), Data("FLOAT", <<N(5)>>), Data("DOUBLE", <<N(5)>>), Ins("CLC", <<>>)>>))
    @@ (<<"error not">> :> ErrorIfDirective(0))
    @@ (<<"error if">> :> ErrorIfDirective(1))
    @@ (<<"nothing">> :> <<>>)

-----------------------------------------------------------------------------
(* Programs for every mnemonic of every processor: each way to write an     *)
(* operand, with values of one to three bytes and the modifiers that change *)
(* the mode, at the addresses from $8000.                                   *)
Written(v) ==
    <<<<N(v)>>, <<N(v), C, X>>, <<N(v), C, Y>>, <<K("LPAREN"), N(v), K("RPAREN")>>,
      <<K("LPAREN"), N(v), C, X, K("RPAREN")>>>>
WrittenOnly(v) ==
    <<<<K("HASH"), N(v)>>, <<N(v), C, SP>>, <<K("LSQ"), N(v), K("RSQ")>>, <<K("LPAREN"), N(v), K("RPAREN"), C, Y>>,
      <<K("LSQ"), N(v), K("RSQ"), C, Y>>, <<K("LPAREN"), N(v), C, SP, K("RPAREN"), C, Y>>,
      <<K("LSQ"), N(v), C, X, K("RSQ")>>>>
Modified(letter, v) == [i \in 1 .. 5 |-> <<K("PERIOD"), I(letter)>> \o Written(v)[i]]
Several == <<<<N(3), C, N(\h12)>>, <<N(\h123456), C, N(\h654321)>>, <<K("HASH"), N(3), C, N(\h12)>>,
             <<K("HASH"), N(3), C, K("HASH"), N(\h12)>>, <<N(3), C, N(\h12), C, N(\h8004)>>,
             <<N(3), C, N(\h1234), C, N(\h8004)>>>>

Operands ==
    <<<<<<>>, <<A>>>> \o Written(\hff) \o Written(\h100) \o Written(\h8010),
      Written(\h10000) \o WrittenOnly(\hff) \o Several,
      WrittenOnly(\h100) \o WrittenOnly(\h10000),
      Modified("d", \h1234) \o Modified("b", \h1234) \o Modified("l", \h12),
      Modified("w", \h12) \o Modified("a", \h12)>>

EachOperand(mnemonic, operands) == Lines([i \in DOMAIN operands |-> Ins(mnemonic, operands[i])])

Processors == {"6502", "65C02", "R65C02", "65C816", "C19"}
Mnemonics == UNION {{c} \X DOMAIN Tables[Machines[c]] : c \in Processors}
Immediates816 == 2          \* the operands whose length the widths decide
Emissions ==
    [u \in {<<m[1], m[2], "narrow", group>> : m \in Mnemonics, group \in DOMAIN Operands}
           \cup {<<"65C816", m, "wide", Immediates816>> : m \in DOMAIN gen_816} |->
        Cpu(u[1]) \o Org(\h8000)
        \o (IF u[3] = "wide" THEN Let("longa", N(1)) \o Let("longi", N(1)) ELSE <<>>)
        \o EachOperand(u[2], Operands[u[4]])]

Small == Passes @@ Blocks @@ Others
MCCodes == ("bc" :> <<98, 99>>) @@ ("a\\n" :> <<97, 92, 110>>)
           @@ ("6502" :> <<54, 53, 48, 50>>)
MCExports  == [Out |-> <<<<"Int", 3>>, <<"Ln", 4>>>>]
MCIncluded == [defs |-> Let("v", N(\h33))]
MCPrograms == LET all == Small @@ Emissions IN [u \in DOMAIN all |-> [parsed |-> parse_asm_file(all[u]), output |-> "bin"]]

-----------------------------------------------------------------------------
(* What the emulator makes of the bytes. *)
Decoder == [EM_816 |-> step_wdc, EM_C02 |-> step_wdc, EM_02 |-> step_wdc, EM_RC02 |-> step_rockwell,
            EM_RC01 |-> step_rockwell, EM_RC19 |-> step_l28]

(* The emulator's names for an instruction. *)
SameName ==
   [
    ADC |-> "adc", ADD |-> "add", AND |-> "and", BAR |-> "bar", BAS |-> "bas", BBR |-> "bbr", BBS |-> "bbs",
    BCC |-> "bcc", BCS |-> "bcs", BEQ |-> "beq", BMI |-> "bmi", BNE |-> "bne", BPL |-> "bpl", BVC |-> "bvc",
    BVS |-> "bvs", CLC |-> "clc", CLD |-> "cld", CLI |-> "cli", CLV |-> "clv", CLW |-> "clw", CMP |-> "cmp",
    COP |-> "cop", CPX |-> "cpx", CPY |-> "cpy", DEX |-> "dex", DEY |-> "dey", EOR |-> "eor", EXC |-> "exc",
    INI |-> "ini", INX |-> "inx", INY |-> "iny", JMP |-> "jmp", JPI |-> "jpi", JSB |-> "jsb", JSL |-> "jsl",
    LAB |-> "lab", LAI |-> "lai", LAN |-> "lan", LDA |-> "lda", LDX |-> "ldx", LDY |-> "ldy", LII |-> "lii",
    MPA |-> "mpa", MPY |-> "mpy", MVN |-> "mvn", MVP |-> "mvp", NEG |-> "neg", NOP |-> "nop", NXT |-> "nxt",
    ORA |-> "ora", PEA |-> "pea", PEI |-> "pei", PER |-> "per", PHA |-> "pha", PHB |-> "phb", PHD |-> "phd",
    PHI |-> "phi", PHK |-> "phk", PHP |-> "php", PHW |-> "phw", PHX |-> "phx", PHY |-> "phy", PIA |-> "pia",
    PLA |-> "pla", PLB |-> "plb", PLD |-> "pld", PLI |-> "pli", PLP |-> "plp", PLW |-> "plw", PLX |-> "plx",
    PLY |-> "ply", PSH |-> "psh", PUL |-> "pul", RBA |-> "rba", REP |-> "rep", RMB |-> "rmb", RND |-> "rnd",
    RTI |-> "rti", RTL |-> "rtl", SBA |-> "sba", SBC |-> "sbc", SEC |-> "sec", SED |-> "sed", SEI |-> "sei",
    SEP |-> "sep", SMB |-> "smb", STA |-> "sta", STI |-> "sti", STP |-> "stp", STX |-> "stx", STY |-> "sty",
    STZ |-> "stz", TAW |-> "taw", TAX |-> "tax", TAY |-> "tay", TCD |-> "tcd", TCS |-> "tcs", TDC |-> "tdc",
    TIP |-> "tip", TRB |-> "trb", TSB |-> "tsb", TSC |-> "tsc", TSX |-> "tsx", TWA |-> "twa", TXA |-> "txa",
    TXS |-> "txs", TXY |-> "txy", TYA |-> "tya", TYX |-> "tyx", WAI |-> "wai", WDM |-> "wdm", XCE |-> "xce"]
OtherNames ==
    [ASL |-> {"asl", "asla"}, ROL |-> {"rol", "rola"}, LSR |-> {"lsr", "lsra"}, ROR |-> {"ror", "rora"}, ASR |-> {"asra"},
     INC |-> {"inc", "inca"}, DEC |-> {"dec", "deca"}, BIT |-> {"bit", "biti"}, JML |-> {"jmp"}, SWA |-> {"xba"},
     XBA |-> {"xba"}, TAD |-> {"tcd"}, TAS |-> {"tcs"}, TDA |-> {"tdc"}, TSA |-> {"tsc"}, BRK |-> {"brk", "brk_l28"},
     JSR |-> {"jsr", "jsr_l28", "jsl"}, RTS |-> {"rts", "rts_l28"}, BRA |-> {"bra", "brl"}, BRL |-> {"bra", "brl"}]
Names(opcode) == IF opcode \in DOMAIN OtherNames THEN OtherNames[opcode] ELSE {SameName[opcode]}

(* Its addressing modes for an operand that is written in each way, and for *)
(* the modes that only the compiler names.                                  *)
Ways ==
    [Implied |-> {"impl", "acc"}, Accumulator |-> {"acc", "impl"}, Immediate |-> {"immm", "immx", "immb", "immw"},
     Absolute |-> {"dpag", "absl", "alng", "rela", "lrel"}, AbsoluteIndexedX |-> {"dpgx", "absx", "alnx"},
     AbsoluteIndexedY |-> {"dpgy", "absy"}, AbsoluteIndirect |-> {"dpgi", "absi", "abil"},
     AbsoluteIndirectLong |-> {"dpil", "abil"}, AbsoluteIndexedIndirect |-> {"dpix", "abxi", "diix"},
     DirectPageIndexedIndirectX |-> {"dpix", "diix"}, DirectPageIndirectIndexedY |-> {"dpiy"},
     DirectPageIndirectLongIndexedY |-> {"dily"}, StackRelative |-> {"srel"},
     StackRelativeIndirectIndexedY |-> {"sriy"}, BlockMove |-> {"immw", "dpag", "immb"},
     BitAbsoluteRelative |-> {"bitr", "immb"},
     DirectPage |-> {"dpag", "rela", "lrel", "absl", "alng"}, DirectPageIndexedX |-> {"dpgx"}, DirectPageIndexedY |-> {"dpgy"},
     DirectPageIndirect |-> {"dpgi"}, DirectPageIndirectLong |-> {"dpil"}, AbsoluteLong |-> {"alng"},
     AbsoluteLongIndexedX |-> {"alnx"}, ProgramCounterRelative |-> {"rela", "lrel"}]
Way(entry, mode) ==
    \/ entry[2] \in Ways[mode]
    \/ entry[1] = "pea" /\ mode \in {"Absolute", "DirectPage"} /\ entry[2] = "immw"
    \/ entry[1] = "per" /\ mode = "Immediate" /\ entry[2] = "lrel"
    \/ entry[1] = "pei" /\ mode = "DirectPageIndirect" /\ entry[2] = "dpag"
    \/ entry[1] = "jsb" /\ mode \in {"Absolute", "Immediate"}
    \/ entry[1] = "jpi" /\ mode = "AbsoluteIndirect"

(* The bytes that the addressing mode and the operation then read, and the  *)
(* number in the first byte.                                                *)
LowBytes(v, n) == [i \in 1 .. n |-> (v \div 256 ^ (i - 1)) % 256]
Read(entry, value1, value2, value3, at, n) ==
    CASE entry[2] \in {"rela", "lrel"} -> LowBytes(value1 - (at + n + 1), n)
      [] entry[1] \in {"mvn", "mvp"} -> <<Bank(value1), Bank(value2)>>
      [] entry[1] \in {"rba", "sba", "sti"} -> <<Lo(value2)>> \o LowBytes(value1, n - 1)
      [] entry[1] \in {"bar", "bas"} -> <<Lo(value2), Lo(value3), Hi(value3), Lo(value1 - (at + n + 1))>>
      [] entry[2] = "bitr" -> <<Lo(value2), Lo(value1 - (at + n + 1))>>
      [] OTHER -> LowBytes(value1, n)
Numbers(entry, value1, value2, value3) ==
    CASE entry[1] = "jsb" -> value1 % 8
      [] entry[2] = "bitr" -> value3 % 8
      [] OTHER -> value2 % 8

Agrees(entry, opcode, mode, values, bytes, at, wide_a, wide_i) ==
    /\ entry[1] \in Names(opcode)
    /\ Way(entry, mode)
    /\ Len(bytes) = Taken(entry, wide_a, wide_i)
    /\ Tail(bytes) = Read(entry, values[1], values[2], values[3], at, Len(bytes) - 1)
    /\ Len(entry) = 3 => entry[3] % 8 = Numbers(entry, values[1], values[2], values[3])

(* What the tables get wrong: one byte for brk, which the emulator takes    *)
(* with the byte after it (and the other way about on the C19); three bytes *)
(* for stx d,Y and stz d,X; rows of the R65C02 that are one mode off; a     *)
(* number of jsb beyond 7, which becomes another instruction.  And what the *)
(* emulator gets wrong: eor [d],Y.                                          *)
Miscoded(cpu, opcode, mode) ==
    \/ opcode = "BRK"
    \/ opcode = "STX" /\ mode = "DirectPageIndexedY"
    \/ opcode = "STZ" /\ mode = "DirectPageIndexedX"
    \/ cpu = "EM_RC02" /\ opcode \in {"ORA", "SBC"} /\ mode = "DirectPageIndexedIndirectX"
    \/ cpu = "EM_RC02" /\ opcode \in {"ORA", "SBC", "STA"} /\ mode = "AbsoluteIndirect"
    \/ cpu = "EM_816" /\ opcode = "EOR" /\ mode = "DirectPageIndirectLongIndexedY"

(* Without a modifier a short form is taken for an operand that fits it.    *)
DirectModes == {"DirectPage", "DirectPageIndexedX", "DirectPageIndexedY", "DirectPageIndexedIndirectX"}
Fits(mode, resolved, modifier, value) ==
    mode # resolved /\ resolved \in DirectModes /\ modifier = "None" => value < 256

AssemblerDecodes ==
    pass = 0 /\ Runs({"Emit"}) /\ machine \in DOMAIN Decoder =>
        LET instr    == Current.instr
            values   == EmitOperands(instr.mode)
            entry    == Decoder[machine][Emitted[1]]
            resolved == Resolved(instr.mode, instr.modifier, values[1])
        IN  \/ Emitted = <<>>
            \/ Miscoded(machine, instr.opcode, resolved)
            \/ instr.opcode = "JSB" /\ values[1] > 7
            \/ /\ Agrees(entry, instr.opcode, instr.mode, values, Emitted, addr, longa, longi)
               /\ Fits(instr.mode, resolved, instr.modifier, values[1])

(* The rows of the compiler, each with operands of every size.              *)
CompilerDecodes ==
    unit = <<"nothing">> /\ part = 0 =>
        \A opcode \in DOMAIN oc_gen_816 : \A mode \in DOMAIN oc_gen_816[opcode] :
            \A v \in {1, \hff, \h100, \h8010, \h10000}, wide \in BOOLEAN :
                LET bytes == oc_codegen_gen(oc_gen_816, opcode, mode, v, 3, \h8000, wide, wide)
                    form  == oc_gen_816[opcode][mode][2]
                    target == IF opcode = "PER" THEN \h8003 + v ELSE v
                IN  \/ bytes = <<>>
                    \/ Miscoded("EM_816", opcode, OcResolved(mode, v))
                    \/ form \in {"of", "ofl", "far"}
                    \/ /\ Agrees(step_wdc[bytes[1]], opcode, mode, <<target, 3, 0>>, bytes, \h8000, wide, wide)
                       /\ Fits(mode, OcResolved(mode, v), "None", v)

(* The instruction that codegen_gen of the assembler (shared/src/codegen.c   *)
(* with the tables gen_*.c) or of the compiler (oc/src/codegen.c) lays down  *)
(* is the one the emulator (emu816.cpp) executes there: the same operation   *)
(* on the same operand, in as many bytes as the emulator takes under the     *)
(* widths in force, so that the two never fall out of step.                  *)
EmissionsDecode == AssemblerDecodes /\ CompilerDecodes

-----------------------------------------------------------------------------
(* as_compile takes two passes of the same length for two equal passes, and  *)
(* interp_run starts a pass with the current_label the one before it ended   *)
(* with.  The programs that show it:                                         *)
Moving == {<<"premature">>, <<"locals">>}

(* In the pass that makes the output every label is what the pass before it  *)
(* made of it, so that whoever used it before its line was right.            *)
LabelsSettle ==
    [][pass = 0 /\ Runs({"Label"}) /\ unit \notin Moving =>
        Len(heap') = Len(heap) /\ \A i \in DOMAIN heap : heap'[i].num = heap[i].num]_vars

(* parse_block waits for a brace past the end of the text; as_compile has no *)
(* limit to its passes; and a processor of no known name is one of chance.   *)
Endless == {<<"open block">>, <<"parameter of digits">>, <<"oscillates">>, <<"bad cpu">>}

(* The passes of every other program come to an end, with an output or with  *)
(* errors, though branches, modes and sections grow and shrink with the      *)
(* addresses of the pass before.                                             *)
Terminates == unit \notin Endless => <>(phase \in {"done", "failed", "crashed"})
=============================================================================
