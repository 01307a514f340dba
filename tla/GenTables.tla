----------------------------- MODULE GenTables -----------------------------
(***************************************************************************)
(* The instruction tables of the assembler, one for each processor, in the *)
(* order of the switches of shared/src/gen_*.c, and of the Oberon compiler *)
(* (oc/src/gen_816.c): one definition per stretch of mnemonics.            *)
(*                                                                         *)
(* A table gives each mnemonic a function from the addressing modes it     *)
(* accepts to <<first byte, form>>; the form names the operator of         *)
(* codegen.c that lays out the bytes (module Codegen).  The rows of one    *)
(* kind of instruction are at fixed distances from one first byte b, and a *)
(* column below names those distances once.                                *)
(***************************************************************************)
EXTENDS Integers, TLC

Row(modes, opcode, form) == [m \in modes |-> <<opcode, form>>]

Only(mode, opcode, form) == Row({mode}, opcode, form)

ImpliedRow(opcode) == Only("Implied", opcode, "o")

AccumulatorRow(opcode) == Row({"Accumulator", "Implied"}, opcode, "o")

ImmediateRow(opcode, form) == Only("Immediate", opcode, form)

(* A branch names its target as an address of any width. *)
Targets == {"DirectPage", "Absolute", "ProgramCounterRelative"}

BranchRow(opcode) == Row(Targets, opcode, "or")

(* Operands in memory, by address and by address and X. *)
Memory(b) == Only("DirectPage", b, "ob") @@ Only("Absolute", b + 8, "ow")
Modify(b) == Memory(b) @@ Only("DirectPageIndexedX", b + 16, "ob") @@ Only("AbsoluteIndexedX", b + 24, "ow")
Shift(b)  == AccumulatorRow(b + 4) @@ Modify(b)

(* cpx, cpy, ldx and ldy: an index register and its operand. *)
IndexOperand(b, form) == ImmediateRow(b, form) @@ Memory(b + 4)

(* ldx and ldy: the other index register is the index. *)
LoadX(b, form) == IndexOperand(b, form) @@ Only("DirectPageIndexedY", b + 20, "ob") @@ Only("AbsoluteIndexedY", b + 28, "ow")
LoadY(b, form) == IndexOperand(b, form) @@ Only("DirectPageIndexedX", b + 20, "ob") @@ Only("AbsoluteIndexedX", b + 28, "ow")

(* stx and sty.  The form of stx d,Y is the table's. *)
StoreX(b, form) == Memory(b) @@ Only("DirectPageIndexedY", b + 16, form)
StoreY(b)       == Memory(b) @@ Only("DirectPageIndexedX", b + 16, "ob")

(* ora, and, eor, adc, sta, lda, cmp and sbc: b is the first byte of (d,X). *)
Direct(b)  == Modify(b + 4) @@ Only("AbsoluteIndexedY", b + 24, "ow")
Alu6502(b) ==
    Direct(b) @@ ImmediateRow(b + 8, "ob")
    @@ Only("DirectPageIndexedIndirectX", b, "ob") @@ Only("DirectPageIndirectIndexedY", b + 16, "ob")
AluC02(b) == Alu6502(b) @@ Only("DirectPageIndirect", b + 17, "ob")
Alu816(b) ==
    ImmediateRow(b + 8, "om") @@ AluC02(b)
    @@ Only("AbsoluteLong", b + 14, "ol") @@ Only("AbsoluteLongIndexedX", b + 30, "ol")
    @@ Only("DirectPageIndirectLong", b + 6, "ob") @@ Only("DirectPageIndirectLongIndexedY", b + 22, "ob")
    @@ Only("StackRelative", b + 2, "ob") @@ Only("StackRelativeIndirectIndexedY", b + 18, "ob")

Without(rows, modes) == [m \in DOMAIN rows \ modes |-> rows[m]]

(* The mnemonics of f, a record of first bytes, are one byte each. *)
ImpliedRows(f)     == [mnemonic \in DOMAIN f |-> ImpliedRow(f[mnemonic])]
BranchRows(f)      == [mnemonic \in DOMAIN f |-> BranchRow(f[mnemonic])]
AccumulatorRows(f) == [mnemonic \in DOMAIN f |-> AccumulatorRow(f[mnemonic])]

-----------------------------------------------------------------------------
(***************************************************************************)
(* The 65C816 table of the assembler, shared/src/gen_816.c.                *)
(*                                                                         *)
(* A branch whose value is 0 emits nothing (the early return the source    *)
(* calls an optimisation): form "br".  "bra" and "brl" choose between the  *)
(* short and the long branch by the distance.  "om" and "omi" are          *)
(* immediates as wide as the accumulator and the index registers, and      *)
(* "orl" is the long relative form.  The list of relocations that jsr and  *)
(* jsl append to is written and never read, and is left out.               *)
(***************************************************************************)

OptionalBranches(f) == [mnemonic \in DOMAIN f |-> Row(Targets, f[mnemonic], "br")]

(* gen_816: sADC .. sBRL. *)
gen_816_ADC_BRL ==
    [ADC |-> Alu816(\h61), AND |-> Alu816(\h21), ASL |-> Shift(\h06),
     BIT |-> ImmediateRow(\h89, "om") @@ Modify(\h24),
     BRA |-> Row(Targets, \h80, "bra"),
     BRL |-> Row(Targets, \h82, "brl"),
     BRK |-> ImpliedRow(\h00) @@ ImmediateRow(\h00, "ob")]
    @@ OptionalBranches([BCC |-> \h90, BCS |-> \hb0, BEQ |-> \hf0, BMI |-> \h30, BNE |-> \hd0, BPL |-> \h10])

(* gen_816: sBVC .. sINY. *)
gen_816_BVC_INY ==
    OptionalBranches([BVC |-> \h50, BVS |-> \h70])
    @@ ImpliedRows([CLC |-> \h18, CLD |-> \hd8, CLI |-> \h58, CLV |-> \hb8,
                    DEX |-> \hca, DEY |-> \h88, INX |-> \he8, INY |-> \hc8])
    @@ [CMP |-> Alu816(\hc1), EOR |-> Alu816(\h41),
        COP |-> ImmediateRow(\h02, "ob"),
        CPX |-> IndexOperand(\he0, "omi"), CPY |-> IndexOperand(\hc0, "omi"),
        DEC |-> AccumulatorRow(\h3a) @@ Modify(\hc6), INC |-> AccumulatorRow(\h1a) @@ Modify(\he6)]

(* gen_816: sJMP .. sNOP.  lda takes (a) as (d). *)
gen_816_JMP_NOP ==
    [JMP |-> Row({"DirectPage", "Absolute"}, \h4c, "ow") @@ Only("AbsoluteIndirect", \h6c, "ow")
             @@ Only("AbsoluteIndexedIndirect", \h7c, "ow") @@ Only("AbsoluteLong", \h5c, "ol")
             @@ Only("AbsoluteIndirectLong", \hdc, "ow"),
     JML |-> Row({"DirectPage", "Absolute", "AbsoluteLong"}, \h5c, "ol")
             @@ Row({"AbsoluteIndirect", "AbsoluteIndirectLong"}, \hdc, "ow"),
     JSL |-> Row({"DirectPage", "Absolute", "AbsoluteLong"}, \h22, "ol"),
     JSR |-> Row({"DirectPage", "Absolute"}, \h20, "ow") @@ Only("AbsoluteIndexedIndirect", \hfc, "ow")
             @@ Only("AbsoluteLong", \h22, "ol"),
     LDA |-> Alu816(\ha1) @@ Only("AbsoluteIndirect", \hb2, "ob"),
     LDX |-> LoadX(\ha2, "omi"), LDY |-> LoadY(\ha0, "omi"), LSR |-> Shift(\h46),
     MVN |-> Only("BlockMove", \h54, "omove"), MVP |-> Only("BlockMove", \h44, "omove"),
     NOP |-> ImpliedRow(\hea)]

(* gen_816: sORA .. sROR. *)
gen_816_ORA_ROR ==
    [ORA |-> Alu816(\h01), ROL |-> Shift(\h26), ROR |-> Shift(\h66),
     PEA |-> Row({"Immediate", "Absolute"}, \hf4, "ow"),
     PEI |-> Only("DirectPageIndirect", \hd4, "ob"),
     PER |-> Row({"Immediate", "DirectPage", "Absolute"}, \h62, "orl"),
     REP |-> ImmediateRow(\hc2, "ob")]
    @@ ImpliedRows([PHA |-> \h48, PHB |-> \h8b, PHD |-> \h0b, PHK |-> \h4b, PHP |-> \h08, PHX |-> \hda,
                    PHY |-> \h5a, PLA |-> \h68, PLB |-> \hab, PLD |-> \h2b, PLP |-> \h28, PLX |-> \hfa,
                    PLY |-> \h7a])

(* gen_816: sRTI .. sTAY.  sta takes d,Y as a,Y; stx d,Y and stz d,X are    *)
(* laid out as words.                                                       *)
gen_816_RTI_TAY ==
    ImpliedRows([RTI |-> \h40, RTL |-> \h6b, RTS |-> \h60, SEC |-> \h38, SED |-> \hf8, SEI |-> \h78,
                 STP |-> \hdb, TAX |-> \haa, TAY |-> \ha8])
    @@ [SBC |-> Alu816(\he1),
        SEP |-> ImmediateRow(\he2, "ob"),
        STA |-> Without(Alu816(\h81), {"Immediate"}) @@ Only("DirectPageIndexedY", \h99, "ow"),
        STX |-> StoreX(\h86, "ow"), STY |-> StoreY(\h84),
        STZ |-> Only("Absolute", \h9c, "ow") @@ Only("DirectPage", \h64, "ob")
                @@ Only("AbsoluteIndexedX", \h9e, "ow") @@ Only("DirectPageIndexedX", \h74, "ow")]

(* gen_816: sTAD .. sXCE. *)
gen_816_TAD_XCE ==
    ImpliedRows([TAD |-> \h5b, TCD |-> \h5b, TAS |-> \h1b, TCS |-> \h1b, TDA |-> \h7b, TDC |-> \h7b,
                 TSA |-> \h3b, TSC |-> \h3b, TSX |-> \hba, TXA |-> \h8a, TXS |-> \h9a, TXY |-> \h9b,
                 TYA |-> \h98, TYX |-> \hbb, WAI |-> \hcb, SWA |-> \heb, XBA |-> \heb, XCE |-> \hfb])
    @@ [TRB |-> Only("Absolute", \h1c, "ow") @@ Only("DirectPage", \h14, "ob"),
        TSB |-> Only("Absolute", \h0c, "ow") @@ Only("DirectPage", \h04, "ob"),
        WDM |-> ImmediateRow(\h42, "ob")]

gen_816 == gen_816_ADC_BRL @@ gen_816_BVC_INY @@ gen_816_JMP_NOP
           @@ gen_816_ORA_ROR @@ gen_816_RTI_TAY @@ gen_816_TAD_XCE
-----------------------------------------------------------------------------
(***************************************************************************)
(* The tables of the NMOS 6502, shared/src/gen_02.c, and of the 65C02,     *)
(* shared/src/gen_C02.c.                                                   *)
(***************************************************************************)

(* gen_02: sADC .. sBVS. *)
gen_02_ADC_BVS ==
    [ADC |-> Alu6502(\h61), AND |-> Alu6502(\h21), ASL |-> Shift(\h06), BIT |-> Memory(\h24),
     BRK |-> ImpliedRow(\h00) @@ ImmediateRow(\h00, "ob")]
    @@ BranchRows([BCC |-> \h90, BCS |-> \hb0, BEQ |-> \hf0, BMI |-> \h30, BNE |-> \hd0, BPL |-> \h10,
                   BVC |-> \h50, BVS |-> \h70])

(* gen_02: sCLC .. sJSR. *)
gen_02_CLC_JSR ==
    ImpliedRows([CLC |-> \h18, CLD |-> \hd8, CLI |-> \h58, CLV |-> \hb8,
                 DEX |-> \hca, DEY |-> \h88, INX |-> \he8, INY |-> \hc8])
    @@ [CMP |-> Alu6502(\hc1), EOR |-> Alu6502(\h41), CPX |-> IndexOperand(\he0, "ob"), CPY |-> IndexOperand(\hc0, "ob"),
        DEC |-> Modify(\hc6), INC |-> Modify(\he6),
        JMP |-> Row({"DirectPage", "Absolute"}, \h4c, "ow") @@ Only("AbsoluteIndirect", \h6c, "ow"),
        JSR |-> Row({"DirectPage", "Absolute"}, \h20, "ow")]

(* gen_02: sLDA .. sROR. *)
gen_02_LDA_ROR ==
    [LDA |-> Alu6502(\ha1), LDX |-> LoadX(\ha2, "ob"), LDY |-> LoadY(\ha0, "ob"), ORA |-> Alu6502(\h01),
     LSR |-> Shift(\h46), ROL |-> Shift(\h26), ROR |-> Shift(\h66)]
    @@ ImpliedRows([NOP |-> \hea, PHA |-> \h48, PHP |-> \h08, PLA |-> \h68, PLP |-> \h28])

(* gen_02: sRTI .. sTYA.  stx d,Y is laid out as a word. *)
gen_02_RTI_TYA ==
    ImpliedRows([RTI |-> \h40, RTS |-> \h60, SEC |-> \h38, SED |-> \hf8, SEI |-> \h78, TAX |-> \haa,
                 TAY |-> \ha8, TSX |-> \hba, TXA |-> \h8a, TXS |-> \h9a, TYA |-> \h98])
    @@ [SBC |-> Alu6502(\he1), STA |-> Without(Alu6502(\h81), {"Immediate"}),
        STX |-> StoreX(\h86, "ow"), STY |-> StoreY(\h84)]

gen_02 == gen_02_ADC_BVS @@ gen_02_CLC_JSR @@ gen_02_LDA_ROR @@ gen_02_RTI_TYA

-----------------------------------------------------------------------------
(* gen_C02: sADC .. sBVS. *)
gen_C02_ADC_BVS ==
    [ADC |-> AluC02(\h61), AND |-> AluC02(\h21), ASL |-> Shift(\h06),
     BIT |-> ImmediateRow(\h89, "ob") @@ Modify(\h24),
     BRK |-> ImpliedRow(\h00) @@ ImmediateRow(\h00, "ob")]
    @@ BranchRows([BCC |-> \h90, BCS |-> \hb0, BEQ |-> \hf0, BMI |-> \h30, BNE |-> \hd0, BPL |-> \h10,
                   BRA |-> \h80, BVC |-> \h50, BVS |-> \h70])

(* gen_C02: sCLC .. sJSR. *)
gen_C02_CLC_JSR ==
    ImpliedRows([CLC |-> \h18, CLD |-> \hd8, CLI |-> \h58, CLV |-> \hb8,
                 DEX |-> \hca, DEY |-> \h88, INX |-> \he8, INY |-> \hc8])
    @@ [CMP |-> AluC02(\hc1), EOR |-> AluC02(\h41), CPX |-> IndexOperand(\he0, "ob"), CPY |-> IndexOperand(\hc0, "ob"),
        DEC |-> AccumulatorRow(\h3a) @@ Modify(\hc6), INC |-> AccumulatorRow(\h1a) @@ Modify(\he6),
        JMP |-> Row({"DirectPage", "Absolute"}, \h4c, "ow") @@ Only("AbsoluteIndirect", \h6c, "ow")
                @@ Only("AbsoluteIndexedIndirect", \h7c, "ow"),
        JSR |-> Row({"DirectPage", "Absolute"}, \h20, "ow")]

(* gen_C02: sLDA .. sROR. *)
gen_C02_LDA_ROR ==
    [LDA |-> AluC02(\ha1), LDX |-> LoadX(\ha2, "ob"), LDY |-> LoadY(\ha0, "ob"), ORA |-> AluC02(\h01),
     LSR |-> Shift(\h46), ROL |-> Shift(\h26), ROR |-> Shift(\h66)]
    @@ ImpliedRows([NOP |-> \hea, PHA |-> \h48, PHP |-> \h08, PHX |-> \hda, PHY |-> \h5a,
                    PLA |-> \h68, PLP |-> \h28, PLX |-> \hfa, PLY |-> \h7a])

(* gen_C02: sRTI .. sTYA.  stx d,Y and stz d,X are laid out as words. *)
gen_C02_RTI_TYA ==
    ImpliedRows([RTI |-> \h40, RTS |-> \h60, SEC |-> \h38, SED |-> \hf8, SEI |-> \h78, TAX |-> \haa,
                 TAY |-> \ha8, TSX |-> \hba, TXA |-> \h8a, TXS |-> \h9a, TYA |-> \h98])
    @@ [SBC |-> AluC02(\he1),
        STA |-> Without(AluC02(\h81), {"Immediate"}) @@ Only("DirectPageIndexedY", \h99, "ow"),
        STX |-> StoreX(\h86, "ow"), STY |-> StoreY(\h84),
        STZ |-> Only("Absolute", \h9c, "ow") @@ Only("DirectPage", \h64, "ob")
                @@ Only("AbsoluteIndexedX", \h9e, "ow") @@ Only("DirectPageIndexedX", \h74, "ow"),
        TRB |-> Only("Absolute", \h1c, "ow") @@ Only("DirectPage", \h14, "ob"),
        TSB |-> Only("Absolute", \h0c, "ow") @@ Only("DirectPage", \h04, "ob")]

gen_C02 == gen_C02_ADC_BVS @@ gen_C02_CLC_JSR @@ gen_C02_LDA_ROR @@ gen_C02_RTI_TYA
-----------------------------------------------------------------------------
(***************************************************************************)
(* The tables of the Rockwell processors, shared/src/gen_RC02.c and        *)
(* shared/src/gen_RC19.c (the L28's core).                                 *)
(*                                                                         *)
(* "bit" is a byte operand under a first byte that holds a bit number,     *)
(* "obitzr" a bit, a byte and a branch, "obita" a mask and an address,     *)
(* "obitar" a mask, an address and a branch, "oiz" a byte into a byte of   *)
(* the direct page, "jsb" a first byte that holds a vector number.  The    *)
(* parser writes two operands as BlockMove and three as                    *)
(* BitAbsoluteRelative.                                                    *)
(***************************************************************************)

Immediates(b) == Direct(b) @@ ImmediateRow(b + 8, "ob")
BitRow(b)     == Row({"BlockMove", "BitZeroPage"}, b, "bit")
BitBranch(b)  == Row({"BitAbsoluteRelative", "BitZeroPageRelative"}, b, "obitzr")

(* gen_RC02: sADC .. sCLV. *)
gen_RC02_ADC_CLV ==
    [ADC |-> AluC02(\h61), AND |-> AluC02(\h21), ASL |-> Shift(\h06),
     BBR |-> BitBranch(\h0f), BBS |-> BitBranch(\h8f), BIT |-> ImmediateRow(\h89, "ob") @@ Memory(\h24),
     BRK |-> ImpliedRow(\h00) @@ ImmediateRow(\h00, "ob")]
    @@ BranchRows([BCC |-> \h90, BCS |-> \hb0, BEQ |-> \hf0, BMI |-> \h30, BNE |-> \hd0, BPL |-> \h10,
                   BRA |-> \h80, BVC |-> \h50, BVS |-> \h70])
    @@ ImpliedRows([CLC |-> \h18, CLD |-> \hd8, CLI |-> \h58, CLV |-> \hb8])

(* gen_RC02: sCMP .. sLDY.  cmp takes (d) as (a), eor as the row of (d,X). *)
gen_RC02_CMP_LDY ==
    ImpliedRows([DEX |-> \hca, DEY |-> \h88, INX |-> \he8, INY |-> \hc8])
    @@ [CMP |-> Alu6502(\hc1) @@ Only("AbsoluteIndirect", \hd2, "ob"),
        CPX |-> IndexOperand(\he0, "ob"), CPY |-> IndexOperand(\hc0, "ob"),
        DEC |-> AccumulatorRow(\h3a) @@ Modify(\hc6), INC |-> AccumulatorRow(\h1a) @@ Modify(\he6),
        EOR |-> Immediates(\h41) @@ Only("DirectPageIndirect", \h41, "ob")
                @@ Only("DirectPageIndirectIndexedY", \h51, "ob"),
        JMP |-> Row({"DirectPage", "Absolute"}, \h4c, "ow") @@ Only("AbsoluteIndirect", \h6c, "ow")
                @@ Only("AbsoluteIndexedIndirect", \h7c, "ow"),
        JSR |-> Row({"DirectPage", "Absolute"}, \h20, "ow"),
        LDA |-> AluC02(\ha1), LDX |-> LoadX(\ha2, "ob"), LDY |-> LoadY(\ha0, "ob")]

(* ora and sbc: (d) and (d,X) in the rows of (d,X) and (d),Y, (a) as a word. *)
Displaced(b) ==
    Immediates(b) @@ Only("DirectPageIndirect", b, "ob") @@ Only("DirectPageIndexedIndirectX", b + 16, "ob")
    @@ Only("AbsoluteIndirect", b + 17, "ow")

(* gen_RC02: sLSR .. sSEI. *)
gen_RC02_LSR_SEI ==
    [LSR |-> Shift(\h46), ORA |-> Displaced(\h01), RMB |-> BitRow(\h07),
     ROL |-> Shift(\h26), ROR |-> Shift(\h66), SBC |-> Displaced(\he1)]
    @@ ImpliedRows([NOP |-> \hea, PHA |-> \h48, PHP |-> \h08, PHX |-> \hda, PHY |-> \h5a,
                    PLA |-> \h68, PLP |-> \h28, PLX |-> \hfa, PLY |-> \h7a,
                    RTI |-> \h40, RTS |-> \h60, SEC |-> \h38, SED |-> \hf8, SEI |-> \h78])

(* gen_RC02: sSMB .. sTYA. *)
gen_RC02_SMB_TYA ==
    ImpliedRows([TAX |-> \haa, TAY |-> \ha8, TSX |-> \hba, TXA |-> \h8a, TXS |-> \h9a, TYA |-> \h98])
    @@ [SMB |-> BitRow(\h87),
        STA |-> Without(Alu6502(\h81), {"Immediate"}) @@ Only("DirectPageIndexedY", \h99, "ow")
                @@ Only("AbsoluteIndirect", \h92, "ow"),
        STX |-> StoreX(\h86, "ow"), STY |-> StoreY(\h84),
        STZ |-> Only("Absolute", \h9c, "ow") @@ Only("DirectPage", \h64, "ob")
                @@ Only("AbsoluteIndexedX", \h9e, "ow") @@ Only("DirectPageIndexedX", \h74, "ow")]

gen_RC02 == gen_RC02_ADC_CLV @@ gen_RC02_CMP_LDY @@ gen_RC02_LSR_SEI @@ gen_RC02_SMB_TYA

-----------------------------------------------------------------------------
(* The C19's arithmetic: (a) and (d) in the row of (d,X), (d,X) in that of   *)
(* (d),Y.                                                                   *)
AluC19(b) ==
    Immediates(b) @@ Row({"AbsoluteIndirect", "DirectPageIndirect"}, b, "ob")
    @@ Only("DirectPageIndexedIndirectX", b + 16, "ob")

(* gen_RC19: sADC .. sBVS. *)
gen_RC19_ADC_BVS ==
    BranchRows([BCC |-> \h90, BCS |-> \hb0, BEQ |-> \hf0, BMI |-> \h30, BNE |-> \hd0, BPL |-> \h10,
                BRA |-> \h80, BVC |-> \h50, BVS |-> \h70])
    @@ [ADC |-> AluC19(\h61), AND |-> AluC19(\h21), ASL |-> Shift(\h06), ASR |-> AccumulatorRow(\h3a),
        ADD |-> ImmediateRow(\h89, "ob") @@ Only("DirectPage", \h64, "ob") @@ Only("DirectPageIndexedX", \h74, "ob"),
        BAR |-> Only("BitAbsoluteRelative", \he2, "obitar"), BAS |-> Only("BitAbsoluteRelative", \hf2, "obitar"),
        BBR |-> BitBranch(\h0f), BBS |-> BitBranch(\h8f), BIT |-> Memory(\h24),
        BRK |-> ImpliedRow(\h00) @@ ImmediateRow(\h00, "ob")]

(* gen_RC19: sCLC .. sJSR. *)
gen_RC19_CLC_JSR ==
    ImpliedRows([CLC |-> \h18, CLD |-> \hd8, CLI |-> \h58, CLV |-> \hb8, CLW |-> \h52, DEX |-> \hca,
                 DEY |-> \h88, INI |-> \hbb, INX |-> \he8, INY |-> \hc8])
    @@ [CMP |-> AluC19(\hc1), CPX |-> IndexOperand(\he0, "ob"), CPY |-> IndexOperand(\hc0, "ob"), DEC |-> Modify(\hc6),
        EOR |-> AluC19(\h41), EXC |-> Only("DirectPageIndexedX", \hd4, "ob"), INC |-> Modify(\he6),
        JMP |-> Row({"DirectPage", "Absolute"}, \h4c, "ow") @@ Only("AbsoluteIndirect", \h6c, "ow")
                @@ Only("AbsoluteIndexedIndirect", \h7c, "ow"),
        JPI |-> Only("AbsoluteIndirect", \h0c, "ow"),
        JSB |-> Row({"Immediate", "DirectPage"}, \h0b, "jsb"),
        JSR |-> Row({"DirectPage", "Absolute"}, \h20, "ow")]

(* gen_RC19: sLAB .. sPHY. *)
gen_RC19_LAB_PHY ==
    ImpliedRows([LAI |-> \heb, LAN |-> \hab, LII |-> \h9b, MPA |-> \h12, MPY |-> \h02, NOP |-> \hea,
                 NXT |-> \h8b, PHA |-> \h48, PHI |-> \hcb, PHP |-> \h08, PHW |-> \h23, PHX |-> \hda, PHY |-> \h5a])
    @@ AccumulatorRows([LAB |-> \h13, NEG |-> \h1a])
    @@ [LDA |-> AluC19(\ha1), LDX |-> LoadX(\ha2, "ob"), LDY |-> LoadY(\ha0, "ob"), LSR |-> Shift(\h46),
        ORA |-> AluC19(\h01)]

(* gen_RC19: sPIA .. sSEI. *)
gen_RC19_PIA_SEI ==
    ImpliedRows([PIA |-> \hfb, PLA |-> \h68, PLI |-> \hdb, PLP |-> \h28, PLW |-> \h33, PLX |-> \hfa,
                 PLY |-> \h7a, PSH |-> \h22, PUL |-> \h32, RND |-> \h42, RTI |-> \h40, RTS |-> \h60,
                 SEC |-> \h38, SED |-> \hf8, SEI |-> \h78])
    @@ [RBA |-> Row({"BlockMove", "BitAbsolute"}, \hc2, "obita"), RMB |-> BitRow(\h07),
        ROL |-> Shift(\h26), ROR |-> Shift(\h66),
        SBA |-> Row({"BlockMove", "BitAbsolute"}, \hd2, "obita"), SBC |-> AluC19(\he1)]

(* gen_RC19: sSMB .. sTYA. *)
gen_RC19_SMB_TYA ==
    ImpliedRows([TAW |-> \h62, TAX |-> \haa, TAY |-> \ha8, TIP |-> \h03, TSX |-> \hba, TWA |-> \h72,
                 TXA |-> \h8a, TXS |-> \h9a, TYA |-> \h98])
    @@ [SMB |-> BitRow(\h87),
        STA |-> Without(AluC19(\h81), {"Immediate"}) @@ Only("DirectPageIndexedY", \h99, "ow"),
        STI |-> Row({"BlockMove", "ImmediateZeroPage"}, \hb2, "oiz"),
        STX |-> StoreX(\h86, "ow"), STY |-> StoreY(\h84)]

gen_RC19 == gen_RC19_ADC_BVS @@ gen_RC19_CLC_JSR @@ gen_RC19_LAB_PHY @@ gen_RC19_PIA_SEI @@ gen_RC19_SMB_TYA

-----------------------------------------------------------------------------
(***************************************************************************)
(* The 65C816 table of the Oberon compiler, oc/src/gen_816.c.  It began as *)
(* the assembler's and differs from it where a row is given again below:   *)
(*                                                                         *)
(* - a branch is always laid out ("or"), and a branch whose target is not  *)
(*   known yet holds the place of the branch before it in its chain        *)
(*   ("of", and "ofl" for brl);                                            *)
(* - bra chooses its length with forms of its own ("bra16"), brl is laid   *)
(*   out as a word that holds the distance ("brl16"), per as a word that   *)
(*   holds its operand;                                                    *)
(* - brk without an operand is laid out with one;                          *)
(* - lda, sta and cmp reach a stack offset above 255 with a sequence       *)
(*   ("far").                                                              *)
(***************************************************************************)

ChainedBranches(f) == [mnemonic \in DOMAIN f |-> BranchRow(f[mnemonic]) @@ Only("Fixup", f[mnemonic], "of")]

FarStack(b) == Only("StackRelative", b + 2, "far")

(* gen_816 of oc: sADC .. sBRL. *)
oc_gen_816_ADC_BRL ==
    ChainedBranches([BCC |-> \h90, BCS |-> \hb0, BEQ |-> \hf0, BMI |-> \h30, BNE |-> \hd0, BPL |-> \h10])
    @@ [BRA |-> Row(Targets, \h80, "bra16") @@ Only("Fixup", \h80, "of"),
        BRL |-> Row(Targets, \h82, "brl16") @@ Only("Fixup", \h82, "ofl"),
        BRK |-> Row({"Implied", "Immediate"}, \h00, "ob")]
    @@ gen_816_ADC_BRL

(* gen_816 of oc: sBVC .. sINY. *)
oc_gen_816_BVC_INY ==
    BranchRows([BVC |-> \h50, BVS |-> \h70]) @@ [CMP |-> FarStack(\hc1) @@ Alu816(\hc1)] @@ gen_816_BVC_INY

(* gen_816 of oc: sJMP .. sNOP. *)
oc_gen_816_JMP_NOP == [LDA |-> FarStack(\ha1) @@ gen_816_JMP_NOP.LDA] @@ gen_816_JMP_NOP

(* gen_816 of oc: sORA .. sROR. *)
oc_gen_816_ORA_ROR == [PER |-> Row({"Immediate", "DirectPage", "Absolute"}, \h62, "ow")] @@ gen_816_ORA_ROR

(* gen_816 of oc: sRTI .. sTAY. *)
oc_gen_816_RTI_TAY ==
    [STA |-> FarStack(\h81) @@ Without(gen_816_RTI_TAY.STA, {"DirectPageIndexedY"})] @@ gen_816_RTI_TAY

(* gen_816 of oc: sTAD .. sXCE. *)
oc_gen_816_TAD_XCE == gen_816_TAD_XCE

oc_gen_816 == oc_gen_816_ADC_BRL @@ oc_gen_816_BVC_INY @@ oc_gen_816_JMP_NOP
              @@ oc_gen_816_ORA_ROR @@ oc_gen_816_RTI_TAY @@ oc_gen_816_TAD_XCE
=============================================================================
