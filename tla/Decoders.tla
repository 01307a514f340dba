------------------------------ MODULE Decoders ------------------------------
(***************************************************************************)
(* The three instruction decoders of em16/src/emu816.cpp: for each of the  *)
(* 256 first bytes the operation that step_wdc, step_rockwell or step_l28  *)
(* calls and the addressing mode (am_xxxx of emu816.h) that fetches its    *)
(* operand.  What the operations do is module Instructions65816; what the  *)
(* bytes of a program are is module Codegen.                               *)
(*                                                                         *)
(* An entry is <<operation, addressing mode>>, or, for the operations with *)
(* the bit or vector number in the first byte, <<operation, mode, number>>.*)
(***************************************************************************)
EXTENDS Integers, Sequences, TLC

(* The entries of one addressing mode: f gives the first byte by operation. *)
Coded(am, f) ==
    [c \in {f[op] : op \in DOMAIN f} |-> <<CHOOSE op \in DOMAIN f : f[op] = c, am>>]

(* Every operation of Arithmetic is met once in each row pair of the table, *)
(* always in the same columns.                                              *)
Arithmetic == <<"ora", "and", "eor", "adc", "sta", "lda", "cmp", "sbc">>

ArithmeticModes ==
    [c \in {\h01, \h03, \h05, \h07, \h09, \h0d, \h0f, \h11, \h12, \h13, \h15, \h17, \h19, \h1d, \h1f} |->
        CASE c = \h01 -> "dpix" [] c = \h03 -> "srel" [] c = \h05 -> "dpag" [] c = \h07 -> "dpil"
          [] c = \h09 -> "immm" [] c = \h0d -> "absl" [] c = \h0f -> "alng" [] c = \h11 -> "dpiy"
          [] c = \h12 -> "dpgi" [] c = \h13 -> "sriy" [] c = \h15 -> "dpgx" [] c = \h17 -> "dily"
          [] c = \h19 -> "absy" [] c = \h1d -> "absx" [] c = \h1f -> "alnx"]

ArithmeticRows(rows) ==
    [c \in {32 * row + col : row \in rows, col \in DOMAIN ArithmeticModes} |->
        <<Arithmetic[(c \div 32) + 1], ArithmeticModes[c % 32]>>]

-----------------------------------------------------------------------------
(* emu816::step_wdc, first bytes below $80.  $57 is the one cell of the     *)
(* regular columns that differs: it indexes nothing.                        *)
step_wdc_low ==
    (\h57 :> <<"eor", "dpil">>)
    @@ ArithmeticRows(0 .. 3)
    @@ Coded("immb", [brk |-> \h00, cop |-> \h02, wdm |-> \h42])
    @@ Coded("dpag", [tsb |-> \h04, asl |-> \h06, trb |-> \h14, bit |-> \h24, rol |-> \h26,
                      lsr |-> \h46, stz |-> \h64, ror |-> \h66])
    @@ Coded("absl", [tsb |-> \h0c, asl |-> \h0e, trb |-> \h1c, jsr |-> \h20, bit |-> \h2c,
                      rol |-> \h2e, jmp |-> \h4c, lsr |-> \h4e, ror |-> \h6e])
    @@ Coded("dpgx", [asl |-> \h16, bit |-> \h34, rol |-> \h36, lsr |-> \h56, stz |-> \h74, ror |-> \h76])
    @@ Coded("absx", [asl |-> \h1e, bit |-> \h3c, rol |-> \h3e, lsr |-> \h5e, ror |-> \h7e])
    @@ Coded("acc",  [asla |-> \h0a, inca |-> \h1a, rola |-> \h2a, deca |-> \h3a])
    @@ Coded("impl", [php |-> \h08, phd |-> \h0b, clc |-> \h18, tcs |-> \h1b, plp |-> \h28, pld |-> \h2b,
                      sec |-> \h38, tsc |-> \h3b, rti |-> \h40, pha |-> \h48, lsra |-> \h4a, phk |-> \h4b,
                      cli |-> \h58, phy |-> \h5a, tcd |-> \h5b, rts |-> \h60, pla |-> \h68, rora |-> \h6a,
                      rtl |-> \h6b, sei |-> \h78, ply |-> \h7a, tdc |-> \h7b])
    @@ Coded("rela", [bpl |-> \h10, bmi |-> \h30, bvc |-> \h50, bvs |-> \h70])
    @@ Coded("lrel", [per |-> \h62])
    @@ Coded("immw", [mvp |-> \h44, mvn |-> \h54])
    @@ Coded("alng", [jsl |-> \h22, jmp |-> \h5c])
    @@ Coded("absi", [jmp |-> \h6c])
    @@ Coded("abxi", [jmp |-> \h7c])

(* emu816::step_wdc, first bytes from $80. *)
step_wdc_high ==
    (\h89 :> <<"biti", "immm">>)
    @@ ArithmeticRows(4 .. 7)
    @@ Coded("immx", [ldy |-> \ha0, ldx |-> \ha2, cpy |-> \hc0, cpx |-> \he0])
    @@ Coded("dpag", [sty |-> \h84, stx |-> \h86, ldy |-> \ha4, ldx |-> \ha6, cpy |-> \hc4, dec |-> \hc6,
                      pei |-> \hd4, cpx |-> \he4, inc |-> \he6])
    @@ Coded("absl", [sty |-> \h8c, stx |-> \h8e, stz |-> \h9c, ldy |-> \hac, ldx |-> \hae, cpy |-> \hcc,
                      dec |-> \hce, cpx |-> \hec, inc |-> \hee])
    @@ Coded("dpgx", [sty |-> \h94, ldy |-> \hb4, dec |-> \hd6, inc |-> \hf6])
    @@ Coded("dpgy", [stx |-> \h96, ldx |-> \hb6])
    @@ Coded("absx", [stz |-> \h9e, ldy |-> \hbc, dec |-> \hde, inc |-> \hfe])
    @@ Coded("absy", [ldx |-> \hbe])
    @@ Coded("impl", [dey |-> \h88, txa |-> \h8a, phb |-> \h8b, tya |-> \h98, txs |-> \h9a, txy |-> \h9b,
                      tay |-> \ha8, tax |-> \haa, plb |-> \hab, clv |-> \hb8, tsx |-> \hba, tyx |-> \hbb,
                      iny |-> \hc8, dex |-> \hca, wai |-> \hcb, cld |-> \hd8, phx |-> \hda, stp |-> \hdb,
                      inx |-> \he8, nop |-> \hea, xba |-> \heb, sed |-> \hf8, plx |-> \hfa, xce |-> \hfb])
    @@ Coded("rela", [bra |-> \h80, bcc |-> \h90, bcs |-> \hb0, bne |-> \hd0, beq |-> \hf0])
    @@ Coded("lrel", [brl |-> \h82])
    @@ Coded("immb", [rep |-> \hc2, sep |-> \he2])
    @@ Coded("immw", [pea |-> \hf4])
    @@ Coded("abil", [jmp |-> \hdc])
    @@ Coded("abxi", [jsr |-> \hfc])

step_wdc == step_wdc_low @@ step_wdc_high

-----------------------------------------------------------------------------
(* The Rockwell processors: bit instructions in columns 7 and F, the number *)
(* of the bit in bits 4 to 6 of the first byte.                             *)
BitRows(set, bits) ==
    [c \in {16 * b + col : b \in bits, col \in {7, 15}} |->
        IF c % 16 = 7 THEN <<IF set THEN "smb" ELSE "rmb", "dpag", (c \div 16) % 8>>
                      ELSE <<IF set THEN "bbs" ELSE "bbr", "bitr", (c \div 16) % 8>>]

(* emu816::step_rockwell is the table of step_wdc but for those two columns. *)
step_rockwell_low  == BitRows(FALSE, 0 .. 7) @@ step_wdc_low
step_rockwell_high == BitRows(TRUE, 8 .. 15) @@ step_wdc_high
step_rockwell == step_rockwell_low @@ step_rockwell_high

-----------------------------------------------------------------------------
(* The C19 of the L28 handheld: its pointer modes take the place of the     *)
(* indexed indirect ones, and what it lacks is a no-operation of one byte.  *)
PointerRows(rows) ==
    [c \in {32 * row + col : row \in rows, col \in {1, \h11}} |->
        <<Arithmetic[(c \div 32) + 1], IF c % 32 = 1 THEN "dpgi" ELSE "diix">>]

Nops(codes) == [c \in codes |-> <<"nop", "impl">>]

(* emu816::step_l28, first bytes below $80. *)
step_l28_low ==
    PointerRows(0 .. 3)
    @@ Nops({\h04, \h14, \h1c, \h34, \h3c, \h43, \h44, \h53, \h54, \h5c, \h63, \h73})
    @@ [c \in {16 * v + 11 : v \in 0 .. 7} |-> <<"jsb", "impl", c \div 16>>]
    @@ Coded("impl", [brk_l28 |-> \h00, mpy |-> \h02, tip |-> \h03, mpa |-> \h12, psh |-> \h22, phw |-> \h23,
                      pul |-> \h32, plw |-> \h33, rnd |-> \h42, clw |-> \h52, taw |-> \h62, twa |-> \h72,
                      rts_l28 |-> \h60, jpi |-> \h0c])
    @@ Coded("acc",  [lab |-> \h13, neg |-> \h1a, asra |-> \h3a])
    @@ Coded("absl", [jsr_l28 |-> \h20])
    @@ Coded("dpag", [add |-> \h64])
    @@ Coded("dpgx", [add |-> \h74])
    @@ step_rockwell_low

(* emu816::step_l28, first bytes from $80. *)
step_l28_high ==
    PointerRows(4 .. 7)
    @@ Nops({\h82, \h83, \h92, \h93, \h9c, \h9e, \ha3, \hb3, \hc3, \hd3, \hdc, \he3, \hf3, \hf4, \hfc})
    @@ Coded("impl", [nxt |-> \h8b, lii |-> \h9b, lan |-> \hab, ini |-> \hbb, phi |-> \hcb, pli |-> \hdb,
                      lai |-> \heb, pia |-> \hfb])
    @@ Coded("immb", [sti |-> \hb2, rba |-> \hc2, sba |-> \hd2, bar |-> \he2, bas |-> \hf2])
    @@ Coded("immm", [add |-> \h89])
    @@ Coded("dpgx", [exc |-> \hd4])
    @@ step_rockwell_high

step_l28 == step_l28_low @@ step_l28_high

-----------------------------------------------------------------------------
(* How many bytes an instruction takes, first byte included: the addressing *)
(* mode's, with the immediate modes as wide as the register they feed, and  *)
(* the bytes that sti, rba, sba, bar, bas and jpi fetch by themselves.      *)
Extra(op) == IF op \in {"bar", "bas"} THEN 3
             ELSE IF op \in {"rba", "sba", "jpi"} THEN 2
             ELSE IF op = "sti" THEN 1 ELSE 0

Fetched(am, longa, longi) ==
    CASE am \in {"impl", "acc"} -> 0
      [] am = "immm" -> IF longa THEN 2 ELSE 1
      [] am = "immx" -> IF longi THEN 2 ELSE 1
      [] am \in {"immb", "rela", "srel", "sriy", "dpag", "dpgx", "dpgy", "dpgi", "dpix", "dpiy", "diix",
                 "dpil", "dily"} -> 1
      [] am \in {"immw", "lrel", "absl", "absx", "absy", "absi", "abxi", "abil", "bitr"} -> 2
      [] am \in {"alng", "alnx"} -> 3

Taken(entry, longa, longi) == 1 + Fetched(entry[2], longa, longi) + Extra(entry[1])
=============================================================================
