------------------------------ MODULE Codegen ------------------------------
(***************************************************************************)
(* shared/src/codegen.c: the choice of the addressing mode and of the      *)
(* table, and the bytes of an instruction.  An operand is a C int; o() is  *)
(* given one byte of it, and >> is the arithmetic shift.                   *)
(*                                                                         *)
(* The same forms in oc/src/codegen.c serve the Oberon compiler's table;   *)
(* those of them that the assembler has not are at the end.                *)
(***************************************************************************)
EXTENDS GenTables, Sequences

Lo(v)   == v % 256
Hi(v)   == (v \div 256) % 256
Bank(v) == (v \div 65536) % 256

(* The distance of or, orl, obitar and obitzr is reported when it does not  *)
(* fit, and its low part is laid out all the same.                          *)
FitsShort(r) == r \in -128 .. 127
FitsLong(r)  == r \in -32768 .. 32767

(* The first byte with a number in bits 4 to 6, or one beyond them in bit 7. *)
Numbered(opcode, n) == (opcode % 16) + (IF opcode < 128 THEN 16 * (n % 16) ELSE 128 + 16 * (n % 8))

ob(opcode, v) == <<opcode, Lo(v)>>
ow(opcode, v) == <<opcode, Lo(v), Hi(v)>>
ol(opcode, v) == <<opcode, Lo(v), Hi(v), Bank(v)>>
om(opcode, v, wide) == IF wide THEN ow(opcode, v) ELSE ob(opcode, v)

(* addr is the address of the first byte. *)
or(opcode, v, addr)  == <<opcode, Lo(v - (addr + 2))>>
orl(opcode, v, addr) == ow(opcode, v - (addr + 3))
omove(opcode, src, dst) == <<opcode, Bank(dst), Bank(src)>>
obita(opcode, mask, mem) == <<opcode, Lo(mask), Lo(mem), Hi(mem)>>
obitar(opcode, mem, mask, v, addr) == <<opcode, Lo(mask), Lo(mem), Hi(mem), Lo(v - (addr + 5))>>
oiz(opcode, imm, mem) == <<opcode, Lo(imm), Lo(mem)>>
obitzr(opcode, bit, mem, v, addr) == <<Numbered(opcode, bit), Lo(mem), Lo(v - (addr + 3))>>

(* bra and brl of the 65C816 measure the distance from the byte after the   *)
(* first: at the far end of the short branch's reach it is chosen although  *)
(* the target is one byte beyond.                                           *)
ChosenShort(v, addr) == FitsShort(v - (addr + 1))

ShortOrLong(v, addr) ==
    IF v = 0 THEN <<>> ELSE IF ChosenShort(v, addr) THEN or(\h80, v, addr) ELSE orl(\h82, v, addr)

(* The bytes of the entry <<opcode, form>> of a table, with the operands    *)
(* value1 to value3, at address addr.                                       *)
Bytes(entry, value1, value2, value3, addr, longa, longi) ==
    LET opcode == entry[1]
        form   == entry[2]
    IN  CASE form = "o"   -> <<opcode>>
          [] form = "ob"  -> ob(opcode, value1)
          [] form = "ow"  -> ow(opcode, value1)
          [] form = "ol"  -> ol(opcode, value1)
          [] form = "om"  -> om(opcode, value1, longa)
          [] form = "omi" -> om(opcode, value1, longi)
          [] form = "or"  -> or(opcode, value1, addr)
          [] form = "br"  -> IF value1 = 0 THEN <<>> ELSE or(opcode, value1, addr)
          [] form = "orl" -> orl(opcode, value1, addr)
          [] form \in {"bra", "brl"} -> ShortOrLong(value1, addr)
          [] form = "omove"  -> omove(opcode, value2, value1)
          [] form = "bit"    -> ob(Numbered(opcode, value2), value1)
          [] form = "jsb"    -> <<Numbered(opcode, value1)>>
          [] form = "obita"  -> obita(opcode, value2, value1)
          [] form = "obitar" -> obitar(opcode, value3, value2, value1, addr)
          [] form = "obitzr" -> obitzr(opcode, value3, value2, value1, addr)
          [] form = "oiz"    -> oiz(opcode, value2, value1)

-----------------------------------------------------------------------------
(* codegen_params: how many operands a mode takes off the stack. *)
codegen_params(mode) ==
    IF mode \in {"Accumulator", "Implied"} THEN 0
    ELSE IF mode \in {"BlockMove", "BitZeroPage", "BitAbsolute", "ImmediateZeroPage"} THEN 2
    ELSE IF mode \in {"BitZeroPageRelative", "BitAbsoluteRelative"} THEN 3
    ELSE 1

is_dpAndOne(v)  == v <= \h100
is_dp(v)        == v < \h100
is_long_data(v) == v > \hffff

(* codegen_gen: the mode that the operand's value and the modifier make of  *)
(* the mode as it was written.                                              *)
Resolved(mode, modifier, value1) ==
    LET short == is_dp(value1) /\ modifier \notin {"Absolute", "Word"}
    IN  CASE mode = "Absolute" ->
                IF modifier \in {"Direct", "Byte"} \/ short THEN "DirectPage" ELSE mode
          [] mode = "AbsoluteIndexedX" ->
                IF modifier = "Direct" \/ short THEN "DirectPageIndexedX"
                ELSE IF modifier = "Long" \/ value1 > \hffff THEN "AbsoluteLongIndexedX" ELSE mode
          [] mode = "AbsoluteIndexedY" ->
                IF modifier = "Direct" \/ short THEN "DirectPageIndexedY" ELSE mode
          [] mode = "AbsoluteIndexedIndirect" ->
                IF modifier = "Direct" \/ (is_dp(value1) /\ modifier # "Absolute")
                THEN "DirectPageIndexedIndirectX" ELSE mode
          [] mode = "AbsoluteIndirect" ->
                IF modifier = "Long" \/ (is_long_data(value1) /\ modifier # "Absolute")
                THEN "AbsoluteIndirectLong" ELSE mode
          [] OTHER -> mode

(* The switch of codegen_gen over the processor. *)
Tables ==
    [EM_816 |-> gen_816, EM_C02 |-> gen_C02, EM_02 |-> gen_02, EM_RC02 |-> gen_RC02, EM_RC01 |-> gen_RC02,
     EM_RC19 |-> gen_RC19]

Supported(machine, opcode, mode) == opcode \in DOMAIN Tables[machine] /\ mode \in DOMAIN Tables[machine][opcode]

(* codegen_gen: an instruction that the table has not is reported and       *)
(* takes no bytes.                                                          *)
codegen_gen(machine, instr, values, addr, longa, longi) ==
    LET mode == Resolved(instr.mode, instr.modifier, values[1])
    IN  IF Supported(machine, instr.opcode, mode)
        THEN Bytes(Tables[machine][instr.opcode][mode], values[1], values[2], values[3], addr, longa, longi)
        ELSE <<>>

codegen_byte(b) == <<Lo(b)>>
codegen_word(w) == <<Lo(w), Hi(w)>>

-----------------------------------------------------------------------------
(* oc/src/codegen.c and gen_816.c.  A branch with an unknown target keeps   *)
(* the distance to the branch before it in its chain, in two bytes of which *)
(* the second is cleared (of), or that branch's address (ofl).              *)
of(opcode, v, addr) == ow(opcode, IF v = 0 THEN 0 ELSE Lo(v - (addr + 1)))
ofl(opcode, v)      == ow(opcode, v % 65536)

(* lda, sta and cmp of a stack offset above 255 reckon the address in X.    *)
(* sep and rep go around it when the accumulator is a byte wide.            *)
Widen(longa)  == IF longa THEN <<>> ELSE <<\hc2, \h20>>
Narrow(longa) == IF longa THEN <<>> ELSE <<\he2, \h20>>
AddressInX(v) == <<\hda, \h3b, \h18, \h69, Lo(v + 2), Hi(v + 2), \haa>>

FarLDA(v, longa) == Widen(longa) \o AddressInX(v) \o Narrow(longa) \o <<\hbf, 0, 0, 0, \hfa>>
FarSTA(v, longa) ==
    <<\h85, \h42>> \o Widen(longa) \o AddressInX(v) \o Narrow(longa) \o <<\ha5, \h42, \h9f, 0, 0, 0, \hfa>>
FarCMP(v, longa) ==
    <<\h85, \h22>> \o Widen(longa) \o AddressInX(v) \o <<\hbf, 0, 0, 0, \h85, \h24, \hfa>> \o Narrow(longa)
    \o <<\ha5, \h22, \hc5, \h24>>

Far(opcode, v, longa) ==
    IF v <= 255 THEN ob(opcode, v)
    ELSE CASE opcode = \ha3 -> FarLDA(v, longa) [] opcode = \h83 -> FarSTA(v, longa) [] opcode = \hc3 -> FarCMP(v, longa)

(* The bytes of an entry of the compiler's table. *)
OcBytes(entry, value1, value2, addr, longa, longi) ==
    LET opcode == entry[1]
        form   == entry[2]
    IN  CASE form = "of"    -> of(opcode, value1, addr)
          [] form = "ofl"   -> ofl(opcode, value1)
          [] form = "far"   -> Far(opcode, value1, longa)
          [] form = "bra16" -> IF ChosenShort(value1, addr) THEN or(\h80, value1, addr)
                               ELSE ow(\h82, value1 - (addr + 3))
          [] form = "brl16" -> ow(\h82, value1 - (addr + 3))
          [] OTHER -> Bytes(entry, value1, value2, 0, addr, longa, longi)

(* codegen_gen of the compiler, whose data bank and direct page are 0. *)
OcResolved(mode, value1) ==
    CASE mode = "Absolute" /\ is_dp(value1)                -> "DirectPage"
      [] mode = "AbsoluteIndexedY" /\ is_dp(value1)        -> "DirectPageIndexedY"
      [] mode = "AbsoluteIndexedIndirect" /\ is_dp(value1) -> "DirectPageIndexedIndirectX"
      [] mode = "AbsoluteIndirect" /\ is_long_data(value1) -> "AbsoluteIndirectLong"
      [] OTHER -> mode

oc_codegen_gen(gen, opcode, mode, value1, value2, addr, longa, longi) ==
    LET resolved == OcResolved(mode, value1)
    IN  IF opcode \in DOMAIN gen /\ resolved \in DOMAIN gen[opcode]
        THEN OcBytes(gen[opcode][resolved], value1, value2, addr, longa, longi)
        ELSE <<>>
=============================================================================
