-------------------------------- MODULE ORG --------------------------------
(***************************************************************************)
(* The code generator of the Oberon compiler (oc/src/ORG.c) for arithmetic,*)
(* relations, conditions and the statements that jump.                     *)
(*                                                                         *)
(* The generator is a record g: the table gen of its instructions, the     *)
(* code laid out so far, where each instruction of it starts, the widths   *)
(* longa and longi the code is in at this point, RH, the floating point    *)
(* calls to fix up, and the items the parser holds: a stack, the parser's  *)
(* x and y being the last ones.                                            *)
(*                                                                         *)
(* Code starts at CODE_ORG, 0, so ORG_pc is the length of the code.        *)
(***************************************************************************)
EXTENDS Codegen

CONSTANTS maxFPFixups   \* calls of one floating point subroutine that are fixed up

ASSUME FixupAssumption == maxFPFixups \in Nat

MT == 15         \* R0 to R13 can be taken
REG_SIZE == 2
SB_DP    == 0      \* where the module's variables begin
BANK_DP  == 68     \* and their bank
reg_addr(reg) == reg * REG_SIZE + 2

FP_OPS == {"FLOOR", "FLT", "ADD", "MUL", "DIV", "CMP"}

ORG_Open ==
    [gen |-> oc_gen_816, code |-> <<>>, layout |-> <<>>, longa |-> TRUE, longi |-> TRUE, RH |-> 0,
     fp_fixups |-> <<>>, fp_sub_addr |-> [f \in FP_OPS |-> 0],
     at |-> [p \in {} |-> 0], items |-> <<>>, marks |-> <<>>]

pc(g) == Len(g.code)
ORS_Mark(g, message) == [g EXCEPT !.marks = Append(@, message)]

\* The next register, or two of them, is taken.
incR(g) == IF g.RH < MT - 1 THEN [g EXCEPT !.RH = @ + 1] ELSE ORS_Mark(g, "register stack overflow")
TakeR(g, n) == IF n = 2 THEN incR(incR(g)) ELSE incR(g)

-----------------------------------------------------------------------------
(* Laying out instructions.                                                *)

\* An instruction of the sequences below.  skip counts the bytes to jump over;
\* fwd remembers the operand of a branch under a name for patch; loop names a
\* place for back.  The names are the C variables p1, p2, p3 and loop.  Set16
\* and Set8 change the widths of A and of X and Y, if they are not so yet.
Imm(op, v)    == <<op, "Immediate", v>>
DP(op, v)     == <<op, "DirectPage", v>>
Acc(op)       == <<op, "Accumulator", 0>>
Imp(op)       == <<op, "Implied", 0>>
Skip(op, n)   == <<op, "skip", n>>
Fwd(op, p)    == <<op, "fwd", p>>
Patch(p)      == <<"", "patch", p>>
Loop          == <<"", "patch", "loop">>
Back(op)      == <<op, "back", "loop">>
Set16(a, i)   == <<"REP", "widths", [longa |-> a, longi |-> i]>>
Set8(a, i)    == <<"SEP", "widths", [longa |-> a, longi |-> i]>>

Named(g, p, v) == [g EXCEPT !.at = (p :> v) @@ @]

\* patch writes the one byte of the distance, whether it fits or not.
patch(g, operand) == [g EXCEPT !.code[operand + 1] = Lo(pc(g) - (operand + 1))]

Widths(g, c) ==
    LET wide == c[1] = "REP"
    IN  [longa |-> IF c[3].longa THEN wide ELSE g.longa, longi |-> IF c[3].longi THEN wide ELSE g.longi]
InForce(g, c) == c[2] = "widths" /\ Widths(g, c) = [longa |-> g.longa, longi |-> g.longi]

Mode(c) ==
    IF c[2] = "widths" THEN "Immediate" ELSE IF c[2] \in {"skip", "fwd", "back"} THEN "ProgramCounterRelative" ELSE c[2]
Operand(g, c) ==
    CASE c[2] = "skip"   -> pc(g) + 2 + c[3]
      [] c[2] = "fwd"    -> pc(g) + 2
      [] c[2] = "back"   -> g.at[c[3]]
      [] c[2] = "widths" -> (IF c[3].longa THEN 32 ELSE 0) + (IF c[3].longi THEN 16 ELSE 0)
      [] OTHER           -> c[3]
Noted(g, c) ==
    CASE c[2] = "fwd"    -> Named(g, c[3], pc(g) + 1)
      [] c[2] = "widths" -> [g EXCEPT !.longa = Widths(g, c).longa, !.longi = Widths(g, c).longi]
      [] OTHER           -> g
Instr(g, c) ==
    CASE c[2] = "patch" -> IF c[3] = "loop" THEN Named(g, "loop", pc(g)) ELSE patch(g, g.at[c[3]])
      [] InForce(g, c)  -> g
      [] OTHER -> [Noted(g, c) EXCEPT
                     !.code   = @ \o oc_codegen_gen(g.gen, c[1], Mode(c), Operand(g, c), 0, pc(g), g.longa, g.longi),
                     !.layout = Append(@, pc(g))]

\* What follows an error is left out: no code is written for it.
RECURSIVE Put(_, _)
Put(g, instructions) ==
    LET half  == Len(instructions) \div 2
        first == Put(g, SubSeq(instructions, 1, half))
    IN  IF instructions = <<>> \/ g.marks # <<>> THEN g
        ELSE IF half = 0 THEN Instr(g, instructions[1])
        ELSE Put(first, SubSeq(instructions, half + 1, Len(instructions)))

-----------------------------------------------------------------------------
(* Branches whose target is not known are chained: the operand of each     *)
(* holds the address of the operand of the one before, 0 at the end.       *)

Link(code, at) == code[at + 1] + 256 * code[at + 2]
Chain(code, L) ==
    LET chain[at \in 0 .. 65535] ==
            IF at = 0 \/ at + 2 > Len(code) THEN <<>> ELSE <<at>> \o chain[Link(code, at)]
    IN  chain[L]

\* A branch within reach becomes a short one and a NOP.
fix(code, at, target) ==
    LET offset == target - (at + 1)
    IN  IF FitsShort(offset)
        THEN [code EXCEPT ![at] = \h80, ![at + 1] = Lo(offset), ![at + 2] = \hea]
        ELSE [code EXCEPT ![at + 1] = Lo(offset - 1), ![at + 2] = Hi(offset - 1)]

FixLinkWith(g, L0, dst) ==
    LET chain == Chain(g.code, L0)
        fixed[n \in 0 .. Len(chain)] == IF n = 0 THEN g.code ELSE fix(fixed[n - 1], chain[n], dst)
    IN  [g EXCEPT !.code = fixed[Len(chain)]]
ORG_FixLink(g, L) == FixLinkWith(g, L, pc(g))
ORG_FixOne(g, at) == [g EXCEPT !.code = fix(@, at, pc(g))]

\* The chain L1 is appended to L0; the code and the head of the result.
merged(code, L0, L1) ==
    IF L0 = 0 THEN [code |-> code, L |-> L1]
    ELSE LET chain == Chain(code, L0)  last == chain[Len(chain)]
         IN  [code |-> [code EXCEPT ![last + 1] = Lo(L1), ![last + 2] = Hi(L1)], L |-> L0]

negated(cond) ==
    CASE cond = "EQ" -> "NE" [] cond = "NE" -> "EQ" [] cond = "LT" -> "GE" [] cond = "GE" -> "LT"
      [] cond = "LE" -> "GT" [] cond = "GT" -> "LE" [] cond = "AL" -> "NV" [] cond = "NV" -> "AL"

\* The branch to target is behind a branch around it, or behind several that
\* choose by the flags of a signed difference: V reverses N.
SignedLess    == <<Skip("BVS", 4), Skip("BMI", 6), Skip("BRA", 7), Skip("BPL", 2), Skip("BRA", 3)>>
SignedNotLess == <<Skip("BVS", 4), Skip("BPL", 6), Skip("BRA", 7), Skip("BMI", 2), Skip("BRA", 3)>>
Around(cond, signed) ==
    CASE cond = "EQ" -> <<Skip("BNE", 3)>>
      [] cond = "NE" -> <<Skip("BEQ", 3)>>
      [] cond = "LT" -> IF signed THEN SignedLess ELSE <<Skip("BCS", 3)>>
      [] cond = "GE" -> IF signed THEN SignedNotLess ELSE <<Skip("BCC", 3)>>
      [] cond = "LE" -> IF signed THEN <<Skip("BEQ", 10)>> \o SignedLess
                                  ELSE <<Skip("BEQ", 2), Skip("BCS", 3)>>
      [] cond = "GT" -> IF signed THEN <<Skip("BEQ", 13)>> \o SignedNotLess
                                  ELSE <<Skip("BEQ", 4), Skip("BCC", 2), Skip("BRA", 3)>>
      [] cond = "AL" -> <<>>
emitBranch(g, cond, signed, mode, target) ==
    IF cond = "NV" THEN g ELSE Put(g, Around(cond, signed) \o <<<<"BRL", mode, target>>>>)

\* BRK with the trap's number is skipped if the condition holds.
Trap(g, cond, num) ==
    LET brk == Imm("BRK", num)
        taken == CASE cond = "LT" -> <<Skip("BCC", 2), brk>> [] cond = "GE" -> <<Skip("BCS", 2), brk>>
                   [] cond = "EQ" -> <<Skip("BEQ", 2), brk>> [] cond = "NE" -> <<Skip("BNE", 2), brk>>
                   [] cond = "LE" -> <<Skip("BEQ", 6), Skip("BCC", 4), Skip("BRA", 2), brk>>
                   [] cond = "GT" -> <<Skip("BEQ", 4), Skip("BCS", 2), brk>>
                   [] cond = "AL" -> <<brk>> [] cond = "NV" -> <<>>
    IN  Put(g, taken)

-----------------------------------------------------------------------------
(* Items: a constant a, a local variable at offset a of the frame or a     *)
(* variable of the module at offset a of its variables, the register r     *)
(* (and the next for a REAL), or the condition cc with the chains a of the *)
(* branches taken if it is FALSE and b if it is TRUE.  signed stands for   *)
(* orig_type: whether emitBranch compares as INTEGERs.                     *)

Item(mode, form, a) == [mode |-> mode, form |-> form, a |-> a, b |-> 0, r |-> 0, cc |-> "NV", signed |-> FALSE]
Push(g, item) == [g EXCEPT !.items = Append(@, item)]

Drop(s) == SubSeq(s, 1, Len(s) - 1)
X(g) == Len(g.items)          \* the place of a unary operation's operand and of a binary one's y
X2(g) == Len(g.items) - 1     \* the place of a binary operation's x
At(g, k) == g.items[k]
Reg(g, k) == reg_addr(At(g, k).r)

IsWide(form) == form = "Real"
IsByte(form) == form \in {"Byte", "Char", "Bool"}
Words(form) == IF IsWide(form) THEN 2 ELSE 1
Zero255 == Imm("AND", \hff)
ToReg(g, n) == DP("STA", reg_addr(g.RH + n))

\* Nothing is written for a number out of this range.
IsLoadable(a) == -65536 <= a /\ a <= 65535
LoadConst(g, x) ==
    IF IsWide(x.form)
    THEN <<Set16(TRUE, TRUE), Imm("LDA", x.a % 65536), ToReg(g, 0), Imm("LDA", x.a \div 65536), ToReg(g, 1)>>
    ELSE IF ~IsLoadable(x.a) THEN <<>>
    ELSE IF IsByte(x.form)
    THEN <<Set8(TRUE, FALSE), Imm("LDA", x.a % 256), Set16(TRUE, FALSE), Zero255, ToReg(g, 0)>>
    ELSE <<Set16(TRUE, TRUE), Imm("LDA", x.a % 65536), ToReg(g, 0)>>

\* op with the byte n of a variable: on the stack, or by Y from SB.
Access(op, x, n) ==
    IF x.mode = "Local" THEN <<<<op, "StackRelative", x.a + n>>>>
    ELSE <<Imm("LDY", x.a + n), <<op, "DirectPageIndirectIndexedY", SB_DP>>>>
LoadVar(g, x) ==
    IF IsWide(x.form)
    THEN <<Set16(TRUE, TRUE)>> \o Access("LDA", x, 0) \o <<ToReg(g, 0)>> \o Access("LDA", x, 2) \o <<ToReg(g, 1)>>
    ELSE IF IsByte(x.form)
    THEN <<Set8(TRUE, FALSE)>> \o Access("LDA", x, 0) \o <<Set16(TRUE, FALSE), Zero255, ToReg(g, 0)>>
    ELSE <<Set16(TRUE, TRUE)>> \o Access("LDA", x, 0) \o <<ToReg(g, 0)>>

\* A condition becomes 1 or 0 in a register; branch is g and the branch taken
\* if it is FALSE.
CondValue(g, x, branch) ==
    Put(ORG_FixLink(Put(ORG_FixLink(branch, x.b), <<Imm("LDA", 1), Skip("BRA", 3)>>), pc(branch) - 2),
        <<Imm("LDA", 0), ToReg(g, 0)>>)

\* load(x) of the item at place k; one in a register is left as it is, the
\* accumulator and the flags with it.
Loaded(g, x) ==
    IF x.mode = "Cond" THEN CondValue(g, x, emitBranch(g, negated(x.cc), x.signed, "Fixup", x.a))
    ELSE Put(g, IF x.mode = "Const" THEN LoadConst(g, x) ELSE LoadVar(g, x))
load(g, k) ==
    IF At(g, k).mode = "Reg" THEN g
    ELSE [TakeR(Loaded(g, At(g, k)), Words(At(g, k).form)) EXCEPT !.items[k].mode = "Reg", !.items[k].r = g.RH]

SetCC(x, cond, signed) == [x EXCEPT !.mode = "Cond", !.cc = cond, !.a = 0, !.b = 0, !.signed = signed, !.form = "Bool"]

Tested(t, k) ==
    [Put(t, <<Set16(TRUE, TRUE), DP("LDA", Reg(t, k))>>)
     EXCEPT !.items[k] = SetCC(@, "NE", FALSE), !.RH = @ - 1]
loadCond(g, k) ==
    LET x == At(g, k)
    IN  CASE x.mode = "Cond"  -> g
          [] x.mode = "Const" -> [g EXCEPT !.items[k] = SetCC(x, IF x.a = 1 THEN "AL" ELSE "NV", FALSE)]
          [] OTHER            -> Tested(load(g, k), k)

\* The address of a variable of the module, and its bank, into two registers.
loadAdr(g, x) ==
    TakeR(Put(g, <<Set16(TRUE, TRUE), Imm("LDA", x.a), Imp("CLC"), DP("ADC", SB_DP), ToReg(g, 0),
                   DP("LDA", BANK_DP), ToReg(g, 1)>>), 2)

\* Assignment of the item at the top, in the register r, to the variable x.
StoreIn(x, r) ==
    IF IsWide(x.form)
    THEN <<Set16(TRUE, TRUE), DP("LDA", r)>> \o Access("STA", x, 0) \o <<DP("LDA", r + 2)>> \o Access("STA", x, 2)
    ELSE IF IsByte(x.form)
    THEN <<Set8(TRUE, FALSE), DP("LDA", r)>> \o Access("STA", x, 0) \o <<Set16(TRUE, FALSE)>>
    ELSE <<Set16(TRUE, x.mode = "Global"), DP("LDA", r)>> \o Access("STA", x, 0)
Stored(y, x) == [Put(y, StoreIn(x, Reg(y, X(y)))) EXCEPT !.items = Drop(@), !.RH = @ - Words(x.form)]
ORG_Store(g, x) == Stored(load(g, X(g)), x)

\* At the end of a statement.
Checked(g) == IF g.RH = 0 THEN g ELSE [ORS_Mark(g, "Reg Stack") EXCEPT !.RH = 0]
ORG_CheckRegs(g) == Checked(Put(g, <<Set16(TRUE, TRUE)>>))
=============================================================================
