---------------------------- MODULE ORGArithmetic ----------------------------
(***************************************************************************)
(* The operators and statements of the Oberon compiler's code generator    *)
(* (oc/src/ORG.c) and its floating point subroutines.  Module ORG has the  *)
(* generator's state and what it lays code out with.                       *)
(***************************************************************************)
EXTENDS ORG

FP_A_LO == 34
FP_A_HI == 36
FP_B_LO == 38
FP_B_HI == 40
FP_SIGN == 42
FP_EXP == 44
FP_M1_LO == 46
FP_M1_HI == 48
FP_M2_LO == 50
FP_M2_HI == 52
FP_PROD0 == 54
FP_PROD1 == 56
FP_PROD2 == 58
FP_TEMP == 60
FP_TEMP2 == 62
FP_CNT == 64

Move(from, to) == <<DP("LDA", from), DP("STA", to)>>
Constant(v, to) == <<Imm("LDA", v), DP("STA", to)>>
Widest == Set16(TRUE, TRUE)

-----------------------------------------------------------------------------
(* Integer arithmetic.  A binary operation leaves its result in x's place. *)

InX(g, x, RH) == [g EXCEPT !.items = Append(Drop(Drop(@)), x), !.RH = RH]
InReg(x, r) == [x EXCEPT !.mode = "Reg", !.r = r]
LeftInX(t) == InX(t, At(t, X2(t)), t.RH)
LeftInY(t) == InX(t, InReg(At(t, X2(t)), At(t, X(t)).r), t.RH)
LeftInNew(t, words) == InX(t, InReg(At(t, X2(t)), t.RH - 2 * words), t.RH - words)
BothConst(g) == At(g, X2(g)).mode = "Const" /\ At(g, X(g)).mode = "Const"
Folded(g, v) == InX(g, [At(g, X2(g)) EXCEPT !.a = v], g.RH)
loadBoth(g) == load(load(g, X2(g)), X(g))

\* The power of two m is, and the powers MUL and DIV treat.
ORG_log2(m) == CHOOSE e \in 0 .. 15 : 2 ^ e = m
IsPower(x) == x.mode = "Const" /\ x.a \in {2 ^ e : e \in 1 .. 15}

\* The sign bit of a REAL constant of 32 bits.
SignChanged(a) == IF a < 0 THEN (a + 2147483647) + 1 ELSE (a - 2147483647) - 1
NegatedReal(r) == <<Widest, DP("LDA", r + 2), Imm("EOR", \h8000), DP("STA", r + 2)>>
NegatedInt(r)  == <<Widest, DP("LDA", r), Imm("EOR", \hffff), Imp("CLC"), Imm("ADC", 1), DP("STA", r)>>
ORG_Neg(g) ==
    LET x == At(g, X(g))
        start == IF IsWide(x.form) THEN g ELSE Put(g, <<Widest>>)
        t == load(start, X(g))
    IN  IF x.mode = "Const" THEN [start EXCEPT !.items[X(g)].a = IF IsWide(x.form) THEN SignChanged(x.a) ELSE -x.a]
        ELSE Put(t, IF IsWide(x.form) THEN NegatedReal(Reg(t, X(g))) ELSE NegatedInt(Reg(t, X(g))))

\* What is in the register r and the source, into dest.
AddSub(plus, r, mode, source, dest) ==
    <<Widest, DP("LDA", r), Imp(IF plus THEN "CLC" ELSE "SEC"), <<IF plus THEN "ADC" ELSE "SBC", mode, source>>, DP("STA", dest)>>
AddConst(t, k, plus, c) == IF c = 0 THEN t ELSE Put(t, AddSub(plus, Reg(t, k), "Immediate", c, Reg(t, k)))
AddRegs(t, plus) ==
    LeftInNew(Put(t, AddSub(plus, Reg(t, X2(t)), "DirectPage", Reg(t, X(t)), reg_addr(t.RH - 2))), 1)
ORG_AddOp(g, plus) ==
    LET x == At(g, X2(g))  y == At(g, X(g))
    IN  IF BothConst(g) THEN Folded(g, IF plus THEN x.a + y.a ELSE x.a - y.a)
        ELSE IF plus /\ x.mode = "Const" THEN LeftInY(AddConst(load(g, X(g)), X(g), plus, x.a))
        ELSE IF y.mode = "Const" THEN LeftInX(AddConst(load(g, X2(g)), X2(g), plus, y.a))
        ELSE AddRegs(loadBoth(g), plus)

\* Shift and add: x is shifted out to the right while y moves to the left.
MultiplyLoop(x, y) ==
    <<Imm("LDA", 0), DP("LDX", x), Skip("BEQ", 11), DP("LSR", x), Skip("BCC", 3), Imp("CLC"),
      DP("ADC", y), DP("ASL", y), Skip("BRA", -15)>>
MulRegs(t) ==
    LeftInNew(Put(t, <<Widest>> \o MultiplyLoop(Reg(t, X2(t)), Reg(t, X(t))) \o <<DP("STA", reg_addr(t.RH - 2))>>), 1)
MulPower(t, k, m) ==
    Put(t, <<Widest, Imm("LDX", ORG_log2(m)), Loop, DP("ASL", Reg(t, k)), Imp("DEX"), Back("BNE")>>)
ORG_MulOp(g) ==
    LET x == At(g, X2(g))  y == At(g, X(g))
    IN  IF BothConst(g) THEN Folded(g, x.a * y.a)
        ELSE IF IsPower(y) THEN LeftInX(MulPower(load(g, X2(g)), X2(g), y.a))
        ELSE IF IsPower(x) THEN LeftInY(MulPower(load(g, X(g)), X(g), x.a))
        ELSE MulRegs(loadBoth(g))

\* Subtract the divisor until what is left is smaller, as unsigned numbers.
genDivLoop(dividend, divisor, quotient) ==
    <<Widest>> \o Constant(0, quotient) \o
    <<Loop, DP("LDA", dividend), DP("CMP", divisor), Skip("BCC", 11), DP("LDA", dividend), Imp("SEC"),
      DP("SBC", divisor), DP("STA", dividend), DP("INC", quotient), Back("BRA")>>

\* DIV shifts what is in the accumulator, MOD masks the register.
DivPower(div, r, m) ==
    IF div THEN [n \in 1 .. 2 * ORG_log2(m) |-> IF n % 2 = 1 THEN Imm("CMP", \h8000) ELSE Imp("ROR")] \o <<DP("STA", r)>>
    ELSE <<Widest, DP("LDA", r), Imm("AND", m - 1), DP("STA", r)>>
DivConst(t, div, r, m) ==
    LET d == reg_addr(t.RH)  q == reg_addr(t.RH + 1)
    IN  [Put(TakeR(t, 2), <<Widest>> \o Constant(m, d) \o genDivLoop(r, d, q) \o (IF div THEN Move(q, r) ELSE <<>>))
         EXCEPT !.RH = @ - 2]
DivRegs(t, div) ==
    LET x == Reg(t, X2(t))
        y == Reg(t, X(t))
        q == reg_addr(t.RH)
        r == At(t, X(t)).r
    IN  InX(Put(incR(t), genDivLoop(x, y, q) \o Move(IF div THEN q ELSE x, y)), InReg(At(t, X2(t)), r), r + 1)
DivByConst(t, div, m) ==
    LET r == Reg(t, X2(t))
    IN  LeftInX(IF IsPower(At(t, X(t))) THEN Put(t, DivPower(div, r, m)) ELSE DivConst(t, div, r, m))
\* C's division goes towards 0.
Quotient(v, w) == IF v >= 0 THEN v \div w ELSE -((-v) \div w)
Remainder(v, w) == v - w * Quotient(v, w)
ORG_DivOp(g, div) ==
    LET x == At(g, X2(g))  y == At(g, X(g))
    IN  IF y.mode = "Const" /\ y.a <= 0 THEN ORS_Mark(g, IF div THEN "bad divisor" ELSE "bad modulus")
        ELSE IF BothConst(g) THEN Folded(g, IF div THEN Quotient(x.a, y.a) ELSE Remainder(x.a, y.a))
        ELSE IF y.mode = "Const" THEN DivByConst(load(g, X2(g)), div, y.a)
        ELSE DivRegs(load(Trap(load(g, X(g)), "LE", 6), X2(g)), div)

-----------------------------------------------------------------------------
(* Calls of the floating point subroutines.                                *)

CallsOf(g, f) == SelectSeq(g.fp_fixups, LAMBDA call : call.f = f)
Called(g, f) ==
    Put(IF Len(CallsOf(g, f)) < maxFPFixups THEN [g EXCEPT !.fp_fixups = Append(@, [f |-> f, at |-> pc(g) + 1])] ELSE g,
        <<<<"JSR", "Absolute", 0>>>>)
ToA(r) == Move(r, FP_A_LO) \o Move(r + 2, FP_A_HI)
ToB(r) == Move(r, FP_B_LO) \o Move(r + 2, FP_B_HI)
FromA(r) == Move(FP_A_LO, r) \o Move(FP_A_HI, r + 2)

SubroutineOf == [plus |-> "ADD", minus |-> "ADD", times |-> "MUL", rdiv |-> "DIV"]
MinusB == <<DP("LDA", FP_B_HI), Imm("EOR", \h8000), DP("STA", FP_B_HI)>>
RealOpRegs(t, op) ==
    LET operands == <<Widest>> \o ToA(Reg(t, X2(t))) \o ToB(Reg(t, X(t))) \o (IF op = "minus" THEN MinusB ELSE <<>>)
    IN  LeftInNew(Put(Called(Put(t, operands), SubroutineOf[op]), FromA(Reg(t, X2(t)))), 2)
ORG_RealOp(g, op) == RealOpRegs(loadBoth(g), op)

FloorReg(t) ==
    LET u == Put(Called(Put(t, <<Widest>> \o ToA(Reg(t, X(t)))), "FLOOR"), Move(FP_A_LO, Reg(t, X(t))))
    IN  [u EXCEPT !.items[X(t)].form = "Int", !.RH = @ - 1]
ORG_Floor(g) == FloorReg(load(g, X(g)))

FloatReg(t) ==
    LET r == Reg(t, X(t))
        u == Put(Called(Put(t, <<Widest>> \o Move(r, FP_A_LO) \o <<DP("STZ", FP_A_HI)>>), "FLT"), FromA(r))
    IN  incR([u EXCEPT !.items[X(t)].form = "Real"])
ORG_Float(g) == FloatReg(load(g, X(g)))

-----------------------------------------------------------------------------
(* Relations and conditions.  Two operations of a binary operator are      *)
(* called, one between its operands and one behind them.                   *)

Ordered(op) == op \in {"LT", "GE", "LE", "GT"}
CompareWith(form, op, source) ==
    IF form \in {"Int", "Byte"} /\ Ordered(op) THEN <<Imp("SEC"), <<"SBC", source[2], source[3]>>>> ELSE <<source>>
IsNarrow(x) == x.form \in {"Char", "Bool"}
IntRelated(t, op) ==
    LET x == At(t, X2(t))  y == At(t, X(t))
        source   == IF y.mode = "Const" THEN Imm("CMP", y.a) ELSE DP("CMP", Reg(t, X(t)))
        compared == IF y.mode = "Const" /\ y.a = 0 /\ ~Ordered(op) THEN <<>>
                    ELSE <<DP("LDA", Reg(t, X2(t)))>> \o CompareWith(x.form, op, source)
    IN  InX(Put(t, compared \o (IF IsNarrow(x) THEN <<Widest>> ELSE <<>>)),
            SetCC(x, op, x.form = "Int"), t.RH - (IF y.mode = "Const" THEN 1 ELSE 2))
RelationStart(g) == Put(g, IF IsNarrow(At(g, X2(g))) THEN <<Set8(TRUE, FALSE)>> ELSE <<>>)
BothRelated(g) ==
    loadBoth(IF "Cond" \in {At(g, X2(g)).mode, At(g, X(g)).mode} THEN ORS_Mark(g, "not implemented") ELSE g)
ORG_IntRelation(g, op) ==
    LET start == RelationStart(g)
    IN  IntRelated(IF At(g, X(g)).mode = "Const" THEN load(start, X2(g)) ELSE BothRelated(start), op)

XInA(t) == [Put(t, <<Widest>> \o ToA(Reg(t, X2(t)))) EXCEPT !.RH = @ - 2]
YInB(t) == [Put(t, ToB(Reg(t, X(t)))) EXCEPT !.RH = @ - 4]
RealRelated(t, op) == InX(Put(Called(t, "CMP"), <<DP("LDA", FP_A_LO)>>), SetCC(At(t, X2(t)), op, TRUE), t.RH)
WithY(u) ==
    IF At(u, X(u)).mode = "Const" /\ At(u, X(u)).a = 0 THEN Put(u, <<DP("STZ", FP_B_LO), DP("STZ", FP_B_HI)>>)
    ELSE YInB(load([u EXCEPT !.RH = @ + 2], X(u)))
ORG_RealRelation(g, op) ==
    LET u == XInA(load(g, X2(g)))
    IN  RealRelated(WithY(u), op)

Inverted(x) == [x EXCEPT !.cc = negated(x.cc), !.a = x.b, !.b = x.a]
ORG_Not(g) == [loadCond(g, X(g)) EXCEPT !.items[X(g)] = Inverted(@)]

\* A branch is laid out if the condition decides an AND or an OR.  It is
\* linked to the others that do; those that do not come to what follows.
FalseBranch(t) == LET x == At(t, X(t)) IN emitBranch(t, negated(x.cc), x.signed, "Fixup", x.a)
TrueBranch(t)  == LET x == At(t, X(t)) IN emitBranch(t, x.cc, x.signed, "Fixup", x.b)
OnTrue(u)  == [ORG_FixLink(u, At(u, X(u)).b) EXCEPT !.items[X(u)] = [@ EXCEPT !.a = pc(u) - 2, !.b = 0]]
OnFalse(u) == [ORG_FixLink(u, At(u, X(u)).a) EXCEPT !.items[X(u)] = [@ EXCEPT !.b = pc(u) - 2, !.a = 0]]
ORG_And1(g) == OnTrue(FalseBranch(loadCond(g, X(g))))
ORG_Or1(g)  == OnFalse(TrueBranch(loadCond(g, X(g))))

WithFalse(t, m) == InX([t EXCEPT !.code = m.code], [At(t, X(t)) EXCEPT !.a = m.L], t.RH)
WithTrue(t, m)  == InX([t EXCEPT !.code = m.code], [At(t, X(t)) EXCEPT !.b = m.L], t.RH)
Both2(t)   == WithFalse(t, merged(t.code, At(t, X(t)).a, At(t, X2(t)).a))
Either2(t) == WithTrue(t, merged(t.code, At(t, X(t)).b, At(t, X2(t)).b))
\* A mutant: the branches of the first operand are forgotten.
ORG_And2Alone(g) == LET t == loadCond(g, X(g)) IN InX(t, At(t, X(t)), t.RH)
ORG_And2(g) == Both2(loadCond(g, X(g)))
ORG_Or2(g)  == Either2(loadCond(g, X(g)))

-----------------------------------------------------------------------------
(* Jumps.  A chain of jumps is named by the operand of its last one, L.    *)

FalseJump(u) == [ORG_FixLink(u, At(u, X(u)).b) EXCEPT !.items[X(u)].a = pc(u) - 2]
ORG_CFJump(g) == FalseJump(FalseBranch(loadCond(g, X(g))))
ORG_FJump(g, L) == emitBranch(g, "AL", TRUE, "Fixup", L)
LastJump(g) == pc(g) - 2
ORG_Fixup(g) == [ORG_FixLink(g, At(g, X(g)).a) EXCEPT !.items = Drop(@)]
ORG_BJump(g, L) == Put(g, <<<<"BRA", "ProgramCounterRelative", L>>>>)
BackBranch(t, L) ==
    LET x == At(t, X(t)) IN emitBranch(t, negated(x.cc), x.signed, "ProgramCounterRelative", L)
BackJump(u, L) ==
    LET x == At(u, X(u)) IN [FixLinkWith(ORG_FixLink(u, x.b), x.a, L) EXCEPT !.items = Drop(@)]
ORG_CBJump(g, L) == BackJump(BackBranch(loadCond(g, X(g)), L), L)

-----------------------------------------------------------------------------
(* Standard functions. *)

OddBit(r) == <<Widest, DP("LDA", r), Imm("AND", 1), DP("STA", r)>>
ORG_Odd(g) ==
    LET t == load(g, X(g))
    IN  [Put(t, OddBit(Reg(t, X(g)))) EXCEPT !.items[X(g)] = SetCC(@, "NE", FALSE), !.RH = @ - 1]

AbsReal(r) == <<Widest, DP("LDA", r + 2), Imm("AND", \h7fff), DP("STA", r + 2)>>
AbsInt(r)  == <<Widest, DP("LDA", r), Skip("BPL", 6), Imm("EOR", \hffff), Acc("INC"), DP("STA", r)>>
ORG_Abs(g) ==
    LET x == At(g, X(g))
        t == load(g, X(g))
    IN  IF x.mode = "Const" THEN [g EXCEPT !.items[X(g)].a = IF x.a < 0 THEN -x.a ELSE x.a]
        ELSE Put(t, IF IsWide(x.form) THEN AbsReal(Reg(t, X(g))) ELSE AbsInt(Reg(t, X(g))))

\* ORD and CHR.
ORG_Ord(g, form) ==
    LET t == IF At(g, X(g)).mode \in {"Local", "Global", "Cond"} THEN load(g, X(g)) ELSE g
    IN  [t EXCEPT !.items[X(g)].form = form]

\* op is ASL, LSR or ROL: in memory by one, else in the accumulator.  The
\* carry that ROL rotates in is the one of the instruction before.
ShiftBy(op, r, n) ==
    IF n = 1 THEN <<DP(op, r)>> ELSE <<DP("LDA", r)>> \o [i \in 1 .. n |-> Imp(op)] \o <<DP("STA", r)>>
ORG_Shift(g, op) ==
    LET n == At(g, X(g))
        t == load(g, X2(g))
    IN  IF n.mode # "Const" THEN ORS_Mark(g, "non-const shift not implemented")
        ELSE LeftInX(Put(t, ShiftBy(op, Reg(t, X2(g)), n.a)))

\* op is AND, EOR or ORA.
BitsConst(t, op) ==
    LET r == Reg(t, X2(t)) IN LeftInX(Put(t, <<Imm("LDA", At(t, X(t)).a), DP(op, r), DP("STA", r)>>))
BitsRegs(t, op) ==
    LeftInNew(Put(t, <<DP("LDA", Reg(t, X(t))), DP(op, Reg(t, X2(t))), DP("STA", reg_addr(t.RH - 2))>>), 1)
ORG_Bitwise(g, op) ==
    IF At(g, X(g)).mode = "Const" THEN BitsConst(load(g, X2(g)), op) ELSE BitsRegs(loadBoth(g), op)

-----------------------------------------------------------------------------
(* Statements. *)

\* INC and DEC of the variable x by the item at the top.  A BYTE is worked on
\* with 8 bits until the step, if it is not constant, is loaded.
StepBy(z, up, mode, v) ==
    <<DP("LDA", z), Imp(IF up THEN "CLC" ELSE "SEC"), <<IF up THEN "ADC" ELSE "SBC", mode, v>>, DP("STA", z)>>
StepByReg(t, z, up) == Put(t, StepBy(z, up, "DirectPage", Reg(t, X(t))))
Stepped(g, z, up) ==
    LET y == At(g, X(g))
    IN  IF y.mode # "Const" THEN [StepByReg(load(g, X(g)), z, up) EXCEPT !.RH = @ - 1]
        ELSE IF y.a # 1 THEN Put(g, StepBy(z, up, "Immediate", y.a))
        ELSE Put(g, <<DP("LDA", z), Acc(IF up THEN "INC" ELSE "DEC"), DP("STA", z)>>)
ORG_Increment(g, x, up) ==
    LET global == x.mode = "Global"
        byte   == x.form = "Byte"
        adr    == reg_addr(g.RH)
        z      == reg_addr(IF global THEN g.RH + 2 ELSE g.RH)
        widths == IF byte THEN Set8(TRUE, FALSE) ELSE Widest
        from   == IF global THEN <<DP("LDX", adr), <<"LDA", "AbsoluteIndexedX", 0>>>> ELSE Access("LDA", x, 0)
        to     == IF global THEN <<DP("LDX", adr), DP("LDA", z), <<"STA", "AbsoluteIndexedX", 0>>>>
                  ELSE <<DP("LDA", z)>> \o Access("STA", x, 0)
        start  == IF global THEN loadAdr(g, x) ELSE g
        read   == incR(Put(start, <<widths>> \o from \o <<DP("STA", z)>>))
    IN  [Put(Stepped(read, z, up), to \o (IF byte THEN <<Widest>> ELSE <<>>)) EXCEPT !.items = Drop(@), !.RH = @ - (IF global THEN 3 ELSE 1)]

\* The trap is skipped if the condition it is given holds, and that is the
\* negation of the asserted one.
Asserted(t) ==
    LET x == At(t, X(t))
    IN  IF x.a = 0 THEN ORG_FixLink(Trap(t, negated(x.cc), 7), x.b)
        ELSE ORG_FixLink(Trap(ORG_FixLink(t, x.a), "AL", 7), pc(t) - 1)
ORG_Assert(g) == [Asserted(loadCond(g, X(g))) EXCEPT !.items = Drop(@)]

\* FOR: x is the variable, the item of the initial value is followed by the
\* limit's, by is the constant step.  The value is kept in the register of
\* the initial value; For1 gives it to x, For2 steps it.
ORG_For0(g) == load(g, X(g))
ForLimit(t, by) ==
    LET y == At(t, X2(t))  z == At(t, X(t))
        const  == z.mode = "Const"
        signed == y.form = "Int"
        narrow == IsByte(z.form) /\ (const \/ IsByte(y.form))
        widths == IF narrow THEN Set8(TRUE, FALSE) ELSE Widest
        value  == <<DP("LDA", Reg(t, X2(t)))>>
        limit  == <<IF signed THEN "SBC" ELSE "CMP", IF const THEN "Immediate" ELSE "DirectPage", IF const THEN z.a ELSE Reg(t, X(t))>>
        compared == IF signed THEN value \o <<Imp("SEC"), limit>> ELSE IF const THEN <<limit>> ELSE value \o <<limit>>
        tested == Put(t, <<widths>> \o compared \o <<Set16(TRUE, FALSE)>>)
    IN  [emitBranch(IF by = 0 THEN ORS_Mark(tested, "zero increment") ELSE tested, IF by > 0 THEN "GT" ELSE "LT", signed, "Fixup", 0)
         EXCEPT !.items = Drop(@), !.RH = @ - (IF const THEN 0 ELSE 1)]
ORG_For1(g, by) == ForLimit(IF At(g, X(g)).mode = "Const" THEN load(g, X2(g)) ELSE loadBoth(g), by)
ForStep(t, by) ==
    [Put(t, (IF by > 0 THEN <<Imp("CLC"), Imm("ADC", by)>> ELSE <<Imp("SEC"), Imm("SBC", -by)>>) \o <<DP("STA", Reg(t, X(t)))>>)
     EXCEPT !.items = Drop(@), !.RH = @ - 1]
ORG_For2(g, x, by) == ForStep(load(Push(g, x), X(g) + 1), by)

\* CASE: each label loads the variable again.
Labelled(t, compare, L) ==
    [Put(t, <<Widest, DP("LDA", Reg(t, X(t)))>> \o compare \o <<<<"BRL", "Fixup", L>>>>)
     EXCEPT !.items = Drop(@), !.RH = @ - 1]
Label(g, x, compare, L) == Labelled(load(Push(g, x), X(g) + 1), compare, L)
ORG_CaseLabel(g, x, val, L) == Label(g, x, <<Imm("CMP", val), Skip("BNE", 3)>>, L)
ORG_CaseRange(g, x, lo, hi, L) ==
    Label(g, x, <<Imp("SEC"), Imm("SBC", lo), Imm("CMP", hi - lo + 1), Skip("BCS", 3)>>, L)

-----------------------------------------------------------------------------
(* The floating point subroutines, of IEEE singles in FP_A and FP_B: sign,  *)
(* 8 bits of exponent, 23 of mantissa.  X and A are 16 bits wide.           *)

Store(v, to)          == <<Imm("LDA", v), DP("STA", to), Imp("RTS")>>
Either(op, v, w)      == <<Skip(op, 5), Imm("LDA", v), Skip("BRA", 3), Imm("LDA", w)>>
Masked(from, mask, to) == <<DP("LDA", from), Imm("AND", mask), DP("STA", to)>>
IsZero(lo, hi)        == <<DP("LDA", lo), DP("ORA", hi), Imm("AND", \h7fff)>>
Exponent(hi)          == <<DP("LDA", hi), Imm("AND", \h7f80)>> \o [i \in 1 .. 7 |-> Acc("LSR")]
Mantissa(lo, hi, to_lo, to_hi) ==
    <<DP("LDA", hi), Imm("AND", \h7f), Imm("ORA", \h80), DP("STA", to_hi)>> \o Move(lo, to_lo)
Swap(u, v)            == <<DP("LDA", u), DP("LDX", v), DP("STX", u), DP("STA", v)>>
Negated               == <<Imm("EOR", \hffff), Acc("INC")>>
Pack(lo, hi) ==
    <<DP("LDA", FP_EXP), Imp("XBA"), Acc("LSR"), Imm("AND", \h7f80), DP("STA", FP_A_HI),
      DP("LDA", hi), Imm("AND", \h7f), DP("ORA", FP_A_HI), DP("ORA", FP_SIGN), DP("STA", FP_A_HI)>>
    \o Move(lo, FP_A_LO) \o <<Imp("RTS")>>
ZeroA == <<DP("STZ", FP_A_LO), DP("STZ", FP_A_HI), Imp("RTS")>>
BothMantissas == Mantissa(FP_A_LO, FP_A_HI, FP_M1_LO, FP_M1_HI) \o Mantissa(FP_B_LO, FP_B_HI, FP_M2_LO, FP_M2_HI)
SignOfBoth == <<DP("LDA", FP_A_HI), DP("EOR", FP_B_HI), Imm("AND", \h8000), DP("STA", FP_SIGN)>>

emitFP_FLOOR ==
    Masked(FP_A_HI, \h8000, FP_SIGN) \o Exponent(FP_A_HI) \o <<DP("STA", FP_EXP), Fwd("BNE", "p1")>>
    \o <<DP("LDA", FP_SIGN), Fwd("BEQ", "p2")>> \o IsZero(FP_A_LO, FP_A_HI) \o <<Fwd("BEQ", "p3")>>
    \o Store(\hffff, FP_A_LO) \o <<Patch("p2"), Patch("p3")>> \o Store(0, FP_A_LO)
    \o <<Patch("p1"), DP("LDA", FP_EXP), Imp("SEC"), Imm("SBC", 127), DP("STA", FP_EXP)>>
    \o <<Fwd("BPL", "p1"), DP("LDA", FP_SIGN)>> \o Either("BNE", 0, \hffff) \o <<DP("STA", FP_A_LO), Imp("RTS")>>
    \o <<Patch("p1"), Imm("CMP", 15), Fwd("BCC", "p1"), DP("LDA", FP_SIGN)>>
    \o Either("BNE", \h7fff, \h8000) \o <<DP("STA", FP_A_LO), Imp("RTS")>>
    \o <<Patch("p1")>> \o Mantissa(FP_A_LO, FP_A_HI, FP_M1_LO, FP_M1_HI)
    \o <<DP("STZ", FP_TEMP), Imm("LDA", 23), Imp("SEC"), DP("SBC", FP_EXP), Fwd("BEQ", "p1"), DP("STA", FP_CNT)>>
    \o <<Loop, DP("LSR", FP_M1_HI), DP("ROR", FP_M1_LO), Skip("BCC", 2), DP("INC", FP_TEMP),
         DP("DEC", FP_CNT), Back("BNE"), Patch("p1")>>
    \o <<DP("LDA", FP_SIGN), Fwd("BNE", "p1")>> \o Move(FP_M1_LO, FP_A_LO) \o <<Imp("RTS")>>
    \o <<Patch("p1"), DP("LDA", FP_TEMP), Skip("BEQ", 4), DP("INC", FP_M1_LO), Skip("BRA", 0)>>
    \o <<DP("LDA", FP_M1_LO)>> \o Negated \o <<DP("STA", FP_A_LO), Imp("RTS")>>

emitFP_FLT ==
    <<DP("LDA", FP_A_LO), Fwd("BNE", "p1"), DP("STZ", FP_A_HI), Imp("RTS"), Patch("p1"), DP("STZ", FP_SIGN),
      Fwd("BPL", "p1"), Imm("LDA", \h8000), DP("STA", FP_SIGN), DP("LDA", FP_A_LO)>> \o Negated
    \o <<Skip("BRA", 2), Patch("p1"), DP("LDA", FP_A_LO), DP("STA", FP_M1_LO), DP("STZ", FP_M1_HI)>>
    \o Constant(0, FP_CNT) \o <<DP("LDA", FP_M1_LO)>>
    \o <<Loop, Imm("CMP", \h8000), Fwd("BCS", "p1"), Acc("ASL"), DP("INC", FP_CNT), Back("BRA"), Patch("p1")>>
    \o <<DP("STA", FP_TEMP), Imm("AND", \hff), Imp("XBA"), DP("STA", FP_A_LO)>>
    \o <<DP("LDA", FP_TEMP), Imp("XBA"), Imm("AND", \h7f), DP("STA", FP_TEMP)>>
    \o <<Imm("LDA", 127 + 15), Imp("SEC"), DP("SBC", FP_CNT), Imp("XBA"), Acc("LSR"), Imm("AND", \h7f80),
         DP("ORA", FP_TEMP), DP("ORA", FP_SIGN), DP("STA", FP_A_HI), Imp("RTS")>>

\* The smaller operand is shifted to the other's exponent, what it loses is
\* forgotten.
Aligned ==
    <<DP("LDA", FP_EXP), DP("CMP", FP_TEMP), Fwd("BCS", "p1")>>
    \o Swap(FP_EXP, FP_TEMP) \o Swap(FP_M1_LO, FP_M2_LO) \o Swap(FP_M1_HI, FP_M2_HI) \o Swap(FP_SIGN, FP_TEMP2)
    \o <<Patch("p1"), DP("LDA", FP_EXP), Imp("SEC"), DP("SBC", FP_TEMP), Fwd("BEQ", "p1"),
         Imm("CMP", 24), Fwd("BCC", "p2"), DP("STZ", FP_M2_LO), DP("STZ", FP_M2_HI), Fwd("BRA", "p3"),
         Patch("p2"), DP("STA", FP_CNT),
         Loop, DP("LSR", FP_M2_HI), DP("ROR", FP_M2_LO), DP("DEC", FP_CNT), Back("BNE"),
         Patch("p1"), Patch("p3")>>
Mantissas(carry, op) ==
    <<Imp(carry), DP("LDA", FP_M1_LO), DP(op, FP_M2_LO), DP("STA", FP_M1_LO),
      DP("LDA", FP_M1_HI), DP(op, FP_M2_HI), DP("STA", FP_M1_HI)>>
emitFP_ADD ==
    IsZero(FP_A_LO, FP_A_HI) \o <<Fwd("BNE", "p1")>> \o Move(FP_B_LO, FP_A_LO) \o Move(FP_B_HI, FP_A_HI)
    \o <<Imp("RTS"), Patch("p1")>> \o IsZero(FP_B_LO, FP_B_HI) \o <<Fwd("BNE", "p1"), Imp("RTS"), Patch("p1")>>
    \o Masked(FP_A_HI, \h8000, FP_SIGN) \o Exponent(FP_A_HI) \o <<DP("STA", FP_EXP)>>
    \o Mantissa(FP_A_LO, FP_A_HI, FP_M1_LO, FP_M1_HI)
    \o Masked(FP_B_HI, \h8000, FP_TEMP2) \o Exponent(FP_B_HI) \o <<DP("STA", FP_TEMP)>>
    \o Mantissa(FP_B_LO, FP_B_HI, FP_M2_LO, FP_M2_HI)
    \o Aligned \o <<DP("LDA", FP_SIGN), DP("EOR", FP_TEMP2), Fwd("BNE", "p1")>>
    \o Mantissas("CLC", "ADC")
    \o <<DP("LDA", FP_M1_HI), Imm("AND", \h100), Fwd("BEQ", "p2"), DP("LSR", FP_M1_HI), DP("ROR", FP_M1_LO),
         DP("INC", FP_EXP), Patch("p2"), Fwd("BRA", "p2"), Patch("p1")>>
    \o Mantissas("SEC", "SBC") \o <<DP("ORA", FP_M1_LO), Fwd("BNE", "p3")>> \o ZeroA \o <<Patch("p3")>>
    \o <<Loop, DP("LDA", FP_M1_HI), Imm("AND", \h80), Fwd("BNE", "p3"), DP("ASL", FP_M1_LO), DP("ROL", FP_M1_HI),
         DP("DEC", FP_EXP), Back("BRA"), Patch("p3"), Patch("p2")>>
    \o Pack(FP_M1_LO, FP_M1_HI)

emitFP_MUL ==
    IsZero(FP_A_LO, FP_A_HI) \o <<Fwd("BNE", "p1")>> \o ZeroA \o <<Patch("p1")>>
    \o IsZero(FP_B_LO, FP_B_HI) \o <<Fwd("BNE", "p1")>> \o ZeroA \o <<Patch("p1")>> \o SignOfBoth
    \o Exponent(FP_A_HI) \o <<DP("STA", FP_EXP)>>
    \o Exponent(FP_B_HI) \o <<Imp("CLC"), DP("ADC", FP_EXP), Imp("SEC"), Imm("SBC", 127), DP("STA", FP_EXP)>>
    \o BothMantissas \o <<DP("STZ", FP_PROD0), DP("STZ", FP_PROD1), DP("STZ", FP_PROD2)>> \o Constant(24, FP_CNT)
    \o <<Loop, DP("LDA", FP_M2_LO), Imm("AND", 1), Fwd("BEQ", "p1"), Imp("CLC"),
         DP("LDA", FP_PROD0), DP("ADC", FP_M1_LO), DP("STA", FP_PROD0),
         DP("LDA", FP_PROD1), DP("ADC", FP_M1_HI), DP("STA", FP_PROD1), Skip("BCC", 2), DP("INC", FP_PROD2),
         Patch("p1"), DP("LSR", FP_M2_HI), DP("ROR", FP_M2_LO),
         DP("LSR", FP_PROD2), DP("ROR", FP_PROD1), DP("ROR", FP_PROD0), DP("DEC", FP_CNT), Back("BNE")>>
    \o <<DP("LDA", FP_PROD1), Imm("AND", \h80), Fwd("BEQ", "p1"), DP("INC", FP_EXP), Fwd("BRA", "p2"),
         Patch("p1"), DP("ASL", FP_PROD0), DP("ROL", FP_PROD1), Patch("p2")>> \o Pack(FP_PROD0, FP_PROD1)

emitFP_DIV ==
    IsZero(FP_B_LO, FP_B_HI) \o <<Fwd("BNE", "p1"), Imm("BRK", 7), Patch("p1")>>
    \o IsZero(FP_A_LO, FP_A_HI) \o <<Fwd("BNE", "p1")>> \o ZeroA \o <<Patch("p1")>> \o SignOfBoth
    \o Exponent(FP_A_HI) \o <<DP("STA", FP_EXP)>> \o Exponent(FP_B_HI) \o <<DP("STA", FP_TEMP)>>
    \o <<DP("LDA", FP_EXP), Imp("SEC"), DP("SBC", FP_TEMP), Imp("CLC"), Imm("ADC", 127), DP("STA", FP_EXP)>>
    \o BothMantissas \o <<DP("STZ", FP_PROD0), DP("STZ", FP_PROD1)>> \o Constant(24, FP_CNT)
    \o <<Loop, Imp("SEC"), DP("LDA", FP_M1_LO), DP("SBC", FP_M2_LO), DP("STA", FP_TEMP),
         DP("LDA", FP_M1_HI), DP("SBC", FP_M2_HI), Fwd("BCC", "p1"), DP("STA", FP_M1_HI)>> \o Move(FP_TEMP, FP_M1_LO)
    \o <<Patch("p1"), DP("ROL", FP_PROD0), DP("ROL", FP_PROD1), DP("ASL", FP_M1_LO), DP("ROL", FP_M1_HI),
         DP("DEC", FP_CNT), Back("BNE"), DP("LDA", FP_PROD1), Imm("AND", \h80), Fwd("BNE", "p1")>>
    \o <<Loop, DP("LDA", FP_PROD1), Imm("AND", \h80), Fwd("BNE", "p2"), DP("ASL", FP_PROD0), DP("ROL", FP_PROD1),
         DP("DEC", FP_EXP), Back("BRA"), Patch("p1"), Patch("p2")>> \o Pack(FP_PROD0, FP_PROD1)

\* -1, 0 or 1 in FP_A_LO.
Reversed == <<DP("BIT", FP_SIGN), Fwd("BPL", "p2")>> \o Negated \o <<Patch("p2"), DP("STA", FP_A_LO), Imp("RTS")>>
emitFP_CMP ==
    IsZero(FP_A_LO, FP_A_HI) \o <<DP("STA", FP_TEMP)>> \o IsZero(FP_B_LO, FP_B_HI)
    \o <<DP("ORA", FP_TEMP), Fwd("BNE", "p1")>> \o Store(0, FP_A_LO) \o <<Patch("p1")>>
    \o Masked(FP_A_HI, \h8000, FP_SIGN)
    \o <<DP("LDA", FP_B_HI), Imm("AND", \h8000), DP("CMP", FP_SIGN), Fwd("BEQ", "p1"), DP("LDA", FP_SIGN)>>
    \o Either("BNE", 1, \hffff) \o <<DP("STA", FP_A_LO), Imp("RTS"), Patch("p1")>>
    \o Masked(FP_A_HI, \h7fff, FP_TEMP) \o <<DP("LDA", FP_B_HI), Imm("AND", \h7fff), DP("CMP", FP_TEMP)>>
    \o <<Fwd("BEQ", "p1"), Fwd("BCC", "p2"), Imm("LDA", \hffff), Skip("BRA", 3), Patch("p2"), Imm("LDA", 1)>>
    \o Reversed \o <<Patch("p1"), DP("LDA", FP_A_LO), DP("CMP", FP_B_LO)>>
    \o <<Fwd("BEQ", "p1"), Fwd("BCC", "p2"), Imm("LDA", 1), Skip("BRA", 3), Patch("p2"), Imm("LDA", \hffff)>>
    \o Reversed \o <<Patch("p1")>> \o Store(0, FP_A_LO)

\* At the end of a module: those that are called, in this order.
Subroutines ==
    <<<<"FLOOR", emitFP_FLOOR>>, <<"FLT", emitFP_FLT>>, <<"ADD", emitFP_ADD>>,
      <<"MUL", emitFP_MUL>>, <<"DIV", emitFP_DIV>>, <<"CMP", emitFP_CMP>>>>
emitFPSubroutines(g) ==
    LET laid[n \in 0 .. Len(Subroutines)] ==
            IF n = 0 THEN g
            ELSE LET t == laid[n - 1]  f == Subroutines[n][1]
                 IN  IF CallsOf(t, f) = <<>> THEN t
                     ELSE Put([t EXCEPT !.fp_sub_addr[f] = pc(t)], Subroutines[n][2])
    IN  laid[Len(Subroutines)]
\* The addresses of the subroutines go into their calls.
FixedCall(code, at, addr) == [code EXCEPT ![at + 1] = Lo(addr), ![at + 2] = Hi(addr)]
fixupFPCalls(g) ==
    LET fixed[n \in 0 .. Len(g.fp_fixups)] ==
            IF n = 0 THEN g.code
            ELSE FixedCall(fixed[n - 1], g.fp_fixups[n].at, g.fp_sub_addr[g.fp_fixups[n].f])
    IN  [g EXCEPT !.code = fixed[Len(g.fp_fixups)]]
ORG_Close(g) == fixupFPCalls(emitFPSubroutines(Put(g, <<Imp("RTL")>>)))
=============================================================================
