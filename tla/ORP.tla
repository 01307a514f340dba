-------------------------------- MODULE ORP --------------------------------
(***************************************************************************)
(* The order in which the Oberon compiler's parser (oc/src/ORP.c) calls    *)
(* its code generator, over the trees of expressions and statements it     *)
(* recognises.  Its type rules are not modelled: the trees are well typed. *)
(*                                                                         *)
(* An expression is <<"const", form, value>>, <<"var", item>>, or an       *)
(* operator and its operands; a statement is its keyword and its parts. An *)
(* ELSE part is a sequence of at most one sequence of statements.          *)
(***************************************************************************)
EXTENDS ORGArithmetic

Functions1 == {"ABS", "ODD", "FLOOR", "FLT", "ORD", "CHR"}
Functions2 == {"AND", "EOR", "ORA", "ASL", "LSR", "ROL"}
Relations  == {"EQ", "NE", "LT", "GE", "LE", "GT"}

\* The parser's procedures call each other through this one.
RECURSIVE translate(_, _)
expression(g, e) == translate(g, e)

\* What follows an error is left out: no code is written for it.
StatSequence(g, statements) ==
    LET done[n \in 0 .. Len(statements)] ==
            IF n = 0 THEN g
            ELSE LET t == done[n - 1]
                 IN  IF t.marks # <<>> THEN t ELSE ORG_CheckRegs(translate(t, statements[n]))
    IN  done[Len(statements)]

-----------------------------------------------------------------------------
\* Two operands, one after the other.
Operands(g, e) == expression(expression(g, e[2]), e[3])
IsReal(g) == IsWide(At(g, X2(g)).form)

StandFunc(g, e) ==
    IF e[1] \in Functions2
    THEN LET t == Operands(g, e)
         IN  IF e[1] \in {"AND", "EOR", "ORA"} THEN ORG_Bitwise(t, e[1]) ELSE ORG_Shift(t, e[1])
    ELSE LET t == expression(g, e[2])
         IN  CASE e[1] = "ABS" -> ORG_Abs(t) [] e[1] = "ODD" -> ORG_Odd(t) [] e[1] = "FLOOR" -> ORG_Floor(t)
               [] e[1] = "FLT" -> ORG_Float(t) [] e[1] = "ORD" -> ORG_Ord(t, "Int") [] e[1] = "CHR" -> ORG_Ord(t, "Char")

factor(g, e) ==
    CASE e[1] = "const" -> Push(g, Item("Const", e[2], e[3]))
      [] e[1] = "var"   -> Push(g, e[2])
      [] e[1] = "~"     -> ORG_Not(expression(g, e[2]))
      [] OTHER          -> StandFunc(g, e)

term(g, e) ==
    IF e[1] = "&" THEN ORG_And2(expression(ORG_And1(expression(g, e[2])), e[3]))
    ELSE LET t == Operands(g, e)
         IN  CASE e[1] = "*"   -> IF IsReal(t) THEN ORG_RealOp(t, "times") ELSE ORG_MulOp(t)
               [] e[1] = "/"   -> ORG_RealOp(t, "rdiv")
               [] e[1] = "DIV" -> ORG_DivOp(t, TRUE)
               [] e[1] = "MOD" -> ORG_DivOp(t, FALSE)

SimpleExpression(g, e) ==
    IF e[1] = "neg" THEN ORG_Neg(expression(g, e[2]))
    ELSE IF e[1] = "OR" THEN ORG_Or2(expression(ORG_Or1(expression(g, e[2])), e[3]))
    ELSE LET t == Operands(g, e)
         IN  IF IsReal(t) THEN ORG_RealOp(t, IF e[1] = "+" THEN "plus" ELSE "minus")
             ELSE ORG_AddOp(t, e[1] = "+")

expression0(g, e) ==
    LET t == Operands(g, e) IN IF IsReal(t) THEN ORG_RealRelation(t, e[1]) ELSE ORG_IntRelation(t, e[1])

-----------------------------------------------------------------------------
StandProc(g, s) ==
    IF s[1] = "assert" THEN ORG_Assert(expression(g, s[2]))
    ELSE ORG_Increment(expression(g, s[3]), s[2], s[1] = "inc")

\* A condition and what is done if it holds.  The condition's item stays for
\* the jump around it to be fixed up.
Guarded(g, arm) == StatSequence(ORG_CFJump(expression(g, arm[1])), arm[2])

NextArm(jump, arm) == [g |-> Guarded(ORG_Fixup(jump), arm), L0 |-> LastJump(jump)]
WithElse(jump, else) == ORG_FixLink(StatSequence(ORG_Fixup(jump), else[1]), LastJump(jump))
IfEnd(last, else) ==
    IF else = <<>> THEN ORG_FixLink(ORG_Fixup(last.g), last.L0) ELSE WithElse(ORG_FJump(last.g, last.L0), else)
IfStatement(g, arms, else) ==
    LET done[n \in 1 .. Len(arms)] ==
            IF n = 1 THEN [g |-> Guarded(g, arms[1]), L0 |-> 0]
            ELSE NextArm(ORG_FJump(done[n - 1].g, done[n - 1].L0), arms[n])
    IN  IfEnd(done[Len(arms)], else)

WhileStatement(g, arms) ==
    LET done[n \in 1 .. Len(arms)] ==
            ORG_BJump(Guarded(IF n = 1 THEN g ELSE ORG_Fixup(done[n - 1]), arms[n]), pc(g))
    IN  ORG_Fixup(done[Len(arms)])

\* The initial value has been loaded, the limit compared with it.
ForEnd(test, s, begin) ==
    ORG_FixLink(ORG_BJump(ORG_For2(StatSequence(ORG_Store(test, s[2]), s[6]), s[2], s[5]), begin), LastJump(test))
ForLoop(begin, s) == ForEnd(ORG_For1(expression(begin, s[4]), s[5]), s, pc(begin))
ForStatement(g, s) == ForLoop(ORG_For0(expression(g, s[3])), s)

\* The labels of an arm, <<lo, hi>>, are linked behind each other.
CaseLabelRange(g, x, label, chain) ==
    IF label[1] = label[2] THEN ORG_CaseLabel(g, x, label[1], chain) ELSE ORG_CaseRange(g, x, label[1], label[2], chain)
CaseLabelList(g, x, labels) ==
    LET done[n \in 0 .. Len(labels)] ==
            IF n = 0 THEN g
            ELSE CaseLabelRange(done[n - 1], x, labels[n], IF n = 1 THEN 0 ELSE LastJump(done[n - 1]))
    IN  done[Len(labels)]
\* The end of the arm is the jump to endChain: the operand is the last thing
\* laid out, FixOne lays out nothing.
ArmBody(miss, hits, statements, endChain) ==
    ORG_FixOne(ORG_FJump(StatSequence(ORG_FixLink(miss, hits), statements), endChain), LastJump(miss))
AfterLabels(g, statements, endChain) == ArmBody(ORG_FJump(g, 0), LastJump(g), statements, endChain)
NumericCaseArm(g, x, arm, endChain) == AfterLabels(CaseLabelList(g, x, arm[1]), arm[2], endChain)
CaseEnd(last, else) == ORG_FixLink(IF else = <<>> THEN last ELSE StatSequence(last, else[1]), LastJump(last))
CaseStatement(g, x, arms, else) ==
    LET done[n \in 0 .. Len(arms)] ==
            IF n = 0 THEN g
            ELSE NumericCaseArm(done[n - 1], x, arms[n], IF n = 1 THEN 0 ELSE LastJump(done[n - 1]))
    IN  CaseEnd(done[Len(arms)], else)

translate(g, tree) ==
    CASE tree[1] = "assign" -> ORG_Store(expression(g, tree[3]), tree[2])
      [] tree[1] = "if"     -> IfStatement(g, tree[2], tree[3])
      [] tree[1] = "while"  -> WhileStatement(g, tree[2])
      [] tree[1] = "repeat" -> ORG_CBJump(expression(StatSequence(g, tree[2]), tree[3]), pc(g))
      [] tree[1] = "for"    -> ForStatement(g, tree)
      [] tree[1] = "case"   -> CaseStatement(g, tree[2], tree[3], tree[4])
      [] tree[1] \in {"inc", "dec", "assert"} -> StandProc(g, tree)
      [] tree[1] \in Relations                -> expression0(g, tree)
      [] tree[1] \in {"neg", "+", "-", "OR"}  -> SimpleExpression(g, tree)
      [] tree[1] \in {"*", "/", "DIV", "MOD", "&"} -> term(g, tree)
      [] OTHER -> factor(g, tree)
=============================================================================
