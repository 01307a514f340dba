---------------------------- MODULE MCArithmetic ----------------------------
(***************************************************************************)
(* Arithmetic, from the processor's to the compiled programs': either two  *)
(* words for the operations of Arithmetic, or a program in Oberon,         *)
(* compiled and run one instruction a step.                                *)
(***************************************************************************)
EXTENDS CompiledCode, Arithmetic

machine == <<cpu, task, module, left>>

\* The bytes at the edges of signed, unsigned and decimal numbers and of their
\* digits, and the words made of them.
Edges == {\h00, \h01, \h05, \h09, \h0A, \h10, \h19, \h4F, \h50, \h7F, \h80, \h81, \h90, \h99, \hF0, \hFF}
EdgeWords == {join(l, h) : l, h \in Edges}
OnOperands ==
    /\ wordA \in EdgeWords /\ wordB \in EdgeWords /\ OperandsInit
    /\ cpu = [run |-> "off"] /\ task = {} /\ module = {} /\ left = 0
OnProgram ==
    /\ task \in Tasks /\ module = ModuleOf(Compiled(Body[task.program]))
    /\ left = Budget /\ cpu = Started(task)
    /\ wordA = 0 /\ wordB = 0 /\ carryIn = 1 /\ inDecimal = TRUE
Init == OnOperands \/ OnProgram
Next ==
    \/ (FlipCarry \/ FlipMode) /\ UNCHANGED machine
    \/ Step /\ UNCHANGED operands
Spec == Init /\ [][Next]_<<operands, machine>>

-----------------------------------------------------------------------------
\* The variables of the procedure and of the module, as expressions.
Var(mode, form, a) == <<"var", Item(mode, form, a)>>
i == Var("Local", "Int", 1)
j == Var("Local", "Int", 3)
k == Var("Local", "Int", 5)
x == Var("Local", "Real", 7)
y == Var("Local", "Real", 11)
z == Var("Local", "Real", 15)
b == Var("Local", "Byte", 19)
c == Var("Local", "Byte", 20)
t == Var("Local", "Bool", 21)
u == Var("Local", "Bool", 22)
ch == Var("Local", "Char", 23)
ck == Var("Local", "Char", 24)
gi == Var("Global", "Int", 0)
gj == Var("Global", "Int", 2)
gb == Var("Global", "Byte", 4)
gc == Var("Global", "Byte", 5)
gx == Var("Global", "Real", 6)
MCVariables ==
    [i |-> i[2], j |-> j[2], k |-> k[2], x |-> x[2], y |-> y[2], z |-> z[2], b |-> b[2], c |-> c[2], t |-> t[2],
     u |-> u[2], ch |-> ch[2], ck |-> ck[2], gi |-> gi[2], gj |-> gj[2], gb |-> gb[2], gc |-> gc[2], gx |-> gx[2]]
MCLoose == {"k"}

I(n) == <<"const", "Int", n>>
R(n) == <<"const", "Real", n>>
Char(n) == <<"const", "Char", n>>
Assign(v, e) == <<"assign", v[2], e>>
Inc(v, e) == <<"inc", v[2], e>>
Dec(v, e) == <<"dec", v[2], e>>
If(cond, then, else) == <<"if", <<<<cond, then>>>>, <<else>>>>
While(cond, do) == <<"while", <<<<cond, do>>>>>>

P(name, body) == [name |-> name, body |-> body]
MCPrograms ==
     <<P("poly", <<Assign(gi, <<"+", <<"-", <<"+", i, j>>, <<"*", I(3), i>>>>, <<"-", I(7), j>>>>)>>),
     P("consts", <<Assign(gi, <<"+", I(5), <<"*", I(2), I(3)>>>>), Assign(gj, <<"+", i, I(0)>>), Assign(i, <<"-", I(100), i>>),
                  Assign(b, I(200)), Assign(gb, I(100)), Assign(ck, Char(65)), Assign(gx, R(FloatOf(3)))>>),
     P("mul", <<Assign(gi, <<"*", i, j>>), Assign(gj, <<"*", i, I(10)>>), Assign(i, <<"*", i, I(8)>>)>>),
     P("divmod", <<Assign(gi, <<"DIV", i, I(7)>>), Assign(gj, <<"MOD", i, I(7)>>)>>),
     P("divpower", <<Assign(gi, <<"DIV", i, I(4)>>), Assign(gj, <<"MOD", i, I(8)>>)>>),
     P("divconst", <<Assign(gi, <<"DIV", <<"neg", I(7)>>, I(2)>>), Assign(gj, <<"DIV", i, I(2)>>)>>),
     P("divvar", <<Assign(gi, <<"DIV", i, j>>)>>),
     P("modvar", <<Assign(gi, <<"MOD", i, j>>)>>),
     P("divsum", <<Assign(gi, <<"DIV", <<"+", i, j>>, I(4)>>)>>),
     P("shiftdiv", <<Assign(gi, <<"DIV", <<"*", i, I(4)>>, I(2)>>)>>),
     P("bytes", <<Assign(gi, <<"+", b, c>>), Assign(gj, <<"-", gb, I(1)>>), Assign(c, <<"+", b, I(1)>>), Assign(gc, <<"+", gb, gc>>)>>),
     P("steps", <<Inc(b, I(1)), Inc(c, I(3)), Dec(gb, I(1)), Inc(gi, i), Dec(gj, I(1)), Inc(i, I(1)), Dec(j, i)>>),
     P("incbyte", <<Inc(b, i)>>),
     P("order", <<<<"if", <<<<<<"LT", i, j>>, <<Assign(gi, I(1))>>>>, <<<<"EQ", i, j>>, <<Assign(gi, I(2))>>>>>>,
                <<<<Assign(gi, I(3))>>>>>>, If(<<"GT", i, I(0)>>, <<Assign(gj, I(1))>>, <<Assign(gj, I(2))>>)>>),
     P("stored", <<Assign(t, <<"LE", i, j>>), Assign(u, <<"GE", i, I(5)>>), Assign(t, <<"NE", t, u>>)>>),
     P("logic", <<If(<<"OR", <<"&", <<"LT", i, j>>, <<"LT", j, I(5)>>>>, <<"~", t>>>>, <<Assign(gi, I(1))>>, <<Assign(gi, I(2))>>),
                 Assign(u, <<"OR", <<"EQ", i, j>>, <<"&", <<"GT", i, I(5)>>, u>>>>),
                 If(<<"&", <<"OR", t, u>>, <<"~", <<"&", t, <<"GE", i, j>>>>>>>>, <<Assign(gj, I(1))>>, <<Assign(gj, I(2))>>)>>),
     P("chars", <<If(<<"LT", ch, ck>>, <<Assign(gi, I(1))>>, <<Assign(gi, I(2))>>), If(<<"GE", ch, ck>>, <<Assign(gj, I(1))>>, <<Assign(gj, I(2))>>),
                 Assign(t, <<"EQ", ch, ck>>), Assign(u, <<"GT", ch, ck>>)>>),
     P("charle", <<If(<<"LE", ch, ck>>, <<Assign(gi, I(1))>>, <<Assign(gi, I(2))>>)>>),
     P("gcd", <<<<"while", <<<<<<"GT", i, j>>, <<Assign(i, <<"-", i, j>>)>>>>, <<<<"GT", j, i>>, <<Assign(j, <<"-", j, i>>)>>>>>>>>>>),
     P("repeat", <<<<"repeat", <<Dec(i, I(3)), Inc(gi, I(1))>>, <<"LE", i, I(0)>>>>>>),
     P("for", <<<<"for", k[2], I(1), i, 1, <<Assign(gi, <<"+", gi, k>>)>>>>, <<"for", k[2], i, I(0), -2, <<Inc(gj, I(1))>>>>>>),
     P("case", <<<<"case", i[2], <<<<<<<<1, 1>>>>, <<Assign(gi, I(10))>>>>, <<<<<<2, 4>>, <<7, 7>>>>, <<Assign(gi, I(20))>>>>,
                                  <<<<<<0, 0>>>>, <<Assign(gi, I(5))>>>>>>, <<<<Assign(gi, I(30))>>>>>>,
                <<"case", i[2], <<<<<<<<0, 1>>>>, <<Assign(gj, I(10))>>>>>>, <<>>>>>>),
     P("bits", <<Assign(gi, <<"AND", i, j>>), Assign(gj, <<"ORA", i, I(12)>>), Assign(j, <<"EOR", i, j>>),
                Assign(i, <<"ASL", i, I(1)>>), Assign(gj, <<"ASL", <<"LSR", gj, I(3)>>, I(2)>>)>>),
     P("funcs", <<Assign(gi, <<"ABS", i>>), Assign(t, <<"ODD", i>>), Assign(gj, <<"ORD", ch>>), Assign(ck, <<"CHR", j>>), Assign(i, <<"neg", i>>)>>),
     P("assert", <<Assign(gi, I(1)), <<"assert", <<"LT", i, j>>>>, Assign(gj, I(1))>>),
     P("iszero", <<If(<<"EQ", <<"*", i, I(4)>>, I(0)>>, <<Assign(gi, I(1))>>, <<Assign(gi, I(2))>>)>>),
     P("reals", <<If(<<"LT", x, y>>, <<Assign(gi, I(1))>>, <<Assign(gi, I(2))>>), If(<<"LE", x, y>>, <<Assign(gj, I(1))>>, <<Assign(gj, I(2))>>),
                Assign(t, <<"EQ", x, y>>)>>),
     P("realfuncs", <<Assign(gi, <<"FLOOR", x>>), Assign(y, <<"FLT", i>>), Assign(z, <<"neg", x>>), Assign(gx, <<"ABS", x>>)>>),
     P("fadd", <<Assign(z, <<"+", x, y>>)>>),
     P("fsub", <<Assign(z, <<"-", x, y>>)>>),
     P("fdiv", <<Assign(z, <<"/", x, y>>)>>),
     P("fmul", <<Assign(z, <<"*", x, y>>)>>)>>

Task(p, values) == [program |-> p, values |-> values, flags |-> {}]
Ints == {-32768, -5, 0, 3, 12, 32767}
Pairs(p, m, n) == {Task(p, [i |-> v, j |-> w]) : v \in m, w \in n}
Numbers(p, m, n) == {Task(p, [x |-> v, y |-> w]) : v \in m, w \in n}
OneAndThreeQuarters == FloatOf(7) - 2 * 8388608
Reals == {FloatOf(-12), SignChanged(OneAndThreeQuarters), 0, FloatOf(1), OneAndThreeQuarters, FloatOf(5)}
Tiny == FloatOf(-1) - 30 * 8388608

MCTasks == UNION {Pairs(p, Ints, {-5, 3, 7}) : p \in {"poly", "consts", "order", "stored", "bits"}}
  \cup Pairs("mul", {-5, 12, 300}, {-5, 3, 300})
  \cup Pairs("divmod", {0, 3, 50}, {1})
  \cup UNION {Pairs(p, Ints, {4}) : p \in {"divpower", "divconst", "divsum", "shiftdiv", "iszero"}}
  \cup UNION {Pairs(p, {-5, 0, 9}, {4, 0, -2, 20000}) : p \in {"divvar", "modvar"}}
  \cup {Task("bytes", [b |-> 250, c |-> 10, gb |-> v, gc |-> 255]) : v \in {0, 5}}
  \cup {Task("steps", [b |-> 255, c |-> 254, gb |-> v, gi |-> 32767, gj |-> -32768, i |-> 1, j |-> 5]) : v \in {0, 5}}
  \cup {Task("incbyte", [b |-> 255, c |-> 254, i |-> v]) : v \in {0, 5}}
  \cup {Task("logic", [i |-> v, j |-> w, t |-> p, u |-> q]) : v \in {3, 8}, w \in {3, 8, 4}, p \in {0, 1}, q \in {0, 1}}
  \cup {Task(p, [ch |-> v, ck |-> w]) : v \in {0, 200}, w \in {0, 65, 200, 255}, p \in {"chars", "charle"}}
  \cup Pairs("gcd", {12, 15}, {9, 15})
  \cup Pairs("repeat", {0, 7}, {0})
  \cup Pairs("for", {-2, 1, 6}, {0})
  \cup Pairs("case", {-3, 0, 1, 2, 4, 5, 7}, {0})
  \cup {Task("funcs", [i |-> v, j |-> 65, ch |-> 200]) : v \in {-32768, -5, 0, 7}}
  \cup Pairs("assert", {1, 5}, {5})
  \cup UNION {Numbers(p, Reals \cup {Tiny}, Reals) : p \in {"fadd", "fsub"}}
  \cup UNION {Numbers(p, Reals \ {FloatOf(1)}, Reals \ {FloatOf(1)}) : p \in {"fmul", "fdiv"}}
  \cup {[n EXCEPT !.flags = f] : n \in Numbers("reals", Reals, Reals \ {FloatOf(5)}), f \in {{}, {"v"}}}
  \cup {Task("realfuncs", [x |-> v, i |-> w]) : v \in Reals, w \in {-32768, -5, 0, 1, 32767}}
MCBudget == 800

\* The tasks that go wrong:
\*   - a BYTE stepped by a variable is stored with the byte beside it;
\*   - the trap of ASSERT is skipped if the assertion does not hold;
\*   - the condition CHAR <= CHAR is reversed;
\*   - after a product by a power of two, which is left in memory, DIV by
\*     another goes on with the accumulator, and = 0 with the flags;
\*   - DIV of a negative constant by another goes towards 0;
\*   - DIV and MOD by a variable take a negative number for a large one, and
\*     loop forever on 0: their trap is never taken;
\*   - FADD does not exchange operands of opposite signs and equal exponents;
\*   - a relation of REALs is signed, and the subroutine leaves V as it was
\*     unless it comes to compare two of the same sign.
Misled(n) ==
    LET v(e)  == Values(n)[e[2]]
        added == IF n.program = "fsub" THEN SignChanged(v(y)) ELSE v(y)
        both  == (v(x) < 0) # (added < 0)
    IN  CASE n.program \in {"incbyte", "assert", "charle", "divconst"} -> TRUE
          [] n.program \in {"shiftdiv", "iszero"} -> Int16(4 * v(i)) # 0 \/ (n.program = "shiftdiv" /\ v(i) # 0)
          [] n.program \in {"divvar", "modvar"} -> v(i) < 0 \/ v(j) <= 0
          [] n.program \in {"fadd", "fsub"} ->
                /\ ~IsRealZero(v(x)) /\ ~IsRealZero(added) /\ both
                /\ ExponentOf(v(x)) = ExponentOf(added) /\ MantissaOf(added) > MantissaOf(v(x))
          [] n.program = "reals" ->
                "v" \in n.flags /\ (v(x) = v(y) \/ both)
          [] OTHER -> FALSE

\* A compiled program ends with what the language says of it, or traps where
\* that has no value, unless it is one of those (StatSequence and what it
\* calls down to the bytes, op_adc and the other operations).
ResultsAreRight == Ended => (Right <=> ~Misled(task))
=============================================================================
