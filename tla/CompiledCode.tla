---------------------------- MODULE CompiledCode ----------------------------
(***************************************************************************)
(* Programs compiled by the Oberon compiler (module ORP), run on the       *)
(* emulated 65C816 (modules Decoders and Instructions65816) and compared   *)
(* with what the language says of them, and with what the disassembler     *)
(* lists (module Disassembler).                                            *)
(*                                                                         *)
(* Each of the Programs is a module: a procedure, ended by a return, and   *)
(* the floating point subroutines it calls.  A task runs the procedure     *)
(* once, with values given to its variables: module is what is compiled of *)
(* it, cpu the machine and left the instructions it may still take.  Of    *)
(* the memory there is the direct page the compiler uses, the procedure's  *)
(* frame and the module's variables; the text of the program is not in it. *)
(***************************************************************************)
EXTENDS ORP

CONSTANTS
    Programs,    \* the module's programs, [name, body], a body being a sequence of statements
    Variables,   \* the variables they use: items by name
    Loose,       \* those that FOR steps: what is left in them is not defined
    Tasks,       \* [program, values, flags]; the variables not in values are 0
    Budget       \* instructions a task may take

VARIABLES cpu, task, module, left

Space == 128
FrameTop == 71   \* the stack pointer: the frame's first variable is at 1
SB == 96         \* where the module's variables begin

Vectors == [v \in {"BRK", "COP", "IRQ", "IRQ0", "JSB"} |-> 0]
CPU == INSTANCE Instructions65816 WITH ByteBits <- 8, DigitBits <- 4, sp_page <- 256, Vector <- Vectors
Decoder == INSTANCE Decoders
Lister == INSTANCE Disassembler

-----------------------------------------------------------------------------
(* The modules: the code, where each instruction of it starts, and what the *)
(* disassembler lists at an address.                                        *)

Body == [p \in {Programs[n].name : n \in DOMAIN Programs} |->
            Programs[CHOOSE n \in DOMAIN Programs : Programs[n].name = p].body]
Compiled(body) == ORG_Close(Put(StatSequence(ORG_Open, body), <<Imp("RTL")>>))
ModuleOf(g) ==
    [code |-> g.code, starts |-> g.layout,
     listing |-> Lister!disassemble_code(g.code)]

-----------------------------------------------------------------------------
(* A task's memory. *)

Items == {Variables[n] : n \in DOMAIN Variables}
Size(x) == IF x.form = "Real" THEN 4 ELSE IF x.form = "Int" THEN 2 ELSE 1
Place(x) == IF x.mode = "Local" THEN FrameTop + x.a ELSE SB + x.a
ByteOf(v, n) == (v \div 256 ^ n) % 256
Values(t) ==
    [x \in Items |->
        LET given == {n \in DOMAIN t.values : Variables[n] = x}
        IN  IF given = {} THEN 0 ELSE t.values[CHOOSE n \in given : TRUE]]
TaskMemory(values) ==
    LET held(at) == {x \in Items : at \in Place(x) .. Place(x) + Size(x) - 1}
        value(at) == IF held(at) # {} THEN LET x == CHOOSE x \in held(at) : TRUE IN ByteOf(values[x], at - Place(x))
                     ELSE IF at = SB_DP THEN SB ELSE IF at \in {SB_DP + 1, BANK_DP, BANK_DP + 1} THEN 0 ELSE 165
    IN  [at \in 0 .. Space - 1 |-> CPU!DataCell(value(at))]
Result(x) ==
    LET byte(n) == cpu.mem[Place(x) + n].v
    IN  CASE Size(x) = 1 -> byte(0)
          [] Size(x) = 2 -> CPU!Signed(byte(0) + 256 * byte(1), 65536)
          [] Size(x) = 4 -> byte(0) + 256 * byte(1) + 65536 * CPU!Signed(byte(2) + 256 * byte(3), 65536)

\* What the registers and the rest of the memory held does not matter; the
\* flags are those the code before left.
Started(t) ==
    [a |-> 165, x |-> 165, y |-> 165, sp |-> FrameTop, dp |-> 0, pc |-> 0, pbr |-> 0, dbr |-> 0,
     e |-> FALSE, p |-> t.flags, mem |-> TaskMemory(Values(t)), run |-> "running"]

-----------------------------------------------------------------------------
(* One instruction. *)

ImmediateModes == {"immm", "immx", "immb", "immw"}
Taken(op, s) ==
    CASE op = "bpl" -> "n" \notin s.p [] op = "bmi" -> "n" \in s.p [] op = "bvc" -> "v" \notin s.p
      [] op = "bvs" -> "v" \in s.p [] op = "bcc" -> "c" \notin s.p [] op = "bcs" -> "c" \in s.p
      [] op = "bne" -> "z" \notin s.p [] op = "beq" -> "z" \in s.p [] op = "bra" -> TRUE

Mask(o) == {k \in CPU!Flags : CPU!Bit(o, CPU!FlagNo[k]) = 1}
Execute(op, s, d) ==
    CASE op = "lda" -> CPU!op_lda(s, d) [] op = "sta" -> CPU!op_sta(s, d) [] op = "stz" -> CPU!op_stz(s, d)
      [] op = "ldx" -> CPU!op_ldx(s, d) [] op = "ldy" -> CPU!op_ldy(s, d) [] op = "stx" -> CPU!op_stx(s, d)
      [] op = "adc" -> CPU!op_adc(s, d) [] op = "sbc" -> CPU!op_sbc(s, d) [] op = "cmp" -> CPU!op_cmp(s, d)
      [] op = "and" -> CPU!op_and(s, d) [] op = "ora" -> CPU!op_ora(s, d) [] op = "eor" -> CPU!op_eor(s, d)
      [] op = "bit" -> CPU!op_bit(s, d) [] op = "inc" -> CPU!op_inc(s, d) [] op = "dec" -> CPU!op_dec(s, d)
      [] op = "asl" -> CPU!op_asl(s, d) [] op = "lsr" -> CPU!op_lsr(s, d)
      [] op = "rol" -> CPU!op_rol(s, d) [] op = "ror" -> CPU!op_ror(s, d)
      [] op = "asla" -> CPU!op_asla(s) [] op = "lsra" -> CPU!op_lsra(s) [] op = "rola" -> CPU!op_rola(s)
      [] op = "rora" -> CPU!op_rora(s) [] op = "inca" -> CPU!op_inca(s) [] op = "deca" -> CPU!op_deca(s)
      [] op = "xba" -> CPU!op_xba(s) [] op = "dex" -> CPU!op_dex(s) [] op = "nop" -> s
      [] op = "clc" -> CPU!Set(s, "c", FALSE) [] op = "sec" -> CPU!Set(s, "c", TRUE)
      [] op = "rep" -> CPU!op_rep(s, Mask(d.at)) [] op = "sep" -> CPU!op_sep(s, Mask(d.at))
      [] op = "jsr" -> CPU!op_jsr(s, d) [] op = "rts" -> CPU!op_rts(s)
      [] op = "brl" -> [s EXCEPT !.pc = CPU!Relative(s, d.at, 65536)]
      [] op = "brk" -> [s EXCEPT !.run = "trapped"]
      [] op = "rtl" -> [s EXCEPT !.run = "done"]
      [] OTHER -> IF Taken(op, s) THEN [s EXCEPT !.pc = CPU!Relative(s, d.at, 256)] ELSE s

Instruction(code, s) == Decoder!step_wdc[code[s.pc + 1]]
LengthNow(code, s) == Decoder!Taken(Instruction(code, s), ~CPU!M8(s), ~CPU!X8(s))
Fetched(code, s, n) == (IF n > 1 THEN code[s.pc + 2] ELSE 0) + (IF n > 2 THEN 256 * code[s.pc + 3] ELSE 0)
StepOf(code) ==
    /\ cpu.run = "running" /\ left > 0
    /\ \E entry \in {Instruction(code, cpu)} : \E n \in {LengthNow(code, cpu)} :
       \E o \in {Fetched(code, cpu, n)} : \E s \in {[cpu EXCEPT !.pc = cpu.pc + n]} :
       \E plain \in {entry[2] \in ImmediateModes \cup {"impl", "acc", "rela", "lrel"}} :
       \E d \in {[imm |-> plain, at |-> IF plain THEN o ELSE CPU!EA(s, entry[2], o)]} :
          cpu' = Execute(entry[1], s, d)
    /\ left' = left - 1
    /\ UNCHANGED <<task, module>>
Step == StepOf(module.code)

-----------------------------------------------------------------------------
(* What the language says.  INTEGERs are the numbers of 16 bits and wrap    *)
(* around; a REAL is the number of its 32 bits.  A sum, product or quotient *)
(* of REALs has no one value here: RealResult says which are good enough.   *)

Int16(v) == CPU!Signed(v % 65536, 65536)
RealKey(v) == IF v < 0 THEN -SignChanged(v) ELSE v    \* orders REALs
MantissaOf(v) == 8388608 + (v % 8388608)
ExponentOf(v) == ((v \div 8388608) % 256) - 127
FloatOf(n) ==
    IF n = 0 THEN 0
    ELSE LET m == IF n < 0 THEN -n ELSE n
             e == CHOOSE e \in 0 .. 15 : 2 ^ e <= m /\ m < 2 ^ (e + 1)
             v == 8388608 * (e + 126) + m * 2 ^ (23 - e)
         IN  IF n < 0 THEN SignChanged(v) ELSE v
FloorOf(v) ==
    LET e == ExponentOf(v)
        m == MantissaOf(v) \div 2 ^ (23 - e)
        whole == m * 2 ^ (23 - e) = MantissaOf(v)
    IN  IF RealKey(v) = 0 THEN 0
        ELSE IF e < 0 THEN IF v < 0 THEN -1 ELSE 0
        ELSE IF e >= 15 THEN IF v < 0 THEN -32768 ELSE 32767
        ELSE IF v >= 0 THEN m ELSE IF whole THEN -m ELSE -m - 1

Compares(op, v, w) ==
    CASE op = "EQ" -> v = w [] op = "NE" -> v # w [] op = "LT" -> v < w
      [] op = "GE" -> v >= w [] op = "LE" -> v <= w [] op = "GT" -> v > w
Truth(b) == IF b THEN 1 ELSE 0
Bits(op, v, w) ==
    Int16(CASE op = "AND" -> CPU!And(v % 65536, w % 65536, 65536)
            [] op = "ORA" -> CPU!Or(v % 65536, w % 65536, 65536)
            [] op = "EOR" -> CPU!Eor(v % 65536, w % 65536, 65536))
Times(v, w) == Int16((v % 65536) * (w % 256) + ((((v % 256) * (w \div 256)) % 256) * 256))

FormOf(e) == IF e[1] = "const" THEN e[2] ELSE IF e[1] = "var" THEN e[2].form ELSE IF e[1] = "FLT" THEN "Real" ELSE "Int"

\* There is none if a divisor is not positive.
NoValue == 65536
RECURSIVE Value(_, _)
Value(env, e) ==
    CASE e[1] = "const" -> e[3]
      [] e[1] = "var"   -> env[e[2]]
      [] e[1] = "&"     -> IF Value(env, e[2]) = 0 THEN 0 ELSE Value(env, e[3])
      [] e[1] = "OR"    -> IF Value(env, e[2]) = 1 THEN 1 ELSE Value(env, e[3])
      [] e[1] \in Functions1 \cup {"~", "neg"} ->
            LET v == Value(env, e[2])
                real == FormOf(e[2]) = "Real"
            IN  CASE e[1] = "~" -> 1 - v
                  [] e[1] = "neg" -> IF real THEN SignChanged(v) ELSE Int16(-v)
                  [] e[1] = "ABS" -> IF v >= 0 THEN v ELSE IF real THEN SignChanged(v) ELSE Int16(-v)
                  [] e[1] = "ODD" -> v % 2
                  [] e[1] = "FLT" -> FloatOf(v)
                  [] e[1] = "FLOOR" -> FloorOf(v)
                  [] OTHER -> v
      [] OTHER ->
            LET v == Value(env, e[2])
                w == Value(env, e[3])
            IN  CASE e[1] = "+" -> Int16(v + w) [] e[1] = "-" -> Int16(v - w) [] e[1] = "*" -> Times(v, w)
                  [] e[1] = "DIV" -> IF w <= 0 THEN NoValue ELSE v \div w
                  [] e[1] = "MOD" -> IF w <= 0 THEN NoValue ELSE v % w
                  [] e[1] = "ASL" -> Int16(v * 2 ^ w)
                  [] e[1] = "LSR" -> Int16((v % 65536) \div 2 ^ w)
                  [] e[1] \in {"AND", "ORA", "EOR"} -> Bits(e[1], v, w)
                  [] e[1] \in Relations ->
                        Truth(IF FormOf(e[2]) = "Real" THEN Compares(e[1], RealKey(v), RealKey(w))
                              ELSE Compares(e[1], v, w))

Cut(x, v) == IF Size(x) = 1 THEN v % 256 ELSE v
Assigned(env, x, v) == [trap |-> v = NoValue, env |-> [env EXCEPT ![x] = Cut(x, v)]]
Holding(env, arms) ==
    {n \in DOMAIN arms : Value(env, arms[n][1]) = 1 /\ \A m \in 1 .. n - 1 : Value(env, arms[m][1]) = 0}
ArmsOf(v, arms) == {n \in DOMAIN arms : \E i \in DOMAIN arms[n][1] : v \in arms[n][1][i][1] .. arms[n][1][i][2]}

RECURSIVE Done(_, _)
\* FOR is the loop its definition gives, WHILE and REPEAT unfold.
Unfolded(env, s) ==
    CASE s[1] = "if" ->
            LET n == Holding(env, s[2])
            IN  IF n # {} THEN s[2][CHOOSE m \in n : TRUE][2] ELSE IF s[3] = <<>> THEN <<>> ELSE s[3][1]
      [] s[1] = "while" ->
            LET n == Holding(env, s[2]) IN IF n # {} THEN Append(s[2][CHOOSE m \in n : TRUE][2], s) ELSE <<>>
      [] s[1] = "repeat" -> Append(s[2], <<"if", <<<<<<"~", s[3]>>, <<s>>>>>>, <<>>>>)
      [] s[1] = "for" ->
            LET x == <<"var", s[2]>>
                more == <<IF s[5] > 0 THEN "LE" ELSE "GE", x, s[4]>>
            IN  <<<<"assign", s[2], s[3]>>,
                  <<"while", <<<<more, Append(s[6], <<"assign", s[2], <<"+", x, <<"const", "Int", s[5]>>>>>>)>>>>>>>>
      [] s[1] = "case" ->
            LET n == ArmsOf(env[s[2]], s[3])
            IN  IF n # {} THEN s[3][CHOOSE m \in n : TRUE][2] ELSE IF s[4] = <<>> THEN <<>> ELSE s[4][1]
DoneOne(env, s) ==
    CASE s[1] = "assign" -> Assigned(env, s[2], Value(env, s[3]))
      [] s[1] = "inc"    -> Assigned(env, s[2], Int16(env[s[2]] + Value(env, s[3])))
      [] s[1] = "dec"    -> Assigned(env, s[2], Int16(env[s[2]] - Value(env, s[3])))
      [] s[1] = "assert" -> [trap |-> Value(env, s[2]) = 0, env |-> env]
      [] OTHER           -> Done(env, Unfolded(env, s))
Done(env, statements) ==
    IF statements = <<>> THEN [trap |-> FALSE, env |-> env]
    ELSE LET first == DoneOne(env, Head(statements))
         IN  IF first.trap THEN first ELSE Done(first.env, Tail(statements))
-----------------------------------------------------------------------------
(* The results. *)

\* What a sum, product or quotient r of the REALs v and w may be: a zero is
\* exact, a sum of operands of very different size is the larger one, and
\* otherwise r is off by less than two units of its last place.  The products
\* and quotients are those by a w of at most six bits, the sums those whose
\* exponents are at most 5 or at least 24 apart.
Near(exact, r, unit) == exact - r < 2 * unit /\ r - exact < 2 * unit
IsRealZero(v) == RealKey(v) = 0
RealProduct(v, w, r) ==
    LET delta == ExponentOf(r) - (ExponentOf(v) + ExponentOf(w))
        unit  == 2 ^ (5 + delta)
    IN  IF IsRealZero(v) \/ IsRealZero(w) THEN r = 0
        ELSE /\ delta \in {0, 1} /\ (r < 0 <=> ((v < 0) # (w < 0)))
             /\ Near(MantissaOf(v) * (MantissaOf(w) \div 262144), MantissaOf(r) * unit, unit)
RealQuotient(v, w, r) ==
    LET delta == ExponentOf(r) - (ExponentOf(v) - ExponentOf(w))
        by    == MantissaOf(w) \div 262144
    IN  IF IsRealZero(v) THEN r = 0
        ELSE /\ delta \in {-1, 0} /\ (r < 0 <=> ((v < 0) # (w < 0)))
             /\ Near(MantissaOf(v) * 2 ^ (5 - delta), MantissaOf(r) * by, by)
RealSum(v, w, r) ==
    LET low(a, c)    == IF ExponentOf(a) < ExponentOf(c) THEN ExponentOf(a) ELSE ExponentOf(c)
        apart        == ExponentOf(v) + ExponentOf(w) - 2 * low(v, w)
        unitOf(a, e) == ExponentOf(a) - e
        scaled(a, e) == (IF a < 0 THEN -1 ELSE 1) *
                        (IF unitOf(a, e) >= 0 THEN MantissaOf(a) * 2 ^ unitOf(a, e) ELSE MantissaOf(a) \div 2 ^ (-unitOf(a, e)))
        exact        == scaled(v, low(v, w)) + scaled(w, low(v, w))
    IN  IF IsRealZero(v) THEN r = w
        ELSE IF IsRealZero(w) THEN r = v
        ELSE IF apart >= 24 THEN r = (IF ExponentOf(v) > ExponentOf(w) THEN v ELSE w)
        ELSE IF r = 0 THEN exact < 2 ^ apart /\ -exact < 2 ^ apart
        ELSE Near(exact, scaled(r, low(v, w)), 2 ^ apart)
RealResult(op, v, w, r) ==
    CASE op = "+" -> RealSum(v, w, r) [] op = "-" -> RealSum(v, SignChanged(w), r)
      [] op = "*" -> RealProduct(v, w, r) [] op = "/" -> RealQuotient(v, w, r)

\* A program that is one operation on REALs, and any other.
IsRealOperation(body) ==
    Len(body) = 1 /\ body[1][1] = "assign" /\ body[1][2].form = "Real" /\ body[1][3][1] \in {"+", "-", "*", "/"}
RightReal(env, s) ==
    LET v == Value(env, s[3][2])  w == Value(env, s[3][3])
    IN  IF s[3][1] = "/" /\ IsRealZero(w) THEN cpu.run = "trapped"
        ELSE cpu.run = "done" /\ RealResult(s[3][1], v, w, Result(s[2]))
RightOther(env, body) ==
    LET after == Done(env, body)
    IN  IF after.trap THEN cpu.run = "trapped"
        ELSE cpu.run = "done" /\ \A n \in DOMAIN Variables \ Loose : Result(Variables[n]) = after.env[Variables[n]]
Right ==
    LET body == Body[task.program]
    IN  IF IsRealOperation(body) THEN RightReal(Values(task), body[1]) ELSE RightOther(Values(task), body)

Ended == cpu.run \in {"done", "trapped"} \/ (cpu.run = "running" /\ left = 0)

\* What the disassembler shows for an operation of the emulator.
Shown == [asla |-> "asl", lsra |-> "lsr", rola |-> "rol", rora |-> "ror", inca |-> "inc", deca |-> "dec"]
ShownAs(op) == IF op \in DOMAIN Shown THEN Shown[op] ELSE op
Agrees(line, code) ==
    /\ line.name \in {ShownAs(Instruction(code, cpu)[1]), "nop"} /\ line.length = LengthNow(code, cpu)
    /\ line.m = CPU!M8(cpu) /\ line.x = CPU!X8(cpu)
Unknown(code, at) == code[at + 1] \in Lister!Undecoded
ListedInStep ==
    LET starts == module.starts  listing == module.listing
    IN  \E n \in DOMAIN starts :
            /\ starts[n] = cpu.pc
            /\ IF cpu.pc \in DOMAIN listing
               THEN Unknown(module.code, cpu.pc) \/ Agrees(listing[cpu.pc], module.code)
               ELSE \E m \in {n - 1, n - 2} \cap DOMAIN starts : Unknown(module.code, starts[m])

\* The instruction the processor comes to is one the compiler laid out, and the
\* disassembler lists it there with the mnemonic, the length and the widths it
\* runs with (Set8 and Set16 against update_processor_status), or with nop for
\* one it has no name for.  It does not if it decodes the first byte as an
\* instruction of one byte, for one it cannot decode: then what it lists out of
\* step is at most two more instructions.
DisassemblyInStep == cpu.run = "running" => ListedInStep
=============================================================================
