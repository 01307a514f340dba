------------------------------- MODULE Parser -------------------------------
(***************************************************************************)
(* The parser of the assembler, as-c/src/parser.c, from the tokens of a    *)
(* program to the operations that interp.c runs once in every pass.  The   *)
(* scanner is left out: a token has the symbol that scanner_get answers,   *)
(* the text it leaves in id (NoName when it leaves none) and the number it *)
(* leaves in ival.  A line ends with STATESEP.                             *)
(*                                                                         *)
(* The parser's state is a record p: where it is in the tokens, the symbol *)
(* of that place, id and ival, the heap and the scope (value.c, below),    *)
(* the sections in the order of their creation with the operations of      *)
(* each, the macros and the one being defined (0 outside), the number of   *)
(* imports, the number of errors reported, and whether the parser goes     *)
(* round for ever at the end of the file.                                  *)
(*                                                                         *)
(* The values, as-c/src/value.c, are reached by pointer: a heap maps the   *)
(* number of an object to its record, and the stack, the scopes and the    *)
(* program's pushes hold numbers.  An object that several of them hold     *)
(* changes for all.  Reference counts and the red-black tree of a map are  *)
(* left out: a map is a function from names.  Real numbers are left out    *)
(* too, and no program here reckons with a string, whose number would be a *)
(* pointer.                                                                *)
(***************************************************************************)
EXTENDS Integers, Sequences, SequencesExt, TLC, Bitwise

CONSTANTS
    Exports,    \* the symbol file of an imported module: its exports <<name, number>>
    Included    \* the tokens of a file that can be included

-----------------------------------------------------------------------------
(* The values.                                                             *)

NoName == ""
NoScope == 0

object_new(type) == [type |-> type, num |-> 0, text |-> NoName, parent |-> NoScope, desc |-> <<>>]

Number(n) == [object_new("Int") EXCEPT !.num = n]
Truth(b)  == [object_new("Bool") EXCEPT !.num = IF b THEN 1 ELSE 0]
Text(s)   == [object_new("String") EXCEPT !.text = s]

(* The first objects: the number 0 that stands for every name without a     *)
(* value, and the root of the scopes with the names that are given.         *)
objectZero == 1
scope_root == 2
Given == [off |-> 3, on |-> 4, false |-> 3, true |-> 4, no |-> 3, yes |-> 4]
value_init ==
    <<Number(0), [object_new("NoType") EXCEPT !.desc = Given],
      [Truth(FALSE) EXCEPT !.parent = scope_root], [Truth(TRUE) EXCEPT !.parent = scope_root]>>

map_get(heap, scope, name) == IF name \in DOMAIN heap[scope].desc THEN heap[scope].desc[name] ELSE 0

(* scope_find_object: in the scope or in one around it. *)
RECURSIVE scope_find_object(_, _, _)
scope_find_object(heap, scope, name) ==
    IF scope = NoScope THEN 0
    ELSE IF map_get(heap, scope, name) # 0 THEN map_get(heap, scope, name)
    ELSE scope_find_object(heap, heap[scope].parent, name)

(* object_set: a name that is known keeps its object, and its type; the     *)
(* object takes over the value when it is a number or a text.               *)
object_set(heap, to, from) ==
    IF heap[to].type = "Int" THEN [heap EXCEPT ![to].num = heap[from].num]
    ELSE IF heap[to].type = "String" THEN [heap EXCEPT ![to].text = heap[from].text]
    ELSE heap

(* scope_add_object: a new name stands for the object itself.  The object   *)
(* counts as one of the scope in both cases.                                *)
scope_add_object(heap, scope, name, object) ==
    LET known == map_get(heap, scope, name)
        heap1 == IF known # 0 THEN object_set(heap, known, object)
                 ELSE [heap EXCEPT ![scope].desc = (name :> object) @@ @]
    IN  [heap1 EXCEPT ![object].parent = scope]

Bit(b) == IF b THEN 1 ELSE 0

(* C's division, which cuts towards 0, and its remainder. *)
Abs(n)         == IF n < 0 THEN -n ELSE n
Quotient(l, r) == IF (l < 0) = (r < 0) THEN Abs(l) \div Abs(r) ELSE -(Abs(l) \div Abs(r))

(* The operations of two operands that make a number.  "LessThan" is what   *)
(* stack_lessthan calls.                                                    *)
object_equal(heap, l, r) ==
    Number(Bit(CASE heap[l].type = "Int" -> heap[l].num = heap[r].num
                 [] heap[l].type = "String" -> heap[l].text = heap[r].text
                 [] OTHER -> FALSE))

Arithmetic2(op, l, r) ==
    CASE op = "Add" -> l + r
      [] op = "Sub" -> l - r
      [] op = "Mul" -> l * r
      [] op \in {"Div", "IDiv"} -> Quotient(l, r)
      [] op = "Mod" -> l - r * Quotient(l, r)
      [] op = "And" -> l & r
      [] op = "Or"  -> l | r
      [] op = "LeftShift"  -> l * 2 ^ r
      [] op = "RightShift" -> l \div 2 ^ r

Comparison(op, l, r) ==
    Bit(CASE op = "NotEqual" -> l # r
          [] op = "GreaterThan" -> l > r
          [] op = "GreaterThanEqual" -> l >= r
          [] op \in {"LessThan", "LessThanEqual"} -> l <= r)

Arithmetic1(op, l) ==
    CASE op = "Neg" -> -l
      [] op = "Not" -> Bit(l = 0)
      [] op = "LowByte"  -> l % 256
      [] op = "HighByte" -> (l \div 256) % 256
      [] op = "BankByte" -> (l \div 65536) % 256

Binaries    == {"Add", "Sub", "Mul", "Div", "IDiv", "Mod", "And", "Or", "LeftShift", "RightShift"}
Comparisons == {"NotEqual", "GreaterThan", "GreaterThanEqual", "LessThan", "LessThanEqual"}
Unaries     == {"Neg", "Not", "LowByte", "HighByte", "BankByte"}

(* stack_if: what counts as true. *)
Holds(object) == \/ object.type \in {"Int", "Bool"} /\ object.num # 0
                 \/ object.type = "String"

-----------------------------------------------------------------------------
(* The parser.                                                             *)

Token(sym, text, num) == [sym |-> sym, text |-> text, num |-> num]

EndOfFile == Token("EOF", NoName, 0)

(* scanner_get. *)
Seen(p, at) ==
    LET t == IF at <= Len(p.tokens) THEN p.tokens[at] ELSE EndOfFile
    IN  [p EXCEPT !.at = at, !.sym = t.sym,
                  !.id = IF t.text = NoName THEN @ ELSE t.text,
                  !.num = IF t.sym \in {"INTEGER", "CHAR"} THEN t.num ELSE @]
Get(p) == Seen(p, p.at + 1)

as_error(p) == [p EXCEPT !.errors = @ + 1]

expect(p, sym) == IF p.sym = sym THEN Get(p) ELSE Get(as_error(p))

(* interp_add and interp_add_instr: to the macro being defined, or to the   *)
(* section.                                                                 *)
interp_add(p, op) ==
    IF p.defining # 0 THEN [p EXCEPT !.macros[p.defining] = Append(@, op)]
                      ELSE [p EXCEPT !.code[p.section] = Append(@, op)]

Op(type) == [op |-> type]
Counted(type, n) == [op |-> type, n |-> n]
Named(path, is_local) == [op |-> "PushVar", path |-> path, local |-> is_local]
Emit(opcode, mode, modifier) ==
    [op |-> "Emit", instr |-> [opcode |-> opcode, mode |-> mode, modifier |-> modifier]]

(* A literal is an object that every pass pushes again. *)
Literal(p, object) ==
    interp_add([p EXCEPT !.heap = Append(@, object)], [op |-> "Push", ref |-> Len(p.heap) + 1])

-----------------------------------------------------------------------------
(* Expressions. *)
PrefixOps == [NOT |-> "Not", LSS |-> "LowByte", GTR |-> "HighByte", CARET |-> "BankByte"]
Products  == [AST |-> "Mul", SLASH |-> "Div", DIV |-> "IDiv", MOD |-> "Mod", AMPERSAND |-> "And"]
Sums      == [PLUS |-> "Add", MINUS |-> "Sub", BARC |-> "Or"]
Relations == [EQL |-> "Equal", NEQ |-> "NotEqual", LSS |-> "LessThan", LEQ |-> "LessThanEqual",
              GTR |-> "GreaterThan", GEQ |-> "GreaterThanEqual", LEFT_SHIFT |-> "LeftShift",
              RIGHT_SHIFT |-> "RightShift"]

RECURSIVE Qualified(_, _, _)
RECURSIVE parse_factor(_, _)
RECURSIVE parse_term(_, _)
RECURSIVE MoreFactors(_)
RECURSIVE MoreTerms(_)
RECURSIVE parse_expression(_, _)

(* A name with further names after periods. *)
Qualified(p, path, is_local) ==
    IF p.sym # "PERIOD" \/ is_local THEN interp_add(p, Named(path, is_local))
    ELSE LET q == Get(p)
         IN  IF q.sym = "IDENT" THEN Qualified(Get(q), Append(path, q.id), FALSE)
             ELSE interp_add(q, Named(path, FALSE))

(* A name after a period is taken from id when the token after it has been  *)
(* read already.                                                            *)
parse_factor(p, is_local) ==
    CASE p.sym \in {"INTEGER", "CHAR"} -> Get(Literal(p, Number(p.num)))
      [] p.sym = "STRING" -> Get(Literal(p, Text(p.id)))
      [] p.sym = "PERIOD" -> LET q == expect(Get(p), "IDENT") IN interp_add(q, Named(<<q.id>>, TRUE))
      [] p.sym = "IDENT"  -> Qualified(Get(p), <<p.id>>, is_local)
      [] p.sym = "LPAREN" ->
            LET q == parse_expression(Get(p), FALSE) IN IF q.sym = "RPAREN" THEN Get(q) ELSE as_error(q)
      [] p.sym \in DOMAIN PrefixOps -> interp_add(parse_factor(Get(p), FALSE), Op(PrefixOps[p.sym]))
      [] OTHER -> Get(as_error(p))

MoreFactors(p) ==
    IF p.sym \in DOMAIN Products
    THEN MoreFactors(interp_add(parse_factor(Get(p), FALSE), Op(Products[p.sym])))
    ELSE p

parse_term(p, is_local) == MoreFactors(parse_factor(p, is_local))

MoreTerms(p) ==
    IF p.sym \in DOMAIN Sums THEN MoreTerms(interp_add(parse_term(Get(p), FALSE), Op(Sums[p.sym]))) ELSE p

(* A minus in front changes the sign of the whole sum. *)
parse_simple_expression(p, is_local) ==
    LET q == IF p.sym \in {"PLUS", "MINUS"} THEN Get(p) ELSE p
        r == MoreTerms(parse_term(q, is_local))
    IN  IF p.sym = "MINUS" THEN interp_add(r, Op("Neg")) ELSE r

parse_expression(p, is_local) ==
    LET q == parse_simple_expression(p, is_local)
    IN  IF q.sym \in DOMAIN Relations
        THEN interp_add(parse_simple_expression(Get(q), FALSE), Op(Relations[q.sym]))
        ELSE q

(* parse_list: expressions between commas, and how many there are. *)
RECURSIVE ListFrom(_, _)
ListFrom(p, n) ==
    LET q == IF p.sym = "COMMA" THEN Get(p) ELSE p
        r == IF q.sym # "STATESEP" THEN parse_expression(q, FALSE) ELSE q
        m == IF q.sym # "STATESEP" THEN n + 1 ELSE n
    IN  IF r.sym = "COMMA" THEN ListFrom(r, m) ELSE [p |-> r, n |-> m]
parse_list(p) == ListFrom(p, 0)

(* parse_message, parse_data, parse_text, parse_fill, parse_title and       *)
(* parse_subheading: a list, and an operation on that many values.          *)
ListOf(p, type) == LET list == parse_list(p) IN IF list.n > 0 THEN interp_add(list.p, Counted(type, list.n)) ELSE list.p

DataOp(modifier) == CASE modifier \in {"Word", "Absolute"} -> "Word" [] modifier = "Long" -> "Long"
                      [] modifier = "Float" -> "Float" [] modifier = "Direct" -> "Double" [] OTHER -> "Byte"
parse_data(p, modifier) == ListOf(p, DataOp(modifier))

TextOp(modifier) == CASE modifier = "Long" -> "TextLen" [] modifier = "Zero" -> "TextZero"
                      [] modifier = "Bit7" -> "TextBit7" [] OTHER -> "Text"
parse_text(p, modifier) == ListOf(p, TextOp(modifier))

-----------------------------------------------------------------------------
(* Instructions. *)
InstrModifiers == [b |-> "Byte", d |-> "Direct", w |-> "Word", a |-> "Absolute", l |-> "Long",
                   B |-> "Byte", D |-> "Direct", W |-> "Word", A |-> "Absolute", L |-> "Long"]

(* Where a line must end an operand and does not, there is no instruction,  *)
(* and no error.                                                            *)
AtEnd(p, opcode, mode, modifier) ==
    IF p.sym = "STATESEP" THEN interp_add(p, Emit(opcode, mode, modifier)) ELSE p

(* After #: one operand or two. *)
HashOperand(p, opcode, modifier) ==
    LET q == parse_expression(Get(p), FALSE)
        r == Get(q)
    IN  IF q.sym # "COMMA" THEN interp_add(q, Emit(opcode, "Immediate", modifier))
        ELSE interp_add(parse_expression(IF r.sym = "HASH" THEN Get(r) ELSE r, FALSE),
                        Emit(opcode, "BlockMove", modifier))

(* In parentheses or brackets. *)
IndirectOperand(p, opcode, modifier) ==
    LET long  == p.sym = "LSQ"
        close == IF long THEN "RSQ" ELSE "RPAREN"
        q     == parse_expression(Get(p), FALSE)
        r     == Get(q)
        s     == Get(r)
        t     == Get(s)
        u     == Get(t)
    IN  CASE q.sym = close /\ r.sym = "COMMA" /\ s.sym = "REGY" ->
                AtEnd(t, opcode, IF long THEN "DirectPageIndirectLongIndexedY" ELSE "DirectPageIndirectIndexedY", modifier)
          [] q.sym = close /\ r.sym = "COMMA" /\ s.sym = "REGX" ->
                AtEnd(t, opcode, "DirectPageIndexedIndirectX", modifier)
          [] q.sym = close /\ r.sym = "COMMA" /\ s.sym \notin {"REGX", "REGY"} -> s
          [] q.sym = close /\ r.sym # "COMMA" ->
                AtEnd(r, opcode, IF long THEN "AbsoluteIndirectLong" ELSE "AbsoluteIndirect", modifier)
          [] q.sym = "COMMA" /\ r.sym = "REGX" ->
                IF s.sym = close THEN AtEnd(t, opcode, "AbsoluteIndexedIndirect", modifier) ELSE s
          [] q.sym = "COMMA" /\ r.sym = "REGS" ->
                IF s.sym # "RPAREN" THEN s
                ELSE IF t.sym # "COMMA" THEN t
                ELSE IF u.sym # "REGY" THEN u
                ELSE AtEnd(Get(u), opcode, "StackRelativeIndirectIndexedY", modifier)
          [] q.sym = "COMMA" /\ r.sym \notin {"REGX", "REGS"} -> r
          [] OTHER -> q

Indexes == [REGX |-> "AbsoluteIndexedX", REGY |-> "AbsoluteIndexedY", REGS |-> "StackRelative"]

(* One, two or three operands by themselves, or one with an index. *)
PlainOperand(p, opcode, modifier, is_local) ==
    LET q == parse_expression(p, is_local)
        r == Get(q)
    IN  IF q.sym # "COMMA" THEN AtEnd(q, opcode, "Absolute", modifier)
        ELSE IF r.sym \in DOMAIN Indexes THEN AtEnd(Get(r), opcode, Indexes[r.sym], modifier)
        ELSE LET s == parse_expression(r, FALSE)
             IN  IF s.sym # "COMMA" THEN AtEnd(s, opcode, "BlockMove", modifier)
                 ELSE AtEnd(parse_expression(Get(s), FALSE), opcode, "BitAbsoluteRelative", modifier)

parse_instr(p) ==
    LET opcode   == p.id
        q        == Get(p)
        dot      == Get(q)
        modified == q.sym = "PERIOD" /\ dot.id \in DOMAIN InstrModifiers
        modifier == IF modified THEN InstrModifiers[dot.id] ELSE "None"
        r        == IF q.sym # "PERIOD" THEN q ELSE IF modified THEN Get(dot) ELSE dot
    IN  CASE r.sym = "HASH" -> HashOperand(r, opcode, modifier)
          [] r.sym = "REGA" -> interp_add(Get(r), Emit(opcode, "Accumulator", modifier))
          [] r.sym = "STATESEP" -> interp_add(r, Emit(opcode, "Implied", modifier))
          [] r.sym \in {"LSQ", "LPAREN"} -> IndirectOperand(r, opcode, modifier)
          [] OTHER -> PlainOperand(r, opcode, modifier, q.sym = "PERIOD" /\ ~modified)

-----------------------------------------------------------------------------
(* Directives. *)
Directives == {"INCLUDE", "IMPORT", "INSERT", "ERROR", "ERRORIF", "MESSAGE", "SECTION", "DATA", "BYTE", "WORD",
               "LONG", "FLOAT", "DOUBLE", "TEXT", "FILL", "SUBHEADING", "TITLE", "PAGE"}
DataDirectives == [BYTE |-> "Byte", WORD |-> "Word", LONG |-> "Long", FLOAT |-> "Float", DOUBLE |-> "Double"]

(* Told by the first letter of a name. *)
DirectiveModifiers == InstrModifiers @@ [f |-> "Float", F |-> "Float"]
Letter(name) == SubSeq(name, 1, 1)

Modifier(p) ==
    IF p.sym = "INTEGER" /\ p.num \in {0, 7} THEN IF p.num = 0 THEN "Zero" ELSE "Bit7"
    ELSE IF p.sym = "IDENT" /\ Letter(p.id) \in DOMAIN DirectiveModifiers THEN DirectiveModifiers[Letter(p.id)]
    ELSE "Unknown"

(* as_import: the module becomes a scope of its exports, each a number of   *)
(* the module in the bank and of the export in the address.                 *)
as_import(p, name) ==
    IF name \notin DOMAIN Exports THEN as_error(p)
    ELSE LET mno     == p.imports + 1
             scope   == Len(p.heap) + 1
             exports == Exports[name]
             entries == [i \in DOMAIN exports |-> Number(mno * 65536 + exports[i][2])]
             desc    == [n \in {exports[i][1] : i \in DOMAIN exports} |->
                            scope + (CHOOSE i \in DOMAIN exports : exports[i][1] = n)]
             heap    == (p.heap \o <<[object_new("NoType") EXCEPT !.desc = desc]>>) \o entries
         IN  [p EXCEPT !.imports = mno, !.heap = scope_add_object(heap, p.scope, name, scope)]

(* The included file's tokens come next.  The scanner has read one          *)
(* character ahead on the line after, which is lost: an empty line, or else *)
(* (not modelled) the first letter of its first word.                       *)
Include(p) ==
    LET q == Get(p)
    IN  IF p.sym # "STRING" THEN p
        ELSE IF q.sym # "STATESEP" \/ p.id \notin DOMAIN Included THEN as_error(q)
        ELSE Seen([q EXCEPT !.tokens = SubSeq(q.tokens, 1, q.at) \o Included[p.id]
                                       \o SubSeq(q.tokens, q.at + 2, Len(q.tokens))], q.at + 1)

(* elf_section_create: the section of that name, new or not.  The optional  *)
(* numbers give the kind; a section of kind 8 (SHT_NOBITS) holds no bytes.  *)
SkipNumber(p) == IF p.sym = "COMMA" THEN Get(Get(p)) ELSE p
parse_section(p) ==
    LET q    == Get(p)
        bare == q.sym = "COMMA" /\ Get(q).sym = "INTEGER" /\ (Get(q).num \div 8) % 2 = 1
        r    == SkipNumber(SkipNumber(q))
    IN  IF p.sym # "STRING" THEN p
        ELSE IF p.id \in DOMAIN p.code THEN [r EXCEPT !.section = p.id]
        ELSE [r EXCEPT !.section = p.id, !.code = @ @@ (p.id :> <<>>), !.sections = Append(@, p.id),
                       !.bss = IF bare THEN @ \cup {p.id} ELSE @]

RECURSIVE parse_if(_)
RECURSIVE parse_statement(_)
RECURSIVE parse_block(_)

(* errorif skips a token and reads an if before its list, and ends the file. *)
ErrorIf(p) == [ListOf(parse_if(Get(p)), "ErrorIf") EXCEPT !.sym = "END"]

parse_directive(p) ==
    LET q == Get(p)
        m == Get(q)
        modifier == IF q.sym = "PERIOD" THEN Modifier(m) ELSE "None"
        r == IF q.sym # "PERIOD" THEN q ELSE IF modifier = "Unknown" THEN Get(as_error(m)) ELSE Get(m)
    IN  CASE p.sym = "INCLUDE" -> Include(r)
          [] p.sym = "IMPORT"  -> IF r.sym = "IDENT" THEN Get(as_import(r, r.id)) ELSE as_error(r)
          [] p.sym = "INSERT"  -> r
          [] p.sym = "ERROR"   -> ListOf(r, "Error")
          [] p.sym = "ERRORIF" -> ErrorIf(r)
          [] p.sym = "MESSAGE" -> ListOf(r, "Message")
          [] p.sym = "SECTION" -> parse_section(r)
          [] p.sym = "DATA"    -> parse_data(r, modifier)
          [] p.sym \in DOMAIN DataDirectives -> parse_data(r, DataDirectives[p.sym])
          [] p.sym = "TEXT"    -> parse_text(r, modifier)
          [] p.sym = "FILL"    -> ListOf(r, "Fill")
          [] p.sym = "TITLE"      -> ListOf(r, "Title")
          [] p.sym = "SUBHEADING" -> ListOf(r, "Subheading")
          [] p.sym = "PAGE"    -> interp_add(r, Op("PageBreak"))

-----------------------------------------------------------------------------
(* Statements. *)

(* parse_block: statements up to the closing brace.  At the end of the file *)
(* nothing is consumed any more.                                            *)
parse_block(p) ==
    IF p.sym \in {"EOF", "END"} THEN [p EXCEPT !.hung = TRUE]
    ELSE LET q == parse_statement(p) IN IF q.hung \/ q.sym = "BLOCKEND" THEN q ELSE parse_block(q)

(* parse_if: the block after each condition, with its operation before it. *)
Block(p, type) == Get(parse_block(Get(interp_add(p, Op(type)))))

RECURSIVE ElseBranches(_)
ElseBranches(p) ==
    IF p.sym # "ELSE" \/ p.hung THEN p
    ELSE LET q == Get(interp_add(p, Op("ScopeEnd")))
             r == parse_expression(Get(q), FALSE)
         IN  CASE q.sym = "IF" -> ElseBranches(IF r.sym = "BLOCKSTART" THEN Block(r, "ElseIfBegin") ELSE r)
               [] q.sym = "BLOCKSTART" -> ElseBranches(Block(q, "ElseBegin"))
               [] OTHER -> ElseBranches(as_error(q))

parse_if(p) ==
    LET q == parse_expression(Get(p), FALSE)
    IN  IF q.sym = "BLOCKSTART" THEN interp_add(ElseBranches(Block(q, "IfBegin")), Op("ScopeEnd"))
        ELSE as_error(q)

(* parse_assignment. *)
parse_assignment(p, name) ==
    IF p.sym # "BECOMES" THEN as_error(p)
    ELSE interp_add(parse_expression(Get(p), FALSE), [op |-> "PopVar", name |-> name])

(* recursive_params: the values of a call are on the stack, the last on     *)
(* top, so the names are popped from the last to the first.                 *)
RECURSIVE recursive_params(_)
recursive_params(p) ==
    LET q == IF p.sym = "COMMA" THEN Get(p) ELSE p
    IN  IF q.sym # "IDENT" THEN q
        ELSE interp_add(recursive_params(Get(q)), [op |-> "PopVar", name |-> q.id])

(* parse_macro_def, and the block that follows it.  Of two macros of one    *)
(* name the first keeps it.                                                 *)
parse_macro_def(p, name) ==
    LET object == Len(p.heap) + 1
        macro  == [object_new("Macro") EXCEPT !.num = Len(p.macros) + 1]
        q == [p EXCEPT !.macros = Append(@, <<>>), !.defining = Len(p.macros) + 1,
                       !.heap = scope_add_object(Append(@, macro), p.scope, name, object)]
        r == recursive_params(q)
        s == parse_block(IF r.sym = "BLOCKSTART" THEN Get(r) ELSE r)
    IN  Get([s EXCEPT !.defining = 0])

is_macro(p) ==
    LET object == scope_find_object(p.heap, p.scope, p.id)
    IN  p.sym = "IDENT" /\ object # 0 /\ p.heap[object].type = "Macro"

(* parse_macro_call.  The scope it adds has the macro's name and is lost on *)
(* the macro's object.                                                      *)
parse_macro_call(p) ==
    LET q == parse_list(Get(p)).p
    IN  interp_add(IF q.sym = "STATESEP" THEN Get(q) ELSE q, [op |-> "MacroCall", name |-> p.id])

(* parse_ident_def: a name, with a star when it is global and a colon for   *)
(* the reader.                                                              *)
AfterIdent(p) ==
    LET q == IF p.sym = "IDENT" THEN Get(p) ELSE as_error(p)
        r == IF q.sym = "AST" THEN Get(q) ELSE q
    IN  IF r.sym = "COLON" THEN Get(r) ELSE r

(* .proc: the signature of a procedure, for the symbol file.  The list of   *)
(* the parameters ends at no token but these, so that one which is neither  *)
(* a word nor a comma is never passed.                                      *)
Words == {"IDENT", "INSTR", "REGA", "REGX", "REGY", "REGS", "DIV", "MOD", "IF", "ELSE", "END", "FOR", "LET", "MACRO",
          "REPEAT", "UNTIL", "VAR", "WHILE"} \cup Directives
SkipWord(p) == IF p.sym \in Words THEN Get(p) ELSE p

RECURSIVE ProcParameters(_)
ProcParameters(p) ==
    LET q == SkipWord(IF p.sym = "VAR" THEN Get(p) ELSE p)
        r == IF q.sym = "COMMA" THEN Get(q) ELSE q
    IN  IF p.sym \in {"RPAREN", "STATESEP", "EOF"} THEN p
        ELSE IF r.at = p.at THEN [p EXCEPT !.hung = TRUE]
        ELSE ProcParameters(r)

parse_proc_sig(p) ==
    LET q == Get(p)
        r == ProcParameters(Get(q))
        s == IF q.sym # "LPAREN" THEN q ELSE IF r.sym = "RPAREN" THEN Get(r) ELSE r
    IN  IF p.sym \notin Words THEN as_error(p)
        ELSE IF s.sym = "COLON" THEN SkipWord(Get(s)) ELSE s

(* A statement that begins with a name: the directive above, an assignment, *)
(* which takes the next token with it, a macro, or a label with an          *)
(* instruction or a directive.                                              *)
parse_named(p) ==
    LET is_local == p.sym = "PERIOD"
        start    == IF is_local THEN Get(p) ELSE p
        name     == IF start.sym = "IDENT" THEN start.id ELSE NoName
        q        == AfterIdent(start)
        labelled == interp_add(q, [op |-> "Label", name |-> name, local |-> is_local])
    IN  IF is_local /\ name \in {"proc", "PROC"} THEN parse_proc_sig(q)
        ELSE CASE q.sym = "BECOMES" -> Get(parse_assignment(q, name))
               [] q.sym = "MACRO"   -> parse_macro_def(Get(q), name)
               [] q.sym = "INSTR"   -> parse_instr(labelled)
               [] q.sym \in Directives -> parse_directive(labelled)
               [] OTHER -> labelled

(* A block by itself opens a scope. *)
parse_scope(p) ==
    LET object == Len(p.heap) + 1
    IN  Get(interp_add([p EXCEPT !.heap = scope_add_object(Append(@, object_new("NoType")), p.scope, "block_unique", object),
                                 !.scope = object],
                       Op("ScopeBegin")))

scope_pop(p) == IF p.heap[p.scope].parent # NoScope THEN [p EXCEPT !.scope = p.heap[p.scope].parent] ELSE as_error(p)

parse_statement(p) ==
    CASE p.sym = "STATESEP" -> Get(p)
      [] p.sym = "INSTR" -> parse_instr(p)
      [] p.sym \in Directives -> parse_directive(p)
      [] is_macro(p) -> parse_macro_call(p)
      [] p.sym \in {"VAR", "LET"} -> LET q == Get(p) IN parse_assignment(AfterIdent(q), q.id)
      [] p.sym \in {"IDENT", "PERIOD"} /\ ~is_macro(p) -> parse_named(p)
      [] p.sym = "IF" -> parse_if(p)
      [] p.sym = "BLOCKSTART" -> parse_scope(p)
      [] p.sym = "BLOCKEND" -> Get(interp_add(scope_pop(p), Op("ScopeEnd")))
      [] p.sym \in {"EOF", "END"} -> p
      [] OTHER -> Get(as_error(p))

RECURSIVE Statements(_)
Statements(p) == IF p.sym \in {"EOF", "END"} \/ p.hung THEN p ELSE Statements(parse_statement(p))

(* The sections that create_standard_file makes, text the chosen one.  The  *)
(* first four hold no bytes.                                                *)
create_standard_file == <<"stack", "dp", "tls", "bss", "data", "rodata", "text">>

parse_asm_file(tokens) ==
    LET p == [tokens |-> tokens, at |-> 0, sym |-> "NULL", id |-> NoName, num |-> 0, heap |-> value_init,
              scope |-> scope_root, section |-> "text", sections |-> create_standard_file,
              code |-> [s \in ToSet(create_standard_file) |-> <<>>], bss |-> {"stack", "dp", "tls", "bss"},
              macros |-> <<>>, defining |-> 0, imports |-> 0, errors |-> 0, hung |-> FALSE]
    IN  Statements(Get(p))
=============================================================================
