------------------------------ MODULE Assembler ------------------------------
(***************************************************************************)
(* The assembler as-c: as_compile of as.c parses the program once and then *)
(* runs its operations (interp.c) pass after pass, until a pass makes as   *)
(* many bytes as the one before it, and once more, as pass 0, for the      *)
(* output.  One action is one operation of interp_interp's switch; the     *)
(* calls of a macro nest, so the places in the programs are a sequence of  *)
(* frames.                                                                 *)
(*                                                                         *)
(* interp_run starts every pass at the root of the scopes and leaves it    *)
(* only inside set_label, so that the scope is no variable here.           *)
(***************************************************************************)
EXTENDS Parser, Codegen

CONSTANTS
    Programs,     \* the programs by name: [parsed, output], what parse_asm_file makes of the text
                  \* and the suffix of the -o option
    Codes,        \* the character codes of every text in a program, backslashes unread
    MaxPasses     \* bound: where the model stops a program that never settles

ASSUME BoundsAssumption == MaxPasses \in 3 .. 255

VARIABLES
    unit,           \* the program at hand
    phase,          \* "run", or how it ended: "done", "failed", "hung", "crashed", "unsettled"
    program,        \* what the parser made: sections, code, bss, macros
    heap,           \* the objects (module Parser)
    part,           \* the section being run, its place in program.sections
    frames,         \* interp_interp's activations: [macro, pc, level, last_exec]; macro 0 is the section
    exec,           \* exec[16]: whether each level of if runs
    stack,          \* the operands, as objects
    addr,           \* codegen_here
    sh_addr, data,  \* of each section: its address and its bytes
    longa, longi, machine,
    regs,           \* pc, dbreg, dpage, pbreg, entry
    pass,
    last_code_len,
    errors,         \* error_count
    current_label   \* the label that names the local labels, NoName when there is none

workvars == <<program, part, pass, last_code_len>>
outvars  == <<addr, sh_addr, data>>
cpuvars  == <<longa, longi, machine, regs>>
runvars  == <<phase, unit, errors, current_label>>
vars == <<workvars, outvars, cpuvars, runvars, heap, frames, exec, stack>>

-----------------------------------------------------------------------------
Frame   == frames[Len(frames)]
Section == program.sections[part]
Ops     == IF Frame.macro = 0 THEN program.code[Section] ELSE program.macros[Frame.macro]
Current == Ops[Frame.pc]

(* The operation at hand is one of these, and is not skipped. *)
Reached(types) ==
    /\ phase = "run" /\ frames # <<>>
    /\ Frame.pc <= Len(Ops)
    /\ Current.op \in types
Executed(types) == Reached(types) /\ exec[Frame.level]

(* On to the next operation.  level is exec_level then. *)
OnTo(level) ==
    frames' = [frames EXCEPT ![Len(frames)].pc = @ + 1, ![Len(frames)].level = level,
                             ![Len(frames)].last_exec = exec'[level]]
Onward == UNCHANGED exec /\ OnTo(Frame.level)

(* stack_pop. *)
Operand(i) == heap[stack[Len(stack) + 1 - i]]
Popped(n)  == SubSeq(stack, 1, Len(stack) - n)

(* The values of a list, in the order they were written. *)
Values(n) == [i \in 1 .. n |-> heap[stack[Len(stack) - n + i]]]

(* stack_push of a new object in the place of n operands. *)
Push(n, object) == /\ heap' = Append(heap, object)
                   /\ stack' = Append(Popped(n), Len(heap) + 1)

(* codegen's o, for several bytes: a section of no bytes only moves on. *)
o(bytes) == /\ addr' = addr + Len(bytes)
            /\ data' = IF Section \in program.bss THEN data ELSE [data EXCEPT ![Section] = @ \o bytes]
            /\ UNCHANGED sh_addr

(* The operands an operation takes.  C reads below the stack when there are *)
(* fewer, divides by nothing, follows the name of a scope that has none or  *)
(* the text of a number: the assembler is gone.                             *)
Needs(op) ==
    CASE op.op \in Binaries \cup Comparisons \cup {"Equal"} -> 2
      [] op.op \in Unaries \cup {"PopVar", "IfBegin", "ElseIfBegin", "Title", "Subheading"} -> 1
      [] op.op = "ErrorIf" -> IF pass = 0 THEN 1 ELSE 0
      [] op.op = "Emit" -> codegen_params(op.instr.mode)
      [] OTHER -> 0
Faulty(op) ==
    \/ Len(stack) < Needs(op)
    \/ op.op \in {"Div", "IDiv", "Mod"} /\ Operand(1).num = 0
    \/ op.op = "ScopeBegin"
    \/ op.op = "ErrorIf" /\ pass = 0 /\ Holds(Operand(1))
    \/ op.op = "Fill" /\ op.n = 1 /\ Operand(1).num > 0

Runs(types) == Executed(types) /\ ~Faulty(Current)

Crash ==
    /\ phase = "run" /\ frames # <<>> /\ Frame.pc <= Len(Ops)
    /\ exec[Frame.level] /\ Faulty(Current)
    /\ phase' = "crashed"
    /\ UNCHANGED <<workvars, outvars, cpuvars, unit, errors, current_label, heap, frames, exec, stack>>

-----------------------------------------------------------------------------
(* Names.  as_get_symbol looks for the special ones first, which are new    *)
(* objects each time; the programs here write them in small letters.        *)
cpu_string ==
    CASE machine = "EM_816" -> "65C816" [] machine = "EM_C02" -> "65C02" [] machine = "EM_02" -> "6502"
      [] machine = "EM_RC02" -> "Rockwell 65C02" [] machine = "EM_RC19" -> "Rockwell C19"
      [] OTHER -> "Unknown"

SpecialNames == {"org", "addr", "pc", "longa", "longi", "cpu", "pass", "dbreg", "dpage", "pbreg"}
SpecialValue(name) ==
    CASE name = "org"   -> Number(sh_addr[Section])
      [] name = "addr"  -> Number(addr)
      [] name = "longa" -> Number(Bit(longa))
      [] name = "longi" -> Number(Bit(longi))
      [] name = "cpu"   -> Text(cpu_string)
      [] name = "pass"  -> Number(pass)
      [] OTHER -> Number(regs[name])

as_get_symbol(name) ==
    IF name \in SpecialNames THEN [heap |-> Append(heap, SpecialValue(name)), object |-> Len(heap) + 1]
    ELSE [heap |-> heap, object |-> scope_find_object(heap, scope_root, name)]

RECURSIVE Member(_, _, _)
Member(h, object, path) ==
    IF object = 0 \/ path = <<>> THEN object ELSE Member(h, map_get(h, object, Head(path)), Tail(path))

(* stack_push_var: a local name is looked for among those of the current    *)
(* label only, and a name without a value is objectZero.                    *)
PushVar ==
    /\ Runs({"PushVar"})
    /\ LET of_label == Current.local /\ current_label # NoName
           first    == as_get_symbol(IF of_label THEN current_label ELSE Current.path[1])
           object   == Member(first.heap, first.object, IF of_label THEN Current.path ELSE Tail(Current.path))
       IN  /\ heap' = first.heap
           /\ stack' = Append(stack, IF object = 0 THEN objectZero ELSE object)
    /\ Onward
    /\ UNCHANGED <<workvars, outvars, cpuvars, runvars>>

(* stack_pop_var, as_define_symbol. *)
Assigns(names) == Runs({"PopVar"}) /\ Current.name \in names /\ stack' = Popped(1) /\ Onward

Machines == ("6502" :> "EM_02") @@ ("65C02" :> "EM_C02") @@ ("R65C02" :> "EM_RC02") @@ ("R6501Q" :> "EM_RC01")
            @@ ("65C816" :> "EM_816") @@ ("816" :> "EM_816") @@ ("C19" :> "EM_RC19") @@ ("RC19" :> "EM_RC19")

SetOrigin ==
    /\ Assigns({"org", "addr"})
    /\ addr' = Operand(1).num
    /\ sh_addr' = [sh_addr EXCEPT ![Section] = Operand(1).num]
    /\ UNCHANGED <<workvars, data, cpuvars, runvars, heap>>

SetWidth ==
    /\ Assigns({"longa", "longi"})
    /\ longa' = IF Current.name = "longa" THEN Operand(1).num # 0 ELSE longa
    /\ longi' = IF Current.name = "longi" THEN Operand(1).num # 0 ELSE longi
    /\ UNCHANGED <<workvars, outvars, machine, regs, runvars, heap>>

(* A text that names no processor leaves cpu unset: any value, also of none. *)
SetCpu ==
    /\ Assigns({"cpu"})
    /\ IF Operand(1).type # "String" THEN UNCHANGED machine /\ errors' = errors + 1
       ELSE /\ IF Operand(1).text \in DOMAIN Machines THEN machine' = Machines[Operand(1).text]
               ELSE machine' \in DOMAIN Tables \cup {"EM_NONE"}
            /\ UNCHANGED errors
    /\ UNCHANGED <<workvars, outvars, longa, longi, regs, unit, phase, current_label, heap>>

SetRegister ==
    /\ Assigns({"pc", "dbreg", "dpage", "pbreg", "entry"})
    /\ regs' = [regs EXCEPT ![Current.name] =
                    IF Current.name \in {"pc", "entry"} THEN Operand(1).num ELSE Operand(1).num % 65536]
    /\ UNCHANGED <<workvars, outvars, longa, longi, machine, runvars, heap>>

SetPass ==
    /\ Assigns({"pass"})
    /\ errors' = errors + 1
    /\ UNCHANGED <<workvars, outvars, cpuvars, unit, phase, current_label, heap>>

SetName ==
    /\ Runs({"PopVar"}) /\ Current.name \notin SpecialNames \cup {"entry"}
    /\ stack' = Popped(1) /\ Onward
    /\ heap' = scope_add_object(heap, scope_root, Current.name, stack[Len(stack)])
    /\ UNCHANGED <<workvars, outvars, cpuvars, runvars>>

(* set_title and set_subheading. *)
Title ==
    /\ Runs({"Title", "Subheading"})
    /\ stack' = Popped(1) /\ Onward
    /\ heap' = scope_add_object(heap, scope_root, IF Current.op = "Title" THEN "title" ELSE "subheading",
                                stack[Len(stack)])
    /\ UNCHANGED <<workvars, outvars, cpuvars, runvars>>

(* set_label_impl: the object of that name in the scope or around it. *)
set_label_impl(scope, name) ==
    LET known  == scope_find_object(heap, scope, name)
        object == IF known # 0 THEN known ELSE Len(heap) + 1
        heap1  == IF known # 0 THEN heap ELSE scope_add_object(Append(heap, Number(0)), scope, name, object)
    IN  [heap1 EXCEPT ![object].num = addr]

(* set_label. *)
LocalLabel ==
    /\ Runs({"Label"}) /\ Current.local /\ current_label # NoName
    /\ heap' = set_label_impl(map_get(heap, scope_root, current_label), Current.name)
    /\ Onward
    /\ UNCHANGED <<workvars, outvars, cpuvars, runvars, stack>>

Label ==
    /\ Runs({"Label"}) /\ (~Current.local \/ current_label = NoName)
    /\ current_label' = Current.name
    /\ heap' = set_label_impl(scope_root, Current.name)
    /\ Onward
    /\ UNCHANGED <<workvars, outvars, cpuvars, unit, phase, errors, stack>>

-----------------------------------------------------------------------------
(* Reckoning. *)
PushLiteral ==
    /\ Runs({"Push"})
    /\ stack' = Append(stack, Current.ref)
    /\ Onward
    /\ UNCHANGED <<workvars, outvars, cpuvars, runvars, heap>>

Reckons(n, object) == /\ Push(n, object) /\ Onward
                      /\ UNCHANGED <<workvars, outvars, cpuvars, runvars>>

Equal   == Runs({"Equal"}) /\ Reckons(2, object_equal(heap, stack[Len(stack) - 1], stack[Len(stack)]))
Binary  == Runs(Binaries) /\ Reckons(2, Number(Arithmetic2(Current.op, Operand(2).num, Operand(1).num)))
Compare == Runs(Comparisons) /\ Reckons(2, Number(Comparison(Current.op, Operand(2).num, Operand(1).num)))
Unary   == Runs(Unaries) /\ Reckons(1, Number(Arithmetic1(Current.op, Operand(1).num)))

-----------------------------------------------------------------------------
(* What makes bytes. *)
Lays(n, bytes) == /\ o(bytes) /\ stack' = Popped(n) /\ Onward
                  /\ UNCHANGED <<workvars, cpuvars, unit, phase, current_label, heap>>

(* emit_instr: the first operand is 0 when it is not a number. *)
EmitValue(object) == IF object.type = "Int" THEN object.num ELSE 0
EmitOperands(mode) ==
    [i \in 1 .. 3 |-> IF i > codegen_params(mode) THEN 0
                      ELSE IF i = 1 THEN EmitValue(Operand(1)) ELSE Operand(i).num]

Emitted ==
    IF machine \notin DOMAIN Tables THEN <<>>
    ELSE codegen_gen(machine, Current.instr, EmitOperands(Current.instr.mode), addr, longa, longi)

EmitInstr == Runs({"Emit"}) /\ Lays(codegen_params(Current.instr.mode), Emitted) /\ UNCHANGED errors

(* stack_byte and stack_word. *)
Bytes1(object) == IF object.type = "String" THEN Codes[object.text] ELSE codegen_byte(object.num)
Byte == Runs({"Byte"}) /\ UNCHANGED errors
        /\ Lays(Current.n, FlattenSeq([i \in 1 .. Current.n |-> Bytes1(Values(Current.n)[i])]))
Word == Runs({"Word"}) /\ UNCHANGED errors
        /\ Lays(Current.n, FlattenSeq([i \in 1 .. Current.n |-> codegen_word(Values(Current.n)[i].num)]))

(* emit_text.  A backslash and the letter after it make one character. *)
Backslash == 92
Escapes == (110 :> 10) @@ (116 :> 9) @@ (98 :> 8) @@ (114 :> 13) @@ (97 :> 7) @@ (39 :> 39) @@ (34 :> 34)
           @@ (92 :> 92) @@ (102 :> 12) @@ (118 :> 11) @@ (48 :> 0)

RECURSIVE Unescaped(_)
Unescaped(codes) ==
    IF codes = <<>> THEN <<>>
    ELSE IF codes[1] # Backslash \/ Len(codes) = 1 THEN <<codes[1]>> \o Unescaped(Tail(codes))
    ELSE <<IF codes[2] \in DOMAIN Escapes THEN Escapes[codes[2]] ELSE Backslash>> \o Unescaped(SubSeq(codes, 3, Len(codes)))

LastBit7(bytes) == IF bytes = <<>> THEN bytes ELSE [bytes EXCEPT ![Len(bytes)] = 128 + (@ % 128)]

TextBytes(object, bit7) ==
    CASE object.type = "Int" -> (IF object.num > 255 THEN <<Hi(object.num)>> ELSE <<>>) \o codegen_byte(object.num)
      [] object.type = "String" ->
            IF bit7 THEN LastBit7(Unescaped(Codes[object.text])) ELSE Unescaped(Codes[object.text])
      [] OTHER -> <<>>

(* The length counts a number as 2 or 0 and a text with its backslashes. *)
TextLength(object) ==
    CASE object.type = "Int" -> IF object.num > 255 THEN 2 ELSE 0
      [] object.type = "String" -> Len(Codes[object.text])
      [] OTHER -> 0

SumOver(s) == FoldLeft(LAMBDA a, b : a + b, 0, s)

EmitText ==
    /\ Runs({"Text", "TextLen", "TextZero", "TextBit7"})
    /\ LET n      == Current.n
           values == Values(n)
           length == SumOver([i \in 1 .. n |-> TextLength(values[i])])
           text   == FlattenSeq([i \in 1 .. n |-> TextBytes(values[i], Current.op = "TextBit7" /\ i = n)])
       IN  /\ Lays(n, (IF Current.op = "TextLen" THEN codegen_byte(length) ELSE <<>>) \o text
                      \o (IF Current.op = "TextZero" THEN <<0>> ELSE <<>>))
           /\ errors' = errors + (IF Current.op # "TextLen" THEN 0
                                  ELSE Len(SelectSeq(values, LAMBDA v : v.type \notin {"Int", "String"})))

(* stack_fill: the first value is the number of bytes, the others go round. *)
Fill ==
    /\ Runs({"Fill"}) /\ UNCHANGED errors
    /\ LET values == Values(Current.n)
       IN  Lays(Current.n, [i \in 1 .. values[1].num |-> Lo(values[2 + ((i - 1) % (Current.n - 1))].num)])

(* The operations that are still to do leave their operands on the stack. *)
ToDo ==
    /\ Runs({"Long", "Float", "Double", "PageBreak"})
    /\ Onward
    /\ UNCHANGED <<workvars, outvars, cpuvars, runvars, heap, stack>>

(* stack_error, stack_message and stack_error_if (which took the shape of a *)
(* false condition here: the other is a Crash). *)
Error ==
    /\ Runs({"Error", "Message"})
    /\ errors' = IF Current.op = "Error" /\ pass = 0 THEN errors + 1 ELSE errors
    /\ stack' = Popped(Current.n) /\ Onward
    /\ UNCHANGED <<workvars, outvars, cpuvars, unit, phase, current_label, heap>>

ErrorIfNot ==
    /\ Runs({"ErrorIf"})
    /\ stack' = Popped(Needs(Current)) /\ Onward
    /\ UNCHANGED <<workvars, outvars, cpuvars, runvars, heap>>

-----------------------------------------------------------------------------
(* Conditions.  exec is shared with the macros called, the level is not. *)
Enters(condition) ==
    /\ exec' = [exec EXCEPT ![Frame.level + 1] = condition]
    /\ OnTo(Frame.level + 1)
    /\ UNCHANGED <<workvars, outvars, cpuvars, runvars, heap>>

IfBegin     == Runs({"IfBegin"}) /\ Enters(Holds(Operand(1))) /\ stack' = Popped(1)
ElseIfBegin == Runs({"ElseIfBegin"}) /\ Enters(Holds(Operand(1))) /\ stack' = Popped(1)
ElseBegin   == Runs({"ElseBegin"}) /\ Enters(~Frame.last_exec) /\ UNCHANGED stack

ScopeEnd ==
    /\ Reached({"ScopeEnd"})
    /\ frames' = IF Frame.level = 0 THEN [frames EXCEPT ![Len(frames)].pc = @ + 1]
                 ELSE [frames EXCEPT ![Len(frames)].pc = @ + 1, ![Len(frames)].level = @ - 1,
                                     ![Len(frames)].last_exec = exec[Frame.level]]
    /\ UNCHANGED <<workvars, outvars, cpuvars, runvars, heap, exec, stack>>

Skip ==
    /\ phase = "run" /\ frames # <<>> /\ Frame.pc <= Len(Ops)
    /\ Current.op # "ScopeEnd" /\ ~exec[Frame.level]
    /\ frames' = [frames EXCEPT ![Len(frames)].pc = @ + 1]
    /\ UNCHANGED <<workvars, outvars, cpuvars, runvars, heap, exec, stack>>

(* stack_macro_call. *)
MacroCall ==
    /\ Runs({"MacroCall"})
    /\ frames' = Append(frames, [Frame EXCEPT !.pc = 1,
                                   !.macro = heap[scope_find_object(heap, scope_root, Current.name)].num])
    /\ UNCHANGED <<workvars, outvars, cpuvars, runvars, heap, exec, stack>>

(* It closes a scope that nobody opened, and the error is counted. *)
MacroReturn ==
    /\ phase = "run" /\ Len(frames) > 1 /\ Frame.pc > Len(Ops)
    /\ errors' = errors + 1
    /\ LET caller == Len(frames) - 1
       IN  frames' = [SubSeq(frames, 1, caller) EXCEPT ![caller].pc = @ + 1,
                                                       ![caller].last_exec = exec[frames[caller].level]]
    /\ UNCHANGED <<workvars, outvars, cpuvars, unit, phase, current_label, heap, exec, stack>>

-----------------------------------------------------------------------------
(* interp_run: the sections that have operations, in their order.  Each     *)
(* starts at the address it had at the end of the pass before.              *)
ToRun(i) == program.code[program.sections[i]] # <<>>
Later    == {i \in part + 1 .. Len(program.sections) : ToRun(i)}

BeginSection ==
    /\ phase = "run" /\ frames = <<>> /\ Later # {}
    /\ LET i == CHOOSE i \in Later : \A j \in Later : i <= j
           s == program.sections[i]
       IN  /\ part' = i
           /\ addr' = sh_addr[s]
           /\ data' = [data EXCEPT ![s] = <<>>]
    /\ longa' = FALSE /\ longi' = FALSE
    /\ regs' = [regs EXCEPT !.pc = 0, !.dbreg = 0, !.dpage = 0, !.pbreg = 0]
    /\ exec' = [exec EXCEPT ![0] = TRUE]
    /\ frames' = <<[macro |-> 0, pc |-> 1, level |-> 0, last_exec |-> TRUE]>>
    /\ stack' = <<>>
    /\ UNCHANGED <<program, pass, last_code_len, sh_addr, machine, runvars, heap>>

EndSection ==
    /\ phase = "run" /\ Len(frames) = 1 /\ Frame.pc > Len(Ops)
    /\ frames' = <<>>
    /\ UNCHANGED <<workvars, outvars, cpuvars, runvars, heap, exec, stack>>

(* as_compile after interp_run. *)
code_len == SumOver([i \in 1 .. Len(program.sections) |-> Len(data[program.sections[i]])])

AtEndOfPass == phase = "run" /\ frames = <<>> /\ Later = {}

AnotherPassUnmeasured ==
    /\ AtEndOfPass /\ pass # 0 /\ code_len # last_code_len /\ pass < MaxPasses
    /\ pass' = pass + 1 /\ part' = 0
    /\ UNCHANGED <<program, last_code_len, outvars, cpuvars, runvars, heap, frames, exec, stack>>

AnotherPass ==
    /\ AtEndOfPass /\ pass # 0 /\ code_len # last_code_len /\ pass < MaxPasses
    /\ pass' = pass + 1 /\ last_code_len' = code_len /\ part' = 0
    /\ UNCHANGED <<program, outvars, cpuvars, runvars, heap, frames, exec, stack>>

OutputPassHasty ==
    /\ AtEndOfPass /\ pass # 0 /\ code_len >= last_code_len
    /\ pass' = 0 /\ part' = 0
    /\ UNCHANGED <<program, last_code_len, outvars, cpuvars, runvars, heap, frames, exec, stack>>

OutputPass ==
    /\ AtEndOfPass /\ pass # 0 /\ code_len = last_code_len
    /\ pass' = 0 /\ part' = 0
    /\ UNCHANGED <<program, last_code_len, outvars, cpuvars, runvars, heap, frames, exec, stack>>

GiveUp ==
    /\ AtEndOfPass /\ pass = MaxPasses /\ code_len # last_code_len
    /\ phase' = "unsettled"
    /\ UNCHANGED <<workvars, outvars, cpuvars, unit, errors, current_label, heap, frames, exec, stack>>

Finish ==
    /\ AtEndOfPass /\ pass = 0
    /\ phase' = "done"
    /\ UNCHANGED <<workvars, outvars, cpuvars, unit, errors, current_label, heap, frames, exec, stack>>

(* as_compile up to the first pass, which has number 2.  With an error in   *)
(* the text there is no pass.                                               *)
Parsed(p) ==
    /\ phase = IF p.hung THEN "hung" ELSE IF p.errors > 0 THEN "failed" ELSE "run"
    /\ program = [sections |-> p.sections, code |-> p.code, bss |-> p.bss, macros |-> p.macros]
    /\ heap = p.heap
    /\ errors = p.errors
    /\ sh_addr = [s \in DOMAIN p.code |-> 0]
    /\ data = [s \in DOMAIN p.code |-> <<>>]
    /\ part = 0 /\ frames = <<>> /\ stack = <<>>
    /\ pass = 2 /\ last_code_len = 0

(* as_open_output, and the text parsed. *)
Init ==
    /\ unit \in DOMAIN Programs
    /\ Parsed(Programs[unit].parsed)
    /\ exec = [i \in 0 .. 15 |-> FALSE]
    /\ addr = 0
    /\ longa = FALSE /\ longi = FALSE
    /\ machine = IF Programs[unit].output \in {"bin", "s19", "s28", "s37", "hex", "tim"} THEN "EM_02" ELSE "EM_816"
    /\ regs = [pc |-> 0, dbreg |-> 0, dpage |-> 0, pbreg |-> 0, entry |-> 0]
    /\ current_label = NoName

Statement == \/ PushLiteral \/ PushVar \/ Equal \/ Binary \/ Compare \/ Unary
             \/ SetOrigin \/ SetWidth \/ SetCpu \/ SetRegister \/ SetPass \/ SetName \/ Title
             \/ Label \/ LocalLabel
             \/ EmitInstr \/ Byte \/ Word \/ EmitText \/ Fill \/ ToDo
             \/ Error \/ ErrorIfNot
             \/ IfBegin \/ ElseIfBegin \/ ElseBegin \/ ScopeEnd \/ Skip
             \/ MacroCall \/ MacroReturn

Next == \/ Statement \/ Crash
        \/ BeginSection \/ EndSection
        \/ AnotherPass \/ OutputPass \/ GiveUp \/ Finish

(* The assembler is one process that runs as long as there is something to do. *)
Spec == Init /\ [][Next]_vars /\ WF_vars(Next)
=============================================================================
