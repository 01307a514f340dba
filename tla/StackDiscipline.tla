-------------------------- MODULE StackDiscipline --------------------------
(***************************************************************************)
(* The processor running a program that keeps to the rules of the stack:   *)
(* it pulls what it pushed, in the width it pushed it, returns from what   *)
(* it called and from the interrupts that came, moves the stack pointer in *)
(* no other way and keeps within the stack.  items is the stack as the     *)
(* program understands it; the module says what the emulation owes such a  *)
(* program.  On the 65C816 the program leaves interrupts off in emulation  *)
(* mode, where the frame step_wdc pushes is a byte longer than the one     *)
(* op_rti pulls.                                                           *)
(***************************************************************************)
EXTENDS CPU65816, SequencesExt

CONSTANTS
    Disciplined, \* the programs that keep to the rules, some of Programs
    Depth        \* the bytes they keep on the stack at most

ASSUME DisciplineAssumption == Disciplined \subseteq Programs /\ Depth \in Nat

VARIABLES
    rules,       \* whether the program keeps to the rules
    items        \* what such a program has on the stack, the oldest first

svars == <<cpu, ir, rules, items>>

Near  == {"JSR", "JSB"}
Frame == {"BRK", "COP", "interrupt"}

\* The bytes an instruction pushes, by the width the machine is in.
Pushes(s, op) ==
    CASE op = "PHA" -> IF M8(s) THEN 1 ELSE 2
      [] op \in {"PHX", "PHY"} -> IF X8(s) THEN 1 ELSE 2
      [] op \in {"PHB", "PHK", "PHP"} -> 1
      [] op \in {"PHD", "PEA", "PER", "PEI", "PHW", "PHI", "JSR", "JSB"} -> 2
      [] op \in {"PSH", "JSL"} -> 3
      [] op \in Frame -> IF s.e THEN 3 ELSE 4
      [] OTHER -> 0

\* The items an instruction pulls, by kind and size.
Pulls(s, op, item) ==
    CASE op = "PLA" -> item.kind = "PHA" /\ item.size = (IF M8(s) THEN 1 ELSE 2)
      [] op = "PLX" -> item.kind \in {"PHX", "PHY"} /\ item.size = (IF X8(s) THEN 1 ELSE 2)
      [] op = "PLY" -> item.kind = "PHY" /\ item.size = (IF X8(s) THEN 1 ELSE 2)
      [] op = "PLB" -> item.kind \in {"PHB", "PHK"}
      [] op = "PLD" -> item.kind \in {"PHD", "PEA", "PER", "PEI"}
      [] op = "PLP" -> item.kind = "PHP"
      [] op = "PUL" -> item.kind = "PSH"
      [] op = "PLW" -> item.kind = "PHW"
      [] op \in {"PLI", "PIA"} -> item.kind = "PHI"
      [] op = "RTS" -> item.kind \in Near
      [] op = "RTL" -> item.kind = "JSL"
      [] op = "RTI" -> item.kind \in Frame

PullOps == {"PLA", "PLX", "PLY", "PLB", "PLD", "PLP", "PUL", "PLW", "PLI", "PIA",
            "RTS", "RTL", "RTI"}
Movers == {"TXS", "TCS"}

\* An item remembers the stack pointer and the registers it was pushed with and,
\* for a call or an interrupt, where the program is to go on.
Registers(s) == [a |-> s.a, x |-> s.x, y |-> s.y, dp |-> s.dp, dbr |-> s.dbr, pbr |-> s.pbr,
                 p |-> s.p, wl |-> s.wl, wh |-> s.wh, i |-> s.i]
CallLength(op) ==
    CASE op = "JSR" -> 3 [] op = "JSL" -> 4 [] op = "COP" -> 2
      [] op = "BRK" -> (IF cpu.type = "L28" THEN 1 ELSE 2)
      [] OTHER -> 1
Item(op, s, back) ==
    [kind |-> op, size |-> Pushes(s, op), sp |-> s.sp, back |-> back, was |-> Registers(s)]
Pushed(op) ==
    Item(op, cpu, [Continuation(cpu) EXCEPT !.pc = (cpu.pc + CallLength(op)) % WordSize])

\* The stack after the instruction and after the interrupt that followed it.
After(op) == IF op \in PullOps THEN Front(items)
             ELSE IF Pushes(cpu, op) > 0 THEN Append(items, Pushed(op)) ELSE items
Below(s, n) == IF s.e THEN join((lo(s.sp) - n) % ByteSize, hi(s.sp)) ELSE (s.sp - n) % WordSize
Entered(stack, sp) == Append(stack, [Item("interrupt", cpu', ir'.next) EXCEPT !.sp = sp])
Used(stack) == FoldSeq(LAMBDA item, n : n + item.size, 0, stack)
Bottom(op) == IF op \in PullOps THEN Last(items).sp
              ELSE IF Pushes(cpu, op) > 0 THEN Below(cpu, Pushes(cpu, op)) ELSE cpu.sp

SInit == Init /\ rules = (ir.left \in Disciplined) /\ items = <<>>

Keeps ==
    LET op  == IF ir' = ir THEN "halt" ELSE ir'.op
        irq == ir' # ir /\ ir'.irq
    IN  /\ op \in PullOps => items # <<>> /\ Pulls(cpu, op, Last(items))
        /\ op = "XCE" => items = <<>>
        /\ op \notin Movers
        /\ irq /\ cpu.type = "WDC" => ~cpu'.e
        /\ items' = IF irq THEN Entered(After(op), Bottom(op)) ELSE After(op)
        /\ Used(items') <= Depth

Step == Next /\ (IF rules THEN Keeps ELSE UNCHANGED items) /\ UNCHANGED rules

SSpec == SInit /\ [][Step]_svars

-----------------------------------------------------------------------------
(* What the emulation owes the program.                                    *)

\* The stack pointer is where the program expects it: below the item pushed
\* last, and every item where the one before it ends.  A push, a pull or a frame
\* of another size than its counterpart's shows here (pushByte .. pullWord,
\* op_psh .. op_pia, the interrupts and op_rti).
PointerFollowsItems ==
    items # <<>> =>
        /\ Below([cpu EXCEPT !.sp = Last(items).sp], Last(items).size) = cpu.sp
        /\ \A k \in 1 .. Len(items) - 1 :
               Below([cpu EXCEPT !.sp = items[k].sp], items[k].size) = items[k + 1].sp

\* A return goes back to where the call was made or the interrupt came, and an
\* interrupted program has its flags back, whatever ran in between.
ReturnsWhereItCame ==
    [][ rules /\ ir' # ir =>
        /\ ir'.op = "RTS" => ir'.next.pc = Last(items).back.pc
        /\ ir'.op = "RTL" => ir'.next.pc = Last(items).back.pc /\ ir'.next.pbr = Last(items).back.pbr
        /\ ir'.op = "RTI" => /\ ir'.next.pc = Last(items).back.pc
                             /\ ir'.next.p = Last(items).back.p
                             /\ ir'.next.pbr = Last(items).back.pbr \/ cpu.e ]_svars

\* What is pulled is what was pushed, however many items lay above it meanwhile.
PullsWhatWasPushed ==
    [][ rules /\ ir' # ir =>
        LET was == Last(items).was  kind == Last(items).kind
        IN  /\ ir'.op = "PLA" => Part(cpu'.a, SizeM(cpu)) = Part(was.a, SizeM(cpu))
            /\ ir'.op = "PLX" => cpu'.x = Part(IF kind = "PHX" THEN was.x ELSE was.y, SizeX(cpu))
            /\ ir'.op = "PLY" => cpu'.y = Part(was.y, SizeX(cpu))
            /\ ir'.op = "PLB" => cpu'.dbr = (IF kind = "PHB" THEN was.dbr ELSE was.pbr)
            /\ ir'.op = "PLD" /\ kind = "PHD" => cpu'.dp = was.dp
            /\ ir'.op = "PLP" => ir'.next.p = was.p
            /\ ir'.op = "PUL" => lo(cpu'.a) = lo(was.a) /\ cpu'.x = was.x /\ cpu'.y = was.y
            /\ ir'.op = "PLW" => cpu'.wl = was.wl /\ cpu'.wh = was.wh
            /\ ir'.op = "PLI" => cpu'.i = was.i ]_svars
=============================================================================
