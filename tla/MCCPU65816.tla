---------------------------- MODULE MCCPU65816 ----------------------------
(* Short programs of every instruction of the three processors: the first  *)
(* two steps bring the machine into its modes and widths, the last one is  *)
(* any instruction.  And programs of six steps that keep to the rules of   *)
(* the stack, in both modes.  Bytes have eight bits; memory is sixteen     *)
(* bytes.                                                                  *)
EXTENDS StackDiscipline

MCVector == [BRK |-> 257, COP |-> 258, IRQ |-> 259, IRQ0 |-> 260, JSB |-> 261]
Pushing == {"PHA", "PHX", "PHY", "PHP", "JSR", "BRK", "PHB", "PHK", "PHD", "JSL", "COP",
            "PSH", "PHW", "PHI", "JSB"}
Pulling == {"PLA", "PLX", "PLY", "PLP", "RTS", "RTI", "PLB", "PLD", "RTL", "PUL", "PLW", "PLI",
            "PIA"}

AnyInstruction ==
    <<{"LDA", "LDX", "SEC", "CLI"}, {"XCE", "SEP", "TCS", "TXS", "PHP", "TAX"}, Mnemonics>>
WithStack ==
    <<{"CLI", "LDA", "SEC"}, {"SEP", "LDX", "XCE", "TAW"}, Pushing,
      Pushing \cup Pulling \cup {"LDA"}, Pulling, Pulling>>
MCPrograms == {AnyInstruction, WithStack}
MCDisciplined == {WithStack}
MCMasks == {{"x"}, {"m", "d"}}
===========================================================================
