---------------------------- MODULE Disassembler ----------------------------
(***************************************************************************)
(* The listing that the Oberon compiler's disassembler makes of a module's *)
(* code (oc/src/disasm.c and cpu.c): from the start of the code it takes   *)
(* one instruction after the other, and follows REP and SEP to know how    *)
(* long an immediate operand is.  How it prints them is left out.          *)
(***************************************************************************)
EXTENDS Integers, Sequences, FiniteSets, TLC

(* The eight accumulator operations are one row of thirty-two first bytes   *)
(* apart; a column of the row is an addressing mode.                        *)
Columns(row, columns) == {32 * row + c : c \in columns}

-----------------------------------------------------------------------------
(* byte_to_opcode: the operation shown; the bytes it does not know are nops. *)

All == {\h01, \h05, \h07, \h09, \h0d, \h11, \h12, \h15, \h17, \h19, \h1d}
Plain == {\h05, \h09, \h0d, \h15, \h19, \h1d}
Shift == {\h06, \h0a, \h0e, \h16, \h1e}
byte_to_opcode_rows ==
    [ora |-> Columns(0, All), and |-> Columns(1, All), eor |-> Columns(2, All), adc |-> Columns(3, Plain),
     sta |-> Columns(4, (Plain \ {\h09}) \cup {\h03, \h07, \h11, \h12, \h13}),
     lda |-> Columns(5, Plain \cup {\h03, \h07, \h11, \h12, \h13, \h17}),
     cmp |-> Columns(6, Plain \cup {\h03}), sbc |-> Columns(7, Plain),
     asl |-> Columns(0, Shift), rol |-> Columns(1, Shift), lsr |-> Columns(2, Shift)]
byte_to_opcode_single ==
    [brk |-> {\h00}, bpl |-> {\h10}, clc |-> {\h18}, inc |-> {\h1a}, tcs |-> {\h1b}, jsr |-> {\h20}, jsl |-> {\h22},
     bmi |-> {\h30}, sec |-> {\h38}, dec |-> {\h3a}, tsc |-> {\h3b}, rti |-> {\h40}, bvc |-> {\h50}, rts |-> {\h60},
     rtl |-> {\h6b}, bvs |-> {\h70}, bra |-> {\h80}, brl |-> {\h82}, txa |-> {\h8a}, bcc |-> {\h90}, tya |-> {\h98},
     ldy |-> {\ha0, \ha4}, ldx |-> {\ha6}, tay |-> {\ha8}, tax |-> {\haa}, bcs |-> {\hb0}, rep |-> {\hc2},
     iny |-> {\hc8}, bne |-> {\hd0}, phx |-> {\hda}, sep |-> {\he2}, inx |-> {\he8}, beq |-> {\hf0}, plx |-> {\hfa},
     xce |-> {\hfb}]
Named_opcodes == byte_to_opcode_rows @@ byte_to_opcode_single
byte_to_opcode ==
    [byte \in 0 .. 255 |->
        LET names == {n \in DOMAIN Named_opcodes : byte \in Named_opcodes[n]}
        IN  IF names = {} THEN "nop" ELSE CHOOSE n \in names : TRUE]

-----------------------------------------------------------------------------
(* decode_instruction: the length; a byte it does not know is one long.     *)

ImmediateA == Columns(0, {\h09}) \cup Columns(1, {\h09}) \cup Columns(2, {\h09}) \cup Columns(3, {\h09})
              \cup Columns(5, {\h09}) \cup Columns(6, {\h09}) \cup Columns(7, {\h09})
ImmediateXY == {\ha0, \ha2, \hc0, \he0}
Branches == {\h10, \h30, \h50, \h70, \h80, \h90, \hb0, \hd0, \hf0}
Rows(rows, columns) == {32 * row + c : row \in rows, c \in columns}
LengthOneKnown == {\h0a, \h18, \h2a, \h38, \h40, \h4a, \h60, \h6b, \hea, \hfb}
LengthTwo ==
    {\h00, \hc2, \he2, \ha4, \ha6, \hc3} \cup Branches
    \cup Rows(0 .. 2, {\h01, \h06, \h16}) \cup Rows({0, 1, 2, 3, 4, 5, 7}, {\h05, \h12, \h15})
    \cup Rows({0, 1, 2, 4, 5}, {\h07, \h11, \h17}) \cup Rows({4, 5}, {\h03, \h13})
LengthThree == {\h20, \h82} \cup Rows({0, 1, 2, 3, 4, 5, 7}, {\h0d, \h19, \h1d}) \cup Rows(0 .. 2, {\h0e, \h1e})
Undecoded == (0 .. 255) \ (ImmediateA \cup ImmediateXY \cup LengthOneKnown \cup LengthTwo \cup LengthThree \cup {\h22})

decode_instruction(byte, status) ==
    IF byte \in ImmediateA THEN IF status.m THEN 2 ELSE 3
    ELSE IF byte \in ImmediateXY THEN IF status.x THEN 2 ELSE 3
    ELSE IF byte \in LengthTwo THEN 2 ELSE IF byte \in LengthThree THEN 3 ELSE IF byte = \h22 THEN 4 ELSE 1

\* A mutant: SEP leaves the widths.
update_processor_status_rep(status, byte, operand) ==
    [m |-> status.m /\ ~(byte = \hc2 /\ (operand \div 32) % 2 = 1),
     x |-> status.x /\ ~(byte = \hc2 /\ (operand \div 16) % 2 = 1)]
\* REP clears and SEP sets the widths of A and of X and Y.
update_processor_status(status, byte, operand) ==
    LET changed(flag, bit) ==
            IF (operand \div bit) % 2 = 0 THEN flag
            ELSE IF byte = \he2 THEN TRUE ELSE IF byte = \hc2 THEN FALSE ELSE flag
    IN  [m |-> changed(status.m, 32), x |-> changed(status.x, 16)]

\* An instruction of the listing, and the widths before it.
disassemble_instruction(code, pc, status) ==
    LET byte == code[pc + 1]
    IN  [name |-> byte_to_opcode[byte], length |-> decode_instruction(byte, status),
         m |-> status.m, x |-> status.x]
List(code, s) ==
    LET line == disassemble_instruction(code, s.pc, s.status)
        next == s.pc + line.length
    IN  [pc |-> next, lines |-> s.lines @@ (s.pc :> line),
         status |-> IF line.length = 2 /\ next <= Len(code)
                    THEN update_processor_status(s.status, code[s.pc + 1], code[next]) ELSE s.status]
\* The loop, up to 2^k times: half of them and then the others.
RECURSIVE Loop_disassemble(_, _, _)
Loop_disassemble(code, s, k) ==
    IF s.pc >= Len(code) THEN s
    ELSE IF k = 0 THEN List(code, s)
    ELSE Loop_disassemble(code, Loop_disassemble(code, s, k - 1), k - 1)
disassemble_code(code) ==
    Loop_disassemble(code, [pc |-> 0, lines |-> [at \in {} |-> <<>>], status |-> [m |-> FALSE, x |-> FALSE]], 16).lines
=============================================================================
