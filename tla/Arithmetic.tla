----------------------------- MODULE Arithmetic -----------------------------
(***************************************************************************)
(* What the processor's manual says of its arithmetic (module ALU65816).   *)
(*                                                                         *)
(* The operands are any two words, read as four bytes where an operation   *)
(* takes bytes; step by step the carry and the decimal flag change.        *)
(***************************************************************************)
EXTENDS ALU65816

\* A digit holds 0 to 9 at least, and the digits fill a byte.
ASSUME DigitAssumption == DigitBits >= 4 /\ ByteBits % DigitBits = 0

VARIABLES wordA, wordB, carryIn, inDecimal
operands == <<wordA, wordB, carryIn, inDecimal>>

OperandsInit == wordA \in Word /\ wordB \in Word /\ carryIn = 0 /\ inDecimal = FALSE
FlipCarry == carryIn = 0 /\ carryIn' = 1 /\ UNCHANGED <<wordA, wordB, inDecimal>>
FlipMode == ~inDecimal /\ inDecimal' = TRUE /\ UNCHANGED <<wordA, wordB, carryIn>>
OperandsSpec == OperandsInit /\ [][FlipCarry \/ FlipMode]_operands

-----------------------------------------------------------------------------
(* In binary.                                                              *)

InRange(v, M) == -(M \div 2) <= v /\ v < M \div 2
Nearest(v, M) == IF v >= M \div 2 THEN M \div 2 - 1 ELSE IF v < -(M \div 2) THEN -(M \div 2) ELSE v

\* The sum of two signed numbers is right unless V says it does not fit, and C
\* is the carry of the unsigned sum; a difference likewise, with C for "nothing
\* borrowed", and a comparison orders as the difference does (op_adc, op_sbc,
\* op_cmp).
SumsAreSigned ==
    ~inDecimal =>
        LET r == AddWithCarry(wordA, wordB, carryIn, FALSE, WordSize)
            s == SubtractWithBorrow(wordA, wordB, carryIn, FALSE, WordSize)
            sum == Signed(wordA, WordSize) + Signed(wordB, WordSize) + carryIn
            difference == Signed(wordA, WordSize) - Signed(wordB, WordSize) - 1 + carryIn
        IN  /\ r.o <=> ~InRange(sum, WordSize)
            /\ s.o <=> ~InRange(difference, WordSize)
            /\ ~r.o => Signed(r.v, WordSize) = sum
            /\ ~s.o => Signed(s.v, WordSize) = difference
            /\ r.c = (IF wordA + wordB + carryIn >= WordSize THEN 1 ELSE 0)
            /\ s.c = (IF wordA >= wordB + 1 - carryIn THEN 1 ELSE 0)
            /\ carryIn = 1 => Compare(wordA, wordB, WordSize) = [v |-> s.v, c |-> s.c]

\* The L28's signed arithmetic gives the number it should or, where that does
\* not fit, the nearest there is (op_mpy, op_mpa, op_rnd, op_neg, op_asra).
SignedResults ==
    LET w == Signed(wordA, WordSize)
        l == lo(wordB)  x == Signed(l, ByteSize)
        h == hi(wordB)  y == Signed(h, ByteSize)
    IN  /\ Signed(Multiply(l, h), WordSize) = x * y
        /\ Signed(MultiplyAdd(wordA, l, h).v, WordSize) = Nearest(w + x * y, WordSize)
        /\ MultiplyAdd(wordA, l, h).o <=> ~InRange(w + x * y, WordSize)
        /\ Signed(Round(wordA), ByteSize) = Nearest((w + ByteSize \div 2) \div ByteSize, ByteSize)
        /\ Negate(l) # l => Signed(Negate(l), ByteSize) = -x
        /\ Magnitude(l) # ByteSize \div 2 => Signed(Magnitude(l), ByteSize) = (IF x < 0 THEN -x ELSE x)
        /\ Signed(ShiftRightSigned(l, ByteSize).v, ByteSize) = x \div 2

-----------------------------------------------------------------------------
(* In decimal.                                                             *)

Unit(k) == 2 ^ (DigitBits * k)
DigitOf(v, k) == (v \div Unit(k)) % DigitSize
Columns == Digits(WordSize)
IsDecimal(v) == \A k \in 0 .. Columns - 1 : DigitOf(v, k) < 10

\* The number that a carry and the digits of a value say.
NumberOf(c, v) ==
    LET number[k \in 0 .. Columns] ==
            IF k = 0 THEN c ELSE 10 * number[k - 1] + DigitOf(v, Columns - k)
    IN  number[Columns]

\* What is carried into the columns of a sum on paper, and what a column adds up to.
Carries(a, b, c) ==
    LET carry[k \in 0 .. Columns] ==
            IF k = 0 THEN c
            ELSE IF DigitOf(a, k - 1) + DigitOf(b, k - 1) + carry[k - 1] > 9 THEN 1 ELSE 0
    IN  carry
ColumnSum(a, b, c, k) == DigitOf(a, k) + DigitOf(b, k) + Carries(a, b, c)[k]

\* In decimal the sum of two numbers is their sum as long as no two digits and
\* their carry reach sixteen: the code looks at the digit of the sum alone and
\* misses a nine and a nine (op_adc).
DecimalSums ==
    LET r == AddWithCarry(wordA, wordB, carryIn, TRUE, WordSize)
        small == \A k \in 0 .. Columns - 1 : ColumnSum(wordA, wordB, carryIn, k) < 16
    IN  inDecimal /\ IsDecimal(wordA) /\ IsDecimal(wordB) /\ small =>
            /\ IsDecimal(r.v)
            /\ NumberOf(r.c, r.v) = NumberOf(0, wordA) + NumberOf(0, wordB) + carryIn

\* An operation on a word is two on its bytes with the carry handed on, in
\* decimal as well while the digits are digits: multi-byte code relies on it
\* (op_adc, op_rol, op_ror, op_asl).
BytesChain ==
    (inDecimal => IsDecimal(wordA) /\ IsDecimal(wordB)) =>
        LET low == AddWithCarry(lo(wordA), lo(wordB), carryIn, inDecimal, ByteSize)
            high == AddWithCarry(hi(wordA), hi(wordB), low.c, inDecimal, ByteSize)
            both == AddWithCarry(wordA, wordB, carryIn, inDecimal, WordSize)
            rolled == RotateLeft(lo(wordA), carryIn, ByteSize)
            rored == RotateRight(hi(wordA), carryIn, ByteSize)
        IN  /\ join(low.v, high.v) = both.v /\ high.c = both.c /\ high.o = both.o
            /\ join(rolled.v, RotateLeft(hi(wordA), rolled.c, ByteSize).v)
                   = RotateLeft(wordA, carryIn, WordSize).v
            /\ join(RotateRight(lo(wordA), rored.c, ByteSize).v, rored.v)
                   = RotateRight(wordA, carryIn, WordSize).v
            /\ RotateRight(RotateLeft(wordA, carryIn, WordSize).v, ShiftLeft(wordA, WordSize).c, WordSize).v
                   = wordA
=============================================================================
