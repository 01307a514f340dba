------------------------------ MODULE ALU65816 ------------------------------
(***************************************************************************)
(* The arithmetic of the emulated 65C816 (em16/include/emu816.h): values   *)
(* of one byte or of one word, the flags an operation leaves, the decimal  *)
(* adjustment, the comparisons, the shifts and the signed arithmetic of    *)
(* the L28's extra instructions.                                           *)
(*                                                                         *)
(* A byte has ByteBits bits (eight in the code) and a digit DigitBits      *)
(* (four).  An operation of either width takes the modulus N of its width, *)
(* ByteSize or WordSize; the code writes every operation out twice.        *)
(***************************************************************************)
EXTENDS Integers

CONSTANTS ByteBits, DigitBits

ASSUME WidthAssumption == ByteBits \in Nat \ {0} /\ DigitBits \in Nat \ {0}

ByteSize == 2 ^ ByteBits
WordSize == ByteSize * ByteSize
DigitSize == 2 ^ DigitBits

Byte == 0 .. ByteSize - 1
Word == 0 .. WordSize - 1

lo(w) == w % ByteSize
hi(w) == (w \div ByteSize) % ByteSize
join(l, h) == l + ByteSize * h
swap(w) == join(hi(w), lo(w))

Bit(v, k) == (v \div 2 ^ k) % 2
Negative(v, N) == 2 * v >= N
Signed(v, N) == IF Negative(v, N) THEN v - N ELSE v

\* The number whose bits, the lowest first, are b[1] .. b[n].
OfBits(b, n) ==
    LET sum[k \in 0 .. n] == IF k = 0 THEN 0 ELSE sum[k - 1] + 2 ^ (k - 1) * b[k]
    IN  sum[n]
BitsOf(N) == IF N = ByteSize THEN ByteBits ELSE 2 * ByteBits

\* A bitwise operation applies to the bits of its operands one by one.
Bitwise2(f(_, _), v, w, N) ==
    OfBits([k \in 1 .. BitsOf(N) |-> f(Bit(v, k - 1), Bit(w, k - 1))], BitsOf(N))
And(v, w, N) == Bitwise2(LAMBDA x, y : x * y, v, w, N)
Or(v, w, N)  == Bitwise2(LAMBDA x, y : x + y - x * y, v, w, N)
Eor(v, w, N) == Bitwise2(LAMBDA x, y : (x + y) % 2, v, w, N)

-----------------------------------------------------------------------------
(* Addition and subtraction.  c is the carry that comes in, 0 or 1, d says *)
(* whether the decimal flag is set; the result has the value v, the carry  *)
(* c and the overflow o.                                                   *)

\* The digits of a value, the last one narrower where they do not divide it.
Digits(N) == (BitsOf(N) + DigitBits - 1) \div DigitBits

\* A mutant: the adjustment begins one digit late.
DecimalAdjustLate(sum, N) ==
    LET adjusted[k \in 0 .. Digits(N)] ==
            IF k = 0 THEN sum
            ELSE LET t == adjusted[k - 1]
                     unit == 2 ^ (DigitBits * (k - 1))
                 IN  IF (t \div unit) % DigitSize > 10
                     THEN t + (DigitSize - 10) * unit ELSE t
    IN  adjusted[Digits(N)]
\* Every digit above nine gets six added, the lowest digit first.
DecimalAdjust(sum, N) ==
    LET adjusted[k \in 0 .. Digits(N)] ==
            IF k = 0 THEN sum
            ELSE LET t == adjusted[k - 1]
                     unit == 2 ^ (DigitBits * (k - 1))
                 IN  IF (t \div unit) % DigitSize > 9
                     THEN t + (DigitSize - 10) * unit ELSE t
    IN  adjusted[Digits(N)]

AddWithCarry(a, data, c, d, N) ==
    LET sum == a + data + c
        temp == IF d THEN DecimalAdjust(sum, N) ELSE sum
    IN  [v |-> temp % N,
         c |-> (temp \div N) % 2,
         o |-> /\ Negative(a, N) = Negative(data, N)
               /\ Negative(a, N) # Negative(temp % N, N)]

\* A mutant: the two's complement instead of the complement.
SubtractTwosComplement(a, data, c, d, N) == AddWithCarry(a, N - data, c, d, N)
\* The complement of the operand is added, with the same adjustment.
SubtractWithBorrow(a, data, c, d, N) == AddWithCarry(a, N - 1 - data, c, d, N)

\* The L28's addition without the carry.
AddWithoutCarry(a, data, N) == AddWithCarry(a, data, 0, FALSE, N)

\* CMP sets the carry when nothing is borrowed, CPX and CPY when something is.
Compare(r, data, N) == [v |-> (r - data) % N, c |-> IF r >= data THEN 1 ELSE 0]
CompareIndex(r, data, N) == [v |-> (r - data) % N, c |-> IF r < data THEN 1 ELSE 0]

-----------------------------------------------------------------------------
(* Shifts: the value and the bit that falls out.                           *)

ShiftLeft(v, N) == [v |-> (2 * v) % N, c |-> (2 * v) \div N]
ShiftRight(v, N) == [v |-> v \div 2, c |-> v % 2]
\* A mutant: a rotation that shifts in none.
RotateRightNoCarry(v, c, N) == [v |-> v \div 2, c |-> v % 2]
RotateLeft(v, c, N) == [v |-> (2 * v + c) % N, c |-> (2 * v) \div N]
RotateRight(v, c, N) == [v |-> v \div 2 + c * (N \div 2), c |-> v % 2]
ShiftRightSigned(v, N) ==
    [v |-> v \div 2 + (IF Negative(v, N) THEN N \div 2 ELSE 0), c |-> v % 2]

-----------------------------------------------------------------------------
(* The L28's signed arithmetic on bytes and on the word W = wh:wl.         *)

\* A product as a word: its high byte goes to A, its low byte to Y.
Multiply(a, y) == (Signed(a, ByteSize) * Signed(y, ByteSize)) % WordSize

\* W plus a product, held at the largest and the smallest word.
MultiplyAdd(w, a, y) ==
    LET result == Signed(w, WordSize) + Signed(a, ByteSize) * Signed(y, ByteSize)
        top == WordSize \div 2 - 1
        held == IF result > top THEN top ELSE IF result < -top - 1 THEN -top - 1 ELSE result
    IN  [v |-> held % WordSize, o |-> held # result]

\* A mutant: nothing holds the result at the largest byte.
RoundUnheld(w) == ((Signed(w, WordSize) + ByteSize \div 2) \div ByteSize) % ByteSize
\* The high byte of W, rounded, held at the largest and the smallest byte.
Round(w) ==
    LET result == (Signed(w, WordSize) + ByteSize \div 2) \div ByteSize
        top == ByteSize \div 2 - 1
    IN  (IF result > top THEN top ELSE IF result < -top - 1 THEN -top - 1 ELSE result)
            % ByteSize

\* The least byte has no negative; it stays.
Negate(a) == IF a = ByteSize \div 2 THEN a ELSE (ByteSize - a) % ByteSize
Magnitude(a) == IF Negative(a, ByteSize) THEN Negate(a) ELSE a
=============================================================================
