--------------------------- MODULE CPU65816_proofs ---------------------------
(***************************************************************************)
(* What is proved of the emulated processors, of the programs that keep to *)
(* the rules of the stack and of the arithmetic, for every width of a byte *)
(* and of a digit, every size of the memory and every set of programs.     *)
(*                                                                         *)
(* An operation is said to leave the machine Untouched if the registers an *)
(* invariant is about stay, to slide it by n if the pointer goes n bytes   *)
(* down besides, and to move it by n if the registers may change within    *)
(* their widths as well.  Every instruction is one of those, or has a      *)
(* Result of its own; the invariants follow from that alone.               *)
(*                                                                         *)
(* A sum in decimal is followed column by column: what the adjustment      *)
(* leaves in a column, and what is carried out of it, is what it should be *)
(* on paper.                                                               *)
(***************************************************************************)
EXTENDS StackDiscipline, Arithmetic, FiniteSetTheorems, FunctionTheorems, WellFoundedInduction,
        SequenceTheorems, TLAPS

-----------------------------------------------------------------------------
(* Induction, and the powers of two.                                       *)

Less == {p \in Nat \X Nat : p[1] < p[2]}

\* Every nonempty set of naturals has a least element: the form of induction the
\* proofs use, on the set of counterexamples.
LEMMA LeastElement ==
  ASSUME NEW T \in SUBSET Nat, T # {}
  PROVE  \E n \in T : \A m \in T : n <= m
<1>1. IsWellFoundedOn(Less, Nat)
  BY NatLessThanWellFounded DEF OpToRel, Less
<1>2. PICK n \in T : \A m \in T : ~ (<<m, n>> \in Less)
  BY <1>1, WFMin
<1>3. ASSUME NEW m \in T PROVE n <= m
  <2>1. n \in Nat /\ m \in Nat
    OBVIOUS
  <2>2. ~ (m < n)
    BY <1>2, <2>1 DEF Less
  <2>3. QED
    BY <2>1, <2>2
<1>4. QED
  BY <1>3

\* A set of numbers with 0 and every successor up to N has all of them up to N.
LEMMA InductionUpTo ==
  ASSUME NEW N \in Nat, NEW S, 0 \in S, \A n \in 1 .. N : n - 1 \in S => n \in S
  PROVE  \A n \in 0 .. N : n \in S
<1> DEFINE Bad == {n \in 0 .. N : n \notin S}
<1>1. SUFFICES ASSUME Bad # {} PROVE FALSE
  OBVIOUS
<1>2. Bad \in SUBSET Nat
  OBVIOUS
<1>3. PICK n \in Bad : \A m \in Bad : n <= m
  BY <1>1, <1>2, LeastElement
<1>4. n \in 1 .. N /\ n - 1 \in 0 .. N /\ ~(n <= n - 1)
  OBVIOUS
<1>5. n - 1 \in S
  BY <1>3, <1>4
<1>6. QED
  BY <1>4, <1>5

StepFunctions(N, T) == [T \X (1 .. N) -> T]

\* The functions that start at a and follow the step g.
Recursions(N, T, a, g) ==
  {f \in [0 .. N -> T] : f[0] = a /\ \A n \in 1 .. N : f[n] = g[<<f[n - 1], n>>]}

\* A recursion over 0..N whose steps stay in T defines a function into T.
LEMMA RecursionOnInterval ==
  ASSUME NEW N \in Nat, NEW T, NEW a \in T, NEW g \in StepFunctions(N, T)
  PROVE  Recursions(N, T, a, g) # {}
<1>0. g \in [T \X (1 .. N) -> T]
  BY DEF StepFunctions
<1> DEFINE Upto(k) == \E f \in [0 .. k -> T] :
                        /\ f[0] = a
                        /\ \A n \in 1 .. k : f[n] = g[<<f[n - 1], n>>]
           Bad == {k \in 0 .. N : ~Upto(k)}
<1>1. Upto(0)
  <2>1. [n \in 0 .. 0 |-> a] \in [0 .. 0 -> T]
    OBVIOUS
  <2>2. [n \in 0 .. 0 |-> a][0] = a
    OBVIOUS
  <2>3. \A n \in 1 .. 0 : FALSE
    OBVIOUS
  <2>4. QED
    BY <2>1, <2>2, <2>3
<1>2. ASSUME NEW k \in 1 .. N, Upto(k - 1) PROVE Upto(k)
  <2>1. PICK f \in [0 .. (k - 1) -> T] :
               /\ f[0] = a
               /\ \A n \in 1 .. (k - 1) : f[n] = g[<<f[n - 1], n>>]
    BY <1>2
  <2> DEFINE h == [n \in 0 .. k |-> IF n = k THEN g[<<f[k - 1], k>>] ELSE f[n]]
  <2>2. f[k - 1] \in T
    OBVIOUS
  <2>3. g[<<f[k - 1], k>>] \in T
    BY <1>0, <2>2
  <2>4. \A n \in 0 .. (k - 1) : n \in 0 .. k /\ n # k
    OBVIOUS
  <2>5. \A n \in 0 .. k : n # k => n \in 0 .. (k - 1)
    OBVIOUS
  <2>6. h \in [0 .. k -> T]
    BY <2>3, <2>5
  <2>7. h[0] = a
    BY <2>1, <2>4
  <2>8. ASSUME NEW n \in 1 .. k PROVE h[n] = g[<<h[n - 1], n>>]
    <3>1. n \in 0 .. k /\ n - 1 \in 0 .. k /\ n - 1 # k
      OBVIOUS
    <3>2. h[n - 1] = f[n - 1]
      BY <3>1
    <3>3. CASE n = k
      BY <3>1, <3>2, <3>3
    <3>4. CASE n # k
      <4>1. n \in 1 .. (k - 1)
        BY <3>4
      <4>2. h[n] = f[n]
        BY <3>1, <3>4
      <4>3. QED
        BY <2>1, <3>2, <4>1, <4>2
    <3>5. QED
      BY <3>3, <3>4
  <2>9. QED
    BY <2>6, <2>7, <2>8
<1>3. Bad = {}
  <2>1. SUFFICES ASSUME Bad # {} PROVE FALSE
    OBVIOUS
  <2>2. Bad \in SUBSET Nat
    OBVIOUS
  <2>3. PICK k \in Bad : \A m \in Bad : k <= m
    BY <2>1, <2>2, LeastElement
  <2>4. k # 0
    BY <1>1
  <2>5. k \in 1 .. N /\ k - 1 \in 0 .. N /\ ~(k <= k - 1)
    BY <2>4
  <2>6. Upto(k - 1)
    BY <2>3, <2>5
  <2>7. QED
    BY <1>2, <2>5, <2>6
<1>4. Upto(N)
  <2>1. N \in 0 .. N
    OBVIOUS
  <2>2. QED
    BY <1>3, <2>1
<1>5. QED
  BY <1>4 DEF Recursions

\* The library knows a power of two as the number of subsets of a finite set.
LEMMA PowerIsSubsets ==
  ASSUME NEW n \in Nat
  PROVE  /\ IsFiniteSet(SUBSET (1 .. n))
         /\ 2 ^ n = Cardinality(SUBSET (1 .. n))
<1>1. IsFiniteSet(1 .. n) /\ Cardinality(1 .. n) = n
  BY FS_Interval
<1>2. QED
  BY <1>1, FS_SUBSET

\* The number of subsets of 1 .. n is a natural number, so the power is.
LEMMA PowerNat ==
  ASSUME NEW n \in Nat
  PROVE  2 ^ n \in Nat
BY PowerIsSubsets, FS_CardinalityType

\* Only the empty set is a subset of the empty set.
LEMMA PowerZero == 2 ^ 0 = 1
OBVIOUS

\* Every subset of 1 .. n + 1 is one of 1 .. n, with or without n + 1.
LEMMA PowerNext ==
  ASSUME NEW n \in Nat
  PROVE  2 ^ (n + 1) = 2 * 2 ^ n
<1> DEFINE S == SUBSET (1 .. n)
           T == {s \in SUBSET (1 .. n + 1) : n + 1 \in s}
           f == [s \in S |-> s \cup {n + 1}]
<1>1. IsFiniteSet(S) /\ Cardinality(S) = 2 ^ n /\ 2 ^ n \in Nat
  BY PowerIsSubsets, PowerNat
<1>2. ExistsBijection(S, T)
  <2>1. f \in [S -> T]
    OBVIOUS
  <2>2. \A s, t \in S : f[s] = f[t] => s = t
    <3>1. ASSUME NEW s \in S, NEW t \in S, f[s] = f[t] PROVE s = t
      <4>1. s \cup {n + 1} = t \cup {n + 1}
        BY <3>1
      <4>2. n + 1 \notin s /\ n + 1 \notin t
        OBVIOUS
      <4>3. QED
        BY <4>1, <4>2
    <3>2. QED
      BY <3>1
  <2>3. \A t \in T : \E s \in S : f[s] = t
    <3>1. ASSUME NEW t \in T PROVE \E s \in S : f[s] = t
      <4>1. t \ {n + 1} \in S
        <5>1. ASSUME NEW x \in t, x # n + 1 PROVE x \in 1 .. n
          <6>1. x \in 1 .. n + 1
            OBVIOUS
          <6>2. QED
            BY <5>1, <6>1
        <5>2. QED
          BY <5>1
      <4>2. f[t \ {n + 1}] = t
        BY <4>1
      <4>3. QED
        BY <4>1, <4>2
    <3>2. QED
      BY <3>1
  <2>4. f \in Bijection(S, T)
    BY <2>1, <2>2, <2>3, Fun_IsBij
  <2>5. QED
    BY <2>4 DEF ExistsBijection
<1>3. IsFiniteSet(T) /\ Cardinality(T) = 2 ^ n
  BY <1>1, <1>2, FS_Bijection
<1>4. S \cup T = SUBSET (1 .. n + 1)
  <2>1. ASSUME NEW s \in SUBSET (1 .. n + 1), s \notin T PROVE s \in S
    <3>1. ASSUME NEW x \in s PROVE x \in 1 .. n
      <4>1. x \in 1 .. n + 1 /\ x # n + 1
        BY <2>1
      <4>2. QED
        BY <4>1
    <3>2. QED
      BY <3>1
  <2>2. S \in SUBSET SUBSET (1 .. n + 1)
    <3>1. 1 .. n \subseteq 1 .. n + 1
      OBVIOUS
    <3>2. QED
      BY <3>1
  <2>3. QED
    BY <2>1, <2>2
<1>5. S \cap T = {}
  OBVIOUS
<1>6. Cardinality(S \cup T) = 2 ^ n + 2 ^ n - Cardinality({})
  <2> HIDE DEF S, T
  <2>1. QED
    BY <1>1, <1>3, <1>5, FS_Union
<1>7. Cardinality(SUBSET (1 .. n + 1)) = 2 ^ n + 2 ^ n
  <2>1. Cardinality({}) = 0
    BY FS_EmptySet
  <2>2. Cardinality(S \cup T) = 2 ^ n + 2 ^ n
    BY <1>1, <1>6, <2>1
  <2>3. QED
    BY <1>4, <2>2
<1>8. 2 ^ (n + 1) = Cardinality(SUBSET (1 .. n + 1))
  <2>1. n + 1 \in Nat
    OBVIOUS
  <2>2. QED
    BY <2>1, PowerIsSubsets
<1>9. QED
  BY <1>1, <1>7, <1>8

\* A power is not 0: there is always the empty subset.
LEMMA PowerPositive ==
  ASSUME NEW n \in Nat
  PROVE  2 ^ n \in Nat \ {0}
<1> DEFINE S == {k \in 0 .. n : 2 ^ k \in Nat \ {0}}
<1>1. 0 \in S
  BY PowerZero
<1>2. ASSUME NEW k \in 1 .. n, k - 1 \in S PROVE k \in S
  <2>1. k - 1 \in Nat /\ k = (k - 1) + 1
    OBVIOUS
  <2>2. 2 ^ k = 2 * 2 ^ (k - 1)
    BY <2>1, PowerNext
  <2>3. QED
    BY <1>2, <2>2
<1>3. n \in S
  <2> HIDE DEF S
  <2>1. \A k \in 0 .. n : k \in S
    BY <1>1, <1>2, InductionUpTo
  <2>2. QED
    BY <2>1
<1>4. QED
  BY <1>3

\* A word has twice the bits of a byte and the square of its values.
LEMMA PowerTwice ==
  ASSUME NEW n \in Nat
  PROVE  2 ^ (2 * n) = 2 ^ n * 2 ^ n
<1> DEFINE S == {k \in 0 .. n : 2 ^ (2 * k) = 2 ^ k * 2 ^ k}
<1>1. 0 \in S
  BY PowerZero
<1>2. ASSUME NEW k \in 1 .. n, k - 1 \in S PROVE k \in S
  <2> DEFINE p == 2 ^ (k - 1)
  <2>1. k - 1 \in Nat /\ k = (k - 1) + 1
    OBVIOUS
  <2>2. 2 ^ k = 2 * p
    BY <2>1, PowerNext
  <2>3. 2 * (k - 1) \in Nat /\ 2 * (k - 1) + 1 \in Nat
        /\ 2 * k = (2 * (k - 1) + 1) + 1
    BY <2>1
  <2>4. 2 ^ (2 * (k - 1) + 1) = 2 * 2 ^ (2 * (k - 1))
    BY <2>3, PowerNext
  <2>5. 2 ^ (2 * k) = 2 * (2 * 2 ^ (2 * (k - 1)))
    BY <2>3, <2>4, PowerNext
  <2>6. 2 ^ (2 * (k - 1)) = p * p
    BY <1>2
  <2>7. p \in Nat
    BY <2>1, PowerNat
  <2> HIDE DEF p
  <2>8. 2 * (2 * (p * p)) = (2 * p) * (2 * p)
    BY <2>7
  <2>9. QED
    BY <2>2, <2>5, <2>6, <2>8
<1>3. n \in S
  <2> HIDE DEF S
  <2>1. \A k \in 0 .. n : k \in S
    BY <1>1, <1>2, InductionUpTo
  <2>2. QED
    BY <2>1
<1>4. QED
  BY <1>3

\* A byte has an even number of values, two at least; a word its square.
LEMMA Sizes ==
  /\ ByteSize \in Nat /\ ByteSize >= 2
  /\ \E half \in Nat \ {0} : ByteSize = 2 * half
  /\ WordSize \in Nat /\ WordSize = ByteSize * ByteSize
  /\ 2 ^ ByteBits = ByteSize /\ 2 ^ (2 * ByteBits) = WordSize
<1>1. ByteBits \in Nat /\ ByteBits - 1 \in Nat /\ ByteBits = (ByteBits - 1) + 1
  BY WidthAssumption
<1>2. ByteSize = 2 * 2 ^ (ByteBits - 1) /\ 2 ^ (ByteBits - 1) \in Nat \ {0}
  BY <1>1, PowerNext, PowerPositive DEF ByteSize
<1>3. 2 ^ (2 * ByteBits) = WordSize
  BY <1>1, PowerTwice DEF WordSize, ByteSize
<1> HIDE DEF ByteSize
<1>4. ByteSize \in Nat /\ ByteSize >= 2
  BY <1>2
<1>5. WordSize \in Nat /\ WordSize = ByteSize * ByteSize
  BY <1>4 DEF WordSize
<1>6. QED
  BY <1>2, <1>3, <1>4, <1>5 DEF ByteSize

-----------------------------------------------------------------------------
(* Bytes and words.                                                        *)

\* What the library says of quotient and remainder.
LEMMA Remainder ==
  ASSUME NEW v \in Int, NEW M \in Nat \ {0}
  PROVE  /\ v \div M \in Int /\ v % M \in 0 .. M - 1
         /\ v = M * (v \div M) + (v % M)
OBVIOUS

\* A quotient and a remainder are the only ones.
LEMMA RemainderIs ==
  ASSUME NEW M \in Nat \ {0}, NEW q \in Int, NEW r \in 0 .. M - 1
  PROVE  (M * q + r) \div M = q /\ (M * q + r) % M = r
OBVIOUS

\* A word joined of two bytes has them as halves.
LEMMA Halves ==
  ASSUME NEW l \in Byte, NEW h \in Byte
  PROVE  join(l, h) \in Word /\ lo(join(l, h)) = l /\ hi(join(l, h)) = h
<1>1. ByteSize \in Nat \ {0} /\ WordSize \in Nat /\ WordSize = ByteSize * ByteSize
  BY Sizes
<1>2. l \in 0 .. ByteSize - 1 /\ h \in 0 .. ByteSize - 1
  BY DEF Byte
<1> HIDE DEF ByteSize
<1>3. join(l, h) = ByteSize * h + l
  BY <1>1, <1>2 DEF join
<1>4. join(l, h) \div ByteSize = h /\ join(l, h) % ByteSize = l
  <2>1. h \in Int
    BY <1>2
  <2>2. (ByteSize * h + l) \div ByteSize = h /\ (ByteSize * h + l) % ByteSize = l
    BY <1>1, <1>2, <2>1, RemainderIs
  <2>3. QED
    BY <1>3, <2>2
<1>5. h % ByteSize = h
  BY <1>1, <1>2
<1>6. ByteSize * h <= ByteSize * (ByteSize - 1)
  BY <1>1, <1>2
<1>7. ByteSize * (ByteSize - 1) = ByteSize * ByteSize - ByteSize
  BY <1>1
<1>8. ByteSize * h \in Nat
  BY <1>1, <1>2
<1>9. join(l, h) \in 0 .. WordSize - 1
  BY <1>1, <1>2, <1>3, <1>6, <1>7, <1>8
<1>10. QED
  BY <1>4, <1>5, <1>9 DEF lo, hi, Word

\* The halves of any number are bytes.
LEMMA HalvesType ==
  ASSUME NEW w \in Int
  PROVE  lo(w) \in Byte /\ hi(w) \in Byte
<1>1. ByteSize \in Nat \ {0}
  BY Sizes
<1>2. w % ByteSize \in 0 .. ByteSize - 1 /\ w \div ByteSize \in Int
  BY <1>1, Remainder
<1>3. (w \div ByteSize) % ByteSize \in 0 .. ByteSize - 1
  BY <1>1, <1>2, Remainder
<1>4. QED
  BY <1>2, <1>3 DEF lo, hi, Byte

\* A word is its two halves.
LEMMA WordOfHalves ==
  ASSUME NEW w \in Word
  PROVE  w = join(lo(w), hi(w))
<1>1. ByteSize \in Nat \ {0} /\ WordSize = ByteSize * ByteSize /\ WordSize \in Nat
  BY Sizes
<1>2. w \in Int /\ 0 <= w /\ w < ByteSize * ByteSize
  BY <1>1 DEF Word
<1>3. /\ w \div ByteSize \in Int /\ w % ByteSize \in 0 .. ByteSize - 1
      /\ w = ByteSize * (w \div ByteSize) + (w % ByteSize)
  BY <1>1, <1>2, Remainder
<1> DEFINE q == w \div ByteSize
<1>4. 0 <= q /\ q < ByteSize
  BY <1>1, <1>2
<1>5. q % ByteSize = q
  <2>1. q \in 0 .. ByteSize - 1
    <3>1. q \in Int
      BY <1>3
    <3> HIDE DEF q
    <3>2. QED
      BY <1>1, <1>4, <3>1
  <2> HIDE DEF q
  <2>2. QED
    BY <1>1, <2>1
<1>6. lo(w) = w % ByteSize /\ hi(w) = q
  BY <1>5 DEF lo, hi
<1>7. w = (w % ByteSize) + ByteSize * q
  BY <1>1, <1>3
<1>8. QED
  BY <1>6, <1>7 DEF join

\* The sizes as the steps below use them: a byte is a word, both are numbers.
LEMMA Widths ==
  /\ ByteSize \in Nat \ {0} /\ WordSize \in Nat \ {0}
  /\ ByteSize < WordSize
  /\ Byte = 0 .. ByteSize - 1 /\ Word = 0 .. WordSize - 1
  /\ Byte \subseteq Word /\ Word \subseteq Nat /\ 0 \in Byte
<1>1. ByteSize \in Nat /\ ByteSize >= 2 /\ WordSize = ByteSize * ByteSize
  BY Sizes
<1>2. ByteSize < ByteSize * ByteSize
  BY <1>1
<1>3. ByteSize \in Nat \ {0} /\ WordSize \in Nat \ {0} /\ ByteSize < WordSize
  BY <1>1, <1>2
<1>4. Byte = 0 .. ByteSize - 1 /\ Word = 0 .. WordSize - 1
  BY DEF Byte, Word
<1>5. QED
  BY <1>3, <1>4

\* The same, with the ranges spelt out for the arithmetic provers.
LEMMA HalvesRange ==
  ASSUME NEW w \in Int
  PROVE  /\ lo(w) \in Byte /\ hi(w) \in Byte /\ lo(w) \in Int /\ hi(w) \in Int
         /\ lo(w) \in 0 .. ByteSize - 1 /\ hi(w) \in 0 .. ByteSize - 1
<1>1. lo(w) \in Byte /\ hi(w) \in Byte
  BY HalvesType
<1>2. Byte = 0 .. ByteSize - 1 /\ ByteSize \in Nat
  BY Widths
<1>3. QED
  BY <1>1, <1>2

\* A byte is its own low half.
LEMMA LowIsByte ==
  ASSUME NEW b \in Byte
  PROVE  lo(b) = b /\ hi(b) = 0
<1>1. ByteSize \in Nat \ {0} /\ b \in 0 .. ByteSize - 1
  BY Widths
<1>2. b % ByteSize = b /\ b \div ByteSize = 0 /\ 0 % ByteSize = 0
  BY <1>1
<1>3. QED
  BY <1>2 DEF lo, hi

-----------------------------------------------------------------------------
(* The arithmetic of a width.                                              *)

Width == {ByteSize, WordSize}

\* What an operation knows of the width it is given.
LEMMA WidthType ==
  ASSUME NEW N \in Width
  PROVE  /\ N \in Nat \ {0} /\ (0 .. N - 1) \subseteq Word
         /\ BitsOf(N) \in Nat \ {0} /\ 2 ^ BitsOf(N) = N
         /\ \E half \in Nat \ {0} : N = 2 * half
<1>1. ByteBits \in Nat \ {0} /\ 2 * ByteBits \in Nat \ {0}
  BY WidthAssumption
<1>2. N = ByteSize \/ N = WordSize
  BY DEF Width
<1>3. N \in Nat \ {0} /\ (0 .. N - 1) \subseteq Word
  BY <1>2, Widths
<1>4. BitsOf(N) \in Nat \ {0} /\ 2 ^ BitsOf(N) = N
  <2>1. CASE N = ByteSize
    BY <1>1, <2>1, Sizes DEF BitsOf
  <2>2. CASE N = WordSize /\ N # ByteSize
    BY <1>1, <2>2, Sizes DEF BitsOf
  <2>3. QED
    BY <1>2, <2>1, <2>2
<1>5. PICK half \in Nat \ {0} : ByteSize = 2 * half
  BY Sizes
<1>6. WordSize = 2 * (half * ByteSize) /\ half * ByteSize \in Nat \ {0}
  <2>1. WordSize = ByteSize * ByteSize /\ ByteSize \in Nat \ {0}
    BY Sizes
  <2>2. (2 * half) * ByteSize = 2 * (half * ByteSize)
    BY <2>1
  <2>3. half * ByteSize \in Nat \ {0}
    BY <2>1
  <2>4. QED
    BY <1>5, <2>1, <2>2, <2>3
<1>7. QED
  BY <1>2, <1>3, <1>4, <1>5, <1>6

\* The sum of bits: OfBits stays below the power of their number.
LEMMA OfBitsType ==
  ASSUME NEW n \in Nat, NEW b \in [1 .. n -> 0 .. 1]
  PROVE  OfBits(b, n) \in 0 .. 2 ^ n - 1
<1> DEFINE body(f) == [k \in 0 .. n |-> IF k = 0 THEN 0 ELSE f[k - 1] + 2 ^ (k - 1) * b[k]]
           g == [p \in Nat \X (1 .. n) |-> p[1] + 2 ^ (p[2] - 1) * b[p[2]]]
           sum == CHOOSE f : f = body(f)
<1>1. ASSUME NEW k \in 1 .. n
      PROVE  /\ b[k] = 0 \/ b[k] = 1
             /\ 2 ^ (k - 1) \in Nat /\ 2 ^ k = 2 * 2 ^ (k - 1) /\ 2 ^ (k - 1) * b[k] \in Nat
  <2>1. k - 1 \in Nat /\ k = (k - 1) + 1
    OBVIOUS
  <2>2. 2 ^ (k - 1) \in Nat /\ 2 ^ k = 2 * 2 ^ (k - 1)
    BY <2>1, PowerNat, PowerNext
  <2>3. b[k] \in 0 .. 1
    OBVIOUS
  <2>4. b[k] = 0 \/ b[k] = 1
    BY <2>3
  <2>5. QED
    BY <2>2, <2>4
<1>2. g \in StepFunctions(n, Nat)
  <2>1. ASSUME NEW p \in Nat \X (1 .. n) PROVE p[1] + 2 ^ (p[2] - 1) * b[p[2]] \in Nat
    <3>1. p[1] \in Nat /\ p[2] \in 1 .. n
      OBVIOUS
    <3>2. 2 ^ (p[2] - 1) * b[p[2]] \in Nat
      BY <1>1, <3>1
    <3>3. QED
      BY <3>1, <3>2
  <2>2. QED
    BY <2>1 DEF StepFunctions
<1>3. PICK f \in [0 .. n -> Nat] : f[0] = 0 /\ \A k \in 1 .. n : f[k] = g[<<f[k - 1], k>>]
  <2> HIDE DEF g
  <2>1. Recursions(n, Nat, 0, g) # {}
    BY <1>2, RecursionOnInterval
  <2>2. QED
    BY <2>1 DEF Recursions
<1>4. ASSUME NEW k \in 1 .. n PROVE f[k] = f[k - 1] + 2 ^ (k - 1) * b[k]
  <2>1. k - 1 \in 0 .. n
    OBVIOUS
  <2>2. f[k - 1] \in Nat
    BY <2>1
  <2>3. g[<<f[k - 1], k>>] = f[k - 1] + 2 ^ (k - 1) * b[k]
    BY <2>2
  <2>4. QED
    BY <1>3, <2>3
<1>6. f = body(f)
  <2>1. \A k \in 0 .. n : k = 0 \/ k \in 1 .. n
    OBVIOUS
  <2>2. \A k \in 0 .. n : f[k] = IF k = 0 THEN 0 ELSE f[k - 1] + 2 ^ (k - 1) * b[k]
    BY <1>3, <1>4, <2>1
  <2>3. QED
    BY <2>2
<1>7. sum = body(sum)
  BY <1>6, Zenon
<1>8. OfBits(b, n) = sum[n]
  BY DEF OfBits
<1> HIDE DEF sum
<1>9. /\ sum[0] = 0
      /\ \A j \in 1 .. n : sum[j] = sum[j - 1] + 2 ^ (j - 1) * b[j]
  BY <1>7
<1> DEFINE R == {k \in 0 .. n : sum[k] \in Nat /\ sum[k] < 2 ^ k}
<1>10. 0 \in R
  BY <1>9, PowerZero
<1>11. ASSUME NEW k \in 1 .. n, k - 1 \in R PROVE k \in R
  <2>1. sum[k - 1] \in Nat /\ sum[k - 1] < 2 ^ (k - 1)
    BY <1>11
  <2>2. b[k] = 0 \/ b[k] = 1
    BY <1>1
  <2>3. 2 ^ (k - 1) * b[k] \in Nat /\ 2 ^ (k - 1) * b[k] <= 2 ^ (k - 1)
    BY <1>1, <2>2
  <2>4. sum[k] = sum[k - 1] + 2 ^ (k - 1) * b[k]
    BY <1>9
  <2>5. sum[k] \in Nat /\ sum[k] < 2 ^ k
    BY <1>1, <2>1, <2>3, <2>4
  <2>6. QED
    BY <2>5
<1>12. n \in R
  <2>1. n \in 0 .. n
    OBVIOUS
  <2> HIDE DEF R
  <2>2. QED
    BY <1>10, <1>11, <2>1, InductionUpTo
<1>13. QED
  BY <1>8, <1>12, PowerNat

\* A bit is 0 or 1.
LEMMA BitType ==
  ASSUME NEW v \in Int, NEW k \in Nat
  PROVE  Bit(v, k) \in 0 .. 1
<1>1. 2 ^ k \in Nat \ {0}
  BY PowerPositive
<1>2. v \div 2 ^ k \in Int
  BY <1>1, Remainder
<1>3. QED
  BY <1>2 DEF Bit

\* The bitwise operations stay within their width.
LEMMA BitwiseType ==
  ASSUME NEW N \in Width, NEW v \in Int, NEW w \in Int
  PROVE  And(v, w, N) \in 0 .. N - 1 /\ Or(v, w, N) \in 0 .. N - 1 /\ Eor(v, w, N) \in 0 .. N - 1
<1> DEFINE n == BitsOf(N)
           b1 == [k \in 1 .. n |-> Bit(v, k - 1) * Bit(w, k - 1)]
           b2 == [k \in 1 .. n |-> Bit(v, k - 1) + Bit(w, k - 1) - Bit(v, k - 1) * Bit(w, k - 1)]
           b3 == [k \in 1 .. n |-> (Bit(v, k - 1) + Bit(w, k - 1)) % 2]
<1>1. n \in Nat /\ 2 ^ n = N
  BY WidthType
<1>2. ASSUME NEW k \in 1 .. n
      PROVE  /\ Bit(v, k - 1) = 0 \/ Bit(v, k - 1) = 1
             /\ Bit(w, k - 1) = 0 \/ Bit(w, k - 1) = 1
  <2>1. k - 1 \in Nat
    OBVIOUS
  <2>2. Bit(v, k - 1) \in 0 .. 1 /\ Bit(w, k - 1) \in 0 .. 1
    BY <2>1, BitType
  <2>3. QED
    BY <2>2
<1>3. And(v, w, N) = OfBits(b1, n) /\ Or(v, w, N) = OfBits(b2, n) /\ Eor(v, w, N) = OfBits(b3, n)
  BY DEF And, Or, Eor, Bitwise2
<1> HIDE DEF n
<1>4. b1 \in [1 .. n -> 0 .. 1] /\ b2 \in [1 .. n -> 0 .. 1] /\ b3 \in [1 .. n -> 0 .. 1]
  BY <1>2
<1> HIDE DEF b1, b2, b3
<1>5. /\ OfBits(b1, n) \in 0 .. 2 ^ n - 1 /\ OfBits(b2, n) \in 0 .. 2 ^ n - 1
      /\ OfBits(b3, n) \in 0 .. 2 ^ n - 1
  BY <1>1, <1>4, OfBitsType
<1>6. QED
  BY <1>1, <1>3, <1>5

-----------------------------------------------------------------------------
(* The bits and digits of the arithmetic.                                  *)

\* The values a sum goes through as its digits are adjusted, the lowest first.
IsAdjustment(f, v, n) ==
  /\ f \in [0 .. n -> Int] /\ f[0] = v
  /\ \A k \in 1 .. n :
         LET unit == 2 ^ (DigitBits * (k - 1))
         IN  f[k] = IF (f[k - 1] \div unit) % DigitSize > 9 THEN f[k - 1] + (DigitSize - 10) * unit
                    ELSE f[k - 1]

\* The adjustment is the last of them.
LEMMA DecimalAdjustment ==
  ASSUME NEW N \in Width, NEW v \in Int
  PROVE  /\ Digits(N) \in Nat
         /\ \E f : IsAdjustment(f, v, Digits(N)) /\ DecimalAdjust(v, N) = f[Digits(N)]
<1> DEFINE n == Digits(N)
           unit(k) == 2 ^ (DigitBits * (k - 1))
           step(t, k) == IF (t \div unit(k)) % DigitSize > 9 THEN t + (DigitSize - 10) * unit(k) ELSE t
           body(f) == [k \in 0 .. n |-> IF k = 0 THEN v ELSE step(f[k - 1], k)]
           g == [p \in Int \X (1 .. n) |-> step(p[1], p[2])]
           adjusted == CHOOSE f : f = body(f)
<1>1. n \in Nat
  <2>1. BitsOf(N) \in Nat \ {0} /\ DigitBits \in Nat \ {0}
    BY WidthType, WidthAssumption
  <2>2. QED
    BY <2>1 DEF Digits
<1>2. ASSUME NEW k \in 1 .. n, NEW t \in Int PROVE step(t, k) \in Int
  <2>1. DigitBits \in Nat /\ k - 1 \in Nat
    BY WidthAssumption
  <2>2. DigitBits * (k - 1) \in Nat
    BY <2>1
  <2>3. unit(k) \in Nat /\ DigitSize \in Nat
    BY <2>1, <2>2, PowerNat DEF DigitSize
  <2> HIDE DEF unit
  <2>4. (DigitSize - 10) * unit(k) \in Int
    BY <2>3
  <2>5. QED
    BY <2>4
<1> HIDE DEF n, step
<1>3. g \in StepFunctions(n, Int)
  <2>1. ASSUME NEW p \in Int \X (1 .. n) PROVE step(p[1], p[2]) \in Int
    <3>1. p[1] \in Int /\ p[2] \in 1 .. n
      OBVIOUS
    <3>2. QED
      BY <1>2, <3>1
  <2>2. QED
    BY <2>1 DEF StepFunctions
<1>4. PICK f \in [0 .. n -> Int] : f[0] = v /\ \A k \in 1 .. n : f[k] = g[<<f[k - 1], k>>]
  <2> HIDE DEF g
  <2>1. Recursions(n, Int, v, g) # {}
    BY <1>1, <1>3, RecursionOnInterval
  <2>2. QED
    BY <2>1 DEF Recursions
<1>5. ASSUME NEW k \in 1 .. n PROVE f[k] = step(f[k - 1], k)
  <2>1. k - 1 \in 0 .. n
    BY <1>1
  <2>2. f[k - 1] \in Int
    BY <2>1
  <2>3. g[<<f[k - 1], k>>] = step(f[k - 1], k)
    BY <2>2
  <2>4. QED
    BY <1>4, <2>3
<1>6. f = body(f)
  <2>1. \A k \in 0 .. n : k = 0 \/ k \in 1 .. n
    BY <1>1
  <2>2. \A k \in 0 .. n : f[k] = IF k = 0 THEN v ELSE step(f[k - 1], k)
    BY <1>4, <1>5, <2>1
  <2>3. QED
    BY <2>2
<1>7. adjusted = body(adjusted)
  BY <1>6, Zenon
<1>8. DecimalAdjust(v, N) = adjusted[n]
  BY DEF DecimalAdjust, n, step
<1> HIDE DEF adjusted
<1>9. /\ adjusted[0] = v
      /\ \A k \in 1 .. n : adjusted[k] = step(adjusted[k - 1], k)
  BY <1>1, <1>7
<1> DEFINE R == {k \in 0 .. n : adjusted[k] \in Int}
<1>10. 0 \in R
  BY <1>1, <1>9
<1>11. ASSUME NEW k \in 1 .. n, k - 1 \in R PROVE k \in R
  <2>1. adjusted[k - 1] \in Int /\ k \in 0 .. n
    BY <1>1, <1>11
  <2>2. adjusted[k] \in Int
    BY <1>2, <1>9, <2>1
  <2>3. QED
    BY <2>1, <2>2
<1>12. \A k \in 0 .. n : k \in R
  <2> HIDE DEF R
  <2>1. QED
    BY <1>1, <1>10, <1>11, InductionUpTo
<1>13. adjusted = [k \in 0 .. n |-> adjusted[k]]
  BY <1>7
<1>14. adjusted \in [0 .. n -> Int]
  BY <1>12, <1>13
<1>15. IsAdjustment(adjusted, v, n)
  BY <1>9, <1>14 DEF IsAdjustment, step
<1>16. QED
  BY <1>1, <1>8, <1>15 DEF n

\* It is a number.
LEMMA DecimalAdjustType ==
  ASSUME NEW N \in Width, NEW v \in Int
  PROVE  DecimalAdjust(v, N) \in Int
<1>1. PICK f : IsAdjustment(f, v, Digits(N)) /\ DecimalAdjust(v, N) = f[Digits(N)]
  BY DecimalAdjustment
<1>2. QED
  BY <1>1, DecimalAdjustment DEF IsAdjustment

\* Sums and differences have their width.
LEMMA AddType ==
  ASSUME NEW N \in Width, NEW a \in Int, NEW data \in Int, NEW c \in Int, NEW d
  PROVE  /\ AddWithCarry(a, data, c, d, N).v \in 0 .. N - 1
         /\ SubtractWithBorrow(a, data, c, d, N).v \in 0 .. N - 1
         /\ AddWithoutCarry(a, data, N).v \in 0 .. N - 1
<1>1. N \in Nat \ {0}
  BY WidthType
<1>2. ASSUME NEW b \in Int, NEW k \in Int, NEW e
      PROVE  AddWithCarry(a, b, k, e, N).v \in 0 .. N - 1
  <2> DEFINE sum == a + b + k
             temp == IF e THEN DecimalAdjust(sum, N) ELSE sum
  <2>1. sum \in Int
    OBVIOUS
  <2>2. temp \in Int
    BY <2>1, DecimalAdjustType
  <2> HIDE DEF temp
  <2>3. temp % N \in 0 .. N - 1
    BY <1>1, <2>2, Remainder
  <2>4. AddWithCarry(a, b, k, e, N).v = temp % N
    BY DEF AddWithCarry, temp
  <2>5. QED
    BY <2>3, <2>4
<1>3. N - 1 - data \in Int
  BY <1>1
<1>4. SubtractWithBorrow(a, data, c, d, N).v \in 0 .. N - 1
  BY <1>2, <1>3 DEF SubtractWithBorrow
<1>5. AddWithoutCarry(a, data, N).v \in 0 .. N - 1
  <2>1. AddWithoutCarry(a, data, N).v = (a + data + 0) % N
    BY DEF AddWithoutCarry, AddWithCarry
  <2>2. a + data + 0 \in Int
    OBVIOUS
  <2>3. QED
    BY <1>1, <2>1, <2>2, Remainder
<1>6. AddWithCarry(a, data, c, d, N).v \in 0 .. N - 1
  BY <1>2
<1>7. QED
  BY <1>4, <1>5, <1>6

\* Shifts and rotations have their width.
LEMMA ShiftType ==
  ASSUME NEW N \in Width, NEW v \in 0 .. N - 1, NEW c \in 0 .. 1
  PROVE  /\ ShiftLeft(v, N).v \in 0 .. N - 1 /\ ShiftRight(v, N).v \in 0 .. N - 1
         /\ RotateLeft(v, c, N).v \in 0 .. N - 1 /\ RotateRight(v, c, N).v \in 0 .. N - 1
         /\ ShiftRightSigned(v, N).v \in 0 .. N - 1
<1>1. PICK half \in Nat \ {0} : N = 2 * half
  BY WidthType
<1>2. N \in Nat \ {0} /\ v \in Nat /\ N \div 2 = half
  BY <1>1
<1>3. v \div 2 \in Nat /\ v \div 2 < half
  BY <1>1, <1>2
<1>4. (2 * v) % N \in 0 .. N - 1 /\ (2 * v + c) % N \in 0 .. N - 1
  <2>1. 2 * v \in Int /\ 2 * v + c \in Int
    BY <1>2
  <2>2. QED
    BY <1>2, <2>1, Remainder
<1>5. v \div 2 \in 0 .. N - 1 /\ v \div 2 + half \in 0 .. N - 1
  BY <1>1, <1>3
<1>6. c * half = 0 \/ c * half = half
  <2>1. c = 0 \/ c = 1
    OBVIOUS
  <2>2. QED
    BY <2>1
<1>7. v \div 2 + c * half \in 0 .. N - 1
  BY <1>5, <1>6
<1>8. QED
  BY <1>2, <1>4, <1>5, <1>7 DEF ShiftLeft, ShiftRight, RotateLeft, RotateRight, ShiftRightSigned

\* So have the results of the L28's signed arithmetic.
LEMMA SignedType ==
  ASSUME NEW v \in Int, NEW a \in Byte, NEW y \in Byte
  PROVE  /\ Multiply(a, y) \in Word /\ MultiplyAdd(v, a, y).v \in Word
         /\ Round(v) \in Byte /\ Negate(a) \in Byte /\ Magnitude(a) \in Byte
<1>1. /\ ByteSize \in Nat \ {0} /\ WordSize \in Nat \ {0}
      /\ a \in 0 .. ByteSize - 1 /\ y \in 0 .. ByteSize - 1
  BY Widths
<1>2. ASSUME NEW i \in Int, NEW N \in Nat \ {0} PROVE Signed(i, N) \in Int
  BY <1>2 DEF Signed
<1>3. Signed(a, ByteSize) \in Int /\ Signed(y, ByteSize) \in Int /\ Signed(v, WordSize) \in Int
  BY <1>1, <1>2
<1> DEFINE product == Signed(a, ByteSize) * Signed(y, ByteSize)
<1>4. product \in Int
  BY <1>3
<1>5. Multiply(a, y) \in Word
  <2>1. Multiply(a, y) = product % WordSize
    BY DEF Multiply
  <2> HIDE DEF product
  <2>2. QED
    BY <1>1, <1>4, <2>1, Remainder, Widths
<1>6. MultiplyAdd(v, a, y).v \in Word
  <2> DEFINE result == Signed(v, WordSize) + product
             top == WordSize \div 2 - 1
             held == IF result > top THEN top ELSE IF result < -top - 1 THEN -top - 1 ELSE result
  <2>1. MultiplyAdd(v, a, y).v = held % WordSize
    BY DEF MultiplyAdd
  <2>2. top \in Int /\ result \in Int
    BY <1>1, <1>3, <1>4
  <2> HIDE DEF top, result
  <2>3. held \in Int
    BY <2>2
  <2> HIDE DEF held
  <2>4. QED
    BY <1>1, <2>1, <2>3, Remainder, Widths
<1>7. Round(v) \in Byte
  <2> DEFINE result == (Signed(v, WordSize) + ByteSize \div 2) \div ByteSize
             top == ByteSize \div 2 - 1
             held == IF result > top THEN top ELSE IF result < -top - 1 THEN -top - 1 ELSE result
  <2>1. Round(v) = held % ByteSize
    BY DEF Round
  <2>2. ByteSize \div 2 \in Int
    BY <1>1
  <2>3. Signed(v, WordSize) + ByteSize \div 2 \in Int
    BY <1>3, <2>2
  <2>4. top \in Int /\ result \in Int
    BY <1>1, <2>2, <2>3, Remainder
  <2> HIDE DEF top, result
  <2>5. held \in Int
    BY <2>4
  <2> HIDE DEF held
  <2>6. QED
    BY <1>1, <2>1, <2>5, Remainder, Widths
<1>8. Negate(a) \in Byte
  <2>1. (ByteSize - a) % ByteSize \in 0 .. ByteSize - 1
    <3>1. ByteSize - a \in Int
      BY <1>1
    <3>2. QED
      BY <1>1, <3>1, Remainder
  <2>2. QED
    BY <2>1, Widths DEF Negate
<1>9. QED
  BY <1>5, <1>6, <1>7, <1>8 DEF Magnitude

-----------------------------------------------------------------------------
(* The stack pointer: n bytes below, or above where n is negative.         *)

Lowered(e, sp, n) ==
  IF e THEN join((lo(sp) - n) % ByteSize, hi(sp)) ELSE (sp - n) % WordSize
InStackPage(e, sp) == e => sp - lo(sp) = sp_page

\* Stepping down twice modulo M is stepping down once by the sum.
LEMMA ModModMinus ==
  ASSUME NEW M \in Nat \ {0}, NEW v \in Int, NEW m \in Int, NEW n \in Int
  PROVE  (((v - m) % M) - n) % M = (v - (m + n)) % M
<1> DEFINE q == (v - m) \div M   r == (v - m) % M
           u == (r - n) \div M   w == (r - n) % M
<1>1. v - m \in Int /\ q \in Int /\ r \in 0 .. M - 1 /\ v - m = M * q + r
  BY Remainder
<1>2. r - n \in Int
  BY <1>1
<1>3. u \in Int /\ w \in 0 .. M - 1 /\ r - n = M * u + w
  <2> HIDE DEF r
  <2>1. QED
    BY <1>2, Remainder
<1> HIDE DEF q, r, u, w
<1>4. v - (m + n) = M * (q + u) + w
  <2>1. v - (m + n) = (M * q + M * u) + w
    BY <1>1, <1>3
  <2>2. M * (q + u) = M * q + M * u
    BY <1>1, <1>3
  <2>3. QED
    BY <2>1, <2>2
<1>5. q + u \in Int
  BY <1>1, <1>3
<1>6. (v - (m + n)) % M = w
  BY <1>3, <1>4, <1>5, RemainderIs
<1>7. QED
  BY <1>6 DEF w, r

\* A lowered pointer is a word; in emulation mode its high half stays.
LEMMA LoweredType ==
  ASSUME NEW e, NEW sp \in Word, NEW n \in Int
  PROVE  /\ Lowered(e, sp, n) \in Word
         /\ e => lo(Lowered(e, sp, n)) = (lo(sp) - n) % ByteSize /\ hi(Lowered(e, sp, n)) = hi(sp)
<1>1. ByteSize \in Nat \ {0} /\ WordSize \in Nat \ {0} /\ sp \in Int
  BY Widths
<1>2. lo(sp) \in Byte /\ hi(sp) \in Byte /\ lo(sp) \in Int
  BY <1>1, HalvesRange, Widths
<1>3. (lo(sp) - n) % ByteSize \in Byte
  <2>1. lo(sp) - n \in Int
    BY <1>2
  <2>2. QED
    BY <1>1, <2>1, Remainder, Widths
<1>4. CASE e
  BY <1>2, <1>3, <1>4, Halves DEF Lowered
<1>5. CASE ~e
  <2>1. sp - n \in Int
    BY <1>1
  <2>2. (sp - n) % WordSize \in Word
    BY <1>1, <2>1, Remainder, Widths
  <2>3. QED
    BY <1>5, <2>2 DEF Lowered
<1>6. QED
  BY <1>4, <1>5

\* Two pushes are one of both sizes.
LEMMA LoweredTwice ==
  ASSUME NEW e, NEW sp \in Word, NEW m \in Int, NEW n \in Int
  PROVE  Lowered(e, Lowered(e, sp, m), n) = Lowered(e, sp, m + n)
<1>1. ByteSize \in Nat \ {0} /\ WordSize \in Nat \ {0} /\ sp \in Int
  BY Widths
<1>2. lo(sp) \in Int
  BY <1>1, HalvesRange, Widths
<1>3. CASE e
  <2>1. lo(Lowered(e, sp, m)) = (lo(sp) - m) % ByteSize /\ hi(Lowered(e, sp, m)) = hi(sp)
    BY <1>3, LoweredType
  <2>2. (((lo(sp) - m) % ByteSize) - n) % ByteSize = (lo(sp) - (m + n)) % ByteSize
    BY <1>1, <1>2, ModModMinus
  <2>3. Lowered(e, Lowered(e, sp, m), n) = join((((lo(sp) - m) % ByteSize) - n) % ByteSize, hi(sp))
    BY <1>3, <2>1 DEF Lowered
  <2>4. QED
    BY <1>3, <2>2, <2>3 DEF Lowered
<1>4. CASE ~e
  <2>1. (((sp - m) % WordSize) - n) % WordSize = (sp - (m + n)) % WordSize
    BY <1>1, ModModMinus
  <2>2. QED
    BY <1>4, <2>1 DEF Lowered
<1>5. QED
  BY <1>3, <1>4

\* Nothing pushed leaves the pointer alone.
LEMMA LoweredZero ==
  ASSUME NEW e, NEW sp \in Word
  PROVE  Lowered(e, sp, 0) = sp
<1>1. ByteSize \in Nat \ {0} /\ WordSize \in Nat \ {0} /\ sp \in 0 .. WordSize - 1 /\ sp \in Int
  BY Widths
<1>2. lo(sp) \in 0 .. ByteSize - 1
  BY <1>1, HalvesRange
<1>3. (lo(sp) - 0) % ByteSize = lo(sp)
  BY <1>1, <1>2
<1>4. (sp - 0) % WordSize = sp
  BY <1>1
<1>5. QED
  BY <1>3, <1>4, WordOfHalves DEF Lowered

\* What is pushed and pulled again leaves the pointer where it was.
LEMMA LoweredBack ==
  ASSUME NEW e, NEW sp \in Word, NEW n \in Int
  PROVE  Lowered(e, Lowered(e, sp, n), -n) = sp
<1>1. -n \in Int /\ n + (-n) = 0
  OBVIOUS
<1>2. QED
  BY <1>1, LoweredTwice, LoweredZero

\* In emulation mode no push leaves the page of the stack, and TCS and TXS reach it.
LEMMA InPage ==
  ASSUME NEW e, NEW sp \in Word
  PROVE  /\ InStackPage(e, sp) <=> (e => ByteSize * hi(sp) = sp_page)
         /\ \A n \in Int : InStackPage(e, sp) => InStackPage(e, Lowered(e, sp, n))
         /\ \A w \in Int : sp_page + lo(w) \in Word /\ InStackPage(e, sp_page + lo(w))
<1>1. ByteSize \in Nat \ {0} /\ sp \in Int
  BY Widths
<1>2. ASSUME NEW w \in Word PROVE w - lo(w) = ByteSize * hi(w)
  <2>1. w = join(lo(w), hi(w)) /\ w \in Int
    BY WordOfHalves, Widths
  <2>2. lo(w) \in Int /\ hi(w) \in Int
    BY <2>1, HalvesRange, Widths
  <2>3. ByteSize * hi(w) \in Int
    BY <1>1, <2>2
  <2>4. w = lo(w) + ByteSize * hi(w)
    BY <2>1 DEF join
  <2>5. QED
    BY <2>1, <2>2, <2>3, <2>4
<1>3. ASSUME NEW n \in Int, InStackPage(e, sp) PROVE InStackPage(e, Lowered(e, sp, n))
  BY <1>2, <1>3, LoweredType DEF InStackPage
<1>4. ASSUME NEW w \in Int PROVE sp_page + lo(w) \in Word /\ InStackPage(e, sp_page + lo(w))
  <2>1. sp_page \in Word /\ sp_page % ByteSize = 0 /\ sp_page \in Int
    BY MemoryAssumption, Widths
  <2>2. sp_page = ByteSize * hi(sp_page)
    BY <1>2, <2>1 DEF lo
  <2>3. lo(w) \in Byte /\ hi(sp_page) \in Byte /\ lo(w) \in Int
    BY <2>1, HalvesRange, Widths
  <2>4. sp_page + lo(w) = join(lo(w), hi(sp_page))
    BY <2>1, <2>2, <2>3 DEF join
  <2>5. sp_page + lo(w) \in Word /\ lo(sp_page + lo(w)) = lo(w)
    BY <2>3, <2>4, Halves
  <2>6. (sp_page + lo(w)) - lo(w) = sp_page
    BY <2>1, <2>3
  <2>7. QED
    BY <2>5, <2>6 DEF InStackPage
<1>5. QED
  BY <1>2, <1>3, <1>4 DEF InStackPage

-----------------------------------------------------------------------------
(* What an instruction does to the machine, as far as the invariants see.  *)

Cells == [v : Byte, f : SUBSET Flags]
Memory == [0 .. Space - 1 -> Cells]

\* Memory, flags that have no width and the program counter at most are changed.
Untouched(s, t) ==
  /\ t \in Machine /\ t.type = s.type /\ t.e = s.e /\ t.sp = s.sp
  /\ t.a = s.a /\ t.x = s.x /\ t.y = s.y
  /\ "m" \in t.p <=> "m" \in s.p
  /\ "x" \in t.p <=> "x" \in s.p

HighKept(s, t) ==
  /\ M8(s) => hi(t.a) = hi(s.a)
  /\ IndexHighZero(s) => IndexHighZero(t)

\* The registers' halves are kept, and the stack pointer moved n bytes down.
Moves(s, t, n) ==
  /\ t \in Machine /\ t.type = s.type /\ t.e = s.e
  /\ t.sp = Lowered(s.e, s.sp, n)
  /\ HighKept(s, t)

\* The flags of the processor, and those that give no register its width.
LEMMA FlagNames == Flags = {"c", "z", "i", "d", "x", "m", "v", "n"}
BY DEF Flags, FlagNo

\* An operation that leaves the registers alone moves the pointer by 0.
LEMMA UntouchedMoves ==
  ASSUME NEW s \in Machine, NEW t, Untouched(s, t)
  PROVE  Moves(s, t, 0)
<1>1. s.sp \in Word
  BY DEF Machine
<1>2. Lowered(s.e, s.sp, 0) = s.sp
  BY <1>1, LoweredZero
<1>3. HighKept(s, t)
  BY DEF Untouched, HighKept, IndexHighZero, X8
<1>4. QED
  BY <1>2, <1>3 DEF Untouched, Moves

\* Two of those are one.
LEMMA UntouchedTwice ==
  ASSUME NEW s, NEW t, NEW u, Untouched(s, t), Untouched(t, u)
  PROVE  Untouched(s, u)
BY DEF Untouched

\* Fetching before an operation adds nothing to what it does.
LEMMA UntouchedThenMoves ==
  ASSUME NEW s, NEW t, NEW u, NEW n, Untouched(s, t), Moves(t, u, n)
  PROVE  Moves(s, u, n)
BY DEF Untouched, Moves, HighKept, IndexHighZero, M8, X8

\* Nor do the flags set after it.
LEMMA MovesThenUntouched ==
  ASSUME NEW s, NEW t, NEW u, NEW n, Moves(s, t, n), Untouched(t, u)
  PROVE  Moves(s, u, n)
BY DEF Untouched, Moves, HighKept, IndexHighZero, M8, X8

-----------------------------------------------------------------------------
(* Flags and memory.                                                       *)

\* A flag other than the two of the widths may be set freely.
LEMMA SetFlag ==
  ASSUME NEW s \in Machine, NEW k \in Flags, k # "m", k # "x", NEW on
  PROVE  Untouched(s, Set(s, k, on))
BY DEF Machine, Set, Untouched

\* The flags N and Z are two of those.
LEMMA NZFlags ==
  ASSUME NEW s \in Machine, NEW v, NEW N
  PROVE  Untouched(s, NZ(s, v, N))
<1>1. "n" \in Flags /\ "z" \in Flags
  BY FlagNames
<1> DEFINE t == Set(s, "n", Negative(v, N))
<1>2. Untouched(s, t)
  BY <1>1, SetFlag
<1>3. t \in Machine
  BY <1>2 DEF Untouched
<1>4. NZ(s, v, N) = Set(t, "z", v = 0)
  BY DEF NZ
<1> HIDE DEF t
<1>5. Untouched(t, Set(t, "z", v = 0))
  BY <1>1, <1>3, SetFlag
<1>6. QED
  BY <1>2, <1>4, <1>5, UntouchedTwice

\* A byte written is a cell of the memory.
LEMMA DataCellType ==
  ASSUME NEW v \in Byte
  PROVE  DataCell(v) \in Cells /\ DataCell(v).v = v
BY DEF DataCell, Cells

\* So is the status register when it is pushed.
LEMMA FlagCellType ==
  ASSUME NEW p \in SUBSET Flags
  PROVE  FlagCell(p) \in Cells
<1> DEFINE bit(k, value) == IF k \in p THEN value ELSE 0
           sum == bit("c", 1) + bit("z", 2) + bit("i", 4) + bit("d", 8)
                    + bit("x", 16) + bit("m", 32) + bit("v", 64) + bit("n", 128)
<1>1. \A k, value : value \in Int => bit(k, value) \in Int
  OBVIOUS
<1>2. sum \in Int
  OBVIOUS
<1>3. FlagCell(p) = [v |-> sum % ByteSize, f |-> p]
  BY DEF FlagCell
<1> HIDE DEF sum
<1>4. sum % ByteSize \in Byte
  BY <1>2, Remainder, Widths
<1>5. QED
  BY <1>3, <1>4 DEF Cells

\* An address wraps into the memory.
LEMMA CellAt ==
  ASSUME NEW s \in Machine, NEW ea \in Int
  PROVE  ea % Space \in 0 .. Space - 1 /\ s.mem[ea % Space] \in Cells
<1>1. ea % Space \in 0 .. Space - 1
  BY MemoryAssumption, Remainder
<1>2. s.mem \in Memory
  BY DEF Machine, Memory, Cells
<1>3. QED
  BY <1>1, <1>2 DEF Memory

\* What is read from the memory fits the width it is read in.
LEMMA GetType ==
  ASSUME NEW s \in Machine, NEW ea \in Int
  PROVE  /\ getByte(s, ea) \in Byte /\ getWord(s, ea) \in Word /\ getAddr(s, ea) \in Int
         /\ \A N \in Width : Get(s, ea, N) \in 0 .. N - 1
<1>1. ASSUME NEW a \in Int PROVE getByte(s, a) \in Byte
  BY CellAt DEF getByte, Cells
<1>2. getByte(s, ea) \in Byte /\ getByte(s, ea + 1) \in Byte /\ getByte(s, ea + 2) \in Byte
  <2>1. ea + 1 \in Int /\ ea + 2 \in Int
    OBVIOUS
  <2>2. QED
    BY <1>1, <2>1
<1>3. getWord(s, ea) \in Word
  BY <1>2, Halves DEF getWord
<1>4. getAddr(s, ea) \in Int
  <2>1. WordSize * getByte(s, ea + 2) \in Int /\ getWord(s, ea) \in Int
    BY <1>2, <1>3, Widths
  <2>2. QED
    BY <2>1 DEF getAddr
<1>5. ASSUME NEW N \in Width PROVE Get(s, ea, N) \in 0 .. N - 1
  BY <1>2, <1>3, Widths DEF Get, Width
<1>6. QED
  BY <1>2, <1>3, <1>4, <1>5

\* Writing a byte to memory leaves the registers alone.
LEMMA SetByte ==
  ASSUME NEW s \in Machine, NEW ea \in Int, NEW v \in Byte
  PROVE  Untouched(s, setByte(s, ea, v))
<1>1. ea % Space \in 0 .. Space - 1 /\ DataCell(v) \in Cells
  BY CellAt, DataCellType
<1> DEFINE m == [s.mem EXCEPT ![ea % Space] = DataCell(v)]
<1>2. s.mem \in Memory
  BY DEF Machine, Memory, Cells
<1>3. m \in Memory
  BY <1>1, <1>2 DEF Memory
<1>4. setByte(s, ea, v) = [s EXCEPT !.mem = m]
  BY DEF setByte, Machine
<1> HIDE DEF m
<1>5. QED
  BY <1>3, <1>4 DEF Untouched, Machine, Memory, Cells

\* Writing a word does as well.
LEMMA SetWord ==
  ASSUME NEW s \in Machine, NEW ea \in Int, NEW w \in Int
  PROVE  Untouched(s, setWord(s, ea, w))
<1> DEFINE t == setByte(s, ea, lo(w))
<1>1. lo(w) \in Byte /\ hi(w) \in Byte /\ ea + 1 \in Int
  BY HalvesRange
<1>2. Untouched(s, t) /\ t \in Machine
  BY <1>1, SetByte DEF Untouched
<1>3. setWord(s, ea, w) = setByte(t, ea + 1, hi(w))
  BY DEF setWord
<1> HIDE DEF t
<1>4. Untouched(t, setByte(t, ea + 1, hi(w)))
  BY <1>1, <1>2, SetByte
<1>5. QED
  BY <1>2, <1>3, <1>4, UntouchedTwice

\* And so does writing in either width.
LEMMA PutValue ==
  ASSUME NEW s \in Machine, NEW ea \in Int, NEW N \in Width, NEW v \in 0 .. N - 1
  PROVE  Untouched(s, Put(s, ea, v, N))
<1>1. v \in Int
  BY WidthType
<1>2. N = ByteSize => v \in Byte
  BY Widths
<1>3. QED
  BY <1>1, <1>2, SetByte, SetWord DEF Put

-----------------------------------------------------------------------------
(* Registers.                                                              *)

\* The widths of A and of X and Y, by the flags.
LEMMA SizeType ==
  ASSUME NEW s
  PROVE  /\ SizeM(s) \in Width /\ SizeX(s) \in Width
         /\ SizeM(s) = ByteSize <=> M8(s)
         /\ SizeX(s) = ByteSize <=> X8(s)
BY Widths DEF SizeM, SizeX, Width

\* The part of a register an instruction sees fits its width.
LEMMA PartType ==
  ASSUME NEW w \in Int, NEW N \in Width
  PROVE  Part(w, N) \in 0 .. N - 1 /\ Part(w, N) \in Word
<1>1. w % N \in 0 .. N - 1
  BY WidthType, Remainder
<1>2. QED
  BY <1>1, WidthType DEF Part

\* A byte merged into a register leaves its high half.
LEMMA MergeType ==
  ASSUME NEW w \in Word, NEW N \in Width, NEW v \in 0 .. N - 1
  PROVE  /\ Merge(w, v, N) \in Word
         /\ N = ByteSize => hi(Merge(w, v, N)) = hi(w)
<1>1. hi(w) \in Byte
  <2>1. w \in Int
    BY Widths
  <2>2. QED
    BY <2>1, HalvesRange
<1>2. CASE N = ByteSize
  <2>1. v \in Byte
    BY <1>2, Widths
  <2>2. QED
    BY <1>1, <1>2, <2>1, Halves DEF Merge
<1>3. CASE N # ByteSize
  BY <1>3, WidthType DEF Merge
<1>4. QED
  BY <1>2, <1>3

\* The registers of a machine, with what the arithmetic provers need.
LEMMA Registers16 ==
  ASSUME NEW s \in Machine
  PROVE  /\ s.a \in Word /\ s.x \in Word /\ s.y \in Word /\ s.sp \in Word /\ s.dp \in Word
         /\ s.pc \in Word /\ s.i \in Word /\ s.pbr \in Byte /\ s.dbr \in Byte
         /\ s.wl \in Byte /\ s.wh \in Byte /\ s.p \in SUBSET Flags
         /\ s.a \in Int /\ s.x \in Int /\ s.y \in Int /\ s.sp \in Int /\ s.dp \in Int
         /\ s.pc \in Int /\ s.i \in Int /\ s.pbr \in Int /\ s.dbr \in Int
         /\ s.wl \in Int /\ s.wh \in Int
<1>1. /\ s.a \in Word /\ s.x \in Word /\ s.y \in Word /\ s.sp \in Word /\ s.dp \in Word
      /\ s.pc \in Word /\ s.i \in Word /\ s.pbr \in Byte /\ s.dbr \in Byte
      /\ s.wl \in Byte /\ s.wh \in Byte /\ s.p \in SUBSET Flags
  BY DEF Machine
<1>2. \A w \in Word : w \in Int
  BY Widths
<1>3. \A b \in Byte : b \in Int
  BY Widths
<1>4. QED
  BY <1>1, <1>2, <1>3

\* A may be written as long as an 8-bit accumulator keeps its high half.
LEMMA WriteA ==
  ASSUME NEW s \in Machine, NEW w \in Word, M8(s) => hi(w) = hi(s.a)
  PROVE  Moves(s, [s EXCEPT !.a = w], 0)
<1>1. Lowered(s.e, s.sp, 0) = s.sp
  BY Registers16, LoweredZero
<1>2. [s EXCEPT !.a = w] \in Machine
  BY DEF Machine
<1>3. HighKept(s, [s EXCEPT !.a = w])
  BY DEF HighKept, IndexHighZero, X8, Machine
<1>4. QED
  BY <1>1, <1>2, <1>3 DEF Moves, Machine

\* X may be written as long as an 8-bit index has no high half.
LEMMA WriteX ==
  ASSUME NEW s \in Machine, NEW w \in Word, X8(s) /\ IndexHighZero(s) => hi(w) = 0
  PROVE  Moves(s, [s EXCEPT !.x = w], 0)
<1>1. Lowered(s.e, s.sp, 0) = s.sp
  BY Registers16, LoweredZero
<1>2. [s EXCEPT !.x = w] \in Machine
  BY DEF Machine
<1>3. HighKept(s, [s EXCEPT !.x = w])
  BY DEF HighKept, IndexHighZero, X8, Machine
<1>4. QED
  BY <1>1, <1>2, <1>3 DEF Moves, Machine

\* So may Y.
LEMMA WriteY ==
  ASSUME NEW s \in Machine, NEW w \in Word, X8(s) /\ IndexHighZero(s) => hi(w) = 0
  PROVE  Moves(s, [s EXCEPT !.y = w], 0)
<1>1. Lowered(s.e, s.sp, 0) = s.sp
  BY Registers16, LoweredZero
<1>2. [s EXCEPT !.y = w] \in Machine
  BY DEF Machine
<1>3. HighKept(s, [s EXCEPT !.y = w])
  BY DEF HighKept, IndexHighZero, X8, Machine
<1>4. QED
  BY <1>1, <1>2, <1>3 DEF Moves, Machine

\* A value written as a register's width writes it and the flags.
LEMMA SetAMoves ==
  ASSUME NEW s \in Machine, NEW v \in 0 .. SizeM(s) - 1
  PROVE  Moves(s, SetA(s, v), 0)
<1> DEFINE w == Merge(s.a, v, SizeM(s))   t == [s EXCEPT !.a = w]
<1>1. w \in Word /\ (M8(s) => hi(w) = hi(s.a))
  BY Registers16, SizeType, MergeType
<1> HIDE DEF w
<1>2. Moves(s, t, 0) /\ t \in Machine
  BY <1>1, WriteA DEF Moves
<1>3. SetA(s, v) = NZ(t, v, SizeM(s))
  BY DEF SetA, w
<1> HIDE DEF t
<1>4. QED
  BY <1>2, <1>3, NZFlags, MovesThenUntouched

\* Writing A as the byte below the flag m wrote it.
LEMMA SetBMoves ==
  ASSUME NEW s \in Machine, NEW v \in Byte
  PROVE  Moves(s, SetB(s, v), 0)
<1> DEFINE w == Merge(s.a, v, ByteSize)   t == [s EXCEPT !.a = w]
<1>1. w \in Word /\ hi(w) = hi(s.a)
  BY Registers16, MergeType, Widths DEF Width
<1> HIDE DEF w
<1>2. Moves(s, t, 0) /\ t \in Machine
  BY <1>1, WriteA DEF Moves
<1>3. SetB(s, v) = NZ(t, v, ByteSize)
  BY DEF SetB, w
<1> HIDE DEF t
<1>4. QED
  BY <1>2, <1>3, NZFlags, MovesThenUntouched

\* The loads of the index registers.
LEMMA SetXMoves ==
  ASSUME NEW s \in Machine, NEW w \in Word, X8(s) /\ IndexHighZero(s) => hi(w) = 0
  PROVE  Moves(s, SetX(s, w), 0) /\ Moves(s, SetY(s, w), 0)
<1> DEFINE t == [s EXCEPT !.x = w]   u == [s EXCEPT !.y = w]
<1>1. Moves(s, t, 0) /\ t \in Machine /\ Moves(s, u, 0) /\ u \in Machine
  BY WriteX, WriteY DEF Moves
<1>2. /\ SetX(s, w) = NZ(t, Part(w, SizeX(s)), SizeX(s))
      /\ SetY(s, w) = NZ(u, Part(w, SizeX(s)), SizeX(s))
  BY DEF SetX, SetY
<1> HIDE DEF t, u
<1>3. QED
  BY <1>1, <1>2, NZFlags, MovesThenUntouched

\* INX to DEY write the index in its width.
LEMMA StepXMoves ==
  ASSUME NEW s \in Machine, NEW v \in 0 .. SizeX(s) - 1
  PROVE  Moves(s, StepX(s, v), 0) /\ Moves(s, StepY(s, v), 0)
<1> DEFINE w == Merge(s.x, v, SizeX(s))   t == [s EXCEPT !.x = w]
           z == Merge(s.y, v, SizeX(s))   u == [s EXCEPT !.y = z]
<1>1. w \in Word /\ (X8(s) => hi(w) = hi(s.x)) /\ z \in Word /\ (X8(s) => hi(z) = hi(s.y))
  BY Registers16, SizeType, MergeType
<1> HIDE DEF w, z
<1>2. Moves(s, t, 0) /\ t \in Machine /\ Moves(s, u, 0) /\ u \in Machine
  BY <1>1, WriteX, WriteY DEF Moves, IndexHighZero
<1>3. StepX(s, v) = NZ(t, v, SizeX(s)) /\ StepY(s, v) = NZ(u, v, SizeX(s))
  BY DEF StepX, StepY, w, z
<1> HIDE DEF t, u
<1>4. QED
  BY <1>2, <1>3, NZFlags, MovesThenUntouched

\* The value of a byte fits the index registers whatever their width.
LEMMA ByteFits ==
  ASSUME NEW s, NEW v \in 0 .. SizeX(s) - 1
  PROVE  v \in Word /\ (X8(s) => hi(v) = 0)
<1>1. v \in Word
  BY SizeType, WidthType
<1>2. X8(s) => v \in Byte
  BY SizeType, Widths
<1>3. QED
  BY <1>1, <1>2, LowIsByte

-----------------------------------------------------------------------------
(* Pushes and pulls.                                                       *)

\* Only the stack pointer and what the invariants do not see is changed.
Slides(s, t, n) ==
  /\ t \in Machine /\ t.type = s.type /\ t.e = s.e
  /\ t.sp = Lowered(s.e, s.sp, n)
  /\ t.a = s.a /\ t.x = s.x /\ t.y = s.y
  /\ "m" \in t.p <=> "m" \in s.p
  /\ "x" \in t.p <=> "x" \in s.p

\* An operation that leaves the registers alone slides by 0.
LEMMA UntouchedSlides ==
  ASSUME NEW s \in Machine, NEW t, Untouched(s, t)
  PROVE  Slides(s, t, 0)
BY Registers16, LoweredZero DEF Untouched, Slides

\* Sliding is moving with the registers unchanged.
LEMMA SlidesMoves ==
  ASSUME NEW s, NEW t, NEW n, Slides(s, t, n)
  PROVE  Moves(s, t, n)
BY DEF Slides, Moves, HighKept, IndexHighZero, X8

\* Two slides add up.
LEMMA SlidesTwice ==
  ASSUME NEW s \in Machine, NEW t, NEW u, NEW m \in Int, NEW n \in Int,
         Slides(s, t, m), Slides(t, u, n)
  PROVE  Slides(s, u, m + n)
<1>1. Lowered(s.e, Lowered(s.e, s.sp, m), n) = Lowered(s.e, s.sp, m + n)
  BY Registers16, LoweredTwice
<1>2. QED
  BY <1>1 DEF Slides

\* A slide and a move add up to a move.
LEMMA SlidesThenMoves ==
  ASSUME NEW s \in Machine, NEW t, NEW u, NEW m \in Int, NEW n \in Int,
         Slides(s, t, m), Moves(t, u, n)
  PROVE  Moves(s, u, m + n)
<1>1. Lowered(s.e, Lowered(s.e, s.sp, m), n) = Lowered(s.e, s.sp, m + n)
  BY Registers16, LoweredTwice
<1>2. QED
  BY <1>1 DEF Slides, Moves, HighKept, IndexHighZero, M8, X8

\* What follows a slide and leaves the registers alone is part of it.
LEMMA SlidesThenUntouched ==
  ASSUME NEW s, NEW t, NEW u, NEW n, Slides(s, t, n), Untouched(t, u)
  PROVE  Slides(s, u, n)
BY DEF Slides, Untouched

\* So is what comes before.
LEMMA UntouchedThenSlides ==
  ASSUME NEW s, NEW t, NEW u, NEW n, Untouched(s, t), Slides(t, u, n)
  PROVE  Slides(s, u, n)
BY DEF Slides, Untouched

\* The pointer goes down and up by one within its page or its bank.
LEMMA DownIsLowered ==
  ASSUME NEW s \in Machine
  PROVE  /\ Down(s) = Lowered(s.e, s.sp, 1) /\ Up(s) = Lowered(s.e, s.sp, -1)
         /\ Down(s) \in Word /\ Up(s) \in Word /\ Up(s) \in Int
<1>1. lo(s.sp) \in Int /\ s.sp \in Int
  BY Registers16, HalvesRange
<1>2. lo(s.sp) - (-1) = lo(s.sp) + 1 /\ s.sp - (-1) = s.sp + 1
  BY <1>1
<1>3. Down(s) = Lowered(s.e, s.sp, 1) /\ Up(s) = Lowered(s.e, s.sp, -1)
  BY <1>2 DEF Down, Up, Lowered
<1>4. 1 \in Int /\ -1 \in Int /\ s.sp \in Word
  BY Registers16
<1>5. Lowered(s.e, s.sp, 1) \in Word /\ Lowered(s.e, s.sp, -1) \in Word
  BY <1>4, LoweredType
<1>6. QED
  BY <1>3, <1>5, Widths

\* Pushing a cell slides by one byte.
LEMMA PushCellSlides ==
  ASSUME NEW s \in Machine, NEW cell \in Cells
  PROVE  Slides(s, PushCell(s, cell), 1)
<1> DEFINE m == [s.mem EXCEPT ![s.sp % Space] = cell]
<1>1. s.sp % Space \in 0 .. Space - 1
  BY Registers16, CellAt
<1>2. m \in Memory
  BY <1>1 DEF Machine, Memory, Cells
<1>3. Down(s) = Lowered(s.e, s.sp, 1) /\ Down(s) \in Word
  BY DownIsLowered
<1>4. PushCell(s, cell) = [s EXCEPT !.mem = m, !.sp = Down(s)]
  BY DEF PushCell, Machine
<1> HIDE DEF m
<1>5. QED
  BY <1>2, <1>3, <1>4 DEF Slides, Machine, Memory, Cells

\* Pushing a byte slides by one.
LEMMA PushByteSlides ==
  ASSUME NEW s \in Machine, NEW v \in Byte
  PROVE  Slides(s, PushByte(s, v), 1)
BY DataCellType, PushCellSlides DEF PushByte

\* Pushing a word slides by two.
LEMMA PushWordSlides ==
  ASSUME NEW s \in Machine, NEW w \in Int
  PROVE  Slides(s, PushWord(s, w), 2)
<1> DEFINE t == PushByte(s, hi(w))
<1>1. lo(w) \in Byte /\ hi(w) \in Byte
  BY HalvesRange
<1>2. Slides(s, t, 1) /\ t \in Machine
  BY <1>1, PushByteSlides DEF Slides
<1>3. PushWord(s, w) = PushByte(t, lo(w))
  BY DEF PushWord
<1> HIDE DEF t
<1>4. Slides(t, PushByte(t, lo(w)), 1)
  BY <1>1, <1>2, PushByteSlides
<1>5. Slides(s, PushByte(t, lo(w)), 1 + 1)
  BY <1>2, <1>4, SlidesTwice
<1>6. QED
  BY <1>3, <1>5

\* Bytes a value of a width takes on the stack.
Bytes(N) == IF N = ByteSize THEN 1 ELSE 2

\* Pushing a register slides by the bytes of its width.
LEMMA PushSlides ==
  ASSUME NEW s \in Machine, NEW N \in Width, NEW v \in 0 .. N - 1
  PROVE  Slides(s, Push(s, v, N), Bytes(N))
<1>1. v \in Int
  BY WidthType
<1>2. N = ByteSize => v \in Byte
  BY Widths
<1>3. QED
  BY <1>1, <1>2, PushByteSlides, PushWordSlides DEF Push, Bytes

\* Pulling slides back.
LEMMA PoppedSlides ==
  ASSUME NEW s \in Machine
  PROVE  Slides(s, Popped(s, 1), -1) /\ Slides(s, Popped(s, 2), -2)
<1> DEFINE up(u) == [u EXCEPT !.sp = Up(u)]
<1>1. ASSUME NEW u \in Machine PROVE Slides(u, up(u), -1)
  <2>1. Up(u) = Lowered(u.e, u.sp, -1) /\ Up(u) \in Word
    BY DownIsLowered
  <2>2. QED
    BY <2>1 DEF Slides, Machine
<1>2. Popped(s, 1) = up(s) /\ Popped(s, 2) = up(up(s))
  BY DEF Popped
<1> HIDE DEF up
<1>3. Slides(s, up(s), -1) /\ up(s) \in Machine
  BY <1>1 DEF Slides
<1>4. Slides(up(s), up(up(s)), -1)
  BY <1>1, <1>3
<1>5. Slides(s, up(up(s)), (-1) + (-1))
  BY <1>3, <1>4, SlidesTwice
<1>6. (-1) + (-1) = -2
  OBVIOUS
<1>7. QED
  BY <1>2, <1>3, <1>5, <1>6

\* What is on top of the stack fits the width it is pulled in.
LEMMA TopType ==
  ASSUME NEW s \in Machine
  PROVE  /\ TopCell(s) \in Cells /\ TopCell(s).v \in Byte /\ TopCell(s).f \in SUBSET Flags
         /\ TopWord(s) \in Word
         /\ \A N \in Width : Top(s, N) \in 0 .. N - 1
<1>1. ASSUME NEW u \in Machine PROVE TopCell(u) \in Cells /\ TopCell(u).v \in Byte /\ TopCell(u).f \in SUBSET Flags
  <2>1. Up(u) \in Word /\ Up(u) \in Int
    BY DownIsLowered
  <2>2. TopCell(u) \in Cells
    BY <2>1, CellAt DEF TopCell
  <2>3. QED
    BY <2>2 DEF Cells
<1>2. Popped(s, 1) \in Machine
  BY PoppedSlides DEF Slides
<1>3. TopWord(s) \in Word
  BY <1>1, <1>2, Halves DEF TopWord
<1>4. QED
  BY <1>1, <1>3, Widths DEF Top, Width

-----------------------------------------------------------------------------
(* The instructions, group by group.                                       *)

\* An operand: an address, or a value of the width the instruction takes.
Operand(d, N) == d.at \in Int /\ (d.imm => d.at \in 0 .. N - 1)

\* The operand of an instruction fits its width, immediate or read.
LEMMA DataType ==
  ASSUME NEW s \in Machine, NEW d, NEW N \in Width, Operand(d, N)
  PROVE  Data(s, d, N) \in 0 .. N - 1
BY GetType DEF Data, Operand

\* The parts of the registers an instruction sees fit their widths.
LEMMA RegisterType ==
  ASSUME NEW s \in Machine
  PROVE  /\ A(s) \in 0 .. SizeM(s) - 1 /\ X(s) \in 0 .. SizeX(s) - 1 /\ Y(s) \in 0 .. SizeX(s) - 1
         /\ A(s) \in Int /\ X(s) \in Int /\ Y(s) \in Int
<1>1. A(s) \in 0 .. SizeM(s) - 1 /\ X(s) \in 0 .. SizeX(s) - 1 /\ Y(s) \in 0 .. SizeX(s) - 1
  BY Registers16, SizeType, PartType DEF A, X, Y
<1>2. SizeM(s) \in Nat \ {0} /\ SizeX(s) \in Nat \ {0}
  BY SizeType, WidthType
<1>3. QED
  BY <1>1, <1>2

\* The carry is 0 or 1.
LEMMA CarryType ==
  ASSUME NEW s
  PROVE  Carry(s) \in 0 .. 1 /\ Carry(s) \in Int
BY DEF Carry

\* An instruction on A, in A's width.
LEMMA OnA ==
  ASSUME NEW s \in Machine, NEW d, Operand(d, SizeM(s))
  PROVE  /\ Moves(s, op_lda(s, d), 0) /\ Moves(s, op_and(s, d), 0)
         /\ Moves(s, op_ora(s, d), 0) /\ Moves(s, op_eor(s, d), 0)
         /\ Moves(s, op_adc(s, d), 0) /\ Moves(s, op_sbc(s, d), 0) /\ Moves(s, op_add(s, d), 0)
<1> DEFINE N == SizeM(s)   v == DataM(s, d)
<1>1. N \in Width /\ v \in 0 .. N - 1
  BY SizeType, DataType DEF DataM
<1>2. v \in Int /\ A(s) \in Int /\ Carry(s) \in Int
  BY <1>1, WidthType, RegisterType, CarryType
<1>3. And(A(s), v, N) \in 0 .. N - 1 /\ Or(A(s), v, N) \in 0 .. N - 1 /\ Eor(A(s), v, N) \in 0 .. N - 1
  BY <1>1, <1>2, BitwiseType
<1>4. ASSUME NEW r, r.v \in 0 .. N - 1 PROVE Moves(s, Summed(s, r), 0)
  <2> DEFINE t == Set(s, "c", r.c = 1)   u == Set(t, "v", r.o)
  <2>1. "c" \in Flags /\ "v" \in Flags
    BY FlagNames
  <2>2. Untouched(s, t) /\ t \in Machine
    BY <2>1, SetFlag DEF Untouched
  <2> HIDE DEF t
  <2>3. Untouched(t, u) /\ u \in Machine
    BY <2>1, <2>2, SetFlag DEF Untouched
  <2> HIDE DEF u
  <2>4. Untouched(s, u)
    BY <2>2, <2>3, UntouchedTwice
  <2>5. SizeM(u) = SizeM(s)
    BY <2>4 DEF Untouched, SizeM, M8
  <2>6. Moves(u, SetA(u, r.v), 0)
    BY <1>4, <2>3, <2>5, SetAMoves
  <2>7. Summed(s, r) = SetA(u, r.v)
    BY DEF Summed, t, u
  <2>8. QED
    BY <2>4, <2>6, <2>7, UntouchedThenMoves
<1>5. Moves(s, op_adc(s, d), 0) /\ Moves(s, op_sbc(s, d), 0) /\ Moves(s, op_add(s, d), 0)
  <2> HIDE DEF N, v
  <2>1. /\ AddWithCarry(A(s), v, Carry(s), "d" \in s.p, N).v \in 0 .. N - 1
        /\ SubtractWithBorrow(A(s), v, Carry(s), "d" \in s.p, N).v \in 0 .. N - 1
        /\ AddWithoutCarry(A(s), v, N).v \in 0 .. N - 1
    BY <1>1, <1>2, AddType
  <2>2. QED
    BY <1>4, <2>1 DEF op_adc, op_sbc, op_add, N, v
<1>6. QED
  BY <1>1, <1>3, <1>5, SetAMoves DEF op_lda, op_and, op_ora, op_eor

\* The loads of the index registers.
LEMMA IndexLoads ==
  ASSUME NEW s \in Machine, NEW d, Operand(d, SizeX(s))
  PROVE  Moves(s, op_ldx(s, d), 0) /\ Moves(s, op_ldy(s, d), 0)
<1>1. DataX(s, d) \in 0 .. SizeX(s) - 1
  BY SizeType, DataType DEF DataX
<1>2. DataX(s, d) \in Word /\ (X8(s) => hi(DataX(s, d)) = 0)
  BY <1>1, ByteFits
<1>3. QED
  BY <1>2, SetXMoves DEF op_ldx, op_ldy

\* Storing a register leaves the registers alone.
LEMMA Stores ==
  ASSUME NEW s \in Machine, NEW d, d.at \in Int
  PROVE  /\ Moves(s, op_sta(s, d), 0) /\ Moves(s, op_stx(s, d), 0)
         /\ Moves(s, op_sty(s, d), 0) /\ Moves(s, op_stz(s, d), 0)
<1>1. SizeM(s) \in Width /\ SizeX(s) \in Width /\ 0 \in 0 .. SizeM(s) - 1
  BY SizeType, WidthType
<1>2. QED
  BY <1>1, RegisterType, PutValue, UntouchedMoves DEF op_sta, op_stx, op_sty, op_stz

\* Comparisons and tests change flags alone.
LEMMA Comparisons ==
  ASSUME NEW s \in Machine, NEW d
  PROVE  /\ Untouched(s, op_cmp(s, d)) /\ Untouched(s, op_cpx(s, d)) /\ Untouched(s, op_cpy(s, d))
         /\ Untouched(s, op_biti(s, d)) /\ Untouched(s, op_bit(s, d))
<1>1. "c" \in Flags /\ "z" \in Flags /\ "n" \in Flags /\ "v" \in Flags
  BY FlagNames
<1>2. ASSUME NEW r, NEW N PROVE Untouched(s, Compared(s, r, N))
  <2> DEFINE t == NZ(s, r.v, N)
  <2>1. Untouched(s, t) /\ t \in Machine
    BY NZFlags DEF Untouched
  <2>2. Compared(s, r, N) = Set(t, "c", r.c = 1)
    BY DEF Compared
  <2> HIDE DEF t
  <2>3. Untouched(t, Set(t, "c", r.c = 1))
    BY <1>1, <2>1, SetFlag
  <2>4. QED
    BY <2>1, <2>2, <2>3, UntouchedTwice
<1>3. Untouched(s, op_biti(s, d)) /\ op_biti(s, d) \in Machine
  BY <1>1, SetFlag DEF op_biti, Untouched
<1>4. Untouched(s, op_bit(s, d))
  <2> DEFINE t == op_biti(s, d)
             nn == Negative(DataM(s, d), SizeM(s))
             vv == Negative((2 * DataM(s, d)) % SizeM(s), SizeM(s))
             u == Set(t, "n", nn)
  <2>1. op_bit(s, d) = Set(u, "v", vv)
    BY DEF op_bit
  <2>2. Untouched(s, t) /\ t \in Machine
    BY <1>3
  <2> HIDE DEF t
  <2>3. Untouched(t, u) /\ u \in Machine
    BY <1>1, <2>2, SetFlag DEF Untouched
  <2> HIDE DEF u
  <2>4. Untouched(u, Set(u, "v", vv))
    BY <1>1, <2>3, SetFlag
  <2>5. Untouched(s, Set(u, "v", vv))
    BY <2>2, <2>3, <2>4, UntouchedTwice
  <2>6. QED
    BY <2>1, <2>5
<1>5. QED
  BY <1>2, <1>3, <1>4 DEF op_cmp, op_cpx, op_cpy

\* Read, modify, write.
LEMMA Modifying ==
  ASSUME NEW s \in Machine, NEW d, d.at \in Int, ~d.imm
  PROVE  /\ Untouched(s, op_inc(s, d)) /\ Untouched(s, op_dec(s, d))
         /\ Untouched(s, op_asl(s, d)) /\ Untouched(s, op_lsr(s, d))
         /\ Untouched(s, op_rol(s, d)) /\ Untouched(s, op_ror(s, d))
         /\ Untouched(s, op_trb(s, d)) /\ Untouched(s, op_tsb(s, d))
<1> DEFINE N == SizeM(s)   v == DataM(s, d)
<1>1. N \in Width /\ v \in 0 .. N - 1 /\ N \in Nat \ {0}
  BY SizeType, DataType, WidthType DEF DataM, Operand
<1>2. v \in Int /\ A(s) \in Int /\ Carry(s) \in 0 .. 1
  BY <1>1, RegisterType, CarryType
<1> HIDE DEF N, v
<1>3. ASSUME NEW u, Untouched(s, u), NEW w \in 0 .. N - 1
      PROVE  Untouched(s, Modified(u, d, w))
  <2> DEFINE t == NZ(u, w, SizeM(u))
  <2>1. u \in Machine /\ SizeM(u) = N
    BY <1>3 DEF Untouched, SizeM, M8, N
  <2>2. Untouched(u, t) /\ t \in Machine
    BY <2>1, NZFlags DEF Untouched
  <2>3. Modified(u, d, w) = Put(t, d.at, w, N)
    BY <2>1 DEF Modified
  <2> HIDE DEF t
  <2>4. Untouched(t, Put(t, d.at, w, N))
    BY <1>1, <2>2, PutValue
  <2>5. Untouched(s, t)
    BY <1>3, <2>2, UntouchedTwice
  <2>6. QED
    BY <2>3, <2>4, <2>5, UntouchedTwice
<1>4. ASSUME NEW r, r.v \in 0 .. N - 1 PROVE Untouched(s, Shifted(s, d, r))
  <2>1. Untouched(s, Set(s, "c", r.c = 1))
    BY FlagNames, SetFlag
  <2>2. QED
    BY <1>3, <1>4, <2>1 DEF Shifted
<1>5. Untouched(s, s)
  BY DEF Untouched
<1>6. (v + 1) % N \in 0 .. N - 1 /\ (v - 1) % N \in 0 .. N - 1
  <2>1. v + 1 \in Int /\ v - 1 \in Int
    BY <1>2
  <2>2. QED
    BY <1>1, <2>1, Remainder
<1>7. Untouched(s, op_inc(s, d)) /\ Untouched(s, op_dec(s, d))
  BY <1>3, <1>5, <1>6 DEF op_inc, op_dec, v, N
<1>8. Untouched(s, op_asl(s, d)) /\ Untouched(s, op_lsr(s, d))
      /\ Untouched(s, op_rol(s, d)) /\ Untouched(s, op_ror(s, d))
  <2>1. /\ ShiftLeft(v, N).v \in 0 .. N - 1 /\ ShiftRight(v, N).v \in 0 .. N - 1
        /\ RotateLeft(v, Carry(s), N).v \in 0 .. N - 1 /\ RotateRight(v, Carry(s), N).v \in 0 .. N - 1
    BY <1>1, <1>2, ShiftType
  <2>2. QED
    BY <1>4, <2>1 DEF op_asl, op_lsr, op_rol, op_ror, v, N
<1>9. ASSUME NEW w \in 0 .. N - 1 PROVE Untouched(s, Put(op_biti(s, d), d.at, w, N))
  <2>1. Untouched(s, op_biti(s, d)) /\ op_biti(s, d) \in Machine
    BY Comparisons DEF Untouched
  <2>2. Untouched(op_biti(s, d), Put(op_biti(s, d), d.at, w, N))
    BY <1>1, <2>1, PutValue
  <2>3. QED
    BY <2>1, <2>2, UntouchedTwice
<1>10. And(v, N - 1 - A(s), N) \in 0 .. N - 1 /\ Or(v, A(s), N) \in 0 .. N - 1
  <2>1. N - 1 - A(s) \in Int
    BY <1>1, <1>2
  <2>2. QED
    BY <1>1, <1>2, <2>1, BitwiseType
<1>11. Untouched(s, op_trb(s, d)) /\ Untouched(s, op_tsb(s, d))
  BY <1>9, <1>10 DEF op_trb, op_tsb, v, N
<1>12. QED
  BY <1>7, <1>8, <1>11

\* The same on A and on the index registers.
LEMMA ModifyingRegisters ==
  ASSUME NEW s \in Machine
  PROVE  /\ Moves(s, op_asla(s), 0) /\ Moves(s, op_lsra(s), 0) /\ Moves(s, op_rola(s), 0)
         /\ Moves(s, op_rora(s), 0) /\ Moves(s, op_asra(s), 0)
         /\ Moves(s, op_inca(s), 0) /\ Moves(s, op_deca(s), 0)
         /\ Moves(s, op_inx(s), 0) /\ Moves(s, op_iny(s), 0)
         /\ Moves(s, op_dex(s), 0) /\ Moves(s, op_dey(s), 0)
<1> DEFINE N == SizeM(s)   M == SizeX(s)
<1>1. N \in Width /\ N \in Nat \ {0} /\ M \in Width /\ M \in Nat \ {0}
  BY SizeType, WidthType
<1>2. /\ A(s) \in 0 .. N - 1 /\ A(s) \in Int /\ X(s) \in Int /\ Y(s) \in Int
      /\ Carry(s) \in 0 .. 1
  BY RegisterType, CarryType
<1> HIDE DEF N, M
<1>3. ASSUME NEW r, r.v \in 0 .. N - 1 PROVE Moves(s, ShiftedA(s, r), 0)
  <2> DEFINE t == Set(s, "c", r.c = 1)
  <2>1. Untouched(s, t) /\ t \in Machine /\ SizeM(t) = N
    BY FlagNames, SetFlag DEF Untouched, SizeM, M8, N
  <2>2. ShiftedA(s, r) = SetA(t, r.v)
    BY DEF ShiftedA
  <2> HIDE DEF t
  <2>3. Moves(t, SetA(t, r.v), 0)
    BY <1>3, <2>1, SetAMoves
  <2>4. QED
    BY <2>1, <2>2, <2>3, UntouchedThenMoves
<1>4. /\ Moves(s, op_asla(s), 0) /\ Moves(s, op_lsra(s), 0) /\ Moves(s, op_rola(s), 0)
      /\ Moves(s, op_rora(s), 0) /\ Moves(s, op_asra(s), 0)
  <2>1. /\ ShiftLeft(A(s), N).v \in 0 .. N - 1 /\ ShiftRight(A(s), N).v \in 0 .. N - 1
        /\ RotateLeft(A(s), Carry(s), N).v \in 0 .. N - 1
        /\ RotateRight(A(s), Carry(s), N).v \in 0 .. N - 1
        /\ ShiftRightSigned(A(s), N).v \in 0 .. N - 1
    BY <1>1, <1>2, ShiftType
  <2>2. QED
    BY <1>3, <2>1 DEF op_asla, op_lsra, op_rola, op_rora, op_asra, N
<1>5. ASSUME NEW v \in Int, NEW K \in Nat \ {0}
      PROVE  (v + 1) % K \in 0 .. K - 1 /\ (v - 1) % K \in 0 .. K - 1
  <2>1. v + 1 \in Int /\ v - 1 \in Int
    OBVIOUS
  <2>2. QED
    BY <2>1, Remainder
<1>6. Moves(s, op_inca(s), 0) /\ Moves(s, op_deca(s), 0)
  BY <1>1, <1>2, <1>5, SetAMoves DEF op_inca, op_deca, N
<1>7. /\ Moves(s, op_inx(s), 0) /\ Moves(s, op_iny(s), 0)
      /\ Moves(s, op_dex(s), 0) /\ Moves(s, op_dey(s), 0)
  BY <1>1, <1>2, <1>5, StepXMoves DEF op_inx, op_iny, op_dex, op_dey, M
<1>8. QED
  BY <1>4, <1>6, <1>7

\* The bits of a byte in memory.
LEMMA BitChanges ==
  ASSUME NEW s \in Machine, NEW ea \in Int, NEW k \in Nat, NEW mask \in Int
  PROVE  /\ Untouched(s, op_rmb(s, ea, k)) /\ Untouched(s, op_smb(s, ea, k))
         /\ Untouched(s, op_rba(s, ea, mask)) /\ Untouched(s, op_sba(s, ea, mask))
<1>1. ByteSize \in Width /\ ByteSize \in Nat
  BY Widths DEF Width
<1>2. getByte(s, ea) \in Int /\ 2 ^ k \in Int
  BY GetType, Widths, PowerNat
<1>3. ByteSize - 1 - 2 ^ k \in Int /\ ByteSize - 1 - mask \in Int
  BY <1>1, <1>2
<1>4. ASSUME NEW v \in Int, NEW w \in Int
      PROVE  And(v, w, ByteSize) \in Byte /\ Or(v, w, ByteSize) \in Byte
  BY <1>1, BitwiseType, Widths
<1>5. QED
  BY <1>2, <1>3, <1>4, SetByte DEF op_rmb, op_smb, op_rba, op_sba

-----------------------------------------------------------------------------
(* Transfers and changes of the widths.                                    *)

\* Whatever an instruction does leaves a machine.
LEMMA MovesType ==
  ASSUME NEW s, NEW t, NEW n, Untouched(s, t) \/ Slides(s, t, n) \/ Moves(s, t, n)
  PROVE  t \in Machine
BY DEF Untouched, Slides, Moves

\* Transfers between the registers that keep their halves.
LEMMA Transferring ==
  ASSUME NEW s \in Machine
  PROVE  /\ Moves(s, op_tax(s), 0) /\ Moves(s, op_tay(s), 0)
         /\ Moves(s, op_txy(s), 0) /\ Moves(s, op_tyx(s), 0)
         /\ Moves(s, op_txa(s), 0) /\ Moves(s, op_tya(s), 0)
         /\ Moves(s, op_tsx(s), 0)
         /\ Untouched(s, op_tcd(s)) /\ Untouched(s, op_taw(s))
<1>1. SizeM(s) \in Width /\ SizeX(s) \in Width
  BY SizeType
<1>2. ASSUME NEW w \in Int
      PROVE  /\ Part(w, SizeM(s)) \in 0 .. SizeM(s) - 1
             /\ Part(w, SizeX(s)) \in 0 .. SizeX(s) - 1
  BY <1>1, PartType
<1>3. Moves(s, op_tax(s), 0) /\ Moves(s, op_tay(s), 0)
  <2> DEFINE w == Part(s.a, SizeX(s))
  <2>1. w \in 0 .. SizeX(s) - 1
    BY <1>2, Registers16
  <2> HIDE DEF w
  <2>2. w \in Word /\ (X8(s) => hi(w) = 0)
    BY <2>1, ByteFits
  <2>3. QED
    BY <2>2, SetXMoves DEF op_tax, op_tay, w
<1>4. Moves(s, op_txy(s), 0) /\ Moves(s, op_tyx(s), 0)
  BY Registers16, SetXMoves DEF op_txy, op_tyx, IndexHighZero
<1>5. Moves(s, op_txa(s), 0) /\ Moves(s, op_tya(s), 0)
  BY <1>2, Registers16, SetAMoves DEF op_txa, op_tya
<1>6. Moves(s, op_tsx(s), 0)
  BY <1>2, Registers16, StepXMoves DEF op_tsx
<1>7. Untouched(s, op_tcd(s))
  BY Registers16 DEF op_tcd, Untouched, Machine
<1>8. Untouched(s, op_taw(s))
  <2>1. lo(s.a) \in Byte /\ 0 \in Byte
    BY Registers16, HalvesRange, Widths
  <2>2. QED
    BY <2>1 DEF op_taw, Untouched, Machine
<1>9. QED
  BY <1>3, <1>4, <1>5, <1>6, <1>7, <1>8

\* Those that write both halves of A leave the rest.
OnlyA(s, t) ==
  /\ t \in Machine /\ t.type = s.type /\ t.e = s.e /\ t.sp = s.sp
  /\ t.x = s.x /\ t.y = s.y
  /\ "x" \in t.p <=> "x" \in s.p

\* TDC, TSC and XBA write the whole of A, whatever the flag m says.
LEMMA WholeTransfers ==
  ASSUME NEW s \in Machine
  PROVE  OnlyA(s, op_tdc(s)) /\ OnlyA(s, op_tsc(s)) /\ OnlyA(s, op_xba(s))
<1>1. ASSUME NEW w \in Word, NEW v, NEW N
      PROVE  OnlyA(s, NZ([s EXCEPT !.a = w], v, N))
  <2> DEFINE t == [s EXCEPT !.a = w]
  <2>1. OnlyA(s, t)
    BY DEF OnlyA, Machine
  <2>2. t \in Machine
    BY <2>1 DEF OnlyA
  <2> HIDE DEF t
  <2>3. Untouched(t, NZ(t, v, N))
    BY <2>2, NZFlags
  <2>4. OnlyA(s, NZ(t, v, N))
    BY <2>1, <2>3 DEF OnlyA, Untouched
  <2>5. QED
    BY <2>4 DEF t
<1>2. swap(s.a) \in Word
  <2>1. lo(s.a) \in Byte /\ hi(s.a) \in Byte
    BY Registers16, HalvesRange
  <2>2. QED
    BY <2>1, Halves DEF swap
<1>3. s.dp \in Word /\ s.sp \in Word
  BY Registers16
<1>4. QED
  BY <1>1, <1>2, <1>3 DEF op_tdc, op_tsc, op_xba

\* Flags that are cleared, or set and the index registers narrowed.
LEMMA NarrowedMoves ==
  ASSUME NEW s \in Machine, NEW t \in Machine, NEW n,
         t.type = s.type, t.e = s.e, t.sp = Lowered(s.e, s.sp, n),
         t.a = s.a, t.x = s.x, t.y = s.y
  PROVE  /\ "x" \in t.p /\ X8(s) => Moves(s, t, n)
         /\ ("x" \notin t.p /\ ~t.e) => Moves(s, t, n)
         /\ ("x" \in t.p \/ ~t.e) => Moves(s, Narrowed(t), n)
<1>1. lo(t.x) \in Byte /\ lo(t.y) \in Byte
  BY Registers16, HalvesRange
<1>2. lo(t.x) \in Word /\ lo(t.y) \in Word /\ hi(lo(t.x)) = 0 /\ hi(lo(t.y)) = 0
  BY <1>1, Widths, LowIsByte
<1>3. "x" \in t.p /\ X8(s) => Moves(s, t, n)
  BY DEF Moves, HighKept, IndexHighZero
<1>4. ("x" \notin t.p /\ ~t.e) => Moves(s, t, n)
  BY DEF Moves, HighKept, IndexHighZero, X8
<1>5. CASE "x" \in t.p
  <2> DEFINE u == [t EXCEPT !.x = lo(t.x), !.y = lo(t.y)]
  <2>1. u \in Machine /\ u.type = t.type /\ u.e = t.e /\ u.sp = t.sp /\ u.a = t.a
        /\ u.x = lo(t.x) /\ u.y = lo(t.y)
    BY <1>2 DEF Machine
  <2>2. Narrowed(t) = u
    BY <1>5 DEF Narrowed
  <2> HIDE DEF u
  <2>3. Moves(s, u, n)
    BY <1>2, <2>1 DEF Moves, HighKept, IndexHighZero
  <2>4. QED
    BY <1>3, <1>4, <2>2, <2>3
<1>6. CASE "x" \notin t.p
  BY <1>3, <1>4, <1>6 DEF Narrowed
<1>7. QED
  BY <1>5, <1>6

\* REP and SEP change the widths; SEP narrows the index registers as well.
LEMMA Masking ==
  ASSUME NEW s \in Machine, NEW mask \in SUBSET Flags
  PROVE  Moves(s, op_rep(s, mask), 0) /\ Moves(s, op_sep(s, mask), 0)
<1>1. "m" \in Flags /\ "x" \in Flags /\ s.p \in SUBSET Flags
  BY FlagNames, Registers16
<1>2. Lowered(s.e, s.sp, 0) = s.sp
  BY Registers16, LoweredZero
<1>3. ASSUME NEW p \in SUBSET Flags
      PROVE  LET t == [s EXCEPT !.p = Forced(s, p)]
             IN  /\ t \in Machine /\ t.type = s.type /\ t.e = s.e /\ t.sp = s.sp
                 /\ t.a = s.a /\ t.x = s.x /\ t.y = s.y /\ t.p = Forced(s, p)
  <2>1. Forced(s, p) \in SUBSET Flags
    BY <1>1 DEF Forced
  <2>2. QED
    BY <2>1 DEF Machine
<1>4. Moves(s, op_rep(s, mask), 0)
  <2> DEFINE t == [s EXCEPT !.p = Forced(s, s.p \ mask)]
  <2>1. /\ t \in Machine /\ t.type = s.type /\ t.e = s.e /\ t.sp = s.sp
        /\ t.a = s.a /\ t.x = s.x /\ t.y = s.y /\ t.p = Forced(s, s.p \ mask)
    BY <1>1, <1>3
  <2>2. op_rep(s, mask) = t
    BY DEF op_rep
  <2> HIDE DEF t
  <2>3. X8(t) => X8(s)
    BY <2>1 DEF X8, Forced
  <2>4. QED
    BY <1>2, <2>1, <2>2, <2>3 DEF Moves, HighKept, IndexHighZero
<1>5. Moves(s, op_sep(s, mask), 0)
  <2> DEFINE t == [s EXCEPT !.p = Forced(s, s.p \cup mask)]
  <2>1. /\ t \in Machine /\ t.type = s.type /\ t.e = s.e /\ t.sp = s.sp
        /\ t.a = s.a /\ t.x = s.x /\ t.y = s.y /\ t.p = Forced(s, s.p \cup mask)
    BY <1>1, <1>3
  <2>2. op_sep(s, mask) = Narrowed(t)
    BY DEF op_sep
  <2> HIDE DEF t
  <2>3. "x" \in t.p \/ ~t.e
    BY <2>1 DEF Forced
  <2>4. QED
    BY <1>2, <2>1, <2>2, <2>3, NarrowedMoves
<1>6. QED
  BY <1>4, <1>5

\* The instructions that set the stack pointer leave it in the page in emulation mode.
Resets(s, t) == t \in Machine /\ t.type = s.type /\ InStackPage(t.e, t.sp)

\* TXS, TCS and XCE set the stack pointer anew, in the page in emulation mode.
LEMMA Resetting ==
  ASSUME NEW s \in Machine
  PROVE  /\ Resets(s, op_txs(s)) /\ op_txs(s).e = s.e /\ HighKept(s, op_txs(s))
         /\ Resets(s, op_tcs(s)) /\ op_tcs(s).e = s.e /\ HighKept(s, op_tcs(s))
         /\ Resets(s, op_xce(s)) /\ (M8(s) => hi(op_xce(s).a) = hi(s.a))
         /\ ~op_xce(s).e => op_xce(s).sp = s.sp
<1>1. ASSUME NEW w \in Int, NEW e
      PROVE  sp_page + lo(w) \in Word /\ InStackPage(e, sp_page + lo(w))
  BY <1>1, InPage, Registers16
<1>2. ASSUME NEW w \in Word, s.e => InStackPage(s.e, w)
      PROVE  LET t == [s EXCEPT !.sp = w]
             IN  Resets(s, t) /\ t.e = s.e /\ HighKept(s, t)
  <2> DEFINE t == [s EXCEPT !.sp = w]
  <2>1. /\ t \in Machine /\ t.type = s.type /\ t.e = s.e /\ t.sp = w
        /\ t.a = s.a /\ t.x = s.x /\ t.y = s.y /\ t.p = s.p
    BY DEF Machine
  <2> HIDE DEF t
  <2>2. Resets(s, t)
    BY <1>2, <2>1 DEF Resets, InStackPage
  <2>3. HighKept(s, t)
    BY <2>1 DEF HighKept, IndexHighZero, X8
  <2>4. QED
    BY <2>1, <2>2, <2>3 DEF t
<1>3. Resets(s, op_txs(s)) /\ op_txs(s).e = s.e /\ HighKept(s, op_txs(s))
  <2> DEFINE w == IF X8(s) THEN sp_page + lo(s.x) ELSE s.x
  <2>1. w \in Word /\ (s.e => InStackPage(s.e, w))
    BY <1>1, Registers16 DEF X8
  <2>2. op_txs(s) = [s EXCEPT !.sp = w]
    BY DEF op_txs
  <2> HIDE DEF w
  <2>3. QED
    BY <1>2, <2>1, <2>2
<1>4. Resets(s, op_tcs(s)) /\ op_tcs(s).e = s.e /\ HighKept(s, op_tcs(s))
  <2> DEFINE w == IF s.e THEN sp_page + lo(s.a) ELSE s.a
  <2>1. w \in Word /\ (s.e => InStackPage(s.e, w))
    BY <1>1, Registers16
  <2>2. op_tcs(s) = [s EXCEPT !.sp = w]
    BY DEF op_tcs
  <2> HIDE DEF w
  <2>3. QED
    BY <1>2, <2>1, <2>2
<1>5. /\ Resets(s, op_xce(s)) /\ (M8(s) => hi(op_xce(s).a) = hi(s.a))
      /\ ~op_xce(s).e => op_xce(s).sp = s.sp
  <2> DEFINE c == "c" \in s.p
             r == [s EXCEPT !.e = c]
             t == Set(r, "c", s.e)
             w == sp_page + lo(t.sp)
             u == [t EXCEPT !.p = t.p \cup {"m", "x"}, !.sp = w]
  <2>0. c \in BOOLEAN /\ op_xce(s) = IF t.e THEN u ELSE t
    BY DEF op_xce
  <2> HIDE DEF c
  <2>1. r \in Machine /\ r.type = s.type /\ r.a = s.a /\ r.sp = s.sp
    BY <2>0 DEF Machine
  <2> HIDE DEF r
  <2>2. t \in Machine /\ t.type = s.type /\ t.a = s.a /\ t.sp = s.sp
    BY <2>1, FlagNames, SetFlag DEF Untouched
  <2>3. op_xce(s) = IF t.e THEN u ELSE t
    BY <2>0
  <2> HIDE DEF t
  <2>4. w \in Word /\ InStackPage(TRUE, w)
    BY <1>1, <2>2, Registers16
  <2> HIDE DEF w
  <2>5. t.p \cup {"m", "x"} \in SUBSET Flags
    BY <2>2, Registers16, FlagNames
  <2>6. u \in Machine /\ u.type = s.type /\ u.a = s.a /\ u.sp = w /\ u.e = t.e
    BY <2>2, <2>4, <2>5 DEF Machine
  <2> HIDE DEF u
  <2>7. QED
    BY <2>2, <2>3, <2>4, <2>6 DEF Resets, InStackPage
<1>6. QED
  BY <1>3, <1>4, <1>5

-----------------------------------------------------------------------------
(* The L28's instructions, the block moves and the waits.                  *)

\* A number wraps into a word, a byte or a bank.
LEMMA Wraps ==
  ASSUME NEW w \in Int
  PROVE  /\ w % WordSize \in Word /\ w % ByteSize \in Byte
         /\ (w \div WordSize) % ByteSize \in Byte
         /\ w % WordSize \in Int /\ w % ByteSize \in Int
<1>1. w \div WordSize \in Int
  BY Remainder, Widths
<1>2. /\ w % WordSize \in Word /\ w % ByteSize \in Byte
      /\ (w \div WordSize) % ByteSize \in Byte
  BY <1>1, Remainder, Widths
<1>3. (\A v \in Word : v \in Int) /\ \A b \in Byte : b \in Int
  BY Widths
<1>4. QED
  BY <1>2, <1>3

\* What is read from the memory is a number.
LEMMA GetNumbers ==
  ASSUME NEW s \in Machine, NEW ea \in Int
  PROVE  getByte(s, ea) \in Int /\ getWord(s, ea) \in Int /\ getAddr(s, ea) \in Int
<1>1. getByte(s, ea) \in Byte /\ getWord(s, ea) \in Word /\ getAddr(s, ea) \in Int
  BY GetType
<1>2. (\A w \in Word : w \in Int) /\ \A b \in Byte : b \in Int
  BY Widths
<1>3. QED
  BY <1>1, <1>2

\* The target of a branch is a word.
LEMMA RelativeType ==
  ASSUME NEW s \in Machine, NEW o \in Int, NEW N \in Width
  PROVE  Relative(s, o, N) \in Word
<1>1. N \in Nat
  BY WidthType
<1>2. Signed(o, N) \in Int
  BY <1>1 DEF Signed
<1>3. QED
  BY <1>2, Registers16, Wraps DEF Relative

\* Registers that are neither A, X, Y, S nor the flags.
LEMMA OtherRegisters ==
  ASSUME NEW s \in Machine, NEW v \in Word, NEW w \in Word, NEW b \in Byte, NEW c \in Byte
  PROVE  /\ Untouched(s, [s EXCEPT !.pc = w]) /\ Untouched(s, [s EXCEPT !.i = w])
         /\ Untouched(s, [s EXCEPT !.i = v, !.pc = w])
         /\ Untouched(s, [s EXCEPT !.pbr = b]) /\ Untouched(s, [s EXCEPT !.pbr = b, !.pc = w])
         /\ Untouched(s, [s EXCEPT !.dbr = b]) /\ Untouched(s, [s EXCEPT !.dp = w])
         /\ Untouched(s, [s EXCEPT !.wl = b, !.wh = c])
         /\ Untouched(s, [s EXCEPT !.stopped = TRUE])
         /\ Untouched(s, [s EXCEPT !.interrupted = FALSE])
         /\ Untouched(s, [s EXCEPT !.interrupted = TRUE])
<1>1. /\ Untouched(s, [s EXCEPT !.pc = w]) /\ Untouched(s, [s EXCEPT !.i = w])
      /\ Untouched(s, [s EXCEPT !.i = v, !.pc = w])
  BY DEF Untouched, Machine
<1>2. /\ Untouched(s, [s EXCEPT !.pbr = b]) /\ Untouched(s, [s EXCEPT !.pbr = b, !.pc = w])
      /\ Untouched(s, [s EXCEPT !.dbr = b]) /\ Untouched(s, [s EXCEPT !.dp = w])
  BY DEF Untouched, Machine
<1>3. Untouched(s, [s EXCEPT !.wl = b, !.wh = c])
  BY DEF Untouched, Machine
<1>4. /\ Untouched(s, [s EXCEPT !.stopped = TRUE])
      /\ Untouched(s, [s EXCEPT !.interrupted = FALSE])
      /\ Untouched(s, [s EXCEPT !.interrupted = TRUE])
  BY DEF Untouched, Machine
<1>5. QED
  BY <1>1, <1>2, <1>3, <1>4

\* What a machine shows that has changed A, X and Y and kept their upper halves.
LEMMA Writing ==
  ASSUME NEW s \in Machine, NEW t \in Machine,
         t.type = s.type, t.e = s.e, t.sp = s.sp,
         "m" \in t.p <=> "m" \in s.p, "x" \in t.p <=> "x" \in s.p,
         M8(s) => hi(t.a) = hi(s.a),
         X8(s) /\ IndexHighZero(s) => hi(t.x) = 0 /\ hi(t.y) = 0
  PROVE  Moves(s, t, 0)
BY Registers16, LoweredZero DEF Moves, HighKept, IndexHighZero, X8

\* A byte merged into a word leaves its high half.
LEMMA MergedByte ==
  ASSUME NEW w \in Word, NEW b \in Byte
  PROVE  Merge(w, b, ByteSize) \in Word /\ hi(Merge(w, b, ByteSize)) = hi(w)
BY MergeType, Widths DEF Width

\* The L28's instructions on A, Y and W.
LEMMA Multiplying ==
  ASSUME NEW s \in Machine
  PROVE  /\ Moves(s, op_mpy(s), 0) /\ Moves(s, op_mpa(s), 0) /\ Moves(s, op_rnd(s), 0)
         /\ Moves(s, op_neg(s), 0) /\ Moves(s, op_lab(s), 0) /\ Moves(s, op_twa(s), 0)
         /\ Moves(s, op_clw(s), 0)
<1>1. lo(s.a) \in Byte /\ lo(s.y) \in Byte /\ 0 \in Byte
  BY Registers16, HalvesRange, Widths
<1>2. W(s) \in Int
  BY Registers16, Halves, Widths DEF W
<1>3. Moves(s, op_mpy(s), 0)
  <2> DEFINE product == Multiply(lo(s.a), lo(s.y))
             a == Merge(s.a, hi(product), ByteSize)
             y == Merge(s.y, lo(product), ByteSize)
             t == [s EXCEPT !.a = a, !.y = y]
  <2>1. op_mpy(s) = NZ(t, product, WordSize)
    BY DEF op_mpy
  <2>2. product \in Int
    BY <1>1, SignedType, Widths
  <2> HIDE DEF product
  <2>3. hi(product) \in Byte /\ lo(product) \in Byte
    BY <2>2, HalvesRange
  <2>4. a \in Word /\ hi(a) = hi(s.a) /\ y \in Word /\ hi(y) = hi(s.y)
    BY <2>3, Registers16, MergedByte
  <2> HIDE DEF a, y
  <2>5. /\ t \in Machine /\ t.type = s.type /\ t.e = s.e /\ t.sp = s.sp /\ t.p = s.p
        /\ t.a = a /\ t.x = s.x /\ t.y = y
    BY <2>4 DEF Machine
  <2> HIDE DEF t
  <2>6. Moves(s, t, 0)
    BY <2>4, <2>5, Writing DEF IndexHighZero
  <2>7. QED
    BY <2>1, <2>5, <2>6, NZFlags, MovesThenUntouched
<1>4. Moves(s, op_mpa(s), 0)
  <2> DEFINE r == MultiplyAdd(W(s), lo(s.a), lo(s.y))
             t == Set(s, "v", "v" \in s.p \/ r.o)
             y == Merge(s.y, 0, ByteSize)
             u == [t EXCEPT !.wl = lo(r.v), !.wh = hi(r.v), !.y = y]
  <2>1. op_mpa(s) = u
    BY DEF op_mpa
  <2>2. lo(r.v) \in Byte /\ hi(r.v) \in Byte
    <3>1. r.v \in Word
      BY <1>1, <1>2, SignedType
    <3> HIDE DEF r
    <3>2. r.v \in Int
      BY <3>1, Widths
    <3>3. QED
      BY <3>2, HalvesRange
  <2>3. Untouched(s, t)
    BY SetFlag, FlagNames
  <2> HIDE DEF r, t
  <2>4. y \in Word /\ hi(y) = hi(s.y)
    BY <1>1, Registers16, MergedByte
  <2> HIDE DEF y
  <2>5. /\ u \in Machine /\ u.type = t.type /\ u.e = t.e /\ u.sp = t.sp /\ u.p = t.p
        /\ u.a = t.a /\ u.x = t.x /\ u.y = y
    BY <2>2, <2>3, <2>4 DEF Machine, Untouched
  <2> HIDE DEF u
  <2>6. Moves(s, u, 0)
    BY <2>3, <2>4, <2>5, Writing DEF Untouched, IndexHighZero
  <2>7. QED
    BY <2>1, <2>6
<1>5. Moves(s, op_rnd(s), 0) /\ Moves(s, op_neg(s), 0) /\ Moves(s, op_lab(s), 0)
  BY <1>1, <1>2, SignedType, SetBMoves DEF op_rnd, op_neg, op_lab
<1>6. Moves(s, op_twa(s), 0)
  BY Registers16, SetBMoves DEF op_twa
<1>7. Moves(s, op_clw(s), 0)
  <2> DEFINE t == Set(s, "v", FALSE)
  <2>1. Untouched(s, t) /\ t \in Machine
    BY SetFlag, FlagNames DEF Untouched
  <2> HIDE DEF t
  <2>2. Untouched(t, [t EXCEPT !.wl = 0, !.wh = 0])
    BY <1>1, <2>1, OtherRegisters, Widths
  <2>3. QED
    BY <2>1, <2>2, UntouchedTwice, UntouchedMoves DEF op_clw, t
<1>8. QED
  BY <1>3, <1>4, <1>5, <1>6, <1>7

\* Threaded code, and the exchange of B with memory.
LEMMA Threading ==
  ASSUME NEW s \in Machine
  PROVE  /\ Untouched(s, op_tip(s)) /\ Untouched(s, op_nxt(s)) /\ Untouched(s, op_lii(s))
         /\ Untouched(s, op_ini(s)) /\ Moves(s, op_lai(s), 0) /\ Moves(s, op_lan(s), 0)
         /\ \A d : d.at \in Int => Untouched(s, op_jpi(s, d)) /\ Moves(s, op_exc(s, d), 0)
<1>1. (s.i + 1) % WordSize \in Word /\ (s.i + 2) % WordSize \in Word
  BY Registers16, Wraps
<1>2. getWord(s, s.i) \in Word /\ getByte(s, s.i) \in Byte
  BY Registers16, GetType
<1>3. Untouched(s, op_tip(s)) /\ Untouched(s, op_lii(s))
  BY <1>2, Registers16, OtherRegisters, Widths DEF op_tip, op_lii
<1>4. Untouched(s, op_nxt(s))
  BY <1>1, <1>2, OtherRegisters, Widths DEF op_nxt
<1>5. ASSUME NEW t \in Machine
      PROVE  Untouched(t, op_ini(t))
  <2>1. (t.i + 1) % WordSize \in Word
    BY Registers16, Wraps
  <2>2. QED
    BY <2>1, OtherRegisters, Widths DEF op_ini
<1>6. Moves(s, op_lai(s), 0)
  BY <1>2, SetBMoves DEF op_lai
<1>7. Moves(s, op_lan(s), 0)
  <2>1. op_lai(s) \in Machine
    BY <1>6 DEF Moves
  <2>2. QED
    BY <1>5, <1>6, <2>1, MovesThenUntouched DEF op_lan
<1>8. ASSUME NEW d, d.at \in Int
      PROVE  Untouched(s, op_jpi(s, d)) /\ Moves(s, op_exc(s, d), 0)
  <2>1. getWord(s, d.at) \in Word /\ getByte(s, d.at) \in Byte /\ lo(s.a) \in Byte
    BY <1>8, GetType, Registers16, HalvesRange
  <2>2. Untouched(s, op_jpi(s, d))
    BY <2>1, Registers16, OtherRegisters, Widths DEF op_jpi
  <2> DEFINE t == setByte(s, d.at, lo(s.a))
  <2>3. Untouched(s, t) /\ t \in Machine
    BY <1>8, <2>1, SetByte DEF Untouched
  <2>4. op_exc(s, d) = SetB(t, getByte(s, d.at))
    BY DEF op_exc
  <2> HIDE DEF t
  <2>5. QED
    BY <2>1, <2>2, <2>3, <2>4, SetBMoves, UntouchedThenMoves
<1>9. QED
  BY <1>3, <1>4, <1>5, <1>6, <1>7, <1>8

\* A block move touches neither the stack nor the mode.
Shifted16(s, t) == t \in Machine /\ t.type = s.type /\ t.e = s.e /\ t.sp = s.sp

\* MVN and MVP leave the widths and the pointer, but not the halves of A.
LEMMA BlockMoves ==
  ASSUME NEW s \in Machine, NEW d, d.at \in Int
  PROVE  Shifted16(s, op_mvn(s, d)) /\ Shifted16(s, op_mvp(s, d))
<1>1. ASSUME NEW by \in Int
      PROVE  Shifted16(s, Moved(s, d, by))
  <2> DEFINE dst == lo(d.at)
             src == hi(d.at)
             b == getByte(s, bank(src) + s.x)
             r == setByte(s, bank(dst) + s.y, b)
             x == (s.x + by) % WordSize
             y == (s.y + by) % WordSize
             a == (s.a - 1) % WordSize
             t == [r EXCEPT !.dbr = dst, !.x = x, !.y = y, !.a = a]
  <2>1. dst \in Byte /\ src \in Byte
    BY HalvesRange
  <2>2. bank(src) + s.x \in Int /\ bank(dst) + s.y \in Int
    BY <2>1, Registers16, Widths DEF bank
  <2>3. b \in Byte
    BY <2>2, GetType
  <2>4. Untouched(s, r)
    BY <2>2, <2>3, SetByte
  <2>5. x \in Word /\ y \in Word /\ a \in Word
    BY <1>1, Registers16, Wraps
  <2>6. Moved(s, d, by) = IF t.a = WordSize - 1 THEN t
                          ELSE [t EXCEPT !.pc = (t.pc - 3) % WordSize]
    BY DEF Moved
  <2> HIDE DEF r, x, y, a, dst
  <2>7. t \in Machine /\ t.type = s.type /\ t.e = s.e /\ t.sp = s.sp
    BY <2>1, <2>4, <2>5 DEF Machine, Untouched
  <2> HIDE DEF t
  <2>8. (t.pc - 3) % WordSize \in Word
    BY <2>7, Registers16, Wraps
  <2>9. Untouched(t, [t EXCEPT !.pc = (t.pc - 3) % WordSize])
    BY <2>7, <2>8, OtherRegisters, Widths
  <2>10. QED
    BY <2>6, <2>7, <2>9 DEF Shifted16, Untouched
<1>2. QED
  BY <1>1 DEF op_mvn, op_mvp

\* WAI and WDM, unless it reads, leave the registers alone.
LEMMA Waiting ==
  ASSUME NEW s \in Machine
  PROVE  Untouched(s, op_wai(s)) /\ \A d : Untouched(s, op_wdm(s, d))
<1>1. (s.pc - 1) % WordSize \in Word
  BY Registers16, Wraps
<1>2. Untouched(s, s)
  BY DEF Untouched
<1>3. QED
  BY <1>1, <1>2, OtherRegisters, Widths DEF op_wai, op_wdm

\* WDM 2 writes the low half of the accumulator.
LEMMA ReadsCharacter ==
  ASSUME NEW s \in Machine, NEW typed \in Byte
  PROVE  Moves(s, op_wdm2(s, typed), 0)
<1> DEFINE w == Merge(s.a, typed, ByteSize)
<1>1. w \in Word /\ hi(w) = hi(s.a)
  BY Registers16, MergeType, Widths DEF Width
<1>2. op_wdm2(s, typed) = [s EXCEPT !.a = w]
  BY DEF op_wdm2
<1> HIDE DEF w
<1>3. QED
  BY <1>1, <1>2, WriteA

-----------------------------------------------------------------------------
(* The instructions that push and pull.                                    *)

\* The bytes a register takes on the stack.
LEMMA BytesOfWidths ==
  ASSUME NEW s
  PROVE  /\ Bytes(SizeM(s)) = (IF M8(s) THEN 1 ELSE 2) /\ Bytes(SizeX(s)) = (IF X8(s) THEN 1 ELSE 2)
         /\ Bytes(SizeM(s)) \in Int /\ Bytes(SizeX(s)) \in Int
BY SizeType DEF Bytes

\* Each push slides by what the program counts for it.
LEMMA Pushing ==
  ASSUME NEW s \in Machine
  PROVE  /\ Slides(s, op_pha(s), Bytes(SizeM(s)))
         /\ Slides(s, op_phx(s), Bytes(SizeX(s))) /\ Slides(s, op_phy(s), Bytes(SizeX(s)))
         /\ Slides(s, op_phb(s), 1) /\ Slides(s, op_phk(s), 1) /\ Slides(s, op_php(s), 1)
         /\ Slides(s, op_phd(s), 2) /\ Slides(s, op_phi(s), 2)
         /\ Slides(s, op_phw(s), 2) /\ Slides(s, op_psh(s), 3)
<1>1. Slides(s, op_pha(s), Bytes(SizeM(s)))
  BY SizeType, RegisterType, PushSlides DEF op_pha
<1>2. Slides(s, op_phx(s), Bytes(SizeX(s))) /\ Slides(s, op_phy(s), Bytes(SizeX(s)))
  BY SizeType, RegisterType, PushSlides DEF op_phx, op_phy
<1>3. Slides(s, op_phb(s), 1) /\ Slides(s, op_phk(s), 1)
  BY Registers16, PushByteSlides DEF op_phb, op_phk
<1>4. Slides(s, op_php(s), 1)
  BY Registers16, FlagCellType, PushCellSlides DEF op_php
<1>5. Slides(s, op_phd(s), 2) /\ Slides(s, op_phi(s), 2)
  BY Registers16, PushWordSlides DEF op_phd, op_phi
<1>6. ASSUME NEW b \in Byte, NEW c \in Byte
      PROVE  Slides(s, PushByte(PushByte(s, b), c), 2)
  <2> DEFINE t == PushByte(s, b)
  <2>1. Slides(s, t, 1) /\ t \in Machine
    BY PushByteSlides DEF Slides
  <2> HIDE DEF t
  <2>2. Slides(t, PushByte(t, c), 1)
    BY <2>1, PushByteSlides
  <2>3. Slides(s, PushByte(t, c), 1 + 1)
    BY <2>1, <2>2, SlidesTwice
  <2>4. QED
    BY <2>3 DEF t
<1>7. Slides(s, op_phw(s), 2)
  BY <1>6, Registers16 DEF op_phw
<1>8. Slides(s, op_psh(s), 3)
  <2> DEFINE t == PushByte(PushByte(s, lo(s.a)), lo(s.x))
  <2>1. lo(s.a) \in Byte /\ lo(s.x) \in Byte /\ lo(s.y) \in Byte
    BY Registers16, HalvesRange
  <2>2. Slides(s, t, 2) /\ t \in Machine
    BY <1>6, <2>1 DEF Slides
  <2>3. op_psh(s) = PushByte(t, lo(s.y))
    BY DEF op_psh
  <2> HIDE DEF t
  <2>4. Slides(t, PushByte(t, lo(s.y)), 1)
    BY <2>1, <2>2, PushByteSlides
  <2>5. Slides(s, PushByte(t, lo(s.y)), 2 + 1)
    BY <2>2, <2>4, SlidesTwice
  <2>6. QED
    BY <2>3, <2>5
<1>9. QED
  BY <1>1, <1>2, <1>3, <1>4, <1>5, <1>7, <1>8

\* So do the pushes of an operand.
LEMMA PushingOperands ==
  ASSUME NEW s \in Machine, NEW d, d.at \in Int
  PROVE  /\ Slides(s, op_pea(s, d), 2) /\ Slides(s, op_pei(s, d), 2)
         /\ Slides(s, op_per(s, d), 2)
<1>0. \A w \in Word : w \in Int
  BY Widths
<1>1. getWord(s, d.at) \in Int
  <2>1. getWord(s, d.at) \in Word
    BY GetType
  <2>2. QED
    BY <1>0, <2>1
<1>2. getWord(s, getWord(s, d.at)) \in Int
  <2>1. getWord(s, getWord(s, d.at)) \in Word
    BY <1>1, GetType
  <2>2. QED
    BY <1>0, <2>1
<1>3. Relative(s, d.at, WordSize) \in Int
  <2>1. WordSize \in Width
    BY DEF Width
  <2>2. Relative(s, d.at, WordSize) \in Word
    BY <2>1, RelativeType
  <2>3. QED
    BY <1>0, <2>2
<1>4. QED
  BY <1>1, <1>2, <1>3, PushWordSlides DEF op_pea, op_pei, op_per

\* The pulls.
LEMMA PullingRegisters ==
  ASSUME NEW s \in Machine
  PROVE  /\ Moves(s, op_pla(s), -Bytes(SizeM(s)))
         /\ Moves(s, op_plx(s), -Bytes(SizeX(s))) /\ Moves(s, op_ply(s), -Bytes(SizeX(s)))
<1>1. ASSUME NEW N \in Width
      PROVE  /\ Slides(s, Pop(s, N), -Bytes(N)) /\ Pop(s, N) \in Machine
             /\ Top(s, N) \in 0 .. N - 1
  BY PoppedSlides, TopType DEF Slides, Pop, Bytes
<1>2. Moves(s, op_pla(s), -Bytes(SizeM(s)))
  <2> DEFINE t == Pop(s, SizeM(s))
             v == Top(s, SizeM(s))
  <2>1. Slides(s, t, -Bytes(SizeM(s))) /\ t \in Machine /\ v \in 0 .. SizeM(s) - 1
    BY <1>1, SizeType
  <2> HIDE DEF t, v
  <2>2. SizeM(t) = SizeM(s)
    BY <2>1 DEF SizeM, M8, Slides
  <2>3. Moves(t, SetA(t, v), 0)
    BY <2>1, <2>2, SetAMoves
  <2>4. Moves(s, SetA(t, v), -Bytes(SizeM(s)) + 0)
    BY <2>1, <2>3, BytesOfWidths, SlidesThenMoves
  <2>5. QED
    BY <2>4, BytesOfWidths DEF op_pla, t, v
<1>3. Moves(s, op_plx(s), -Bytes(SizeX(s))) /\ Moves(s, op_ply(s), -Bytes(SizeX(s)))
  <2> DEFINE t == Pop(s, SizeX(s))
             v == Top(s, SizeX(s))
  <2>1. Slides(s, t, -Bytes(SizeX(s))) /\ t \in Machine /\ v \in 0 .. SizeX(s) - 1
    BY <1>1, SizeType
  <2> HIDE DEF t, v
  <2>2. SizeX(t) = SizeX(s)
    BY <2>1 DEF SizeX, X8, Slides
  <2>3. v \in Word /\ (X8(t) => hi(v) = 0)
    BY <2>1, <2>2, ByteFits
  <2>4. Moves(t, SetX(t, v), 0) /\ Moves(t, SetY(t, v), 0)
    BY <2>1, <2>3, SetXMoves
  <2>5. Moves(s, SetX(t, v), -Bytes(SizeX(s)) + 0) /\ Moves(s, SetY(t, v), -Bytes(SizeX(s)) + 0)
    BY <2>1, <2>4, BytesOfWidths, SlidesThenMoves
  <2>6. QED
    BY <2>5, BytesOfWidths DEF op_plx, op_ply, t, v
<1>4. QED
  BY <1>2, <1>3

\* The pulls of the bank, the direct page, W and I slide back.
LEMMA PullingOthers ==
  ASSUME NEW s \in Machine
  PROVE  /\ Slides(s, op_plb(s), -1) /\ Slides(s, op_pld(s), -2)
         /\ Slides(s, op_plw(s), -2) /\ Slides(s, op_pli(s), -2)
<1> DEFINE t == Popped(s, 1)
           u == Popped(s, 2)
<1>1. Slides(s, t, -1) /\ t \in Machine /\ Slides(s, u, -2) /\ u \in Machine
  BY PoppedSlides DEF Slides
<1>2. TopCell(s).v \in Byte /\ TopWord(s) \in Word /\ TopCell(t).v \in Byte
  BY <1>1, TopType
<1>3. /\ op_plb(s) = NZ([t EXCEPT !.dbr = TopCell(s).v], TopCell(s).v, ByteSize)
      /\ op_pld(s) = NZ([u EXCEPT !.dp = TopWord(s)], TopWord(s), WordSize)
      /\ op_plw(s) = [u EXCEPT !.wl = TopCell(s).v, !.wh = TopCell(t).v]
      /\ op_pli(s) = [u EXCEPT !.i = TopWord(s)]
  BY DEF op_plb, op_pld, op_plw, op_pli
<1> HIDE DEF t, u
<1>4. Slides(s, op_plb(s), -1)
  <2> DEFINE r == [t EXCEPT !.dbr = TopCell(s).v]
  <2>1. Untouched(t, r) /\ r \in Machine
    <3>1. Untouched(t, r)
      BY <1>1, <1>2, OtherRegisters, Widths
    <3>2. QED
      BY <3>1 DEF Untouched
  <2> HIDE DEF r
  <2>2. Untouched(r, NZ(r, TopCell(s).v, ByteSize))
    BY <2>1, NZFlags
  <2>3. QED
    BY <1>1, <1>3, <2>1, <2>2, SlidesThenUntouched, UntouchedTwice DEF r
<1>5. Slides(s, op_pld(s), -2)
  <2> DEFINE r == [u EXCEPT !.dp = TopWord(s)]
  <2>1. Untouched(u, r) /\ r \in Machine
    <3>1. Untouched(u, r)
      BY <1>1, <1>2, OtherRegisters, Widths
    <3>2. QED
      BY <3>1 DEF Untouched
  <2> HIDE DEF r
  <2>2. Untouched(r, NZ(r, TopWord(s), WordSize))
    BY <2>1, NZFlags
  <2>3. QED
    BY <1>1, <1>3, <2>1, <2>2, SlidesThenUntouched, UntouchedTwice DEF r
<1>6. Slides(s, op_plw(s), -2)
  <2>1. Untouched(u, [u EXCEPT !.wl = TopCell(s).v, !.wh = TopCell(t).v])
    BY <1>1, <1>2, OtherRegisters, Widths
  <2>2. QED
    BY <1>1, <1>3, <2>1, SlidesThenUntouched
<1>7. Slides(s, op_pli(s), -2)
  <2>1. Untouched(u, [u EXCEPT !.i = TopWord(s)])
    BY <1>1, <1>2, OtherRegisters, Widths
  <2>2. QED
    BY <1>1, <1>3, <2>1, SlidesThenUntouched
<1>8. QED
  BY <1>4, <1>5, <1>6, <1>7

\* Flags that are pulled, with the index registers narrowed after them.
LEMMA PullingFlags ==
  ASSUME NEW s \in Machine
  PROVE  Moves(s, op_plp(s), -1)
<1> DEFINE r == Popped(s, 1)
           p == Forced(s, TopCell(s).f)
           t == [r EXCEPT !.p = p]
<1>1. Slides(s, r, -1) /\ r \in Machine
  BY PoppedSlides DEF Slides
<1>2. p \in SUBSET Flags /\ (s.e => "x" \in p)
  BY TopType, FlagNames DEF Forced
<1>3. op_plp(s) = IF s.e THEN t ELSE Narrowed(t)
  BY DEF op_plp
<1> HIDE DEF r, p
<1>4. /\ t \in Machine /\ t.type = s.type /\ t.e = s.e /\ t.sp = Lowered(s.e, s.sp, -1)
      /\ t.a = s.a /\ t.x = s.x /\ t.y = s.y /\ t.p = p
  BY <1>1, <1>2 DEF Machine, Slides
<1> HIDE DEF t
<1>5. CASE s.e
  <2>1. "x" \in t.p /\ X8(s)
    BY <1>2, <1>4, <1>5 DEF X8
  <2>2. Moves(s, t, -1)
    BY <1>4, <2>1, NarrowedMoves
  <2>3. QED
    BY <1>3, <1>5, <2>2
<1>6. CASE ~s.e
  <2>1. Moves(s, Narrowed(t), -1)
    BY <1>4, <1>6, NarrowedMoves
  <2>2. QED
    BY <1>3, <1>6, <2>1
<1>7. QED
  BY <1>5, <1>6

\* The L28's pulls of several registers.
LEMMA PullingSeveral ==
  ASSUME NEW s \in Machine
  PROVE  Moves(s, op_pul(s), -3) /\ Moves(s, op_pia(s), -2)
<1>1. ASSUME NEW t \in Machine, NEW b \in Byte
      PROVE  /\ Moves(t, [Popped(t, 1) EXCEPT !.x = Merge(t.x, b, ByteSize)], -1)
             /\ Moves(t, [Popped(t, 1) EXCEPT !.y = Merge(t.y, b, ByteSize)], -1)
  <2> DEFINE r == Popped(t, 1)
             x == Merge(t.x, b, ByteSize)
             y == Merge(t.y, b, ByteSize)
  <2>1. Slides(t, r, -1) /\ r \in Machine /\ r.x = t.x /\ r.y = t.y
    BY PoppedSlides DEF Slides
  <2>2. x \in Word /\ hi(x) = hi(t.x) /\ y \in Word /\ hi(y) = hi(t.y)
    BY Registers16, MergedByte
  <2> HIDE DEF r, x, y
  <2>3. Moves(r, [r EXCEPT !.x = x], 0)
    BY <2>1, <2>2, WriteX DEF IndexHighZero
  <2>4. Moves(r, [r EXCEPT !.y = y], 0)
    BY <2>1, <2>2, WriteY DEF IndexHighZero
  <2>5. Moves(t, [r EXCEPT !.x = x], -1 + 0) /\ Moves(t, [r EXCEPT !.y = y], -1 + 0)
    BY <2>1, <2>3, <2>4, SlidesThenMoves
  <2>6. QED
    BY <2>5 DEF r, x, y
<1>2. ASSUME NEW r \in Machine, NEW t, NEW u, NEW m \in Int, NEW n \in Int,
             Moves(r, t, m), Moves(t, u, n), t.p = r.p
      PROVE  Moves(r, u, m + n)
  <2>1. t.sp = Lowered(r.e, r.sp, m) /\ u.sp = Lowered(r.e, t.sp, n)
    BY <1>2 DEF Moves
  <2>2. u.sp = Lowered(r.e, r.sp, m + n)
    BY <2>1, Registers16, LoweredTwice
  <2>3. HighKept(r, u)
    BY <1>2 DEF Moves, HighKept, M8
  <2>4. QED
    BY <1>2, <2>2, <2>3 DEF Moves
<1>3. Moves(s, op_pul(s), -3)
  <2> DEFINE t == [Popped(s, 1) EXCEPT !.y = Merge(s.y, TopCell(s).v, ByteSize)]
             u == [Popped(t, 1) EXCEPT !.x = Merge(t.x, TopCell(t).v, ByteSize)]
             v == Popped(u, 1)
             b == TopCell(u).v
  <2>1. Moves(s, t, -1) /\ t \in Machine /\ t.p = s.p /\ t.x = s.x
    <3>1. Moves(s, t, -1)
      BY <1>1, TopType
    <3>2. Popped(s, 1) \in Machine /\ Popped(s, 1).p = s.p /\ Popped(s, 1).x = s.x
      BY PoppedSlides DEF Slides, Popped, Machine
    <3>3. QED
      BY <3>1, <3>2 DEF Moves, Machine
  <2>2. op_pul(s) = SetB(v, b)
    BY <2>1 DEF op_pul
  <2> HIDE DEF t
  <2>3. Moves(t, u, -1) /\ u \in Machine /\ u.p = t.p
    <3>1. Moves(t, u, -1)
      BY <1>1, <2>1, TopType
    <3>2. Popped(t, 1) \in Machine /\ Popped(t, 1).p = t.p
      BY <2>1, PoppedSlides DEF Slides, Popped, Machine
    <3>3. QED
      BY <3>1, <3>2 DEF Moves, Machine
  <2> HIDE DEF u
  <2>4. Slides(u, v, -1) /\ v \in Machine /\ b \in Byte
    BY <2>3, PoppedSlides, TopType DEF Slides
  <2> HIDE DEF v, b
  <2>5. Moves(v, SetB(v, b), 0)
    BY <2>4, SetBMoves
  <2>6. Moves(u, SetB(v, b), -1 + 0)
    BY <2>3, <2>4, <2>5, SlidesThenMoves
  <2>7. Moves(s, u, -1 + -1) /\ u.p = s.p
    BY <1>2, <2>1, <2>3
  <2>8. Moves(s, SetB(v, b), -2 + -1)
    BY <1>2, <2>6, <2>7
  <2>9. QED
    BY <2>2, <2>8
<1>4. Moves(s, op_pia(s), -2)
  <2> DEFINE r == op_pli(s)
             t == op_lan(r)
             x == Merge(s.x, lo(t.a), ByteSize)
  <2>1. Slides(s, r, -2) /\ r \in Machine
    BY PullingOthers DEF Slides
  <2>2. Moves(r, t, 0) /\ t \in Machine
    BY <2>1, Threading DEF Moves
  <2>3. Moves(s, t, -2 + 0)
    BY <2>1, <2>2, SlidesThenMoves
  <2>4. t.x = s.x /\ t.y = s.y /\ ("x" \in t.p <=> "x" \in s.p)
    <3>1. ASSUME NEW w \in Machine, NEW b \in Byte
          PROVE  LET v == SetB(w, b)
                 IN  v \in Machine /\ v.x = w.x /\ v.y = w.y /\ ("x" \in v.p <=> "x" \in w.p)
      <4> DEFINE a == Merge(w.a, b, ByteSize)
                 v == [w EXCEPT !.a = a]
      <4>1. a \in Word
        BY Registers16, MergedByte
      <4> HIDE DEF a
      <4>2. v \in Machine /\ v.x = w.x /\ v.y = w.y /\ v.p = w.p
        BY <4>1 DEF Machine
      <4>3. SetB(w, b) = NZ(v, b, ByteSize)
        BY DEF SetB, a
      <4> HIDE DEF v
      <4>4. Untouched(v, NZ(v, b, ByteSize))
        BY <4>2, NZFlags
      <4>5. QED
        BY <4>2, <4>3, <4>4 DEF Untouched
    <3> DEFINE w == op_lai(r)
    <3>2. getByte(r, r.i) \in Byte
      BY <2>1, GetType, Registers16
    <3>3. /\ w \in Machine /\ w.x = r.x /\ w.y = r.y /\ ("x" \in w.p <=> "x" \in r.p)
      BY <2>1, <3>1, <3>2 DEF op_lai
    <3>4. t = op_ini(w)
      BY DEF op_lan
    <3> HIDE DEF w
    <3>5. Untouched(w, op_ini(w))
      BY <3>3, Threading
    <3>6. QED
      BY <2>1, <3>3, <3>4, <3>5 DEF Untouched, Slides
  <2>5. op_pia(s) = [t EXCEPT !.x = x]
    BY DEF op_pia
  <2>6. lo(t.a) \in Byte
    BY <2>2, Registers16, HalvesRange
  <2> HIDE DEF r, t
  <2>7. x \in Word /\ hi(x) = hi(s.x)
    BY <2>6, Registers16, MergedByte
  <2> HIDE DEF x
  <2>8. Moves(t, [t EXCEPT !.x = x], 0)
    BY <2>2, <2>4, <2>7, WriteX DEF IndexHighZero
  <2> DEFINE u == [t EXCEPT !.x = x]
  <2>9. /\ u \in Machine /\ u.type = t.type /\ u.e = t.e /\ u.sp = t.sp /\ u.a = t.a
        /\ u.x = x /\ u.y = t.y /\ u.p = t.p
    BY <2>2, <2>7 DEF Machine
  <2> HIDE DEF u
  <2>10. Moves(s, u, -2)
    BY <2>3, <2>4, <2>7, <2>9 DEF Moves, HighKept, IndexHighZero, X8
  <2>11. QED
    BY <2>5, <2>10 DEF u
<1>5. QED
  BY <1>3, <1>4

-----------------------------------------------------------------------------
(* Jumps, calls, returns and interrupts.                                   *)

\* The vectors are words.
LEMMA Vectors ==
  \A k \in {"BRK", "COP", "IRQ", "IRQ0", "JSB"} : Vector[k] \in Word
BY MemoryAssumption

\* A jump leaves the registers alone.
LEMMA JumpTo ==
  ASSUME NEW s \in Machine, NEW d, d.at \in Int
  PROVE  Untouched(s, op_jmp(s, d))
BY Wraps, OtherRegisters, Widths DEF op_jmp

\* Going elsewhere after a push does not disturb it.
LEMMA SlidesThenJumps ==
  ASSUME NEW s \in Machine, NEW t, NEW n, Slides(s, t, n), NEW w \in Word, NEW b \in Byte
  PROVE  Slides(s, [t EXCEPT !.pc = w], n) /\ Slides(s, [t EXCEPT !.pbr = b], n)
<1>1. t \in Machine
  BY DEF Slides
<1>2. Untouched(t, [t EXCEPT !.pc = w]) /\ Untouched(t, [t EXCEPT !.pbr = b])
  BY <1>1, OtherRegisters, Widths
<1>3. QED
  BY <1>2, SlidesThenUntouched

\* A call pushes its return address and goes elsewhere.
LEMMA Calls ==
  ASSUME NEW s \in Machine, NEW d, d.at \in Int
  PROVE  /\ Slides(s, op_jsr(s, d), 2) /\ Slides(s, op_jsr_l28(s, d), 2)
         /\ Slides(s, op_jsl(s, d), 3)
<1>1. d.at % WordSize \in Word /\ (s.pc - 1) % WordSize \in Int
  <2>1. d.at % WordSize \in Word /\ (s.pc - 1) % WordSize \in Word
    BY Registers16, Wraps
  <2>2. QED
    BY <2>1, Widths
<1>2. Slides(s, PushWord(s, (s.pc - 1) % WordSize), 2) /\ Slides(s, PushWord(s, s.pc), 2)
  BY <1>1, Registers16, PushWordSlides
<1>3. Slides(s, op_jsr(s, d), 2) /\ Slides(s, op_jsr_l28(s, d), 2)
  BY <1>1, <1>2, SlidesThenJumps, Widths DEF op_jsr, op_jsr_l28
<1>4. Slides(s, op_jsl(s, d), 3)
  <2> DEFINE t == PushByte(s, s.pbr)
             u == PushWord(t, (s.pc - 1) % WordSize)
  <2>1. op_jsl(s, d) = op_jmp(u, d)
    BY DEF op_jsl
  <2>2. Slides(s, t, 1) /\ t \in Machine
    BY Registers16, PushByteSlides DEF Slides
  <2> HIDE DEF t
  <2>3. Slides(t, u, 2) /\ u \in Machine
    BY <1>1, <2>2, PushWordSlides DEF Slides
  <2> HIDE DEF u
  <2>4. Slides(s, u, 1 + 2)
    BY <2>2, <2>3, SlidesTwice
  <2>5. Untouched(u, op_jmp(u, d))
    BY <2>3, JumpTo
  <2>6. QED
    BY <2>1, <2>4, <2>5, SlidesThenUntouched
<1>5. QED
  BY <1>3, <1>4

\* So does JSB.
LEMMA CallToVector ==
  ASSUME NEW s \in Machine
  PROVE  Slides(s, op_jsb(s), 2)
<1>1. Vector["JSB"] \in Int
  BY Vectors, Widths
<1>2. QED
  BY <1>1, Calls DEF op_jsb

\* A return pulls what the call pushed.
LEMMA Returns ==
  ASSUME NEW s \in Machine
  PROVE  Slides(s, op_rts(s), -2) /\ Slides(s, op_rts_l28(s), -2) /\ Slides(s, op_rtl(s), -3)
<1>1. Slides(s, Popped(s, 2), -2) /\ TopWord(s) \in Word
  BY PoppedSlides, TopType
<1>2. (TopWord(s) + 1) % WordSize \in Word
  <2>1. TopWord(s) + 1 \in Int
    BY <1>1, Widths
  <2>2. QED
    BY <2>1, Wraps
<1>3. Slides(s, op_rts(s), -2) /\ Slides(s, op_rts_l28(s), -2)
  BY <1>1, <1>2, SlidesThenJumps, Widths DEF op_rts, op_rts_l28
<1>4. Slides(s, op_rtl(s), -3)
  <2> DEFINE t == op_rts(s)
             u == Popped(t, 1)
  <2>1. t \in Machine /\ Slides(s, t, -2)
    BY <1>3 DEF Slides
  <2>2. op_rtl(s) = [u EXCEPT !.pbr = TopCell(t).v]
    BY DEF op_rtl
  <2> HIDE DEF t
  <2>3. Slides(t, u, -1) /\ TopCell(t).v \in Byte
    BY <2>1, PoppedSlides, TopType
  <2> HIDE DEF u
  <2>4. Slides(s, u, -2 + -1)
    BY <2>1, <2>3, SlidesTwice
  <2>5. Slides(s, [u EXCEPT !.pbr = TopCell(t).v], -2 + -1)
    BY <2>3, <2>4, SlidesThenJumps, Widths
  <2>6. QED
    BY <2>2, <2>5
<1>5. QED
  BY <1>3, <1>4

\* The frame of an interrupt has four bytes with the bank and three without.
LEMMA FrameSlides ==
  ASSUME NEW s \in Machine, NEW withBank \in BOOLEAN, NEW p \in SUBSET Flags, NEW to \in Word
  PROVE  Slides(s, Interrupted(s, withBank, p, to), IF withBank THEN 4 ELSE 3)
<1> DEFINE t == IF withBank THEN PushByte(s, s.pbr) ELSE s
           u == PushWord(t, s.pc)
           v == PushCell(u, FlagCell(p))
           b == IF withBank THEN 1 ELSE 0
           q == (s.p \cup {"i"}) \ {"d"}
           r == [v EXCEPT !.p = q, !.pbr = 0, !.pc = to]
<1>1. Interrupted(s, withBank, p, to) = r
  BY DEF Interrupted
<1>2. Slides(s, t, b) /\ t \in Machine /\ b \in Int
  <2>1. Untouched(s, s)
    BY DEF Untouched
  <2>2. Slides(s, s, 0) /\ Slides(s, PushByte(s, s.pbr), 1)
    BY <2>1, UntouchedSlides, Registers16, PushByteSlides
  <2>3. QED
    BY <2>2 DEF Slides
<1>3. b + 2 + 1 = IF withBank THEN 4 ELSE 3
  OBVIOUS
<1> HIDE DEF t, b
<1>4. Slides(t, u, 2) /\ u \in Machine
  BY <1>2, Registers16, PushWordSlides DEF Slides
<1> HIDE DEF u
<1>5. Slides(u, v, 1)
  BY <1>4, FlagCellType, PushCellSlides
<1> HIDE DEF v
<1>6. Slides(s, u, b + 2)
  BY <1>2, <1>4, SlidesTwice
<1>7. Slides(s, v, b + 2 + 1)
  BY <1>2, <1>5, <1>6, SlidesTwice
<1>8. q \in SUBSET Flags /\ ("m" \in q <=> "m" \in s.p) /\ ("x" \in q <=> "x" \in s.p)
  BY FlagNames, Registers16
<1> HIDE DEF q
<1>9. Slides(s, r, b + 2 + 1)
  <2>1. v \in Machine /\ 0 \in Byte
    BY <1>7, Widths DEF Slides
  <2>2. /\ r \in Machine /\ r.type = v.type /\ r.e = v.e /\ r.sp = v.sp
        /\ r.a = v.a /\ r.x = v.x /\ r.y = v.y /\ r.p = q
    BY <1>8, <2>1 DEF Machine
  <2> HIDE DEF r
  <2>3. QED
    BY <1>7, <1>8, <2>2 DEF Slides
<1>10. QED
  BY <1>1, <1>3, <1>9

\* The software interrupts push a frame of three bytes, or of four in native mode.
LEMMA Interrupting ==
  ASSUME NEW s \in Machine
  PROVE  /\ Slides(s, op_cop(s), IF s.e THEN 3 ELSE 4)
         /\ Slides(s, Break(s), IF s.e THEN 3 ELSE 4)
         /\ Slides(s, op_brk_l28(s), 3)
<1>1. s.e \in BOOLEAN /\ s.p \in SUBSET Flags /\ s.p \cup {"x"} \in SUBSET Flags
  BY FlagNames DEF Machine
<1>2. (IF ~s.e THEN 4 ELSE 3) = (IF s.e THEN 3 ELSE 4)
  OBVIOUS
<1>3. Slides(s, op_cop(s), IF s.e THEN 3 ELSE 4)
  <2>1. Slides(s, op_cop(s), IF ~s.e THEN 4 ELSE 3)
    BY <1>1, FrameSlides, Vectors DEF op_cop
  <2>2. QED
    BY <1>2, <2>1
<1>4. Slides(s, Break(s), IF s.e THEN 3 ELSE 4)
  <2> DEFINE p == IF s.e THEN s.p \cup {"x"} ELSE s.p
  <2>1. p \in SUBSET Flags /\ Break(s) = Interrupted(s, ~s.e, p, Vector["BRK"])
    BY <1>1 DEF Break
  <2> HIDE DEF p
  <2>2. Slides(s, Break(s), IF ~s.e THEN 4 ELSE 3)
    BY <1>1, <2>1, FrameSlides, Vectors
  <2>3. QED
    BY <1>2, <2>2
<1>5. Slides(s, op_brk_l28(s), 3)
  <2> DEFINE t == Interrupted(s, FALSE, s.p \cup {"x"}, Vector["IRQ"])
  <2>1. Slides(s, t, IF FALSE THEN 4 ELSE 3)
    BY <1>1, FrameSlides, Vectors
  <2>2. Slides(s, t, 3)
    BY <2>1
  <2>3. op_brk_l28(s) = [t EXCEPT !.pbr = s.pbr]
    BY DEF op_brk_l28
  <2> HIDE DEF t
  <2>4. s.pbr \in Byte /\ 0 \in Word
    BY Registers16, Widths
  <2>5. Slides(s, [t EXCEPT !.pbr = s.pbr], 3)
    BY <2>2, <2>4, SlidesThenJumps
  <2>6. QED
    BY <2>3, <2>5
<1>6. QED
  BY <1>3, <1>4, <1>5

\* RTI pulls what an interrupt pushes in its mode; the flags come from the stack.
FromFrame(s, t) ==
  /\ t \in Machine /\ t.type = s.type /\ t.e = s.e /\ t.a = s.a
  /\ t.sp = Lowered(s.e, s.sp, -(IF s.e THEN 3 ELSE 4))

\* RTI pulls the flags first, and with them the widths it goes on in.
LEMMA ReturnsFromFrame ==
  ASSUME NEW s \in Machine
  PROVE  FromFrame(s, op_rti(s))
<1> DEFINE q == Popped(s, 1)
           t == [q EXCEPT !.p = TopCell(s).f]
           r == Popped(t, 2)
           u == [r EXCEPT !.pc = TopWord(t)]
           v == [Popped(u, 1) EXCEPT !.pbr = TopCell(u).v]
<1>1. op_rti(s) = IF s.e THEN u ELSE v
  BY DEF op_rti
<1>2. Slides(s, q, -1) /\ q \in Machine /\ TopCell(s).f \in SUBSET Flags
  BY PoppedSlides, TopType DEF Slides
<1> HIDE DEF q
<1>3. /\ t \in Machine /\ t.type = s.type /\ t.e = s.e /\ t.a = s.a
      /\ t.sp = Lowered(s.e, s.sp, -1)
  BY <1>2 DEF Machine, Slides
<1> HIDE DEF t
<1>4. Slides(t, r, -2) /\ r \in Machine /\ TopWord(t) \in Word
  BY <1>3, PoppedSlides, TopType DEF Slides
<1> HIDE DEF r
<1>5. Slides(t, u, -2) /\ u \in Machine
  <2>1. Slides(t, u, -2)
    BY <1>3, <1>4, SlidesThenJumps, Widths
  <2>2. QED
    BY <2>1 DEF Slides
<1> HIDE DEF u
<1>6. Slides(t, v, -2 + -1)
  <2>1. Slides(u, Popped(u, 1), -1) /\ TopCell(u).v \in Byte
    BY <1>5, PoppedSlides, TopType
  <2>2. Slides(u, v, -1)
    BY <1>5, <2>1, SlidesThenJumps, Widths
  <2>3. QED
    BY <1>3, <1>5, <2>2, SlidesTwice
<1> HIDE DEF v
<1>7. s.sp \in Word
  BY Registers16
<1>8. u.sp = Lowered(s.e, s.sp, -3)
  <2>1. u.sp = Lowered(s.e, t.sp, -2)
    BY <1>3, <1>5 DEF Slides
  <2>2. Lowered(s.e, Lowered(s.e, s.sp, -1), -2) = Lowered(s.e, s.sp, -1 + -2)
    BY <1>7, LoweredTwice
  <2>3. QED
    BY <1>3, <2>1, <2>2
<1>9. v.sp = Lowered(s.e, s.sp, -4)
  <2>1. v.sp = Lowered(s.e, t.sp, -2 + -1)
    BY <1>3, <1>6 DEF Slides
  <2>2. Lowered(s.e, Lowered(s.e, s.sp, -1), -3) = Lowered(s.e, s.sp, -1 + -3)
    BY <1>7, LoweredTwice
  <2>3. QED
    BY <1>3, <2>1, <2>2
<1>10. CASE s.e
  <2>1. op_rti(s) = u
    BY <1>1, <1>10
  <2>2. -(IF s.e THEN 3 ELSE 4) = -3
    BY <1>10
  <2>3. QED
    BY <1>3, <1>5, <1>8, <2>1, <2>2 DEF FromFrame, Slides
<1>11. CASE ~s.e
  <2>1. op_rti(s) = v
    BY <1>1, <1>11
  <2>2. -(IF s.e THEN 3 ELSE 4) = -4
    BY <1>11
  <2>3. QED
    BY <1>3, <1>6, <1>9, <2>1, <2>2 DEF FromFrame, Slides
<1>12. QED
  BY <1>10, <1>11

-----------------------------------------------------------------------------
(* What an instruction may do, and its operands.                           *)

\* What an instruction owes, by its name.
Setters == {"XCE", "TXS", "TCS"}

Pulled(s, op) ==
  CASE op = "PLA" -> IF M8(s) THEN 1 ELSE 2
    [] op \in {"PLX", "PLY"} -> IF X8(s) THEN 1 ELSE 2
    [] op \in {"PLB", "PLP"} -> 1
    [] op \in {"PLD", "PLW", "PLI", "PIA", "RTS"} -> 2
    [] op \in {"PUL", "RTL"} -> 3
    [] op = "RTI" -> IF s.e THEN 3 ELSE 4

\* The bytes the stack grows by.
Grown(s, op) == IF op \in PullOps THEN -Pulled(s, op) ELSE Pushes(s, op)

Result(op, s, t) ==
  /\ t \in Machine /\ t.type = s.type
  /\ op # "XCE" => t.e = s.e
  /\ op \in Setters => InStackPage(t.e, t.sp)
  /\ op = "XCE" /\ ~t.e => t.sp = s.sp
  /\ op \notin Setters => t.sp = Lowered(s.e, s.sp, Grown(s, op))
  /\ op \notin {"XBA", "TDC", "TSC", "MVN", "MVP", "trap"} /\ M8(s) => hi(t.a) = hi(s.a)
  /\ op \notin {"RTI", "XCE", "MVN", "MVP"} /\ IndexHighZero(s) => IndexHighZero(t)

\* An instruction that moves the machine by what the program counts does what it should.
LEMMA MovesResult ==
  ASSUME NEW s, NEW t, NEW op, NEW n, Moves(s, t, n), n = Grown(s, op), op \notin Setters
  PROVE  Result(op, s, t)
BY DEF Result, Moves, HighKept, Setters

\* Instructions that leave the stack alone.
PushOps == {"PHA", "PHX", "PHY", "PHB", "PHK", "PHP", "PHD", "PEA", "PER", "PEI", "PHW", "PHI",
            "JSR", "JSB", "PSH", "JSL", "BRK", "COP", "interrupt"}
Still(op) == op \notin PullOps \cup PushOps \cup Setters

\* An instruction that neither pushes nor pulls counts for nothing.
LEMMA StillGrown ==
  ASSUME NEW op, Still(op), NEW s
  PROVE  Grown(s, op) = 0
BY DEF Still, PushOps, Grown, Pushes, Frame

\* The bytes an instruction counts for are a number.
LEMMA GrownInt ==
  ASSUME NEW op, NEW s
  PROVE  Grown(s, op) \in Int
<1>1. Pushes(s, op) \in Int
  BY DEF Pushes
<1>2. op \in PullOps => Pulled(s, op) \in Int
  BY DEF PullOps, Pulled
<1>3. QED
  BY <1>1, <1>2 DEF Grown

\* A machine that has read its instruction and an operand that is an address.
Fetched(s) == s \in Machine /\ Untouched(cpu, s)
Addressed(d) == d.at \in Int /\ d.imm = FALSE

\* What holds of the machine that has read its operand holds of the one before.
LEMMA FetchedResult ==
  ASSUME NEW s, Fetched(s), NEW op, NEW t, Result(op, s, t)
  PROVE  Result(op, cpu, t)
<1>1. /\ s.type = cpu.type /\ s.e = cpu.e /\ s.sp = cpu.sp /\ s.a = cpu.a
      /\ s.x = cpu.x /\ s.y = cpu.y /\ M8(s) = M8(cpu) /\ X8(s) = X8(cpu)
  BY DEF Fetched, Untouched, M8, X8
<1>2. Pushes(s, op) = Pushes(cpu, op) /\ Pulled(s, op) = Pulled(cpu, op)
  BY <1>1 DEF Pushes, Pulled
<1>3. IndexHighZero(s) = IndexHighZero(cpu)
  BY <1>1 DEF IndexHighZero
<1>4. Grown(s, op) = Grown(cpu, op)
  BY <1>2 DEF Grown
<1>5. QED
  BY <1>1, <1>3, <1>4 DEF Result

\* What the instruction register holds.
IrOK ==
  ir \in [op : Mnemonics \cup {"reset", "trap"}, irq : BOOLEAN,
         next : [pc : Word, pbr : Byte, p : SUBSET Flags], left : Seq(SUBSET Mnemonics)]

\* One instruction, and the interrupt that may follow it.
Done(op, s) ==
  /\ op \in Mnemonics \cup {"trap"} /\ ir.left # <<>> /\ (op = "XCE" => cpu.type # "L28")
  /\ Result(op, cpu, s) /\ Retire(op, s)
Executed == \E op, s : Done(op, s)

\* An instruction decoded is one the processor has.
LEMMA DecodedType ==
  ASSUME IrOK, NEW op, Decoded(op)
  PROVE  op \in Mnemonics /\ ir.left # <<>> /\ op \notin Absent[cpu.type]
<1>1. ir.left \in Seq(SUBSET Mnemonics) /\ ir.left # <<>>
  BY DEF IrOK, Decoded
<1>2. Head(ir.left) \in SUBSET Mnemonics
  BY <1>1
<1>3. QED
  BY <1>1, <1>2 DEF Decoded

\* An instruction carried out and retired is done.
LEMMA MovesDone ==
  ASSUME IrOK, NEW op, Decoded(op), op \notin Setters,
         NEW s, Fetched(s), NEW t, NEW n, n = Grown(s, op), Moves(s, t, n), Retire(op, t)
  PROVE  Executed
<1>1. Result(op, cpu, t)
  BY MovesResult, FetchedResult
<1>2. op # "XCE"
  BY DEF Setters
<1>3. QED
  BY <1>1, <1>2, DecodedType DEF Executed, Done

\* The same for one that does not touch the stack.
LEMMA StillDone ==
  ASSUME IrOK, NEW op, Decoded(op), Still(op),
         NEW s, Fetched(s), NEW t, Moves(s, t, 0), Retire(op, t)
  PROVE  Executed
BY StillGrown, MovesDone DEF Still

\* Reading the operand leaves the registers alone.
LEMMA FetchType ==
  ASSUME cpu \in Machine, NEW n \in Int
  PROVE  Fetched(Fetch(n))
<1>1. (cpu.pc + 1 + n) % WordSize \in Word
  BY Registers16, Wraps
<1>2. Untouched(cpu, Fetch(n))
  BY <1>1, OtherRegisters, Widths DEF Fetch
<1>3. QED
  BY <1>2 DEF Fetched, Untouched

\* The operands are numbers of their width.
LEMMA OperandsType ==
  /\ \A o \in OperandsOf(1) : o \in Byte /\ o \in Int
  /\ \A o \in OperandsOf(2) : o \in Word /\ o \in Int
  /\ \A o \in OperandsOf(3) : o \in Int
<1>1. \A b \in Operands : b \in Byte /\ b \in Int
  BY MachineAssumption, Widths
<1>2. \A o \in OperandsOf(1) : o \in Byte /\ o \in Int
  BY <1>1 DEF OperandsOf
<1>3. \A l, h \in Operands : join(l, h) \in Word /\ join(l, h) \in Int
  BY <1>1, Halves, Widths
<1>4. \A o \in OperandsOf(2) : o \in Word /\ o \in Int
  BY <1>3 DEF OperandsOf
<1>5. \A b \in Operands : bank(b) \in Int
  BY <1>1, Widths DEF bank
<1>6. \A o \in OperandsOf(3) : o \in Int
  BY <1>3, <1>5 DEF OperandsOf
<1>7. QED
  BY <1>2, <1>4, <1>6

\* The addressing modes.
AbsoluteModes == {"absl", "absx", "absy", "absi", "abxi", "alng", "alnx", "abil"}
AllModes == OneByte \cup AbsoluteModes

\* Addresses with a bank are numbers.
LEMMA BankType ==
  ASSUME NEW b \in Byte, NEW w \in Int
  PROVE  bank(b) \in Int /\ OrBank(b, w) \in Int
<1>1. b \in Int /\ b + 1 \in Int /\ WordSize \in Int /\ w % WordSize \in Int
  BY Wraps, Widths
<1>2. QED
  BY <1>1 DEF bank, OrBank

\* So are the absolute addresses.
LEMMA AbsoluteType ==
  ASSUME NEW s \in Machine, NEW mode \in AbsoluteModes, NEW o \in Int
  PROVE  Absolute(s, mode, o) \in Int
<1>1. bank(s.dbr) \in Int /\ bank(s.pbr) \in Int
  BY Registers16, BankType
<1>2. Part(s.x, SizeX(s)) \in Int /\ Part(s.y, SizeX(s)) \in Int /\ s.x \in Int
  BY Registers16, RegisterType DEF X, Y
<1>3. \A ea \in Int : getWord(s, ea) \in Int /\ getAddr(s, ea) \in Int
  BY GetNumbers
<1>4. bank(s.pbr) + o + s.x \in Int
  BY <1>1, <1>2
<1>5. CASE mode \in {"absl", "absx", "absy"}
  BY <1>1, <1>2, <1>5 DEF Absolute
<1>6. CASE mode \in {"absi", "abxi", "abil"}
  BY <1>1, <1>3, <1>4, <1>6 DEF Absolute
<1>7. CASE mode \in {"alng", "alnx"}
  BY <1>2, <1>7 DEF Absolute
<1>8. QED
  BY <1>5, <1>6, <1>7 DEF AbsoluteModes

\* So are those in the direct page.
LEMMA DirectType ==
  ASSUME NEW s \in Machine, NEW o \in Int
  PROVE  Direct(s, o) \in Int
<1>1. Direct(s, o) \in Word
  BY Registers16, Wraps DEF Direct
<1>2. QED
  BY <1>1, Widths

\* And those it leads to.
LEMMA DirectPageType ==
  ASSUME NEW s \in Machine, NEW mode \in OneByte \ {"srel", "sriy"}, NEW o \in Int
  PROVE  DirectPage(s, mode, o) \in Int
<1>1. s.x \in Int /\ s.y \in Int /\ s.dp \in Int /\ s.dbr \in Byte
  BY Registers16
<1>2. \A ea \in Int : getWord(s, ea) \in Int /\ getAddr(s, ea) \in Int
  BY GetNumbers
<1>3. \A w \in Int : (o + lo(w)) % ByteSize \in Int
  <2>1. \A w \in Int : o + lo(w) \in Int
    BY HalvesRange
  <2>2. QED
    BY <2>1, Wraps
<1>4. bank(s.dbr) \in Int /\ \A w \in Int : OrBank(s.dbr, w) \in Int
  BY <1>1, BankType
<1>5. \A w \in Int : Direct(s, w) \in Int
  BY DirectType
<1>6. CASE mode \in {"dpag", "dpgx", "dpgy"}
  BY <1>1, <1>3, <1>5, <1>6 DEF DirectPage
<1>7. CASE mode \in {"dpgi", "dpix"}
  <2>1. o + s.x \in Int
    BY <1>1
  <2>2. getWord(s, Direct(s, o)) \in Int /\ getWord(s, Direct(s, o + s.x)) \in Int
    BY <1>2, <1>5, <2>1
  <2>3. QED
    BY <1>4, <1>7, <2>2 DEF DirectPage
<1>8. CASE mode \in {"dpiy", "diix"}
  <2>1. s.dp + o \in Int
    BY <1>1
  <2>2. getWord(s, s.dp + o) + s.y \in Int /\ getWord(s, s.dp + o) + s.x \in Int
    BY <1>1, <1>2, <2>1
  <2>3. QED
    BY <1>4, <1>8, <2>2 DEF DirectPage
<1>9. CASE mode \in {"dpil", "dily"}
  <2>1. getAddr(s, Direct(s, o)) \in Int
    BY <1>2, <1>5
  <2>2. QED
    BY <1>1, <1>9, <2>1 DEF DirectPage
<1>10. QED
  BY <1>6, <1>7, <1>8, <1>9 DEF OneByte

\* And those on the stack.
LEMMA StackRelativeType ==
  ASSUME NEW s \in Machine, NEW mode \in {"srel", "sriy"}, NEW o \in Int
  PROVE  StackRelative(s, mode, o) \in Int
<1> DEFINE inPage == join((lo(s.sp) + o) % ByteSize, hi(s.sp))
           at == IF s.e THEN inPage ELSE s.sp + o
<1>1. lo(s.sp) + o \in Int /\ hi(s.sp) \in Byte /\ s.sp + o \in Int /\ s.y \in Int
  BY Registers16, HalvesRange
<1>2. (lo(s.sp) + o) % ByteSize \in Byte
  BY <1>1, Wraps
<1>3. inPage \in Int
  BY <1>1, <1>2, Halves, Widths
<1>4. (s.sp + o) % WordSize \in Int
  BY <1>1, Wraps
<1>5. bank(s.dbr) \in Int
  BY Registers16, BankType
<1>6. at \in Int
  BY <1>1, <1>3
<1>7. getWord(s, at) + s.y \in Int
  BY <1>1, <1>6, GetNumbers
<1>8. (getWord(s, at) + s.y) % WordSize \in Int
  BY <1>7, Wraps
<1>9. StackRelative(s, mode, o) = IF mode = "srel" THEN IF s.e THEN inPage ELSE (s.sp + o) % WordSize
                                  ELSE bank(s.dbr) + ((getWord(s, at) + s.y) % WordSize)
  BY DEF StackRelative
<1> HIDE DEF inPage, at
<1>10. QED
  BY <1>3, <1>4, <1>5, <1>8, <1>9

\* Every addressing mode yields an address.
LEMMA EAType ==
  ASSUME NEW s \in Machine, NEW mode \in AllModes, NEW o \in Int
  PROVE  EA(s, mode, o) \in Int
BY StackRelativeType, DirectPageType, AbsoluteType DEF EA, AllModes

\* An instruction with an address has read it and works on memory.
LEMMA MemoryOperand ==
  ASSUME cpu \in Machine, NEW mode \in AllModes, NEW o \in OperandsOf(Length(mode))
  PROVE  /\ Fetched(Fetch(Length(mode)))
         /\ Addressed([imm |-> FALSE, at |-> EA(Fetch(Length(mode)), mode, o)])
<1>1. Length(mode) \in {1, 2, 3}
  BY DEF Length
<1>2. o \in Int
  BY <1>1, OperandsType
<1>3. Fetched(Fetch(Length(mode)))
  BY <1>1, FetchType
<1>4. EA(Fetch(Length(mode)), mode, o) \in Int
  BY <1>2, <1>3, EAType DEF Fetched
<1>5. QED
  BY <1>3, <1>4 DEF Addressed

\* An immediate operand fits the width it was read in.
LEMMA ImmediateOperand ==
  ASSUME cpu \in Machine, NEW N \in Width,
         NEW n, n = IF N = ByteSize THEN 1 ELSE 2, NEW o \in OperandsOf(n)
  PROVE  Fetched(Fetch(n)) /\ Operand([imm |-> TRUE, at |-> o], N)
<1>1. CASE N = ByteSize
  BY <1>1, OperandsType, FetchType, Widths DEF Operand
<1>2. CASE N # ByteSize
  BY <1>2, OperandsType, FetchType, Widths DEF Operand, Width
<1>3. QED
  BY <1>1, <1>2

\* The line of an interrupt.
LEMMA Interrupts ==
  ASSUME NEW s \in Machine, NEW t \in Irqs(s)
  PROVE  /\ Slides(s, t, IF s.type = "WDC" THEN 4 ELSE 3) /\ s.type \in {"WDC", "L28"}
<1>1. s.type \in {"WDC", "Rockwell", "L28"}
  BY MachineAssumption DEF Machine
<1>2. PICK r \in Lines(s) : t = [r EXCEPT !.interrupted = TRUE]
  BY DEF Irqs
<1>3. s.p \in SUBSET Flags /\ s.pbr \in Byte /\ 0 \in Word
  BY Registers16, Widths
<1>4. ASSUME NEW u, NEW n, Slides(s, u, n)
      PROVE  Slides(s, [u EXCEPT !.interrupted = TRUE], n)
  <2>1. u \in Machine
    BY <1>4 DEF Slides
  <2>2. Untouched(u, [u EXCEPT !.interrupted = TRUE])
    BY <1>3, <2>1, OtherRegisters, Widths
  <2>3. QED
    BY <1>4, <2>2, SlidesThenUntouched
<1>5. CASE s.type = "WDC"
  <2>1. r = Interrupted(s, TRUE, s.p, Vector["IRQ"])
    BY <1>5, <1>2 DEF Lines
  <2>2. Slides(s, r, IF TRUE THEN 4 ELSE 3)
    BY <1>3, <2>1, Vectors, FrameSlides
  <2>3. Slides(s, r, 4)
    BY <2>2
  <2>4. QED
    BY <1>2, <1>4, <1>5, <2>3
<1>6. CASE s.type = "L28"
  <2>1. PICK line \in {"IRQ", "IRQ0"} :
          r = [Interrupted(s, FALSE, s.p, Vector[line]) EXCEPT !.pbr = s.pbr]
    BY <1>6, <1>2 DEF Lines
  <2> DEFINE q == Interrupted(s, FALSE, s.p, Vector[line])
  <2>2. Slides(s, q, IF FALSE THEN 4 ELSE 3)
    BY <1>3, Vectors, FrameSlides
  <2>3. Slides(s, q, 3)
    BY <2>2
  <2>4. Slides(s, r, 3)
    BY <1>3, <2>1, <2>3, SlidesThenJumps
  <2>5. QED
    BY <1>2, <1>4, <1>6, <2>4
<1>7. CASE s.type = "Rockwell"
  BY <1>2, <1>7 DEF Lines
<1>8. QED
  BY <1>1, <1>5, <1>6, <1>7

-----------------------------------------------------------------------------
(* The instructions, by the groups of the model.                           *)

\* The arithmetic uses addressing modes there are.
LEMMA ModesOfAlu ==
  ASSUME cpu \in Machine
  PROVE  AluModes \subseteq AllModes
<1>1. cpu.type \in {"WDC", "Rockwell", "L28"}
  BY MachineAssumption DEF Machine
<1>2. QED
  BY <1>1 DEF AluModes, AllModes, OneByte, AbsoluteModes

\* So do the other instructions.
LEMMA OtherModes ==
  /\ Plain \subseteq AllModes /\ ModifyModes \subseteq AllModes
  /\ {"absy", "dpgy", "absx", "dpgx", "dpag", "absl", "absi", "abxi", "alng", "abil"} \subseteq AllModes
BY DEF Plain, ModifyModes, AllModes, OneByte, AbsoluteModes

\* Reading the operand leaves the widths.
LEMMA FetchedSizes ==
  ASSUME NEW s, Fetched(s)
  PROVE  s \in Machine /\ SizeM(s) = SizeM(cpu) /\ SizeX(s) = SizeX(cpu)
BY DEF Fetched, Untouched, SizeM, SizeX, M8, X8

\* An address is an operand of any width.
LEMMA AddressedOperand ==
  ASSUME NEW d, Addressed(d), NEW N
  PROVE  d.at \in Int /\ ~d.imm /\ Operand(d, N)
BY DEF Addressed, Operand

\* The instructions with an immediate operand of either width.
LEMMA ImmediateM ==
  ASSUME cpu \in Machine, NEW o \in OperandsOf(IF SizeM(cpu) = ByteSize THEN 1 ELSE 2)
  PROVE  LET s == Fetch(IF SizeM(cpu) = ByteSize THEN 1 ELSE 2)
         IN  Fetched(s) /\ Operand([imm |-> TRUE, at |-> o], SizeM(s))
BY SizeType, FetchedSizes, ImmediateOperand

\* The operand of an index instruction has the width of the index registers.
LEMMA ImmediateX ==
  ASSUME cpu \in Machine, NEW o \in OperandsOf(IF SizeX(cpu) = ByteSize THEN 1 ELSE 2)
  PROVE  LET s == Fetch(IF SizeX(cpu) = ByteSize THEN 1 ELSE 2)
         IN  Fetched(s) /\ Operand([imm |-> TRUE, at |-> o], SizeX(s))
BY SizeType, FetchedSizes, ImmediateOperand

\* An operand of a fixed size.
LEMMA ImmediateAny ==
  ASSUME cpu \in Machine, NEW n \in {1, 2}, NEW o \in OperandsOf(n)
  PROVE  Fetched(Fetch(n)) /\ o \in Int /\ (n = 1 => o \in Byte)
BY OperandsType, FetchType

\* Every load and store is done; the block moves come later.
LEMMA LoadsDone ==
  ASSUME cpu \in Machine, IrOK, Loads
  PROVE  Executed \/ Immediate("MVN", op_mvn, 2) \/ Immediate("MVP", op_mvp, 2)
<1>1. \A op \in {"LDA", "LDX", "LDY", "STA", "STX", "STY", "STZ", "EXC", "STI"} : Still(op)
  BY DEF Still, PullOps, PushOps, Setters
<1>2. ASSUME NEW s, Fetched(s), NEW d
      PROVE  /\ Operand(d, SizeM(s)) => Moves(s, op_lda(s, d), 0)
             /\ Operand(d, SizeX(s)) => Moves(s, op_ldx(s, d), 0) /\ Moves(s, op_ldy(s, d), 0)
  BY <1>2, FetchedSizes, OnA, IndexLoads
<1>3. ASSUME NEW s, Fetched(s), NEW d, Addressed(d)
      PROVE  /\ Moves(s, op_sta(s, d), 0) /\ Moves(s, op_stx(s, d), 0) /\ Moves(s, op_sty(s, d), 0)
             /\ Moves(s, op_stz(s, d), 0) /\ Moves(s, op_exc(s, d), 0)
  BY <1>3, FetchedSizes, AddressedOperand, Stores, Threading
<1>4. CASE OnMemory("LDA", op_lda, AluModes)
  BY <1>1, <1>2, <1>4, AddressedOperand, MemoryOperand, ModesOfAlu, StillDone DEF OnMemory
<1>5. CASE Immediate("LDA", op_lda, IF SizeM(cpu) = ByteSize THEN 1 ELSE 2)
  BY <1>1, <1>2, <1>5, ImmediateM, StillDone DEF Immediate
<1>6. CASE OnMemory("LDX", op_ldx, Plain \cup {"absy", "dpgy"})
  BY <1>1, <1>2, <1>6, AddressedOperand, MemoryOperand, OtherModes, StillDone DEF OnMemory
<1>7. CASE Immediate("LDX", op_ldx, IF SizeX(cpu) = ByteSize THEN 1 ELSE 2)
  BY <1>1, <1>2, <1>7, ImmediateX, StillDone DEF Immediate
<1>8. CASE OnMemory("LDY", op_ldy, Plain \cup {"absx", "dpgx"})
  BY <1>1, <1>2, <1>8, AddressedOperand, MemoryOperand, OtherModes, StillDone DEF OnMemory
<1>9. CASE Immediate("LDY", op_ldy, IF SizeX(cpu) = ByteSize THEN 1 ELSE 2)
  BY <1>1, <1>2, <1>9, ImmediateX, StillDone DEF Immediate
<1>10. CASE OnMemory("STA", op_sta, AluModes)
  BY <1>1, <1>3, <1>10, MemoryOperand, ModesOfAlu, StillDone DEF OnMemory
<1>11. CASE OnMemory("STX", op_stx, Plain \cup {"dpgy"})
  BY <1>1, <1>3, <1>11, MemoryOperand, OtherModes, StillDone DEF OnMemory
<1>12. CASE OnMemory("STY", op_sty, Plain \cup {"dpgx"})
  BY <1>1, <1>3, <1>12, MemoryOperand, OtherModes, StillDone DEF OnMemory
<1>13. CASE OnMemory("STZ", op_stz, ModifyModes)
  BY <1>1, <1>3, <1>13, MemoryOperand, OtherModes, StillDone DEF OnMemory
<1>14. CASE OnMemory("EXC", op_exc, {"dpgx"})
  BY <1>1, <1>3, <1>14, MemoryOperand, OtherModes, StillDone DEF OnMemory
<1>15. CASE op_sti
  <2>1. PICK v, o \in Operands : Decoded("STI") /\ Retire("STI", setByte(Fetch(2), Direct(cpu, o), v))
    BY <1>15 DEF op_sti
  <2>2. v \in Byte /\ o \in Int
    BY MachineAssumption, Widths
  <2>3. Fetched(Fetch(2)) /\ Fetch(2) \in Machine
    BY FetchType DEF Fetched
  <2>4. Direct(cpu, o) \in Int
    BY <2>2, DirectType
  <2>5. Moves(Fetch(2), setByte(Fetch(2), Direct(cpu, o), v), 0)
    BY <2>2, <2>3, <2>4, SetByte, UntouchedMoves
  <2>6. QED
    BY <1>1, <2>1, <2>3, <2>5, StillDone
<1>16. QED
  BY <1>4, <1>5, <1>6, <1>7, <1>8, <1>9, <1>10, <1>11, <1>12, <1>13, <1>14, <1>15
     DEF Loads, OnData

\* So is every arithmetic instruction.
LEMMA ArithmeticDone ==
  ASSUME cpu \in Machine, IrOK, Arithmetic
  PROVE  Executed
<1>0. Fetched(Fetch(0))
  BY FetchType
<1>1. \A op \in {"ADC", "SBC", "ADD", "CMP", "CPX", "CPY", "AND", "ORA", "EOR", "BIT",
              "BITI", "MPY", "MPA", "RND", "NEG", "LAB", "CLW"} : Still(op)
  BY DEF Still, PullOps, PushOps, Setters
<1>2. ASSUME NEW s, Fetched(s), NEW d
      PROVE  /\ Operand(d, SizeM(s)) =>
                  /\ Moves(s, op_adc(s, d), 0) /\ Moves(s, op_sbc(s, d), 0) /\ Moves(s, op_add(s, d), 0)
                  /\ Moves(s, op_and(s, d), 0) /\ Moves(s, op_ora(s, d), 0) /\ Moves(s, op_eor(s, d), 0)
             /\ Moves(s, op_cmp(s, d), 0) /\ Moves(s, op_cpx(s, d), 0) /\ Moves(s, op_cpy(s, d), 0)
             /\ Moves(s, op_biti(s, d), 0) /\ Moves(s, op_bit(s, d), 0)
  BY <1>2, FetchedSizes, OnA, Comparisons, UntouchedMoves
<1>3. ASSUME NEW s, Fetched(s)
      PROVE  /\ Moves(s, op_mpy(s), 0) /\ Moves(s, op_mpa(s), 0) /\ Moves(s, op_rnd(s), 0)
             /\ Moves(s, op_neg(s), 0) /\ Moves(s, op_lab(s), 0) /\ Moves(s, op_clw(s), 0)
  BY <1>3, FetchedSizes, Multiplying
<1>4. CASE OnMemory("ADC", op_adc, AluModes)
  BY <1>1, <1>2, <1>4, AddressedOperand, MemoryOperand, ModesOfAlu, StillDone DEF OnMemory
<1>5. CASE Immediate("ADC", op_adc, IF SizeM(cpu) = ByteSize THEN 1 ELSE 2)
  BY <1>1, <1>2, <1>5, ImmediateM, StillDone DEF Immediate
<1>6. CASE OnMemory("SBC", op_sbc, AluModes)
  BY <1>1, <1>2, <1>6, AddressedOperand, MemoryOperand, ModesOfAlu, StillDone DEF OnMemory
<1>7. CASE Immediate("SBC", op_sbc, IF SizeM(cpu) = ByteSize THEN 1 ELSE 2)
  BY <1>1, <1>2, <1>7, ImmediateM, StillDone DEF Immediate
<1>8. CASE OnMemory("ADD", op_add, {"dpag", "dpgx"})
  BY <1>1, <1>2, <1>8, AddressedOperand, MemoryOperand, OtherModes, StillDone DEF OnMemory
<1>9. CASE Immediate("ADD", op_add, IF SizeM(cpu) = ByteSize THEN 1 ELSE 2)
  BY <1>1, <1>2, <1>9, ImmediateM, StillDone DEF Immediate
<1>10. CASE OnMemory("CMP", op_cmp, AluModes)
  BY <1>1, <1>2, <1>10, AddressedOperand, MemoryOperand, ModesOfAlu, StillDone DEF OnMemory
<1>11. CASE Immediate("CMP", op_cmp, IF SizeM(cpu) = ByteSize THEN 1 ELSE 2)
  BY <1>1, <1>2, <1>11, ImmediateM, StillDone DEF Immediate
<1>12. CASE OnMemory("CPX", op_cpx, Plain)
  BY <1>1, <1>2, <1>12, AddressedOperand, MemoryOperand, OtherModes, StillDone DEF OnMemory
<1>13. CASE Immediate("CPX", op_cpx, IF SizeX(cpu) = ByteSize THEN 1 ELSE 2)
  BY <1>1, <1>2, <1>13, ImmediateX, StillDone DEF Immediate
<1>14. CASE OnMemory("CPY", op_cpy, Plain)
  BY <1>1, <1>2, <1>14, AddressedOperand, MemoryOperand, OtherModes, StillDone DEF OnMemory
<1>15. CASE Immediate("CPY", op_cpy, IF SizeX(cpu) = ByteSize THEN 1 ELSE 2)
  BY <1>1, <1>2, <1>15, ImmediateX, StillDone DEF Immediate
<1>16. CASE OnMemory("AND", op_and, AluModes)
  BY <1>1, <1>2, <1>16, AddressedOperand, MemoryOperand, ModesOfAlu, StillDone DEF OnMemory
<1>17. CASE Immediate("AND", op_and, IF SizeM(cpu) = ByteSize THEN 1 ELSE 2)
  BY <1>1, <1>2, <1>17, ImmediateM, StillDone DEF Immediate
<1>18. CASE OnMemory("ORA", op_ora, AluModes)
  BY <1>1, <1>2, <1>18, AddressedOperand, MemoryOperand, ModesOfAlu, StillDone DEF OnMemory
<1>19. CASE Immediate("ORA", op_ora, IF SizeM(cpu) = ByteSize THEN 1 ELSE 2)
  BY <1>1, <1>2, <1>19, ImmediateM, StillDone DEF Immediate
<1>20. CASE OnMemory("EOR", op_eor, AluModes \ {"dily"})
  BY <1>1, <1>2, <1>20, AddressedOperand, MemoryOperand, ModesOfAlu, StillDone DEF OnMemory
<1>21. CASE Immediate("EOR", op_eor, IF SizeM(cpu) = ByteSize THEN 1 ELSE 2)
  BY <1>1, <1>2, <1>21, ImmediateM, StillDone DEF Immediate
<1>22. CASE OnMemory("BIT", op_bit, IF cpu.type = "L28" THEN Plain ELSE ModifyModes)
  BY <1>1, <1>2, <1>22, AddressedOperand, MemoryOperand, OtherModes, StillDone DEF OnMemory
<1>23. CASE Immediate("BITI", op_biti, IF M8(cpu) THEN 1 ELSE 2)
  BY <1>1, <1>2, <1>23, ImmediateAny, StillDone DEF Immediate
<1>24. CASE Implied("MPY", op_mpy)
  BY <1>0, <1>1, <1>3, <1>24, StillDone DEF Implied
<1>25. CASE Implied("MPA", op_mpa)
  BY <1>0, <1>1, <1>3, <1>25, StillDone DEF Implied
<1>26. CASE Implied("RND", op_rnd)
  BY <1>0, <1>1, <1>3, <1>26, StillDone DEF Implied
<1>27. CASE Implied("NEG", op_neg)
  BY <1>0, <1>1, <1>3, <1>27, StillDone DEF Implied
<1>28. CASE Implied("LAB", op_lab)
  BY <1>0, <1>1, <1>3, <1>28, StillDone DEF Implied
<1>29. CASE Implied("CLW", op_clw)
  BY <1>0, <1>1, <1>3, <1>29, StillDone DEF Implied
<1>30. QED
  BY <1>4, <1>5, <1>6, <1>7, <1>8, <1>9, <1>10, <1>11, <1>12, <1>13, <1>14, <1>15, <1>16,
     <1>17, <1>18, <1>19, <1>20, <1>21, <1>22, <1>23, <1>24, <1>25, <1>26, <1>27, <1>28, <1>29
     DEF Arithmetic, OnData

\* So is every one that modifies memory or A.
LEMMA ModificationsDone ==
  ASSUME cpu \in Machine, IrOK, Modifications
  PROVE  Executed
<1>0. Fetched(Fetch(0))
  BY FetchType
<1>1. \A op \in {"INC", "INCA", "DEC", "DECA", "ASL", "ASLA", "LSR", "LSRA", "ROL", "ROLA",
              "ROR", "RORA", "TRB", "TSB", "INX", "DEX", "INY", "DEY", "ASRA", "RMB",
              "SMB", "RBA", "SBA"} : Still(op)
  BY DEF Still, PullOps, PushOps, Setters
<1>2. ASSUME NEW s, Fetched(s), NEW d, Addressed(d)
      PROVE  /\ Moves(s, op_inc(s, d), 0) /\ Moves(s, op_dec(s, d), 0) /\ Moves(s, op_asl(s, d), 0)
             /\ Moves(s, op_lsr(s, d), 0) /\ Moves(s, op_rol(s, d), 0) /\ Moves(s, op_ror(s, d), 0)
             /\ Moves(s, op_trb(s, d), 0) /\ Moves(s, op_tsb(s, d), 0)
  BY <1>2, FetchedSizes, AddressedOperand, Modifying, UntouchedMoves
<1>3. ASSUME NEW s, Fetched(s)
      PROVE  /\ Moves(s, op_asla(s), 0) /\ Moves(s, op_lsra(s), 0) /\ Moves(s, op_rola(s), 0)
             /\ Moves(s, op_rora(s), 0) /\ Moves(s, op_asra(s), 0)
             /\ Moves(s, op_inca(s), 0) /\ Moves(s, op_deca(s), 0)
             /\ Moves(s, op_inx(s), 0) /\ Moves(s, op_iny(s), 0)
             /\ Moves(s, op_dex(s), 0) /\ Moves(s, op_dey(s), 0)
  BY <1>3, FetchedSizes, ModifyingRegisters
<1>4. CASE OnMemory("INC", op_inc, ModifyModes)
  BY <1>1, <1>2, <1>4, AddressedOperand, MemoryOperand, OtherModes, StillDone DEF OnMemory
<1>5. CASE Implied("INCA", op_inca)
  BY <1>0, <1>1, <1>3, <1>5, StillDone DEF Implied
<1>6. CASE OnMemory("DEC", op_dec, ModifyModes)
  BY <1>1, <1>2, <1>6, AddressedOperand, MemoryOperand, OtherModes, StillDone DEF OnMemory
<1>7. CASE Implied("DECA", op_deca)
  BY <1>0, <1>1, <1>3, <1>7, StillDone DEF Implied
<1>8. CASE OnMemory("ASL", op_asl, ModifyModes)
  BY <1>1, <1>2, <1>8, AddressedOperand, MemoryOperand, OtherModes, StillDone DEF OnMemory
<1>9. CASE Implied("ASLA", op_asla)
  BY <1>0, <1>1, <1>3, <1>9, StillDone DEF Implied
<1>10. CASE OnMemory("LSR", op_lsr, ModifyModes)
  BY <1>1, <1>2, <1>10, AddressedOperand, MemoryOperand, OtherModes, StillDone DEF OnMemory
<1>11. CASE Implied("LSRA", op_lsra)
  BY <1>0, <1>1, <1>3, <1>11, StillDone DEF Implied
<1>12. CASE OnMemory("ROL", op_rol, ModifyModes)
  BY <1>1, <1>2, <1>12, AddressedOperand, MemoryOperand, OtherModes, StillDone DEF OnMemory
<1>13. CASE Implied("ROLA", op_rola)
  BY <1>0, <1>1, <1>3, <1>13, StillDone DEF Implied
<1>14. CASE OnMemory("ROR", op_ror, ModifyModes)
  BY <1>1, <1>2, <1>14, AddressedOperand, MemoryOperand, OtherModes, StillDone DEF OnMemory
<1>15. CASE Implied("RORA", op_rora)
  BY <1>0, <1>1, <1>3, <1>15, StillDone DEF Implied
<1>16. CASE OnMemory("TRB", op_trb, Plain)
  BY <1>1, <1>2, <1>16, AddressedOperand, MemoryOperand, OtherModes, StillDone DEF OnMemory
<1>17. CASE OnMemory("TSB", op_tsb, Plain)
  BY <1>1, <1>2, <1>17, AddressedOperand, MemoryOperand, OtherModes, StillDone DEF OnMemory
<1>18. CASE Implied("INX", op_inx)
  BY <1>0, <1>1, <1>3, <1>18, StillDone DEF Implied
<1>19. CASE Implied("DEX", op_dex)
  BY <1>0, <1>1, <1>3, <1>19, StillDone DEF Implied
<1>20. CASE Implied("INY", op_iny)
  BY <1>0, <1>1, <1>3, <1>20, StillDone DEF Implied
<1>21. CASE Implied("DEY", op_dey)
  BY <1>0, <1>1, <1>3, <1>21, StillDone DEF Implied
<1>22. CASE Implied("ASRA", op_asra)
  BY <1>0, <1>1, <1>3, <1>22, StillDone DEF Implied
<1>23. ASSUME NEW s, Fetched(s), NEW ea \in Int, NEW b \in Nat
      PROVE  /\ Moves(s, op_rmb(s, ea, b), 0) /\ Moves(s, op_smb(s, ea, b), 0)
             /\ Moves(s, op_rba(s, ea, b), 0) /\ Moves(s, op_sba(s, ea, b), 0)
  BY <1>23, FetchedSizes, BitChanges, UntouchedMoves
<1>24. ByteBits \in Nat /\ cpu.dbr \in Byte
      /\ (\A o \in Operands : o \in Nat /\ Direct(cpu, o) \in Int)
      /\ \A o \in OperandsOf(2) : bank(cpu.dbr) + o \in Int
  <2>1. ByteBits \in Nat /\ cpu.dbr \in Byte
    BY WidthAssumption, Registers16
  <2>2. \A o \in Operands : o \in Nat
    BY MachineAssumption, Widths
  <2>3. \A o \in OperandsOf(2) : o \in Int
    BY OperandsType
  <2>4. bank(cpu.dbr) \in Int
    BY <2>1, BankType
  <2>5. QED
    BY <2>1, <2>2, <2>3, <2>4, DirectType
<1>25. Fetched(Fetch(1)) /\ Fetched(Fetch(3))
  BY FetchType
<1>26. CASE BitModify("RMB", op_rmb)
  BY <1>1, <1>23, <1>24, <1>25, <1>26, StillDone DEF BitModify
<1>27. CASE BitModify("SMB", op_smb)
  BY <1>1, <1>23, <1>24, <1>25, <1>27, StillDone DEF BitModify
<1>28. CASE MaskModify("RBA", op_rba)
  BY <1>1, <1>23, <1>24, <1>25, <1>28, StillDone DEF MaskModify
<1>29. CASE MaskModify("SBA", op_sba)
  BY <1>1, <1>23, <1>24, <1>25, <1>29, StillDone DEF MaskModify
<1>30. QED
  BY <1>4, <1>5, <1>6, <1>7, <1>8, <1>9, <1>10, <1>11, <1>12, <1>13, <1>14, <1>15, <1>16,
     <1>17, <1>18, <1>19, <1>20, <1>21, <1>22, <1>23, <1>24, <1>25, <1>26, <1>27, <1>28, <1>29
     DEF Modifications

\* So is every transfer; the ones of the whole of A or of the pointer come later.
LEMMA TransfersDone ==
  ASSUME cpu \in Machine, IrOK, Transfers
  PROVE  \/ Executed
         \/ Implied("TXS", op_txs) \/ Implied("TCS", op_tcs)
         \/ Implied("TSC", op_tsc) \/ Implied("TDC", op_tdc) \/ Implied("XBA", op_xba)
<1>0. Fetched(Fetch(0))
  BY FetchType
<1>1. \A op \in {"TAX", "TXA", "TXY", "TAY", "TYA", "TYX", "TSX", "TCD", "TAW", "TWA", "LII",
              "INI", "LAI", "LAN"} : Still(op)
  BY DEF Still, PullOps, PushOps, Setters
<1>2. ASSUME NEW s, Fetched(s)
      PROVE  /\ Moves(s, op_tax(s), 0) /\ Moves(s, op_txa(s), 0) /\ Moves(s, op_txy(s), 0)
             /\ Moves(s, op_tay(s), 0) /\ Moves(s, op_tya(s), 0) /\ Moves(s, op_tyx(s), 0)
             /\ Moves(s, op_tsx(s), 0) /\ Moves(s, op_tcd(s), 0) /\ Moves(s, op_taw(s), 0)
  BY <1>2, FetchedSizes, Transferring, UntouchedMoves
<1>3. ASSUME NEW s, Fetched(s)
      PROVE  /\ Moves(s, op_twa(s), 0) /\ Moves(s, op_lii(s), 0) /\ Moves(s, op_ini(s), 0)
             /\ Moves(s, op_lai(s), 0) /\ Moves(s, op_lan(s), 0)
  BY <1>3, FetchedSizes, Multiplying, Threading, UntouchedMoves
<1>4. CASE Implied("TAX", op_tax)
  BY <1>0, <1>1, <1>2, <1>4, StillDone DEF Implied
<1>5. CASE Implied("TXA", op_txa)
  BY <1>0, <1>1, <1>2, <1>5, StillDone DEF Implied
<1>6. CASE Implied("TXY", op_txy)
  BY <1>0, <1>1, <1>2, <1>6, StillDone DEF Implied
<1>7. CASE Implied("TAY", op_tay)
  BY <1>0, <1>1, <1>2, <1>7, StillDone DEF Implied
<1>8. CASE Implied("TYA", op_tya)
  BY <1>0, <1>1, <1>2, <1>8, StillDone DEF Implied
<1>9. CASE Implied("TYX", op_tyx)
  BY <1>0, <1>1, <1>2, <1>9, StillDone DEF Implied
<1>10. CASE Implied("TSX", op_tsx)
  BY <1>0, <1>1, <1>2, <1>10, StillDone DEF Implied
<1>11. CASE Implied("TCD", op_tcd)
  BY <1>0, <1>1, <1>2, <1>11, StillDone DEF Implied
<1>12. CASE Implied("TAW", op_taw)
  BY <1>0, <1>1, <1>2, <1>12, StillDone DEF Implied
<1>13. CASE Implied("TWA", op_twa)
  BY <1>0, <1>1, <1>3, <1>13, StillDone DEF Implied
<1>14. CASE Implied("LII", op_lii)
  BY <1>0, <1>1, <1>3, <1>14, StillDone DEF Implied
<1>15. CASE Implied("INI", op_ini)
  BY <1>0, <1>1, <1>3, <1>15, StillDone DEF Implied
<1>16. CASE Implied("LAI", op_lai)
  BY <1>0, <1>1, <1>3, <1>16, StillDone DEF Implied
<1>17. CASE Implied("LAN", op_lan)
  BY <1>0, <1>1, <1>3, <1>17, StillDone DEF Implied
<1>18. QED
  BY <1>4, <1>5, <1>6, <1>7, <1>8, <1>9, <1>10, <1>11, <1>12, <1>13, <1>14, <1>15, <1>16, <1>17
     DEF Transfers

\* So is every change of flags but XCE.
LEMMA FlagChangesDone ==
  ASSUME cpu \in Machine, IrOK, FlagChanges
  PROVE  Executed \/ Implied("XCE", op_xce)
<1>0. Fetched(Fetch(0))
  BY FetchType
<1>1. \A op \in {"CLC", "SEC", "CLD", "SED", "CLI", "SEI", "CLV", "REP", "SEP"} : Still(op)
  BY DEF Still, PullOps, PushOps, Setters
<1>2. ASSUME NEW s, Fetched(s), NEW k \in {"c", "d", "i", "v"}, NEW on
      PROVE  Moves(s, Set(s, k, on), 0)
  BY <1>2, FetchedSizes, SetFlag, FlagNames, UntouchedMoves
<1>3. ASSUME NEW s, Fetched(s), NEW mask \in Masks
      PROVE  Moves(s, op_rep(s, mask), 0) /\ Moves(s, op_sep(s, mask), 0)
  BY <1>3, FetchedSizes, MachineAssumption, Masking
<1>4. CASE Implied("CLC", LAMBDA s : Set(s, "c", FALSE))
  BY <1>0, <1>1, <1>2, <1>4, StillDone DEF Implied
<1>5. CASE Implied("SEC", LAMBDA s : Set(s, "c", TRUE))
  BY <1>0, <1>1, <1>2, <1>5, StillDone DEF Implied
<1>6. CASE Implied("CLD", LAMBDA s : Set(s, "d", FALSE))
  BY <1>0, <1>1, <1>2, <1>6, StillDone DEF Implied
<1>7. CASE Implied("SED", LAMBDA s : Set(s, "d", TRUE))
  BY <1>0, <1>1, <1>2, <1>7, StillDone DEF Implied
<1>8. CASE Implied("CLI", LAMBDA s : Set(s, "i", FALSE))
  BY <1>0, <1>1, <1>2, <1>8, StillDone DEF Implied
<1>9. CASE Implied("SEI", LAMBDA s : Set(s, "i", TRUE))
  BY <1>0, <1>1, <1>2, <1>9, StillDone DEF Implied
<1>10. CASE Implied("CLV", LAMBDA s : Set(s, "v", FALSE))
  BY <1>0, <1>1, <1>2, <1>10, StillDone DEF Implied
<1>11. CASE OnFlags("REP", op_rep)
  BY <1>1, <1>3, <1>11, FetchType, StillDone DEF OnFlags
<1>12. CASE OnFlags("SEP", op_sep)
  BY <1>1, <1>3, <1>12, FetchType, StillDone DEF OnFlags
<1>13. QED
  BY <1>4, <1>5, <1>6, <1>7, <1>8, <1>9, <1>10, <1>11, <1>12,
     Zenon DEF FlagChanges

\* The bytes each instruction counts for, spelt out.
LEMMA GrownOf ==
  ASSUME NEW s
  PROVE  /\ Grown(s, "PHA") = Bytes(SizeM(s)) /\ Grown(s, "PLA") = -Bytes(SizeM(s))
         /\ Grown(s, "PHX") = Bytes(SizeX(s)) /\ Grown(s, "PLX") = -Bytes(SizeX(s))
         /\ Grown(s, "PHY") = Bytes(SizeX(s)) /\ Grown(s, "PLY") = -Bytes(SizeX(s))
         /\ Grown(s, "PHB") = 1 /\ Grown(s, "PHK") = 1 /\ Grown(s, "PHP") = 1
         /\ Grown(s, "PHD") = 2 /\ Grown(s, "PEA") = 2 /\ Grown(s, "PER") = 2
         /\ Grown(s, "PEI") = 2 /\ Grown(s, "PHW") = 2 /\ Grown(s, "PHI") = 2
         /\ Grown(s, "JSR") = 2 /\ Grown(s, "JSB") = 2
         /\ Grown(s, "PSH") = 3 /\ Grown(s, "JSL") = 3
         /\ Grown(s, "PLB") = -1 /\ Grown(s, "PLP") = -1
         /\ Grown(s, "PLD") = -2 /\ Grown(s, "PLW") = -2 /\ Grown(s, "PLI") = -2
         /\ Grown(s, "PIA") = -2 /\ Grown(s, "RTS") = -2
         /\ Grown(s, "PUL") = -3 /\ Grown(s, "RTL") = -3
         /\ Grown(s, "BRK") = (IF s.e THEN 3 ELSE 4) /\ Grown(s, "COP") = (IF s.e THEN 3 ELSE 4)
         /\ Grown(s, "RTI") = -(IF s.e THEN 3 ELSE 4)
<1>1. /\ Grown(s, "PHA") = Bytes(SizeM(s)) /\ Grown(s, "PHX") = Bytes(SizeX(s))
      /\ Grown(s, "PHY") = Bytes(SizeX(s))
  BY BytesOfWidths DEF Grown, Pushes, PullOps, Frame
<1>2. /\ Grown(s, "PLA") = -Bytes(SizeM(s)) /\ Grown(s, "PLX") = -Bytes(SizeX(s))
      /\ Grown(s, "PLY") = -Bytes(SizeX(s))
  BY BytesOfWidths DEF Grown, Pulled, PullOps
<1>3. /\ Grown(s, "PHB") = 1 /\ Grown(s, "PHK") = 1 /\ Grown(s, "PHP") = 1
      /\ Grown(s, "PHD") = 2 /\ Grown(s, "PEA") = 2 /\ Grown(s, "PER") = 2
      /\ Grown(s, "PEI") = 2 /\ Grown(s, "PHW") = 2 /\ Grown(s, "PHI") = 2
      /\ Grown(s, "JSR") = 2 /\ Grown(s, "JSB") = 2
      /\ Grown(s, "PSH") = 3 /\ Grown(s, "JSL") = 3
  BY DEF Grown, Pushes, PullOps, Frame
<1>4. /\ Grown(s, "PLB") = -1 /\ Grown(s, "PLP") = -1
      /\ Grown(s, "PLD") = -2 /\ Grown(s, "PLW") = -2 /\ Grown(s, "PLI") = -2
      /\ Grown(s, "PIA") = -2 /\ Grown(s, "RTS") = -2
      /\ Grown(s, "PUL") = -3 /\ Grown(s, "RTL") = -3
      /\ Grown(s, "RTI") = -(IF s.e THEN 3 ELSE 4)
  BY DEF Grown, Pulled, PullOps
<1>5. /\ Grown(s, "BRK") = (IF s.e THEN 3 ELSE 4) /\ Grown(s, "COP") = (IF s.e THEN 3 ELSE 4)
  BY DEF Grown, Pushes, PullOps, Frame
<1>6. QED
  BY <1>1, <1>2, <1>3, <1>4, <1>5

\* Every push and pull is done.
LEMMA StackDone ==
  ASSUME cpu \in Machine, IrOK, Stack
  PROVE  Executed
<1>0. Fetched(Fetch(0)) /\ Fetched(Fetch(2))
  BY FetchType
<1>1. \A op \in {"PHA", "PHX", "PHY", "PHB", "PHD", "PHK", "PHP", "PSH", "PHW", "PHI", "PEA",
              "PER", "PEI", "PLA", "PLX", "PLY", "PLB", "PLD", "PLW", "PLI", "PLP", "PUL",
              "PIA"} : op \notin Setters
  BY DEF Setters
<1>2. ASSUME NEW s, Fetched(s)
      PROVE  /\ Moves(s, op_pha(s), Grown(s, "PHA")) /\ Moves(s, op_phx(s), Grown(s, "PHX"))
             /\ Moves(s, op_phy(s), Grown(s, "PHY")) /\ Moves(s, op_phb(s), Grown(s, "PHB"))
             /\ Moves(s, op_phd(s), Grown(s, "PHD")) /\ Moves(s, op_phk(s), Grown(s, "PHK"))
             /\ Moves(s, op_php(s), Grown(s, "PHP")) /\ Moves(s, op_psh(s), Grown(s, "PSH"))
             /\ Moves(s, op_phw(s), Grown(s, "PHW")) /\ Moves(s, op_phi(s), Grown(s, "PHI"))
  BY <1>2, FetchedSizes, Pushing, SlidesMoves, GrownOf
<1>3. ASSUME NEW s, Fetched(s)
      PROVE  /\ Moves(s, op_pla(s), Grown(s, "PLA")) /\ Moves(s, op_plx(s), Grown(s, "PLX"))
             /\ Moves(s, op_ply(s), Grown(s, "PLY")) /\ Moves(s, op_plp(s), Grown(s, "PLP"))
             /\ Moves(s, op_pul(s), Grown(s, "PUL")) /\ Moves(s, op_pia(s), Grown(s, "PIA"))
             /\ Moves(s, op_plb(s), Grown(s, "PLB")) /\ Moves(s, op_pld(s), Grown(s, "PLD"))
             /\ Moves(s, op_plw(s), Grown(s, "PLW")) /\ Moves(s, op_pli(s), Grown(s, "PLI"))
  <2>1. s \in Machine
    BY <1>3, FetchedSizes
  <2>2. /\ Moves(s, op_pla(s), Grown(s, "PLA")) /\ Moves(s, op_plx(s), Grown(s, "PLX"))
        /\ Moves(s, op_ply(s), Grown(s, "PLY")) /\ Moves(s, op_plp(s), Grown(s, "PLP"))
    BY <2>1, PullingRegisters, PullingFlags, GrownOf
  <2>3. Moves(s, op_pul(s), Grown(s, "PUL")) /\ Moves(s, op_pia(s), Grown(s, "PIA"))
    BY <2>1, PullingSeveral, GrownOf
  <2>4. /\ Moves(s, op_plb(s), Grown(s, "PLB")) /\ Moves(s, op_pld(s), Grown(s, "PLD"))
        /\ Moves(s, op_plw(s), Grown(s, "PLW")) /\ Moves(s, op_pli(s), Grown(s, "PLI"))
    BY <2>1, PullingOthers, SlidesMoves, GrownOf
  <2>5. QED
    BY <2>2, <2>3, <2>4
<1>4. ASSUME NEW s, Fetched(s), NEW d, d.at \in Int
      PROVE  /\ Moves(s, op_pea(s, d), Grown(s, "PEA")) /\ Moves(s, op_pei(s, d), Grown(s, "PEI"))
             /\ Moves(s, op_per(s, d), Grown(s, "PER"))
  BY <1>4, FetchedSizes, PushingOperands, SlidesMoves, GrownOf
<1>5. CASE Implied("PHA", op_pha)
  BY <1>0, <1>1, <1>2, <1>5, MovesDone DEF Implied
<1>6. CASE Implied("PHX", op_phx)
  BY <1>0, <1>1, <1>2, <1>6, MovesDone DEF Implied
<1>7. CASE Implied("PHY", op_phy)
  BY <1>0, <1>1, <1>2, <1>7, MovesDone DEF Implied
<1>8. CASE Implied("PHB", op_phb)
  BY <1>0, <1>1, <1>2, <1>8, MovesDone DEF Implied
<1>9. CASE Implied("PHD", op_phd)
  BY <1>0, <1>1, <1>2, <1>9, MovesDone DEF Implied
<1>10. CASE Implied("PHK", op_phk)
  BY <1>0, <1>1, <1>2, <1>10, MovesDone DEF Implied
<1>11. CASE Implied("PHP", op_php)
  BY <1>0, <1>1, <1>2, <1>11, MovesDone DEF Implied
<1>12. CASE Implied("PSH", op_psh)
  BY <1>0, <1>1, <1>2, <1>12, MovesDone DEF Implied
<1>13. CASE Implied("PHW", op_phw)
  BY <1>0, <1>1, <1>2, <1>13, MovesDone DEF Implied
<1>14. CASE Implied("PHI", op_phi)
  BY <1>0, <1>1, <1>2, <1>14, MovesDone DEF Implied
<1>15. CASE Implied("PLA", op_pla)
  BY <1>0, <1>1, <1>3, <1>15, MovesDone DEF Implied
<1>16. CASE Implied("PLX", op_plx)
  BY <1>0, <1>1, <1>3, <1>16, MovesDone DEF Implied
<1>17. CASE Implied("PLY", op_ply)
  BY <1>0, <1>1, <1>3, <1>17, MovesDone DEF Implied
<1>18. CASE Implied("PLB", op_plb)
  BY <1>0, <1>1, <1>3, <1>18, MovesDone DEF Implied
<1>19. CASE Implied("PLD", op_pld)
  BY <1>0, <1>1, <1>3, <1>19, MovesDone DEF Implied
<1>20. CASE Implied("PLW", op_plw)
  BY <1>0, <1>1, <1>3, <1>20, MovesDone DEF Implied
<1>21. CASE Implied("PLI", op_pli)
  BY <1>0, <1>1, <1>3, <1>21, MovesDone DEF Implied
<1>22. CASE Implied("PLP", op_plp)
  BY <1>0, <1>1, <1>3, <1>22, MovesDone DEF Implied
<1>23. CASE Implied("PUL", op_pul)
  BY <1>0, <1>1, <1>3, <1>23, MovesDone DEF Implied
<1>24. CASE Implied("PIA", op_pia)
  BY <1>0, <1>1, <1>3, <1>24, MovesDone DEF Implied
<1>25. CASE Immediate("PEA", op_pea, 2)
  BY <1>0, <1>1, <1>4, <1>25, OperandsType, MovesDone DEF Immediate
<1>26. CASE Immediate("PER", op_per, 2)
  BY <1>0, <1>1, <1>4, <1>26, OperandsType, MovesDone DEF Immediate
<1>27. CASE OnMemory("PEI", op_pei, {"dpag"})
  BY <1>0, <1>1, <1>4, <1>27, AddressedOperand, MemoryOperand, OtherModes, MovesDone DEF OnMemory
<1>28. QED
  BY <1>5, <1>6, <1>7, <1>8, <1>9, <1>10, <1>11, <1>12, <1>13, <1>14, <1>15, <1>16, <1>17,
     <1>18, <1>19, <1>20, <1>21, <1>22, <1>23, <1>24, <1>25, <1>26, <1>27
     DEF Stack

\* Every branch is done.
LEMMA BranchesDone ==
  ASSUME cpu \in Machine, IrOK, Branches
  PROVE  Executed
<1>0. Fetched(Fetch(1)) /\ Fetched(Fetch(2)) /\ Fetched(Fetch(4))
  BY FetchType
<1>1. \A op \in {"BCC", "BCS", "BNE", "BEQ", "BPL", "BMI", "BVC", "BVS", "BRA", "BRL", "BBR",
              "BBS", "BAR", "BAS"} : Still(op)
  BY DEF Still, PullOps, PushOps, Setters
<1>2. ASSUME NEW s, Fetched(s)
      PROVE  /\ Moves(s, s, 0)
             /\ \A o \in Int, N \in Width : Moves(s, [s EXCEPT !.pc = Relative(s, o, N)], 0)
  <2>1. s \in Machine /\ Untouched(s, s)
    BY <1>2, FetchedSizes DEF Untouched
  <2>2. ASSUME NEW o \in Int, NEW N \in Width
        PROVE  Untouched(s, [s EXCEPT !.pc = Relative(s, o, N)])
    BY <2>1, RelativeType, OtherRegisters, Widths
  <2>3. QED
    BY <2>1, <2>2, UntouchedMoves
<1>3. /\ ByteSize \in Width /\ WordSize \in Width
      /\ (\A o \in Operands : o \in Int) /\ \A o \in OperandsOf(2) : o \in Int
  BY MachineAssumption, Widths, OperandsType DEF Width
<1>4. ASSUME NEW name \in {"BCC", "BCS", "BNE", "BEQ", "BPL", "BMI", "BVC", "BVS", "BRA"},
             NEW taken, Branch(name, taken)
      PROVE  Executed
  <2>1. PICK o \in Operands :
          /\ Decoded(name)
          /\ Retire(name, IF taken THEN [Fetch(1) EXCEPT !.pc = Relative(Fetch(1), o, ByteSize)]
                                   ELSE Fetch(1))
    BY <1>4 DEF Branch
  <2>2. Moves(Fetch(1), IF taken THEN [Fetch(1) EXCEPT !.pc = Relative(Fetch(1), o, ByteSize)]
                                 ELSE Fetch(1), 0)
    BY <1>0, <1>2, <1>3
  <2>3. QED
    BY <1>0, <1>1, <2>1, <2>2, StillDone
<1>5. CASE Immediate("BRL", LAMBDA s, d : [s EXCEPT !.pc = Relative(s, d.at, WordSize)], 2)
  BY <1>0, <1>1, <1>2, <1>3, <1>5, StillDone DEF Immediate
<1>6. ASSUME NEW name \in {"BBR", "BBS"}, NEW value, BitBranch(name, value)
      PROVE  Executed
  <2> DEFINE s == Fetch(2)
  <2>1. PICK o, r \in Operands, k \in 0 .. ByteBits - 1 :
          /\ Decoded(name)
          /\ Retire(name, IF Bit(getByte(s, Direct(s, o)), k) = value
                          THEN [s EXCEPT !.pc = Relative(s, r, ByteSize)] ELSE s)
    BY <1>6 DEF BitBranch
  <2>2. Moves(s, IF Bit(getByte(s, Direct(s, o)), k) = value
                 THEN [s EXCEPT !.pc = Relative(s, r, ByteSize)] ELSE s, 0)
    BY <1>0, <1>2, <1>3
  <2>3. QED
    BY <1>0, <1>1, <2>1, <2>2, StillDone
<1>7. ASSUME NEW name \in {"BAR", "BAS"}, NEW all, MaskBranch(name, all)
      PROVE  Executed
  <2> DEFINE s == Fetch(4)
             hit(mask, o) == And(getByte(s, bank(s.dbr) + o), mask, ByteSize)
                               = (IF all THEN mask ELSE 0)
  <2>1. PICK mask, r \in Operands, o \in OperandsOf(2) :
          /\ Decoded(name)
          /\ Retire(name, IF hit(mask, o)
                          THEN [s EXCEPT !.pc = Relative(s, r, ByteSize)] ELSE s)
    BY <1>7 DEF MaskBranch
  <2> HIDE DEF hit
  <2>2. Moves(s, IF hit(mask, o) THEN [s EXCEPT !.pc = Relative(s, r, ByteSize)] ELSE s, 0)
    BY <1>0, <1>2, <1>3
  <2>3. QED
    BY <1>0, <1>1, <2>1, <2>2, StillDone
<1>8. QED
  BY <1>4, <1>5, <1>6, <1>7, Zenon DEF Branches

\* Every jump, call and return is done.
LEMMA JumpsDone ==
  ASSUME cpu \in Machine, IrOK, Jumps
  PROVE  Executed
<1>0. Fetched(Fetch(0)) /\ Fetched(Fetch(2))
  BY FetchType
<1>1. /\ \A op \in {"JMP", "TIP", "NXT", "JPI"} : Still(op)
      /\ \A op \in {"JSR", "RTS", "JSL", "RTL", "JSB"} : op \notin Setters
  BY DEF Still, PullOps, PushOps, Setters
<1>2. ASSUME NEW s, Fetched(s), NEW d, d.at \in Int
      PROVE  /\ Moves(s, op_jmp(s, d), 0) /\ Moves(s, op_jpi(s, d), 0)
             /\ Moves(s, op_jsr(s, d), Grown(s, "JSR")) /\ Moves(s, op_jsr_l28(s, d), Grown(s, "JSR"))
             /\ Moves(s, op_jsl(s, d), Grown(s, "JSL"))
  BY <1>2, FetchedSizes, JumpTo, Threading, UntouchedMoves, Calls, SlidesMoves, GrownOf
<1>3. ASSUME NEW s, Fetched(s)
      PROVE  /\ Moves(s, op_rts(s), Grown(s, "RTS")) /\ Moves(s, op_rts_l28(s), Grown(s, "RTS"))
             /\ Moves(s, op_rtl(s), Grown(s, "RTL")) /\ Moves(s, op_jsb(s), Grown(s, "JSB"))
             /\ Moves(s, op_tip(s), 0) /\ Moves(s, op_nxt(s), 0)
  BY <1>3, FetchedSizes, Returns, CallToVector, Threading, UntouchedMoves, SlidesMoves, GrownOf
<1>4. CASE OnMemory("JMP", op_jmp, {"absl", "absi", "abxi"} \cup
                                     IF cpu.type = "L28" THEN {} ELSE {"alng", "abil"})
  BY <1>1, <1>2, <1>4, AddressedOperand, MemoryOperand, OtherModes, StillDone DEF OnMemory
<1>5. CASE OnMemory("JSR", op_jsr, {"absl", "abxi"})
  BY <1>1, <1>2, <1>5, AddressedOperand, MemoryOperand, OtherModes, MovesDone DEF OnMemory
<1>6. CASE OnMemory("JSR", op_jsr_l28, {"absl"})
  BY <1>1, <1>2, <1>6, AddressedOperand, MemoryOperand, OtherModes, MovesDone DEF OnMemory
<1>7. CASE Implied("RTS", op_rts)
  BY <1>0, <1>1, <1>3, <1>7, MovesDone DEF Implied
<1>8. CASE Implied("RTS", op_rts_l28)
  BY <1>0, <1>1, <1>3, <1>8, MovesDone DEF Implied
<1>9. CASE OnMemory("JSL", op_jsl, {"alng"})
  BY <1>1, <1>2, <1>9, AddressedOperand, MemoryOperand, OtherModes, MovesDone DEF OnMemory
<1>10. CASE Implied("RTL", op_rtl)
  BY <1>0, <1>1, <1>3, <1>10, MovesDone DEF Implied
<1>11. CASE Implied("JSB", op_jsb)
  BY <1>0, <1>1, <1>3, <1>11, MovesDone DEF Implied
<1>12. CASE Implied("TIP", op_tip)
  BY <1>0, <1>1, <1>3, <1>12, StillDone DEF Implied
<1>13. CASE Implied("NXT", op_nxt)
  BY <1>0, <1>1, <1>3, <1>13, StillDone DEF Implied
<1>14. CASE Immediate("JPI", op_jpi, 2)
  BY <1>0, <1>1, <1>2, <1>14, OperandsType, StillDone DEF Immediate
<1>15. QED
  BY <1>4, <1>5, <1>6, <1>7, <1>8, <1>9, <1>10, <1>11, <1>12, <1>13, <1>14 DEF Jumps

-----------------------------------------------------------------------------
(* The instructions that write more than their width.                      *)

\* An instruction with a result of its own kind, retired, is done.
LEMMA ResultDone ==
  ASSUME IrOK, NEW op, Decoded(op), NEW s, Fetched(s), NEW t, Result(op, s, t), Retire(op, t)
  PROVE  Executed
<1>1. Result(op, cpu, t)
  BY FetchedResult
<1>2. op \in Mnemonics /\ ir.left # <<>> /\ (op = "XCE" => cpu.type # "L28")
  BY DecodedType DEF Absent, Wide
<1>3. QED
  BY <1>1, <1>2 DEF Executed, Done

\* The block moves are done.
LEMMA BlockMovesDone ==
  ASSUME cpu \in Machine, IrOK, Immediate("MVN", op_mvn, 2) \/ Immediate("MVP", op_mvp, 2)
  PROVE  Executed
<1>1. Still("MVN") /\ Still("MVP")
  BY DEF Still, PullOps, PushOps, Setters
<1>2. ASSUME NEW op \in {"MVN", "MVP"}, NEW s \in Machine, NEW t, Shifted16(s, t)
      PROVE  Result(op, s, t)
  <2>1. t.sp = Lowered(s.e, s.sp, Grown(s, op))
    BY <1>1, <1>2, StillGrown, LoweredZero, Registers16 DEF Shifted16
  <2>2. QED
    BY <1>2, <2>1 DEF Result, Shifted16, Setters
<1>3. ASSUME NEW s, Fetched(s), NEW d, d.at \in Int
      PROVE  Result("MVN", s, op_mvn(s, d)) /\ Result("MVP", s, op_mvp(s, d))
  BY <1>2, <1>3, FetchedSizes, BlockMoves
<1>4. Fetched(Fetch(2)) /\ \A o \in OperandsOf(2) : o \in Int
  BY FetchType, OperandsType
<1>5. CASE Immediate("MVN", op_mvn, 2)
  BY <1>3, <1>4, <1>5, ResultDone DEF Immediate
<1>6. CASE Immediate("MVP", op_mvp, 2)
  BY <1>3, <1>4, <1>6, ResultDone DEF Immediate
<1>7. QED
  BY <1>5, <1>6

\* The transfers of the whole of A, the pointer and the mode are done.
LEMMA WholeTransfersDone ==
  ASSUME cpu \in Machine, IrOK,
         \/ Implied("TXS", op_txs) \/ Implied("TCS", op_tcs)
         \/ Implied("TSC", op_tsc) \/ Implied("TDC", op_tdc) \/ Implied("XBA", op_xba)
         \/ Implied("XCE", op_xce)
  PROVE  Executed
<1>0. Fetched(Fetch(0)) /\ Fetch(0) \in Machine
  BY FetchType DEF Fetched
<1>1. Still("TSC") /\ Still("TDC") /\ Still("XBA")
  BY DEF Still, PullOps, PushOps, Setters
<1>2. ASSUME NEW s \in Machine, NEW op \in {"TSC", "TDC", "XBA"}, NEW t, OnlyA(s, t)
      PROVE  Result(op, s, t)
  <2>1. t.sp = Lowered(s.e, s.sp, Grown(s, op))
    BY <1>1, <1>2, StillGrown, LoweredZero, Registers16 DEF OnlyA
  <2>2. IndexHighZero(s) => IndexHighZero(t)
    BY <1>2 DEF OnlyA, IndexHighZero, X8
  <2>3. QED
    BY <1>2, <2>1, <2>2 DEF Result, OnlyA, Setters
<1>3. ASSUME NEW s \in Machine
      PROVE  /\ Result("TSC", s, op_tsc(s)) /\ Result("TDC", s, op_tdc(s))
             /\ Result("XBA", s, op_xba(s))
  BY <1>2, WholeTransfers
<1>4. ASSUME NEW s \in Machine, NEW op \in {"TXS", "TCS"}, NEW t,
             Resets(s, t), t.e = s.e, HighKept(s, t)
      PROVE  Result(op, s, t)
  BY <1>4 DEF Result, Resets, HighKept, Setters
<1>5. ASSUME NEW s \in Machine
      PROVE  Result("TXS", s, op_txs(s)) /\ Result("TCS", s, op_tcs(s))
  BY <1>4, Resetting
<1>6. ASSUME NEW s \in Machine
      PROVE  Result("XCE", s, op_xce(s))
  <2> DEFINE t == op_xce(s)
  <2>1. Resets(s, t) /\ (M8(s) => hi(t.a) = hi(s.a)) /\ (~t.e => t.sp = s.sp)
    BY Resetting
  <2> HIDE DEF t
  <2>2. Result("XCE", s, t)
    BY <2>1 DEF Result, Resets, Setters
  <2>3. QED
    BY <2>2 DEF t
<1>7. QED
  BY <1>0, <1>3, <1>5, <1>6, ResultDone DEF Implied

\* The trap of the host, which changes A as the host answers, is done.
LEMMA TrapDone ==
  ASSUME cpu \in Machine, IrOK, Decoded("BRK"), NEW n \in Operands, Trap(n)
  PROVE  Executed
<1>1. Fetched(Fetch(1)) /\ Fetch(1) \in Machine
  BY FetchType DEF Fetched
<1> DEFINE s == Fetch(1)
<1>2. Still("trap") /\ ir.left # <<>>
  BY DecodedType DEF Still, PullOps, PushOps, Setters
<1>3. ASSUME NEW t \in Machine, t.type = s.type, t.e = s.e, t.sp = s.sp,
             IndexHighZero(s) => IndexHighZero(t), Retire("trap", t)
      PROVE  Executed
  <2> HIDE DEF s
  <2>0. s \in Machine /\ Fetched(s)
    BY <1>1 DEF s
  <2>1. t.sp = Lowered(s.e, s.sp, Grown(s, "trap"))
    BY <1>2, <1>3, <2>0, StillGrown, LoweredZero, Registers16
  <2>2. Result("trap", s, t)
    BY <1>3, <2>1 DEF Result, Setters
  <2>3. Result("trap", cpu, t)
    BY <2>0, <2>2, FetchedResult
  <2>4. QED
    BY <1>2, <1>3, <2>3 DEF Executed, Done
<1> HIDE DEF s
<1>4. s \in Machine
  BY <1>1 DEF s
<1>5. ASSUME NEW at \in Word, Retire("trap", [s EXCEPT !.a = at, !.x = 0])
      PROVE  Executed
  <2> DEFINE t == [s EXCEPT !.a = at, !.x = 0]
  <2>1. /\ t \in Machine /\ t.type = s.type /\ t.e = s.e /\ t.sp = s.sp /\ t.p = s.p
        /\ t.x = 0 /\ t.y = s.y
    BY <1>4, Widths DEF Machine
  <2>2. Retire("trap", t)
    BY <1>5
  <2> HIDE DEF t
  <2>3. hi(0) = 0
    BY LowIsByte, Widths
  <2>4. IndexHighZero(s) => IndexHighZero(t)
    BY <2>1, <2>3 DEF IndexHighZero, X8
  <2>5. QED
    BY <1>3, <2>1, <2>2, <2>4
<1>6. ASSUME Retire("trap", [s EXCEPT !.stopped = TRUE])
      PROVE  Executed
  <2> DEFINE t == [s EXCEPT !.stopped = TRUE]
  <2>1. Untouched(s, t)
    BY <1>4, OtherRegisters, Widths
  <2>2. Retire("trap", t)
    BY <1>6
  <2> HIDE DEF t
  <2>3. QED
    BY <1>3, <2>1, <2>2 DEF Untouched, IndexHighZero, X8
<1>7. QED
  BY <1>5, <1>6, OperandsType DEF Trap, s

\* The interrupts, the waits and the traps are done, or the machine halts.
LEMMA ControlDone ==
  ASSUME cpu \in Machine, IrOK, cpu.type = "L28" => cpu.e, Control
  PROVE  Executed \/ Halt
<1>0. Fetched(Fetch(0)) /\ Fetched(Fetch(1))
  BY FetchType
<1>1. /\ \A op \in {"WAI", "STP", "WDM", "NOP"} : Still(op)
      /\ \A op \in {"BRK", "COP", "RTI"} : op \notin Setters
  BY DEF Still, PullOps, PushOps, Setters
<1>2. ASSUME NEW s, Fetched(s)
      PROVE  /\ Moves(s, op_cop(s), Grown(s, "COP")) /\ Moves(s, Break(s), Grown(s, "BRK"))
             /\ cpu.type = "L28" => Moves(s, op_brk_l28(s), Grown(s, "BRK"))
  <2>1. s \in Machine /\ (cpu.type = "L28" => s.e)
    BY <1>2 DEF Fetched, Untouched
  <2>2. QED
    BY <2>1, Interrupting, SlidesMoves, GrownOf
<1>3. ASSUME NEW s, Fetched(s), NEW d
      PROVE  Moves(s, op_wai(s), 0) /\ Moves(s, op_wdm(s, d), 0) /\ Moves(s, s, 0)
  <2>1. s \in Machine /\ Untouched(s, s)
    BY <1>3, FetchedSizes DEF Untouched
  <2>2. QED
    BY <2>1, Waiting, UntouchedMoves
<1>4. CASE op_brk
  <2>1. CASE cpu.type = "L28"
    BY <1>0, <1>1, <1>2, <1>4, <2>1, MovesDone DEF op_brk
  <2>2. CASE cpu.type # "L28"
    BY <1>0, <1>1, <1>2, <1>4, <2>2, MovesDone, TrapDone DEF op_brk
  <2>3. QED
    BY <2>1, <2>2
<1>5. CASE Immediate("COP", LAMBDA s, d : op_cop(s), 1)
  BY <1>0, <1>1, <1>2, <1>5, MovesDone DEF Immediate
<1>6. CASE Implied("RTI", op_rti)
  <2> DEFINE s == Fetch(0)
             t == op_rti(s)
  <2>1. Decoded("RTI") /\ Retire("RTI", t)
    BY <1>6 DEF Implied
  <2>2. s \in Machine /\ Fetched(s)
    BY <1>0 DEF Fetched
  <2> HIDE DEF s
  <2>3. FromFrame(s, t)
    BY <2>2, ReturnsFromFrame
  <2> HIDE DEF t
  <2>4. Result("RTI", s, t)
    BY <2>3, GrownOf DEF Result, FromFrame, Setters
  <2>5. QED
    BY <2>1, <2>2, <2>4, ResultDone
<1>7. CASE Implied("WAI", op_wai) \/ Implied("STP", op_wai)
  BY <1>0, <1>1, <1>3, <1>7, StillDone DEF Implied
<1>8. CASE Immediate("WDM", op_wdm, 1) \/ ReadConsole
  <2>1. CASE Immediate("WDM", op_wdm, 1)
    BY <1>0, <1>1, <1>3, <2>1, StillDone DEF Immediate
  <2>2. CASE ReadConsole
    <3>1. PICK typed \in Operands : Decoded("WDM") /\ Retire("WDM", op_wdm2(Fetch(1), typed))
      BY <2>2 DEF ReadConsole
    <3>2. typed \in Byte /\ Fetch(1) \in Machine
      BY <1>0, MachineAssumption DEF MachineAssumption, Fetched, Untouched
    <3>3. Moves(Fetch(1), op_wdm2(Fetch(1), typed), 0)
      BY <3>2, ReadsCharacter
    <3>4. QED
      BY <1>0, <1>1, <3>1, <3>3, StillDone
  <2>3. QED
    BY <1>8, <2>1, <2>2
<1>9. CASE Implied("NOP", LAMBDA s : s)
  BY <1>0, <1>1, <1>3, <1>9, StillDone DEF Implied
<1>10. QED
  BY <1>4, <1>5, <1>6, <1>7, <1>8, <1>9, Zenon DEF Control

\* A step executes an instruction or halts the machine.
LEMMA NextExecutes ==
  ASSUME cpu \in Machine, IrOK, cpu.type = "L28" => cpu.e, Next
  PROVE  Executed \/ Halt
<1>1. CASE Loads
  BY <1>1, LoadsDone, BlockMovesDone
<1>2. CASE Transfers
  BY <1>2, TransfersDone, WholeTransfersDone
<1>3. CASE FlagChanges
  BY <1>3, FlagChangesDone, WholeTransfersDone
<1>4. CASE Arithmetic \/ Modifications \/ Stack \/ Branches \/ Jumps \/ Control
  BY <1>4, ArithmeticDone, ModificationsDone, StackDone, BranchesDone, JumpsDone, ControlDone
<1>5. QED
  BY <1>1, <1>2, <1>3, <1>4 DEF Next

-----------------------------------------------------------------------------
(* The invariant of the processor.                                         *)

\* The inductive invariant of the processor.
IInv ==
  /\ cpu \in Machine /\ IrOK
  /\ cpu.type = "L28" => cpu.e
  /\ InStackPage(cpu.e, cpu.sp)

\* The machine after a reset, in either mode.
LEMMA ResetType ==
  ASSUME NEW type \in Types
  PROVE  LET r == reset(type)  n == [setNativeMode(r) EXCEPT !.sp = StartSP]
         IN  /\ r \in Machine /\ r.type = type /\ r.e /\ r.sp = sp_page
             /\ n \in Machine /\ n.type = type /\ ~n.e
<1>1. sp_page \in Word /\ Start \in Word /\ StartSP \in Word /\ 0 \in Word /\ 0 \in Byte
  BY MemoryAssumption, MachineAssumption, Widths
<1>2. [ea \in 0 .. Space - 1 |-> DataCell(0)] \in Memory
  BY <1>1, DataCellType DEF Memory
<1>3. {"i", "x", "m"} \in SUBSET Flags /\ {"i", "x", "m"} \ {"m", "x", "d"} \in SUBSET Flags
  BY FlagNames
<1> DEFINE r == reset(type)
           n == [setNativeMode(r) EXCEPT !.sp = StartSP]
<1>4. r \in Machine /\ r.type = type /\ r.e /\ r.sp = sp_page /\ r.p = {"i", "x", "m"}
  BY <1>1, <1>2, <1>3 DEF reset, Machine, Memory, Cells
<1> HIDE DEF r
<1>5. n \in Machine /\ n.type = type /\ ~n.e
  <2>1. r.p \ {"m", "x", "d"} \in SUBSET Flags
    BY <1>3, <1>4
  <2>2. QED
    BY <1>1, <1>4, <2>1 DEF setNativeMode, Machine
<1>6. QED
  BY <1>4, <1>5 DEF r

\* What an interrupt keeps.
LEMMA ContinuationType ==
  ASSUME NEW s \in Machine
  PROVE  Continuation(s) \in [pc : Word, pbr : Byte, p : SUBSET Flags]
BY Registers16 DEF Continuation

\* The invariant holds after a reset.
LEMMA InitIInv == Init => IInv
<1> SUFFICES ASSUME Init PROVE IInv
  OBVIOUS
<1>1. PICK type \in Types :
        cpu = IF type = "L28" THEN reset(type) ELSE [setNativeMode(reset(type)) EXCEPT !.sp = StartSP]
  BY DEF Init
<1>2. PICK program \in Programs :
        ir = [op |-> "reset", irq |-> FALSE, next |-> Continuation(cpu), left |-> program]
  BY DEF Init
<1>3. cpu \in Machine /\ cpu.type = type /\ (type = "L28" => cpu.e) /\ (cpu.e => cpu.sp = sp_page)
  BY <1>1, ResetType
<1>4. IrOK
  BY <1>2, <1>3, ContinuationType, MachineAssumption DEF IrOK
<1>5. lo(sp_page) = 0 /\ sp_page - 0 = sp_page
  BY MemoryAssumption, Widths DEF lo
<1>6. QED
  BY <1>3, <1>4, <1>5 DEF IInv, InStackPage

\* An instruction leaves the machine right, and so does the interrupt after it.
Frames(s) == IF s.type = "WDC" THEN 4 ELSE 3

\* What an instruction done, and the interrupt that may follow it, leave behind.
LEMMA DoneStep ==
  ASSUME IInv, NEW op, NEW s, Done(op, s)
  PROVE  /\ s \in Machine /\ s.type = cpu.type /\ (s.type = "L28" => s.e)
         /\ InStackPage(s.e, s.sp)
         /\ ir'.op = op /\ IrOK' /\ ir' # ir
         /\ \/ ~ir'.irq /\ cpu' = s
            \/ ir'.irq /\ Slides(s, cpu', Frames(s)) /\ s.type \in {"WDC", "L28"}
<1>1. cpu \in Machine /\ IrOK /\ InStackPage(cpu.e, cpu.sp) /\ (cpu.type = "L28" => cpu.e)
  BY DEF IInv
<1>2. Result(op, cpu, s) /\ Retire(op, s) /\ ir.left # <<>> /\ op \in Mnemonics \cup {"trap"}
      /\ (op = "XCE" => cpu.type # "L28")
  BY DEF Done
<1>3. s \in Machine /\ s.type = cpu.type /\ (s.type = "L28" => s.e)
  BY <1>1, <1>2 DEF Result
<1>4. InStackPage(s.e, s.sp)
  <2>1. CASE op \in Setters
    BY <1>2, <2>1 DEF Result
  <2>2. CASE op \notin Setters
    <3>1. s.e = cpu.e /\ s.sp = Lowered(cpu.e, cpu.sp, Grown(cpu, op))
      BY <1>2, <2>2 DEF Result, Setters
    <3>2. QED
      BY <1>1, <3>1, GrownInt, InPage, Registers16
  <2>3. QED
    BY <2>1, <2>2
<1>5. ir' = [op |-> op, irq |-> cpu' # s, next |-> Continuation(s), left |-> Tail(ir.left)]
  BY <1>2 DEF Retire
<1>6. Tail(ir.left) \in Seq(SUBSET Mnemonics) /\ Tail(ir.left) # ir.left
  <2>1. ir.left \in Seq(SUBSET Mnemonics)
    BY <1>1 DEF IrOK
  <2>2. Len(Tail(ir.left)) = Len(ir.left) - 1 /\ Len(ir.left) \in Nat
    BY <1>2, <2>1
  <2>3. Tail(ir.left) \in Seq(SUBSET Mnemonics)
    BY <1>2, <2>1
  <2>4. Tail(ir.left) # ir.left
    <3> DEFINE rest == Tail(ir.left)
    <3>1. Len(rest) = Len(ir.left) - 1 /\ Len(ir.left) \in Nat
      BY <2>2
    <3> HIDE DEF rest
    <3>2. rest # ir.left
      BY <3>1
    <3>3. QED
      BY <3>2 DEF rest
  <2>5. QED
    BY <2>3, <2>4
<1>7. ir'.op = op /\ ir' # ir /\ (ir'.irq <=> cpu' # s)
  <2> DEFINE other == cpu' # s
  <2>1. other \in BOOLEAN /\ (other <=> cpu' # s)
    OBVIOUS
  <2>2. ir' = [op |-> op, irq |-> other, next |-> Continuation(s), left |-> Tail(ir.left)]
    BY <1>5
  <2> HIDE DEF other
  <2>3. ir'.left = Tail(ir.left) /\ ir'.op = op /\ ir'.irq = other
    BY <2>2
  <2>4. QED
    BY <1>6, <2>1, <2>3
<1>8. IrOK'
  <2>1. (cpu' # s) \in BOOLEAN
    OBVIOUS
  <2>2. QED
    BY <1>2, <1>3, <1>5, <1>6, <2>1, ContinuationType DEF IrOK
<1>9. CASE cpu' = s
  BY <1>3, <1>4, <1>7, <1>8, <1>9
<1>10. CASE cpu' # s
  <2>1. cpu' \in Irqs(s)
    BY <1>2, <1>10 DEF Retire
  <2>2. Slides(s, cpu', Frames(s)) /\ s.type \in {"WDC", "L28"}
    BY <1>3, <2>1, Interrupts DEF Frames
  <2>3. QED
    BY <1>3, <1>4, <1>7, <1>8, <1>10, <2>2
<1>11. QED
  BY <1>9, <1>10

\* A machine that halts keeps its registers.
LEMMA HaltStep ==
  ASSUME IInv, Halt
  PROVE  /\ IInv' /\ cpu'.a = cpu.a /\ cpu'.x = cpu.x /\ cpu'.y = cpu.y
         /\ cpu'.e = cpu.e /\ cpu'.sp = cpu.sp /\ cpu'.p = cpu.p /\ ir' = ir
<1>1. cpu \in Machine /\ cpu' = [cpu EXCEPT !.stopped = TRUE] /\ ir' = ir
  BY DEF IInv, Halt
<1>2. /\ cpu' \in Machine /\ cpu'.type = cpu.type /\ cpu'.a = cpu.a /\ cpu'.x = cpu.x
      /\ cpu'.y = cpu.y /\ cpu'.e = cpu.e /\ cpu'.sp = cpu.sp /\ cpu'.p = cpu.p
  BY <1>1 DEF Machine
<1>3. QED
  BY <1>1, <1>2 DEF IInv, IrOK

\* Every step is an instruction done, or halts.
LEMMA NextCases ==
  ASSUME IInv, Next
  PROVE  Halt \/ \E op, s : Done(op, s)
BY NextExecutes DEF IInv, Executed

\* Every step keeps the invariant.
LEMMA NextIInv ==
  ASSUME IInv, [Next]_vars
  PROVE  IInv'
<1>1. CASE Halt
  BY <1>1, HaltStep
<1>2. ASSUME NEW op, NEW s, Done(op, s)
      PROVE  IInv'
  <2>1. /\ s \in Machine /\ s.type = cpu.type /\ (s.type = "L28" => s.e)
        /\ InStackPage(s.e, s.sp) /\ IrOK'
        /\ \/ cpu' = s
           \/ Slides(s, cpu', Frames(s))
    BY <1>2, DoneStep
  <2>2. CASE cpu' = s
    BY <2>1, <2>2 DEF IInv
  <2>3. CASE Slides(s, cpu', Frames(s))
    <3>1. InStackPage(cpu'.e, cpu'.sp)
      BY <2>1, <2>3, InPage, Registers16 DEF Slides, Frames
    <3>2. QED
      BY <2>1, <2>3, <3>1 DEF IInv, Slides
  <2>4. QED
    BY <2>1, <2>2, <2>3
<1>3. CASE UNCHANGED vars
  BY <1>3 DEF vars, IInv, IrOK
<1>4. QED
  BY <1>1, <1>2, <1>3, NextCases

\* The inductive invariant of the processor: the instruction retired is one it
\* has, the registers hold what the code's integer types can, the L28 stays in
\* emulation mode and the stack pointer of that mode in its page (em16/src/
\* emu816.cpp, step_wdc, step_l28 and all they call).
THEOREM Invariance == Spec => []IInv
BY InitIInv, NextIInv, PTL DEF Spec

\* Every instruction of the table, in every mode, leaves a machine whose registers
\* and cells are in range: no op_ function hands a register a value too wide.
THEOREM TypeCorrectness == Spec => []TypeOK
<1>1. IInv => TypeOK
  BY DEF IInv, IrOK, TypeOK
<1>2. QED
  BY <1>1, Invariance, PTL

\* In emulation mode the stack pointer never leaves its page, however pushes,
\* pulls, interrupts, TCS, TXS and XCE are combined (pushByte, pullByte, op_xce).
THEOREM StackStaysInPage == Spec => []EmulationStackInPage
<1>1. IInv => EmulationStackInPage
  BY DEF IInv, InStackPage, EmulationStackInPage
<1>2. QED
  BY <1>1, Invariance, PTL

\* Eight-bit instructions leave the high half of A alone, and X and Y without one;
\* only the instructions that are meant to change it do (the e.m and e.x branches
\* of the op_ functions).
THEOREM HalvesSurvive == Spec => UpperHalvesKept
<1> DEFINE Keeping ==
             /\ \/ ~M8(cpu)
                \/ ir'.op \in {"XBA", "TDC", "TSC", "MVN", "MVP", "trap"}
                \/ hi(cpu'.a) = hi(cpu.a)
             /\ IndexHighZero(cpu) =>
                  IndexHighZero(cpu') \/ ir'.op \in {"RTI", "XCE", "MVN", "MVP"}
<1>1. ASSUME IInv, Next
      PROVE  Keeping
  <2>1. CASE Halt
    BY <1>1, <2>1, HaltStep DEF IndexHighZero, X8
  <2>2. ASSUME NEW op, NEW s, Done(op, s)
        PROVE  Keeping
    <3>1. Result(op, cpu, s) /\ ir'.op = op
      BY <1>1, <2>2, DoneStep DEF Done
    <3>2. cpu'.a = s.a /\ (IndexHighZero(s) => IndexHighZero(cpu'))
      BY <1>1, <2>2, DoneStep DEF Slides, IndexHighZero, X8
    <3>3. QED
      BY <3>1, <3>2 DEF Result
  <2>3. QED
    BY <1>1, <2>1, <2>2, NextCases
<1>2. IInv /\ [Next]_vars => [Keeping]_vars
  BY <1>1
<1>3. Spec => [][Keeping]_vars
  BY <1>2, Invariance, PTL DEF Spec
<1>4. QED
  BY <1>3 DEF UpperHalvesKept

-----------------------------------------------------------------------------
(* The invariant of a program that keeps to the rules of the stack.        *)

\* The items a program has on the stack: what each is made of, the bytes its kind takes
\* in the mode e, and where it lies.
Stacked ==
  [kind : Mnemonics \cup {"interrupt", "trap"}, size : Int, sp : Word,
   back : [pc : Word, pbr : Byte, p : SUBSET Flags],
   was : [a : Word, x : Word, y : Word, dp : Word, dbr : Byte, pbr : Byte, p : SUBSET Flags,
          wl : Byte, wh : Byte, i : Word]]
Fits(item, e) ==
  /\ item.kind \in {"PHB", "PHK", "PHP"} => item.size = 1
  /\ item.kind \in {"PHD", "PEA", "PER", "PEI", "PHW", "PHI", "JSR", "JSB"} => item.size = 2
  /\ item.kind \in {"PSH", "JSL"} => item.size = 3
  /\ item.kind \in Frame => item.size = IF e THEN 3 ELSE 4
Follows(m, stack) ==
  /\ stack \in Seq(Stacked)
  /\ \A k \in 1 .. Len(stack) : Fits(stack[k], m.e)
  /\ \A k \in 1 .. Len(stack) : Lowered(m.e, stack[k].sp, stack[k].size)
                                  = IF k = Len(stack) THEN m.sp ELSE stack[k + 1].sp

\* An item pushed where the pointer is follows the others.
LEMMA AppendFollows ==
  ASSUME NEW m, NEW stack, Follows(m, stack), NEW item \in Stacked, item.sp = m.sp,
         NEW n, n.e = m.e \/ stack = <<>>, Fits(item, n.e), n.sp = Lowered(n.e, m.sp, item.size)
  PROVE  Follows(n, Append(stack, item))
<1> DEFINE new == Append(stack, item)
<1>1. stack \in Seq(Stacked) /\ Len(stack) \in Nat
  BY DEF Follows
<1>2. /\ new \in Seq(Stacked) /\ Len(new) = Len(stack) + 1 /\ new[Len(stack) + 1] = item
      /\ \A k \in 1 .. Len(stack) : new[k] = stack[k]
  BY <1>1
<1> HIDE DEF new
<1>3. ASSUME NEW k \in 1 .. Len(stack)
      PROVE  n.e = m.e
  BY <1>1, <1>3
<1>4. ASSUME NEW k \in 1 .. Len(new)
      PROVE  /\ Fits(new[k], n.e)
             /\ Lowered(n.e, new[k].sp, new[k].size)
                  = IF k = Len(new) THEN n.sp ELSE new[k + 1].sp
  <2>1. CASE k = Len(stack) + 1
    BY <1>2, <2>1
  <2>2. CASE k = Len(stack)
    <3>1. k \in 1 .. Len(stack)
      BY <1>1, <1>4, <2>2
    <3>2. n.e = m.e /\ Fits(stack[k], m.e) /\ Lowered(m.e, stack[k].sp, stack[k].size) = m.sp
      BY <1>3, <2>2, <3>1 DEF Follows
    <3>3. new[k] = stack[k] /\ new[k + 1] = item /\ k # Len(new)
      BY <1>1, <1>2, <2>2, <3>1
    <3>4. QED
      BY <3>2, <3>3
  <2>3. CASE k \in 1 .. Len(stack) - 1
    <3>1. k \in 1 .. Len(stack) /\ k + 1 \in 1 .. Len(stack) /\ k # Len(stack) /\ k # Len(new)
      BY <1>1, <1>2, <2>3
    <3>2. n.e = m.e /\ Fits(stack[k], m.e)
          /\ Lowered(m.e, stack[k].sp, stack[k].size) = stack[k + 1].sp
      BY <1>3, <3>1 DEF Follows
    <3>3. QED
      BY <1>2, <3>1, <3>2
  <2>4. QED
    BY <1>1, <1>2, <1>4, <2>1, <2>2, <2>3
<1>5. QED
  BY <1>2, <1>4 DEF Follows, new

\* With the last item pulled the others follow as before.
LEMMA FrontFollows ==
  ASSUME NEW m, NEW stack, Follows(m, stack), stack # <<>>,
         NEW n, n.e = m.e, n.sp = stack[Len(stack)].sp
  PROVE  Follows(n, Front(stack))
<1> DEFINE new == Front(stack)
<1>1. stack \in Seq(Stacked) /\ Len(stack) \in Nat /\ Len(stack) > 0
  BY DEF Follows
<1>2. /\ new \in Seq(Stacked) /\ Len(new) = Len(stack) - 1
      /\ \A k \in 1 .. Len(stack) - 1 : new[k] = stack[k]
  <2> DEFINE n1 == Len(stack) - 1
  <2>1. n1 \in Int /\ \A k \in 1 .. n1 : stack[k] \in Stacked
    BY <1>1
  <2>2. new = SubSeq(stack, 1, n1)
    BY DEF Front
  <2> HIDE DEF n1, new
  <2>3. /\ new \in Seq(Stacked) /\ Len(new) = IF 1 <= n1 THEN n1 - 1 + 1 ELSE 0
        /\ \A k \in 1 .. n1 - 1 + 1 : new[k] = stack[1 + k - 1]
    BY <2>1, <2>2, SubSeqProperties
  <2>4. Len(new) = n1
    <3>1. n1 \in Nat /\ Len(new) = IF 1 <= n1 THEN n1 - 1 + 1 ELSE 0
      BY <1>1, <2>3 DEF n1
    <3>2. QED
      BY <3>1
  <2>5. ASSUME NEW k \in 1 .. n1
        PROVE  new[k] = stack[k]
    <3>1. k \in 1 .. n1 - 1 + 1 /\ 1 + k - 1 = k
      BY <1>1, <2>5 DEF n1
    <3>2. QED
      BY <2>3, <3>1
  <2>6. QED
    BY <2>3, <2>4, <2>5 DEF n1
<1> HIDE DEF new
<1>3. ASSUME NEW k \in 1 .. Len(new)
      PROVE  /\ Fits(new[k], n.e)
             /\ Lowered(n.e, new[k].sp, new[k].size)
                  = IF k = Len(new) THEN n.sp ELSE new[k + 1].sp
  <2>1. k \in 1 .. Len(stack) /\ k # Len(stack) /\ k \in 1 .. Len(stack) - 1
    BY <1>1, <1>2, <1>3
  <2>2. Fits(stack[k], m.e) /\ Lowered(m.e, stack[k].sp, stack[k].size) = stack[k + 1].sp
    BY <2>1 DEF Follows
  <2>3. CASE k = Len(new)
    BY <1>1, <1>2, <2>1, <2>2, <2>3
  <2>4. CASE k # Len(new)
    <3>1. k + 1 \in 1 .. Len(stack) - 1
      BY <1>1, <1>2, <1>3, <2>4
    <3>2. QED
      BY <1>2, <2>1, <2>2, <2>4, <3>1
  <2>5. QED
    BY <2>3, <2>4
<1>4. QED
  BY <1>2, <1>3 DEF Follows, new

\* What does not move the pointer leaves the items in place.
LEMMA SameFollows ==
  ASSUME NEW m, NEW stack, Follows(m, stack), NEW n, n.e = m.e, n.sp = m.sp
  PROVE  Follows(n, stack)
BY DEF Follows

\* An empty stack is in place anywhere.
LEMMA EmptyFollows ==
  ASSUME NEW m
  PROVE  Follows(m, <<>>)
BY DEF Follows

\* Where an item of the stack ends.
LEMMA BelowIsLowered ==
  ASSUME NEW s \in Machine, NEW n, NEW w
  PROVE  /\ Below(s, n) = Lowered(s.e, s.sp, n)
         /\ Below([s EXCEPT !.sp = w], n) = Lowered(s.e, w, n)
BY DEF Below, Lowered, Machine

\* The inductive invariant of the program and its stack.
SInv == IInv /\ Follows(cpu, items) /\ (~rules => items = <<>>)

\* The invariant says what the program expects.
LEMMA SInvFollows == SInv => PointerFollowsItems
<1> SUFFICES ASSUME SInv, items # <<>> PROVE PointerFollowsItems
  BY DEF PointerFollowsItems
<1>1. cpu \in Machine /\ items \in Seq(Stacked) /\ Len(items) \in Nat /\ Len(items) > 0
  BY DEF SInv, IInv, Follows
<1>2. Last(items) = items[Len(items)]
  BY DEF Last
<1>3. Lowered(cpu.e, Last(items).sp, Last(items).size) = cpu.sp
  BY <1>1, <1>2 DEF SInv, Follows
<1>4. ASSUME NEW k \in 1 .. Len(items) - 1
      PROVE  Lowered(cpu.e, items[k].sp, items[k].size) = items[k + 1].sp
  BY <1>1, <1>4 DEF SInv, Follows
<1>5. QED
  BY <1>1, <1>3, <1>4, BelowIsLowered DEF PointerFollowsItems

Back == [pc : Word, pbr : Byte, p : SUBSET Flags]

\* The item an instruction pushes.
LEMMA ItemType ==
  ASSUME NEW op \in Mnemonics \cup {"interrupt", "trap"}, NEW s \in Machine, NEW back \in Back
  PROVE  /\ Item(op, s, back) \in Stacked
         /\ Item(op, s, back).kind = op /\ Item(op, s, back).size = Pushes(s, op)
         /\ Item(op, s, back).sp = s.sp
<1>1. Pushes(s, op) \in Int
  BY DEF Pushes
<1>2. Registers(s) \in [a : Word, x : Word, y : Word, dp : Word, dbr : Byte, pbr : Byte,
                        p : SUBSET Flags, wl : Byte, wh : Byte, i : Word]
  BY Registers16 DEF Registers
<1>3. QED
  BY <1>1, <1>2, Registers16 DEF Item, Stacked, Back

\* Its size is the one its kind has, in the mode it was pushed in.
LEMMA KindFits ==
  ASSUME NEW item, NEW s, NEW op, item.kind = op, item.size = Pushes(s, op)
  PROVE  Fits(item, s.e)
<1>1. op \in {"PHB", "PHK", "PHP"} => Pushes(s, op) = 1
  BY DEF Pushes, Frame
<1>2. op \in {"PHD", "PEA", "PER", "PEI", "PHW", "PHI", "JSR", "JSB"} => Pushes(s, op) = 2
  BY DEF Pushes, Frame
<1>3. op \in {"PSH", "JSL"} => Pushes(s, op) = 3
  BY DEF Pushes, Frame
<1>4. op \in Frame => Pushes(s, op) = IF s.e THEN 3 ELSE 4
  BY DEF Pushes, Frame
<1>5. QED
  BY <1>1, <1>2, <1>3, <1>4 DEF Fits

\* A pull finds an item as large as the bytes it pulls.
LEMMA PullsSize ==
  ASSUME NEW s, NEW op \in PullOps, NEW item, Fits(item, s.e), Pulls(s, op, item)
  PROVE  item.size = Pulled(s, op)
<1>1. CASE op \in {"PLA", "PLX", "PLY"}
  BY <1>1 DEF Pulls, Pulled
<1>2. CASE op \in {"PLB", "PLP"}
  BY <1>2 DEF Pulls, Pulled, Fits
<1>3. CASE op \in {"PLD", "PLW", "PLI", "PIA", "RTS"}
  BY <1>3 DEF Pulls, Pulled, Fits, Near
<1>4. CASE op \in {"PUL", "RTL"}
  BY <1>4 DEF Pulls, Pulled, Fits
<1>5. CASE op = "RTI"
  BY <1>5 DEF Pulls, Pulled, Fits
<1>6. QED
  BY <1>1, <1>2, <1>3, <1>4, <1>5 DEF PullOps

\* The program's stack after an instruction that keeps to the rules.
LEMMA InstructionFollows ==
  ASSUME SInv, NEW op, NEW s, Done(op, s), op \notin Movers, op = "XCE" => items = <<>>,
         op \in PullOps => items # <<>> /\ Pulls(cpu, op, Last(items))
  PROVE  /\ Follows(s, After(op))
         /\ op # "XCE" \/ ~s.e => Bottom(op) = s.sp
<1>1. cpu \in Machine /\ s \in Machine /\ Follows(cpu, items) /\ Result(op, cpu, s)
      /\ op \in Mnemonics \cup {"trap"}
  BY DoneStep DEF SInv, IInv, Done
<1>2. CASE op = "XCE"
  <2>1. op \notin PullOps /\ Pushes(cpu, op) = 0
    BY <1>2 DEF PullOps, Pushes, Frame
  <2>2. After(op) = <<>> /\ Bottom(op) = cpu.sp
    BY <1>2, <2>1 DEF After, Bottom
  <2>3. ~s.e => s.sp = cpu.sp
    BY <1>1, <1>2 DEF Result
  <2>4. QED
    BY <1>2, <2>2, <2>3, EmptyFollows
<1>3. CASE op # "XCE"
  <2>0. op \notin Setters
    BY <1>3 DEF Setters, Movers
  <2>1. s.e = cpu.e /\ s.sp = Lowered(cpu.e, cpu.sp, Grown(cpu, op))
    BY <1>1, <1>3, <2>0 DEF Result
  <2>2. cpu.sp \in Word
    BY <1>1, Registers16
  <2>3. CASE op \in PullOps
    <3> DEFINE last == items[Len(items)]
    <3>1. items # <<>> /\ Pulls(cpu, op, last) /\ Last(items) = last
      BY <2>3 DEF Last
    <3>2. items \in Seq(Stacked) /\ Len(items) \in 1 .. Len(items) /\ last \in Stacked
      BY <1>1, <3>1 DEF Follows
    <3>3. Fits(last, cpu.e) /\ Lowered(cpu.e, last.sp, last.size) = cpu.sp
      BY <1>1, <3>2 DEF Follows
    <3> HIDE DEF last
    <3>4. last.size = Pulled(cpu, op) /\ last.size \in Int /\ last.sp \in Word
      BY <2>3, <3>1, <3>2, <3>3, PullsSize DEF Stacked
    <3>5. Grown(cpu, op) = -last.size
      BY <2>3, <3>4 DEF Grown
    <3>6. s.sp = last.sp
      BY <2>1, <3>3, <3>4, <3>5, LoweredBack
    <3>7. After(op) = Front(items) /\ Bottom(op) = last.sp
      BY <2>3, <3>1 DEF After, Bottom
    <3>8. Follows(s, Front(items))
      BY <1>1, <2>1, <3>1, <3>6, FrontFollows DEF last
    <3>9. QED
      BY <3>6, <3>7, <3>8
  <2>4. CASE op \notin PullOps /\ Pushes(cpu, op) > 0
    <3> DEFINE back == [Continuation(cpu) EXCEPT !.pc = (cpu.pc + CallLength(op)) % WordSize]
               item == Pushed(op)
    <3>1. cpu.pc + CallLength(op) \in Int
      BY <1>1, Registers16 DEF CallLength
    <3>2. back \in Back
      BY <1>1, <3>1, Wraps, ContinuationType DEF Back
    <3>3. item = Item(op, cpu, back)
      BY DEF Pushed
    <3> HIDE DEF back, item
    <3>4. item \in Stacked /\ item.kind = op /\ item.size = Pushes(cpu, op) /\ item.sp = cpu.sp
      BY <1>1, <3>2, <3>3, ItemType
    <3>5. Fits(item, s.e)
      BY <2>1, <3>4, KindFits
    <3>6. s.sp = Lowered(s.e, cpu.sp, item.size)
      BY <2>1, <2>4, <3>4 DEF Grown
    <3>7. Follows(s, Append(items, item))
      BY <1>1, <2>1, <3>4, <3>5, <3>6, AppendFollows
    <3>8. After(op) = Append(items, item) /\ Bottom(op) = Below(cpu, Pushes(cpu, op))
      BY <2>4 DEF After, Bottom, item
    <3>9. Bottom(op) = s.sp
      BY <1>1, <2>1, <3>4, <3>6, <3>8, BelowIsLowered
    <3>10. QED
      BY <3>7, <3>8, <3>9
  <2>5. CASE op \notin PullOps /\ ~(Pushes(cpu, op) > 0)
    <3>1. Pushes(cpu, op) = 0
      BY <2>5 DEF Pushes
    <3>2. s.sp = cpu.sp
      BY <2>1, <2>2, <2>5, <3>1, LoweredZero DEF Grown
    <3>3. After(op) = items /\ Bottom(op) = cpu.sp
      BY <2>5 DEF After, Bottom
    <3>4. QED
      BY <1>1, <2>1, <3>2, <3>3, SameFollows
  <2>6. QED
    BY <2>3, <2>4, <2>5
<1>4. QED
  BY <1>2, <1>3

\* And after the interrupt that followed it.
LEMMA InterruptFollows ==
  ASSUME NEW s \in Machine, NEW stack, Follows(s, stack), Slides(s, cpu', Frames(s)),
         (s.type = "WDC" /\ ~cpu'.e) \/ (s.type = "L28" /\ s.e), ir'.next \in Back
  PROVE  Follows(cpu', Entered(stack, s.sp))
<1> DEFINE old == Item("interrupt", cpu', ir'.next)
           item == [old EXCEPT !.sp = s.sp]
<1>1. cpu' \in Machine /\ cpu'.e = s.e /\ cpu'.sp = Lowered(s.e, s.sp, Frames(s)) /\ s.sp \in Word
  BY Registers16 DEF Slides
<1>2. old \in Stacked /\ old.kind = "interrupt" /\ old.size = Pushes(cpu', "interrupt")
  BY <1>1, ItemType
<1>3. Entered(stack, s.sp) = Append(stack, item)
  BY DEF Entered
<1> HIDE DEF old
<1>4. item \in Stacked /\ item.kind = "interrupt" /\ item.size = Pushes(cpu', "interrupt")
      /\ item.sp = s.sp
  BY <1>1, <1>2 DEF Stacked
<1> HIDE DEF item
<1>5. Pushes(cpu', "interrupt") = Frames(s)
  BY <1>1 DEF Pushes, Frame, Frames
<1>6. Fits(item, cpu'.e)
  BY <1>4, KindFits
<1>7. Follows(cpu', Append(stack, item))
  BY <1>1, <1>4, <1>5, <1>6, AppendFollows
<1>8. QED
  BY <1>3, <1>7

\* Every step of the program keeps its invariant.
LEMMA StepSInv ==
  ASSUME SInv, [Step]_svars
  PROVE  SInv'
<1>0. IInv /\ Follows(cpu, items)
  BY DEF SInv
<1>1. CASE UNCHANGED svars
  BY <1>1 DEF svars, SInv, IInv, IrOK, Follows
<1>2. ASSUME Step, ~rules
      PROVE  SInv'
  <2>1. Next /\ items' = items /\ rules' = rules /\ items = <<>>
    BY <1>2 DEF Step, SInv
  <2>2. Follows(cpu', items')
    BY <2>1, EmptyFollows
  <2>3. QED
    BY <1>0, <2>1, <2>2, NextIInv DEF SInv
<1>3. ASSUME Step, rules
      PROVE  SInv'
  <2>1. Next /\ Keeps /\ rules' = rules
    BY <1>3 DEF Step
  <2>2. IInv'
    BY <1>0, <2>1, NextIInv
  <2>3. CASE Halt
    <3>1. ir' = ir /\ cpu'.e = cpu.e /\ cpu'.sp = cpu.sp
      BY <1>0, <2>3, HaltStep
    <3>2. "halt" \notin PullOps /\ Pushes(cpu, "halt") = 0
      BY DEF PullOps, Pushes, Frame
    <3>3. items' = items
      BY <2>1, <3>1, <3>2 DEF Keeps, After
    <3>4. QED
      BY <1>0, <1>3, <2>1, <2>2, <3>1, <3>3, SameFollows DEF SInv
  <2>4. ASSUME NEW op, NEW s, Done(op, s)
        PROVE  SInv'
    <3>1. /\ s \in Machine /\ s.type = cpu.type /\ (s.type = "L28" => s.e)
          /\ ir'.op = op /\ IrOK' /\ ir' # ir
          /\ \/ ~ir'.irq /\ cpu' = s
             \/ ir'.irq /\ Slides(s, cpu', Frames(s)) /\ s.type \in {"WDC", "L28"}
      BY <1>0, <2>4, DoneStep
    <3>2. /\ op \in PullOps => items # <<>> /\ Pulls(cpu, op, Last(items))
          /\ op = "XCE" => items = <<>>
          /\ op \notin Movers
          /\ ir'.irq /\ cpu.type = "WDC" => ~cpu'.e
          /\ items' = IF ir'.irq THEN Entered(After(op), Bottom(op)) ELSE After(op)
      BY <2>1, <3>1 DEF Keeps
    <3>3. /\ Follows(s, After(op))
          /\ op # "XCE" \/ ~s.e => Bottom(op) = s.sp
      BY <2>4, <3>2, InstructionFollows
    <3>4. CASE ~ir'.irq
      BY <1>3, <2>1, <2>2, <3>1, <3>2, <3>3, <3>4 DEF SInv
    <3>5. CASE ir'.irq
      <4>1. cpu'.e = s.e /\ (op = "XCE" => cpu.type # "L28")
        BY <2>4, <3>1, <3>5 DEF Slides, Done
      <4>2. (s.type = "WDC" /\ ~cpu'.e) \/ (s.type = "L28" /\ s.e)
        BY <3>1, <3>2, <3>5
      <4>3. Bottom(op) = s.sp
        BY <3>1, <3>3, <4>1, <4>2
      <4>4. ir'.next \in Back
        BY <3>1 DEF IrOK, Back
      <4>5. Follows(cpu', Entered(After(op), s.sp))
        BY <3>1, <3>3, <3>5, <4>2, <4>4, InterruptFollows
      <4>6. QED
        BY <1>3, <2>1, <2>2, <3>2, <3>5, <4>3, <4>5 DEF SInv
    <3>6. QED
      BY <3>4, <3>5
  <2>5. QED
    BY <1>0, <2>1, <2>3, <2>4, NextCases
<1>4. QED
  BY <1>1, <1>2, <1>3

\* The inductive invariant of a program that keeps to the rules of the stack: the
\* items it has there lie one below the other, each of the size its kind has in
\* the mode the machine is in, and the last ends at the stack pointer.
THEOREM ProgramInvariance == SSpec => []SInv
<1>1. SInit => SInv
  BY InitIInv, EmptyFollows DEF SInit, SInv
<1>2. QED
  BY <1>1, StepSInv, PTL DEF SSpec

\* The stack pointer is where such a program expects it after any number of
\* pushes, pulls, calls, returns and interrupts: every instruction pulls as many
\* bytes as its counterpart pushed (op_pha .. op_pia, op_jsr .. op_rti, step_wdc).
THEOREM PointerIsWhereExpected == SSpec => []PointerFollowsItems
BY ProgramInvariance, SInvFollows, PTL

\* A program that keeps to the rules is a program: its steps are the processor's,
\* and what is proved of the processor holds of it.
THEOREM ProgramsRun == SSpec => Spec
<1>1. SInit => Init
  BY DEF SInit
<1>2. [Step]_svars => [Next]_vars
  BY DEF Step, svars, vars
<1>3. QED
  BY <1>1, <1>2, PTL DEF SSpec, Spec

-----------------------------------------------------------------------------
(* The operands, and remainders one step away.                             *)

OperandsOK == wordA \in Word /\ wordB \in Word /\ carryIn \in 0 .. 1 /\ inDecimal \in BOOLEAN

\* The operands stay words, whatever the carry and the flag do.
LEMMA OperandTypes == OperandsSpec => []OperandsOK
<1>1. OperandsInit => OperandsOK
  <2>1. OperandsInit => wordA \in Word /\ wordB \in Word /\ carryIn \in 0 .. 1
    BY DEF OperandsInit
  <2>2. OperandsInit => inDecimal \in BOOLEAN
    BY Zenon DEF OperandsInit
  <2>3. QED
    BY <2>1, <2>2, Zenon DEF OperandsOK
<1>2. ASSUME OperandsOK, [FlipCarry \/ FlipMode]_operands
      PROVE  OperandsOK'
  <2>1. CASE FlipCarry
    <3>1. wordA' = wordA /\ wordB' = wordB /\ inDecimal' = inDecimal /\ carryIn' = 1
      BY <2>1, Zenon DEF FlipCarry
    <3>2. carryIn' \in 0 .. 1
      BY <3>1
    <3>3. QED
      BY <1>2, <3>1, <3>2, Zenon DEF OperandsOK
  <2>2. CASE FlipMode
    BY <1>2, <2>2, Zenon DEF OperandsOK, FlipMode
  <2>3. CASE UNCHANGED operands
    BY <1>2, <2>3, Zenon DEF OperandsOK, operands
  <2>4. QED
    BY <1>2, <2>1, <2>2, <2>3
<1>3. QED
  BY <1>1, <1>2, PTL DEF OperandsSpec

\* A number less than M away from 0 .. M - 1 wraps once.
LEMMA WrapsOnce ==
  ASSUME NEW M \in Nat \ {0}, NEW t \in Int
  PROVE  /\ 0 <= t /\ t < M => t % M = t /\ t \div M = 0
         /\ M <= t /\ t < 2 * M => t % M = t - M /\ t \div M = 1
         /\ -M <= t /\ t < 0 => t % M = t + M /\ t \div M = -1
<1>1. ASSUME 0 <= t, t < M PROVE t % M = t /\ t \div M = 0
  <2>1. t \in 0 .. M - 1 /\ t = M * 0 + t
    BY <1>1
  <2>2. QED
    BY <2>1, RemainderIs
<1>2. ASSUME M <= t, t < 2 * M PROVE t % M = t - M /\ t \div M = 1
  <2>1. t - M \in 0 .. M - 1 /\ t = M * 1 + (t - M)
    BY <1>2
  <2>2. QED
    BY <2>1, RemainderIs
<1>3. ASSUME -M <= t, t < 0 PROVE t % M = t + M /\ t \div M = -1
  <2>1. t + M \in 0 .. M - 1 /\ t = M * (-1) + (t + M)
    BY <1>3
  <2>2. QED
    BY <2>1, RemainderIs
<1>4. QED
  BY <1>1, <1>2, <1>3

\* Half of a width, and what it means for the sign.
LEMMA Halved ==
  ASSUME NEW N \in Nat, NEW half \in Nat \ {0}, N = 2 * half, NEW v \in 0 .. N - 1
  PROVE  /\ N \div 2 = half
         /\ Negative(v, N) <=> v >= half
         /\ Signed(v, N) = IF v >= half THEN v - N ELSE v
         /\ InRange(Signed(v, N), N)
<1>1. N \div 2 = half
  <2>1. N = 2 * half + 0 /\ 0 \in 0 .. 2 - 1
    OBVIOUS
  <2>2. QED
    BY <2>1, RemainderIs
<1>2. Negative(v, N) <=> v >= half
  BY DEF Negative
<1>3. QED
  BY <1>1, <1>2 DEF Signed, InRange

\* The value and the flags a sum in binary should have.
IsSum(r, a, b, c, N) ==
  /\ r.v \in 0 .. N - 1
  /\ r.o <=> ~InRange(Signed(a, N) + Signed(b, N) + c, N)
  /\ ~r.o => Signed(r.v, N) = Signed(a, N) + Signed(b, N) + c
  /\ r.c = (IF a + b + c >= N THEN 1 ELSE 0)
  /\ a + b + c = N * r.c + r.v

\* Addition in binary has them, in either width.
LEMMA BinarySum ==
  ASSUME NEW N \in Width, NEW a \in 0 .. N - 1, NEW b \in 0 .. N - 1, NEW c \in 0 .. 1
  PROVE  IsSum(AddWithCarry(a, b, c, FALSE, N), a, b, c, N)
<1> DEFINE r == AddWithCarry(a, b, c, FALSE, N)
           t == a + b + c
<1>1. PICK half \in Nat \ {0} : N = 2 * half
  BY WidthType
<1>2. N \in Nat \ {0} /\ t \in Int /\ 0 <= t /\ t < 2 * N
  BY <1>1
<1>3. r.v = t % N /\ r.c = (t \div N) % 2
      /\ (r.o <=> (Negative(a, N) <=> Negative(b, N)) /\ ~(Negative(a, N) <=> Negative(t % N, N)))
  BY DEF AddWithCarry, Negative
<1>4. /\ t < N => t % N = t /\ t \div N = 0
      /\ t >= N => t % N = t - N /\ t \div N = 1
  BY <1>2, WrapsOnce
<1> HIDE DEF r
<1>31. r.v = t % N /\ r.c = (t \div N) % 2
  BY <1>3
<1> HIDE DEF t
<1>5. r.v \in 0 .. N - 1 /\ r.v = (IF t >= N THEN t - N ELSE t) /\ r.c = (IF t >= N THEN 1 ELSE 0)
  <2>1. 0 % 2 = 0 /\ 1 % 2 = 1
    OBVIOUS
  <2>2. CASE t < N
    BY <1>2, <1>31, <1>4, <2>1, <2>2
  <2>3. CASE t >= N
    BY <1>2, <1>31, <1>4, <2>1, <2>3
  <2>4. QED
    BY <1>2, <2>2, <2>3
<1>6. /\ Negative(a, N) <=> a >= half
      /\ Negative(b, N) <=> b >= half
      /\ Negative(r.v, N) <=> r.v >= half
      /\ Signed(a, N) = (IF a >= half THEN a - N ELSE a)
      /\ Signed(b, N) = (IF b >= half THEN b - N ELSE b)
      /\ Signed(r.v, N) = (IF r.v >= half THEN r.v - N ELSE r.v)
      /\ N \div 2 = half
  BY <1>1, <1>2, <1>5, Halved
<1>7. r.o <=> (a >= half <=> b >= half) /\ ~(a >= half <=> r.v >= half)
  BY <1>3, <1>6
<1>8. t = a + b + c
  BY DEF t
<1>9. r.o <=> ~InRange(Signed(a, N) + Signed(b, N) + c, N)
  BY <1>1, <1>5, <1>6, <1>7, <1>8 DEF InRange
<1>10. ~r.o => Signed(r.v, N) = Signed(a, N) + Signed(b, N) + c
  BY <1>1, <1>5, <1>6, <1>7, <1>8
<1>11. t = N * r.c + r.v
  BY <1>1, <1>5, <1>8
<1>12. QED
  BY <1>5, <1>8, <1>9, <1>10, <1>11 DEF r, IsSum

\* A sum, a difference and a comparison of words in binary are those of the signed
\* and of the unsigned numbers, with V and C saying where they are not, for every
\* width of a byte (op_adc, op_sbc and op_cmp of em16/include/emu816.h).
THEOREM SumsAreRight == OperandsSpec => []SumsAreSigned
<1>1. ASSUME OperandsOK PROVE SumsAreSigned
  <2> DEFINE N == WordSize
             a == wordA
             b == wordB
             c == carryIn
             r == AddWithCarry(a, b, c, FALSE, N)
             s == SubtractWithBorrow(a, b, c, FALSE, N)
             sum == Signed(a, N) + Signed(b, N) + c
             difference == Signed(a, N) - Signed(b, N) - 1 + c
  <2>1. N \in Width /\ N \in Nat \ {0} /\ a \in 0 .. N - 1 /\ b \in 0 .. N - 1 /\ c \in 0 .. 1
    BY <1>1, Widths DEF OperandsOK, Width
  <2> HIDE DEF N, a, b, c
  <2>2. PICK half \in Nat \ {0} : N = 2 * half
    BY <2>1, WidthType
  <2>3. N - 1 - b \in 0 .. N - 1 /\ s = AddWithCarry(a, N - 1 - b, c, FALSE, N)
    BY <2>1 DEF SubtractWithBorrow
  <2>4. IsSum(r, a, b, c, N) /\ IsSum(s, a, N - 1 - b, c, N)
    BY <2>1, <2>3, BinarySum
  <2> HIDE DEF r, s
  <2>5. /\ s.v \in 0 .. N - 1
        /\ s.o <=> ~InRange(Signed(a, N) + Signed(N - 1 - b, N) + c, N)
        /\ ~s.o => Signed(s.v, N) = Signed(a, N) + Signed(N - 1 - b, N) + c
        /\ s.c = (IF a + (N - 1 - b) + c >= N THEN 1 ELSE 0)
        /\ a + (N - 1 - b) + c = N * s.c + s.v
    BY <2>4 DEF IsSum
  <2>6. Signed(N - 1 - b, N) = -1 - Signed(b, N) /\ Signed(a, N) \in Int /\ Signed(b, N) \in Int
    BY <2>1, <2>2, <2>3, Halved
  <2>7. Signed(a, N) + Signed(N - 1 - b, N) + c = difference
    BY <2>1, <2>6
  <2>8. /\ s.o <=> ~InRange(difference, N)
        /\ ~s.o => Signed(s.v, N) = difference
    BY <2>5, <2>7
  <2>9. s.c = (IF a >= b + 1 - c THEN 1 ELSE 0)
    BY <2>1, <2>5
  <2>10. ASSUME c = 1 PROVE Compare(a, b, N) = [v |-> s.v, c |-> s.c]
    <3>1. s.c = IF a >= b THEN 1 ELSE 0
      BY <2>1, <2>9, <2>10
    <3>2. a - b = N * (s.c - 1) + s.v /\ s.c - 1 \in Int
      BY <2>1, <2>5, <2>10, <3>1
    <3>3. (a - b) % N = s.v
      <4>1. s.v \in 0 .. N - 1
        BY <2>5
      <4>2. QED
        BY ONLY <2>1, <4>1, <3>2, RemainderIs
    <3>4. QED
      BY <3>1, <3>3 DEF Compare
  <2>11. QED
    BY <2>4, <2>8, <2>9, <2>10 DEF SumsAreSigned, IsSum, N, a, b, c, r, s
<1>2. QED
  BY <1>1, OperandTypes, PTL

-----------------------------------------------------------------------------
(* The signed arithmetic of the L28.                                       *)

\* A number that fits a width is what its remainder says, signed.
LEMMA SignedWraps ==
  ASSUME NEW N \in Nat, NEW half \in Nat \ {0}, N = 2 * half, NEW t \in Int,
         -half <= t, t < half
  PROVE  Signed(t % N, N) = t
<1>0. N \in Nat \ {0}
  OBVIOUS
<1>1. CASE t >= 0
  <2>1. t % N = t /\ t \in 0 .. N - 1
    BY <1>0, <1>1, WrapsOnce
  <2>2. QED
    BY <2>1, Halved
<1>2. CASE t < 0
  <2>0. -N <= t /\ t + N \in 0 .. N - 1
    BY <1>2
  <2>1. t % N = t + N
    BY <1>0, <1>2, <2>0, WrapsOnce
  <2>2. QED
    BY <1>2, <2>1, Halved
<1>3. QED
  BY <1>1, <1>2

\* The product of two signed bytes is far from the ends of a word.
LEMMA ProductBound ==
  ASSUME NEW h \in Nat, NEW x \in Int, NEW y \in Int, -h <= x, x <= h, -h <= y, y <= h
  PROVE  x * y \in Int /\ -(h * h) <= x * y /\ x * y <= h * h
<1>1. h - x \in Nat /\ h + x \in Nat /\ h - y \in Nat /\ h + y \in Nat
  OBVIOUS
<1>2. \A m, n \in Nat : m * n >= 0
  OBVIOUS
<1>3. /\ (h - x) * (h + y) >= 0 /\ (h + x) * (h - y) >= 0
      /\ (h + x) * (h + y) >= 0 /\ (h - x) * (h - y) >= 0
  BY ONLY <1>1, <1>2
<1>4. /\ (h - x) * (h + y) = h * h + h * y - h * x - x * y
      /\ (h + x) * (h - y) = h * h - h * y + h * x - x * y
      /\ (h + x) * (h + y) = h * h + h * y + h * x + x * y
      /\ (h - x) * (h - y) = h * h - h * y - h * x + x * y
  OBVIOUS
<1>5. h * h \in Int /\ h * x \in Int /\ h * y \in Int /\ x * y \in Int
  OBVIOUS
<1>6. QED
  BY ONLY <1>3, <1>4, <1>5

\* Held at the ends of a width a number is the nearest that fits.
LEMMA HeldIsNearest ==
  ASSUME NEW N \in Nat, NEW half \in Nat \ {0}, N = 2 * half, NEW t \in Int
  PROVE  LET top == N \div 2 - 1
             held == IF t > top THEN top ELSE IF t < -top - 1 THEN -top - 1 ELSE t
         IN  /\ held = Nearest(t, N)
             /\ Signed(held % N, N) = Nearest(t, N)
             /\ held # t <=> ~InRange(t, N)
<1> DEFINE top == half - 1
           held == IF t > top THEN top ELSE IF t < -top - 1 THEN -top - 1 ELSE t
<1>1. N \div 2 = half
  <2>1. 0 \in 0 .. N - 1
    OBVIOUS
  <2>2. QED
    BY <2>1, Halved
<1>2. held = Nearest(t, N) /\ held \in Int /\ -half <= held /\ held < half
  BY <1>1 DEF Nearest
<1>3. held # t <=> ~InRange(t, N)
  BY <1>1 DEF InRange
<1> HIDE DEF held
<1>4. Signed(held % N, N) = held
  BY <1>2, SignedWraps
<1>5. QED
  BY <1>1, <1>2, <1>3, <1>4 DEF held

\* The two's complement of a byte, and its magnitude.
LEMMA NegationIsRight ==
  ASSUME NEW l \in Byte
  PROVE  LET x == Signed(l, ByteSize)
         IN  /\ Negate(l) # l => Signed(Negate(l), ByteSize) = -x
             /\ Magnitude(l) # ByteSize \div 2 =>
                    Signed(Magnitude(l), ByteSize) = (IF x < 0 THEN -x ELSE x)
<1> DEFINE N == ByteSize
<1>1. N \in Nat /\ N \in Nat \ {0} /\ l \in 0 .. N - 1
  BY Widths
<1>2. PICK h \in Nat \ {0} : N = 2 * h
  BY Sizes
<1> HIDE DEF N
<1>3. N \div 2 = h /\ (Negative(l, N) <=> l >= h) /\ Signed(l, N) = (IF l >= h THEN l - N ELSE l)
  BY <1>1, <1>2, Halved
<1>4. ASSUME l # 0 PROVE (N - l) % N = N - l /\ N - l \in 0 .. N - 1
  <2>1. N - l \in Int /\ 0 <= N - l /\ N - l < N /\ N - l \in 0 .. N - 1
    BY <1>1, <1>4
  <2>2. (N - l) % N = N - l
    BY ONLY <1>1, <2>1, WrapsOnce
  <2>3. QED
    BY <2>1, <2>2
<1>5. N % N = 0
  BY <1>1, WrapsOnce
<1>6. Negate(l) = IF l = h THEN l ELSE (N - l) % N
  BY <1>3 DEF Negate, N
<1>7. Magnitude(l) = IF l >= h THEN Negate(l) ELSE l
  BY <1>3 DEF Magnitude, N
<1>8. ASSUME l # 0 PROVE Signed(N - l, N) = (IF N - l >= h THEN (N - l) - N ELSE N - l)
  BY <1>1, <1>2, <1>4, <1>8, Halved
<1>9. ASSUME Negate(l) # l PROVE Signed(Negate(l), N) = -Signed(l, N)
  <2>1. l # 0 /\ l # h /\ Negate(l) = N - l
    BY <1>1, <1>4, <1>5, <1>6, <1>9
  <2>2. QED
    BY <1>1, <1>2, <1>3, <1>8, <2>1
<1>10. ASSUME Magnitude(l) # h
       PROVE  Signed(Magnitude(l), N) = (IF Signed(l, N) < 0 THEN -Signed(l, N) ELSE Signed(l, N))
  <2>1. CASE l < h
    BY <1>1, <1>3, <1>7, <2>1
  <2>2. CASE l >= h
    <3>1. l # h /\ Magnitude(l) = Negate(l) /\ Negate(l) = N - l /\ Negate(l) # l
      BY <1>1, <1>2, <1>4, <1>6, <1>7, <1>10, <2>2
    <3>2. QED
      BY <1>1, <1>3, <1>9, <2>2, <3>1
  <2>3. QED
    BY <1>1, <1>2, <2>1, <2>2
<1>11. QED
  BY <1>3, <1>9, <1>10 DEF N

\* The signed shift halves, towards the smaller number.
LEMMA ShiftHalves ==
  ASSUME NEW l \in Byte
  PROVE  Signed(ShiftRightSigned(l, ByteSize).v, ByteSize) = Signed(l, ByteSize) \div 2
<1> DEFINE N == ByteSize
<1>1. N \in Nat /\ l \in 0 .. N - 1
  BY Widths
<1>2. PICK h \in Nat \ {0} : N = 2 * h
  BY Sizes
<1> HIDE DEF N
<1>3. N \div 2 = h /\ (Negative(l, N) <=> l >= h) /\ Signed(l, N) = (IF l >= h THEN l - N ELSE l)
  BY <1>1, <1>2, Halved
<1> DEFINE q == l \div 2
           r == l % 2
<1>4. q \in Int /\ r \in 0 .. 1 /\ l = 2 * q + r
  BY <1>1, Remainder
<1>5. ShiftRightSigned(l, N).v = q + (IF l >= h THEN h ELSE 0)
  BY <1>3 DEF ShiftRightSigned
<1> HIDE DEF q, r
<1>6. q \in 0 .. h - 1
  BY <1>1, <1>2, <1>4
<1>7. CASE l < h
  <2>1. ShiftRightSigned(l, N).v = q /\ q \in 0 .. N - 1 /\ q < h /\ Signed(l, N) = l
    BY <1>1, <1>2, <1>3, <1>4, <1>5, <1>6, <1>7
  <2>2. Signed(q, N) = q
    BY <1>1, <1>2, <2>1, Halved
  <2>3. QED
    BY <2>1, <2>2 DEF q, N
<1>8. CASE l >= h
  <2>1. ShiftRightSigned(l, N).v = q + h /\ q + h \in 0 .. N - 1 /\ q + h >= h /\ Signed(l, N) = l - N
    BY <1>1, <1>2, <1>3, <1>5, <1>6, <1>8
  <2>2. Signed(q + h, N) = q - h
    BY <1>1, <1>2, <1>6, <2>1, Halved
  <2>3. l - N = 2 * (q - h) + r /\ q - h \in Int /\ r \in 0 .. 2 - 1
    BY <1>1, <1>2, <1>4
  <2>4. (l - N) \div 2 = q - h
    BY <2>3, RemainderIs
  <2>5. QED
    BY <2>1, <2>2, <2>4 DEF N
<1>9. QED
  BY <1>1, <1>2, <1>7, <1>8

\* The L28's product, its sum with W and the rounding of W are the numbers they
\* should be or the nearest that fit; so are the negation, the magnitude and the
\* shift of a byte, for every width (op_mpy, op_mpa, op_rnd, op_neg, op_asra).
THEOREM SignedResultsAreRight == OperandsSpec => []SignedResults
<1>1. ASSUME OperandsOK PROVE SignedResults
  <2> DEFINE N == ByteSize
             M == WordSize
             w == Signed(wordA, M)
             l == lo(wordB)
             b == hi(wordB)
             x == Signed(l, N)
             y == Signed(b, N)
  <2>1. wordA \in Word /\ wordA \in Int /\ wordB \in Int /\ l \in Byte /\ b \in Byte
        /\ wordA \in 0 .. M - 1 /\ l \in 0 .. N - 1 /\ b \in 0 .. N - 1
        /\ N \in Nat /\ M \in Nat /\ N \in Nat \ {0} /\ M = N * N
    <3>1. wordA \in Word /\ wordB \in Word
      BY <1>1 DEF OperandsOK
    <3>2. wordA \in 0 .. M - 1 /\ wordA \in Int /\ wordB \in Int
      BY <3>1, Widths
    <3>3. l \in Byte /\ b \in Byte /\ l \in 0 .. N - 1 /\ b \in 0 .. N - 1
      BY <3>2, HalvesRange
    <3>4. QED
      BY <3>1, <3>2, <3>3, Widths, Sizes
  <2>2. PICK h \in Nat \ {0} : N = 2 * h
    BY Sizes
  <2>3. Negate(l) # l => Signed(Negate(l), N) = -x
    BY <2>1, NegationIsRight
  <2>4. Magnitude(l) # N \div 2 => Signed(Magnitude(l), N) = (IF x < 0 THEN -x ELSE x)
    BY <2>1, NegationIsRight
  <2>5. Signed(ShiftRightSigned(l, N).v, N) = x \div 2
    BY <2>1, ShiftHalves
  <2> DEFINE V == 2 * (h * h)
  <2>6. V \in Nat \ {0} /\ M = 2 * V /\ h * h < V /\ h * h \in Nat
    <3>1. h * h \in Nat \ {0}
      OBVIOUS
    <3>2. N * N = 4 * (h * h)
      BY <2>2
    <3>3. QED
      BY <2>1, <3>1, <3>2
  <2>7. x \in Int /\ y \in Int /\ -h <= x /\ x <= h /\ -h <= y /\ y <= h
    <3> HIDE DEF N, l, b
    <3>1. x = (IF l >= h THEN l - N ELSE l) /\ y = (IF b >= h THEN b - N ELSE b)
      BY <2>1, <2>2, Halved
    <3>2. QED
      BY <2>1, <2>2, <3>1
  <2>8. w \in Int /\ N \div 2 = h
    <3> HIDE DEF N, M, V
    <3>1. w = (IF wordA >= V THEN wordA - M ELSE wordA) /\ N \div 2 = h
      BY <2>1, <2>2, <2>6, Halved
    <3> HIDE DEF w
    <3>2. QED
      BY <2>1, <2>6, <3>1
  <2>9. x * y \in Int /\ -V <= x * y /\ x * y < V
    <3> HIDE DEF x, y, V
    <3>1. x * y \in Int /\ -(h * h) <= x * y /\ x * y <= h * h
      BY <2>7, ProductBound
    <3>2. QED
      BY <2>6, <3>1
  <2>10. Signed(Multiply(l, b), M) = x * y
    <3> DEFINE p == x * y
    <3>1. p \in Int /\ -V <= p /\ p < V
      BY <2>9
    <3>2. Multiply(l, b) = p % M
      BY DEF Multiply
    <3> HIDE DEF p, M, V
    <3>3. Signed(p % M, M) = p
      BY <2>1, <2>6, <3>1, SignedWraps
    <3>4. QED
      BY <3>2, <3>3 DEF p
  <2>11. /\ Signed(MultiplyAdd(wordA, l, b).v, M) = Nearest(w + x * y, M)
         /\ MultiplyAdd(wordA, l, b).o <=> ~InRange(w + x * y, M)
    <3> DEFINE t == w + x * y
               top == M \div 2 - 1
               held == IF t > top THEN top ELSE IF t < -top - 1 THEN -top - 1 ELSE t
    <3>1. MultiplyAdd(wordA, l, b).v = held % M /\ (MultiplyAdd(wordA, l, b).o <=> held # t)
      BY DEF MultiplyAdd
    <3>2. t \in Int
      BY <2>8, <2>9
    <3> HIDE DEF t, M, V
    <3>3. Signed(held % M, M) = Nearest(t, M) /\ (held # t <=> ~InRange(t, M))
      BY <2>1, <2>6, <3>2, HeldIsNearest
    <3> HIDE DEF held
    <3>4. QED
      BY <3>1, <3>3, Zenon DEF t
  <2>12. Signed(Round(wordA), N) = Nearest((w + N \div 2) \div N, N)
    <3> DEFINE t == (w + N \div 2) \div N
               top == N \div 2 - 1
               held == IF t > top THEN top ELSE IF t < -top - 1 THEN -top - 1 ELSE t
    <3>1. Round(wordA) = held % N
      BY Zenon DEF Round
    <3>2. t \in Int
      <4>1. w + N \div 2 \in Int
        BY <2>1, <2>8
      <4>2. QED
        BY <2>1, <4>1, Remainder
    <3> HIDE DEF t, N
    <3>3. Signed(held % N, N) = Nearest(t, N)
      BY <2>1, <2>2, <3>2, HeldIsNearest
    <3>4. QED
      BY <3>1, <3>3 DEF t
  <2>13. QED
    BY <2>3, <2>4, <2>5, <2>10, <2>11, <2>12, Zenon DEF SignedResults
<1>2. QED
  BY <1>1, OperandTypes, PTL

-----------------------------------------------------------------------------
(* Digits and their units.                                                 *)

\* The powers of two add their exponents.
LEMMA PowerSum ==
  ASSUME NEW m \in Nat, NEW n \in Nat
  PROVE  2 ^ (m + n) = 2 ^ m * 2 ^ n
<1> DEFINE S == {k \in 0 .. n : 2 ^ (m + k) = 2 ^ m * 2 ^ k}
<1>1. 0 \in S
  BY PowerZero, PowerNat
<1>2. ASSUME NEW k \in 1 .. n, k - 1 \in S PROVE k \in S
  <2> DEFINE p == 2 ^ (k - 1)
             q == 2 ^ m
  <2>1. k - 1 \in Nat /\ k = (k - 1) + 1 /\ m + (k - 1) \in Nat /\ m + k = (m + (k - 1)) + 1
    OBVIOUS
  <2>2. 2 ^ k = 2 * p
    BY <2>1, PowerNext
  <2>3. 2 ^ (m + k) = 2 * 2 ^ (m + (k - 1))
    BY <2>1, PowerNext
  <2>4. 2 ^ (m + (k - 1)) = q * p
    BY <1>2
  <2>5. p \in Nat /\ q \in Nat
    BY <2>1, PowerNat
  <2> HIDE DEF p, q
  <2>6. 2 * (q * p) = q * (2 * p)
    BY <2>5
  <2>7. QED
    BY <2>2, <2>3, <2>4, <2>6 DEF q
<1>3. n \in S
  <2> HIDE DEF S
  <2>1. \A k \in 0 .. n : k \in S
    BY <1>1, <1>2, InductionUpTo
  <2>2. QED
    BY <2>1
<1>4. QED
  BY <1>3

\* A digit has at least sixteen values; the unit of a column is that of the one
\* before it times those.
LEMMA Units ==
  /\ DigitSize \in Nat /\ DigitSize >= 16
  /\ Unit(0) = 1
  /\ \A k \in Nat : Unit(k) \in Nat \ {0} /\ Unit(k + 1) = DigitSize * Unit(k)
  /\ \A j, k \in Nat : Unit(j + k) = Unit(j) * Unit(k)
<1>1. DigitBits \in Nat /\ DigitBits - 4 \in Nat
  BY WidthAssumption, DigitAssumption
<1>2. DigitSize \in Nat /\ DigitSize >= 16
  <2>1. 2 ^ 1 = 2 /\ 2 ^ 2 = 4 /\ 2 ^ 3 = 8 /\ 2 ^ 4 = 16
    <3>1. 2 ^ (0 + 1) = 2 * 2 ^ 0 /\ 2 ^ (1 + 1) = 2 * 2 ^ 1
          /\ 2 ^ (2 + 1) = 2 * 2 ^ 2 /\ 2 ^ (3 + 1) = 2 * 2 ^ 3
      BY PowerNext
    <3>2. 0 + 1 = 1 /\ 1 + 1 = 2 /\ 2 + 1 = 3 /\ 3 + 1 = 4
      OBVIOUS
    <3>3. QED
      BY <3>1, <3>2, PowerZero
  <2>2. DigitBits = 4 + (DigitBits - 4)
    BY <1>1
  <2>3. DigitSize = 16 * 2 ^ (DigitBits - 4)
    BY <1>1, <2>1, <2>2, PowerSum DEF DigitSize
  <2>4. 2 ^ (DigitBits - 4) \in Nat \ {0}
    BY <1>1, PowerPositive
  <2>5. QED
    BY <2>3, <2>4
<1>3. Unit(0) = 1
  <2>1. DigitBits * 0 = 0
    BY <1>1
  <2>2. QED
    BY <2>1, PowerZero DEF Unit
<1>4. ASSUME NEW k \in Nat PROVE Unit(k) \in Nat \ {0} /\ Unit(k + 1) = DigitSize * Unit(k)
  <2>1. DigitBits * k \in Nat /\ DigitBits * (k + 1) = DigitBits + DigitBits * k
    BY <1>1
  <2>2. Unit(k) \in Nat \ {0}
    BY <2>1, PowerPositive DEF Unit
  <2>3. 2 ^ (DigitBits + DigitBits * k) = 2 ^ DigitBits * 2 ^ (DigitBits * k)
    BY <1>1, <2>1, PowerSum
  <2>4. QED
    BY <2>1, <2>2, <2>3 DEF Unit, DigitSize
<1>5. ASSUME NEW j \in Nat, NEW k \in Nat PROVE Unit(j + k) = Unit(j) * Unit(k)
  <2>1. DigitBits * j \in Nat /\ DigitBits * k \in Nat
        /\ DigitBits * (j + k) = DigitBits * j + DigitBits * k
    BY <1>1
  <2>2. QED
    BY <2>1, PowerSum DEF Unit
<1>6. QED
  BY <1>2, <1>3, <1>4, <1>5

\* The digits fill a byte and a word.
LEMMA ColumnsFill ==
  /\ Digits(ByteSize) \in Nat \ {0} /\ Digits(WordSize) = 2 * Digits(ByteSize)
  /\ Columns = Digits(WordSize) /\ Columns \in Nat
  /\ Unit(Digits(ByteSize)) = ByteSize /\ Unit(Columns) = WordSize
<1>1. /\ DigitBits \in Nat \ {0} /\ ByteBits \in Nat \ {0} /\ ByteBits % DigitBits = 0
  BY WidthAssumption, DigitAssumption
<1> DEFINE q == ByteBits \div DigitBits
<1>2. q \in Int /\ ByteBits = DigitBits * q
  <2>0. ByteBits \in Int
    BY <1>1
  <2>1. ByteBits = DigitBits * q + (ByteBits % DigitBits) /\ q \in Int
    BY <1>1, <2>0, Remainder
  <2>2. DigitBits * q \in Int
    BY <1>1, <2>1
  <2> HIDE DEF q
  <2>3. QED
    BY <1>1, <2>1, <2>2
<1> HIDE DEF q
<1>3. q \in Nat \ {0}
  <2>1. CASE q <= 0
    <3>1. DigitBits * q <= 0
      BY <1>1, <1>2, <2>1
    <3>2. QED
      BY <1>1, <1>2, <3>1
  <2>2. QED
    BY <1>2, <2>1
<1>4. BitsOf(ByteSize) = ByteBits /\ BitsOf(WordSize) = 2 * ByteBits
  BY Widths DEF BitsOf
<1>5. ASSUME NEW n \in Nat PROVE (DigitBits * n + DigitBits - 1) \div DigitBits = n
  <2>1. DigitBits * n \in Int
    BY <1>1
  <2>2. DigitBits * n + DigitBits - 1 = DigitBits * n + (DigitBits - 1)
    BY <1>1, <2>1
  <2>3. DigitBits - 1 \in 0 .. DigitBits - 1
    BY <1>1
  <2>4. QED
    BY <1>1, <2>2, <2>3, RemainderIs
<1>6. Digits(ByteSize) = q
  BY <1>2, <1>3, <1>4, <1>5 DEF Digits
<1>7. Digits(WordSize) = 2 * q
  <2>1. 2 * ByteBits = DigitBits * (2 * q) /\ 2 * q \in Nat
    BY <1>1, <1>2, <1>3
  <2>2. QED
    BY <1>4, <1>5, <2>1 DEF Digits
<1>8. Unit(q) = ByteSize
  BY <1>2 DEF Unit, ByteSize
<1>9. Unit(2 * q) = WordSize
  <2>1. 2 * q = q + q
    BY <1>3
  <2>2. Unit(q + q) = Unit(q) * Unit(q)
    BY <1>3, Units
  <2>3. QED
    BY <1>8, <2>1, <2>2 DEF WordSize
<1>10. QED
  BY <1>3, <1>6, <1>7, <1>8, <1>9 DEF Columns

\* A quotient by a column's unit is one digit and the quotient by the next one's.
LEMMA NextQuotient ==
  ASSUME NEW v \in Int, NEW k \in Nat
  PROVE  /\ v \div Unit(k) \in Int /\ v \div Unit(k + 1) \in Int
         /\ DigitOf(v, k) \in 0 .. DigitSize - 1
         /\ v \div Unit(k) = DigitSize * (v \div Unit(k + 1)) + DigitOf(v, k)
<1> DEFINE U == Unit(k)
           D == DigitSize
           q == v \div U
           r == v % U
           Q == q \div D
           R == q % D
<1>0. D \in Nat /\ D >= 16 /\ U \in Nat \ {0} /\ Unit(k + 1) = D * U
  BY Units
<1> HIDE DEF U, D
<1>1. U \in Nat \ {0} /\ D \in Nat \ {0} /\ Unit(k + 1) = D * U
  BY <1>0
<1>2. q \in Int /\ r \in 0 .. U - 1 /\ v = U * q + r
  BY <1>1, Remainder
<1> HIDE DEF q, r
<1>3. Q \in Int /\ R \in 0 .. D - 1 /\ q = D * Q + R
  BY <1>1, <1>2, Remainder
<1> HIDE DEF Q, R
<1>4. v = (D * U) * Q + (U * R + r)
  <2>1. U * (D * Q + R) = (D * U) * Q + U * R
    BY <1>1, <1>3
  <2>2. (D * U) * Q \in Int /\ U * R \in Int
    BY <1>1, <1>3
  <2>3. QED
    BY <1>2, <1>3, <2>1, <2>2
<1>5. U * R + r \in 0 .. D * U - 1 /\ D * U \in Nat \ {0}
  <2>1. R + 1 <= D /\ R + 1 \in Nat
    BY <1>1, <1>3
  <2>2. U * (R + 1) <= U * D
    BY <1>1, <2>1
  <2>3. U * (R + 1) = U * R + U /\ U * D = D * U /\ U * R \in Nat /\ D * U \in Nat \ {0}
    BY <1>1, <1>3
  <2>4. QED
    BY <1>1, <1>2, <2>2, <2>3
<1>6. v \div (D * U) = Q
  BY <1>3, <1>4, <1>5, RemainderIs
<1>7. DigitOf(v, k) = R
  BY DEF DigitOf, R, q, U, D
<1>8. QED
  BY <1>1, <1>2, <1>3, <1>6, <1>7 DEF q, U, D

\* What is added to the columns above leaves a digit alone.
LEMMA HigherColumns ==
  ASSUME NEW v \in Int, NEW m \in Int, NEW k \in Nat, NEW j \in Nat, k < j
  PROVE  /\ (v + m * Unit(j)) \div Unit(k) = v \div Unit(k) + m * Unit(j - k)
         /\ DigitOf(v + m * Unit(j), k) = DigitOf(v, k)
<1> DEFINE U == Unit(k)
           D == DigitSize
           E == Unit(j - k - 1)
           q == v \div U
           r == v % U
<1>1. j - k \in Nat /\ j - k - 1 \in Nat /\ k + (j - k) = j /\ (j - k - 1) + 1 = j - k
  OBVIOUS
<1>2. U \in Nat \ {0} /\ E \in Nat \ {0} /\ D \in Nat \ {0}
      /\ Unit(j - k) = D * E /\ Unit(j) = U * Unit(j - k)
  <2>1. D \in Nat \ {0}
    <3>1. D \in Nat /\ D >= 16
      BY Units
    <3>2. QED
      BY <3>1
  <2>2. U \in Nat \ {0}
    BY Units
  <2>3. E \in Nat \ {0} /\ Unit(j - k - 1 + 1) = D * E
    BY <1>1, Units
  <2>4. Unit(k + (j - k)) = U * Unit(j - k)
    BY <1>1, Units
  <2>5. QED
    BY <1>1, <2>1, <2>2, <2>3, <2>4, Zenon
<1> HIDE DEF U, E, D
<1>3. q \in Int /\ r \in 0 .. U - 1 /\ v = U * q + r
  BY <1>2, Remainder
<1>4. v + m * Unit(j) = U * (q + m * (D * E)) + r /\ q + m * (D * E) \in Int
  <2> HIDE DEF q, r
  <2>1. m * (U * (D * E)) = U * (m * (D * E)) /\ m * (D * E) \in Int
    BY <1>2
  <2> DEFINE z == m * (D * E)
  <2>2. z \in Int
    BY <2>1
  <2>3. m * Unit(j) = U * z
    BY <1>2, <2>1
  <2> HIDE DEF z
  <2>4. U * (q + z) = U * q + U * z /\ U * q \in Int /\ U * z \in Int
    BY <1>2, <1>3, <2>2
  <2>5. v + m * Unit(j) = U * (q + z) + r /\ q + z \in Int
    BY <1>3, <2>2, <2>3, <2>4
  <2>6. QED
    BY <2>5 DEF z
<1>5. (v + m * Unit(j)) \div U = q + m * (D * E)
  BY <1>2, <1>3, <1>4, RemainderIs
<1>6. (q + m * (D * E)) % D = q % D
  <2> HIDE DEF q
  <2> DEFINE a == q \div D
             b == q % D
  <2>1. a \in Int /\ b \in 0 .. D - 1 /\ q = D * a + b
    BY <1>2, <1>3, Remainder
  <2> HIDE DEF a, b
  <2>2. m * (D * E) = D * (m * E) /\ m * E \in Int
    BY <1>2
  <2> DEFINE z == m * E
  <2>3. z \in Int /\ m * (D * E) = D * z
    BY <2>2
  <2> HIDE DEF z
  <2>4. D * (a + z) = D * a + D * z /\ D * a \in Int /\ D * z \in Int /\ a + z \in Int
    BY <1>2, <2>1, <2>3
  <2>5. q + m * (D * E) = D * (a + z) + b
    BY <2>1, <2>3, <2>4
  <2>6. (D * (a + z) + b) % D = b
    BY <1>2, <2>1, <2>4, RemainderIs
  <2>7. QED
    BY <2>5, <2>6 DEF b
<1>7. QED
  BY <1>2, <1>5, <1>6 DEF DigitOf, U, D

-----------------------------------------------------------------------------
(* A decimal sum, column by column.                                        *)

\* The adjustment of a sum t at a column j, where t has the digit sum s below
\* the sum Q of the columns above: it becomes u, and up is carried on.
AdjustsColumn(t, Q, s, j, u, up) ==
  /\ t \in Int /\ Q \in Int /\ s \in 0 .. 19 /\ j \in Nat
  /\ t \div Unit(j) = DigitSize * Q + s
  /\ u = IF DigitOf(t, j) > 9 THEN t + (DigitSize - 10) * Unit(j) ELSE t
  /\ up = IF s > 9 THEN 1 ELSE 0

\* What the adjustment of a column leaves there and in the columns above.
LEMMA ColumnStep ==
  ASSUME NEW t, NEW Q, NEW s, NEW j, NEW u, NEW up, AdjustsColumn(t, Q, s, j, u, up)
  PROVE  /\ u \div Unit(j + 1) = Q + up
         /\ s < 16 => DigitOf(u, j) = s - 10 * up
<1> DEFINE D == DigitSize
           U == Unit(j)
           m == IF DigitOf(t, j) > 9 THEN D - 10 ELSE 0
           E == IF s <= 9 THEN s ELSE IF s < D THEN s - 10 ELSE s - D
<1> t \in Int /\ Q \in Int /\ s \in 0 .. 19 /\ j \in Nat
  BY DEF AdjustsColumn
<1>1. D \in Nat /\ D >= 16 /\ U \in Nat \ {0}
  BY Units
<1>2. D \in Nat \ {0} /\ DigitOf(t, j) = (D * Q + s) % D
  BY <1>1 DEF DigitOf, AdjustsColumn
<1>0. (DigitOf(t, j) > 9 => u = t + (D - 10) * U) /\ (~(DigitOf(t, j) > 9) => u = t)
      /\ (s > 9 => up = 1) /\ (s <= 9 => up = 0)
  BY DEF AdjustsColumn, D, U
<1> HIDE DEF D, U
<1>3. (D * Q + s) % D = IF s < D THEN s ELSE s - D
  <2>1. CASE s < D
    <3>1. s \in 0 .. D - 1
      BY <1>1, <2>1
    <3>2. QED
      BY <1>2, <2>1, <3>1, RemainderIs
  <2>2. CASE s >= D
    <3>1. s - D \in 0 .. D - 1 /\ Q + 1 \in Int
      BY <1>1, <2>2
    <3>2. D * (Q + 1) = D * Q + D /\ D * Q \in Int
      BY <1>1
    <3>3. D * Q + s = D * (Q + 1) + (s - D)
      BY <1>1, <3>2
    <3>4. (D * (Q + 1) + (s - D)) % D = s - D
      BY <1>2, <3>1, RemainderIs
    <3>5. QED
      BY <1>1, <2>2, <3>3, <3>4
  <2>3. QED
    BY <1>1, <2>1, <2>2
<1>4. m \in Int /\ u = t + m * U /\ u \in Int
  <2>1. m \in Int
    BY <1>1
  <2>2. m * U \in Int
    BY <1>1, <2>1
  <2>3. CASE DigitOf(t, j) > 9
    <3>1. m = D - 10 /\ u = t + (D - 10) * U
      BY <1>0, <2>3
    <3>2. QED
      BY <2>1, <2>2, <3>1
  <2>4. CASE ~(DigitOf(t, j) > 9)
    <3>1. m = 0 /\ u = t /\ 0 * U = 0
      BY <1>0, <1>1, <2>4
    <3>2. QED
      BY <2>1, <3>1
  <2>5. QED
    BY <2>3, <2>4
<1>5. u \div U = D * Q + s + m
  <2> DEFINE q == t \div U
             r == t % U
  <2>1. q \in Int /\ r \in 0 .. U - 1 /\ t = U * q + r
    BY <1>1, Remainder
  <2>2. q = D * Q + s
    BY DEF D, U, AdjustsColumn
  <2> HIDE DEF q, r, m
  <2>3. U * (q + m) = U * q + U * m /\ U * m = m * U /\ U * q \in Int /\ U * m \in Int /\ q + m \in Int
    BY <1>1, <1>4, <2>1
  <2>4. u = U * (q + m) + r
    BY <1>4, <2>1, <2>3
  <2>5. u \div U = q + m
    BY <1>1, <2>1, <2>3, <2>4, RemainderIs
  <2>6. QED
    BY <2>2, <2>5
<1>6. D * Q + s + m = D * (Q + up) + E /\ E \in 0 .. D - 1 /\ Q + up \in Int
  <2>1. D * Q \in Int /\ D * (Q + 1) = D * Q + D /\ Q + 0 = Q /\ Q + 1 \in Int
    BY <1>1
  <2>2. CASE s <= 9
    <3>1. m = 0 /\ up = 0 /\ E = s
      BY <1>0, <1>1, <1>2, <1>3, <2>2
    <3> HIDE DEF m, E
    <3>2. QED
      BY <1>1, <2>1, <2>2, <3>1
  <2>3. CASE s > 9 /\ s < D
    <3>1. m = D - 10 /\ up = 1 /\ E = s - 10
      BY <1>0, <1>1, <1>2, <1>3, <2>3
    <3> HIDE DEF m, E
    <3>2. QED
      BY <1>1, <2>1, <2>3, <3>1
  <2>4. CASE s >= D
    <3>1. m = 0 /\ up = 1 /\ E = s - D
      BY <1>0, <1>1, <1>2, <1>3, <2>4
    <3> HIDE DEF m, E
    <3>2. QED
      BY <1>1, <2>1, <2>4, <3>1
  <2>5. QED
    BY <1>1, <2>2, <2>3, <2>4
<1> HIDE DEF m, E
<1>7. (D * (Q + up) + E) \div D = Q + up /\ (D * (Q + up) + E) % D = E
  BY <1>2, <1>6, RemainderIs
<1>8. (u \div U) \div D = u \div Unit(j + 1) /\ DigitOf(u, j) = (u \div U) % D
  <2>1. /\ u \div Unit(j + 1) \in Int /\ DigitOf(u, j) \in 0 .. D - 1
        /\ u \div U = D * (u \div Unit(j + 1)) + DigitOf(u, j)
    BY <1>4, NextQuotient DEF D, U
  <2> DEFINE w == u \div Unit(j + 1)
             e == DigitOf(u, j)
  <2>2. w \in Int /\ e \in 0 .. D - 1 /\ u \div U = D * w + e
    BY <2>1
  <2> HIDE DEF w, e
  <2>3. (D * w + e) \div D = w /\ (D * w + e) % D = e
    BY <1>2, <2>2, RemainderIs
  <2>4. QED
    BY <2>2, <2>3 DEF w, e
<1>9. u \div Unit(j + 1) = Q + up /\ DigitOf(u, j) = E
  BY <1>5, <1>6, <1>7, <1>8
<1>10. s < 16 => E = s - 10 * up
  BY <1>0, <1>1 DEF E
<1>11. QED
  BY <1>4, <1>9, <1>10 DEF D, U

\* What is carried into the columns of a sum.
IsCarry(g, a, b, c, n) ==
  /\ g \in [0 .. n -> 0 .. 1] /\ g[0] = c
  /\ \A k \in 1 .. n : g[k] = IF DigitOf(a, k - 1) + DigitOf(b, k - 1) + g[k - 1] > 9 THEN 1 ELSE 0

\* A sum of two numbers in decimal, adjusted through f, with the carries g.
IsDecimalSum(f, g, a, b, c, n) ==
  /\ a \in Int /\ b \in Int /\ c \in 0 .. 1 /\ n \in Nat
  /\ \A k \in 0 .. n - 1 : DigitOf(a, k) < 10 /\ DigitOf(b, k) < 10
  /\ IsAdjustment(f, a + b + c, n) /\ IsCarry(g, a, b, c, n)
\* What is left above a column and in it.
AddsInColumns(f, g, a, b, n) ==
  /\ \A k \in 0 .. n : f[k] \div Unit(k) = a \div Unit(k) + b \div Unit(k) + g[k]
  /\ \A k \in 1 .. n :
         LET s == DigitOf(a, k - 1) + DigitOf(b, k - 1) + g[k - 1]
         IN  /\ s < 16 => DigitOf(f[k], k - 1) = s - 10 * g[k]
             /\ \E m \in Int : f[k] = f[k - 1] + m * Unit(k - 1)

\* The sum above a column is that of the two operands there and of what is carried in.
LEMMA ColumnSums ==
  ASSUME NEW f, NEW g, NEW a, NEW b, NEW c, NEW n, IsDecimalSum(f, g, a, b, c, n)
  PROVE  AddsInColumns(f, g, a, b, n)
<1> /\ a \in Int /\ b \in Int /\ c \in 0 .. 1 /\ n \in Nat
    /\ \A k \in 0 .. n - 1 : DigitOf(a, k) < 10 /\ DigitOf(b, k) < 10
    /\ IsAdjustment(f, a + b + c, n) /\ IsCarry(g, a, b, c, n)
  BY DEF IsDecimalSum
<1> DEFINE Sum(k) == f[k] \div Unit(k) = a \div Unit(k) + b \div Unit(k) + g[k]
           s(k) == DigitOf(a, k - 1) + DigitOf(b, k - 1) + g[k - 1]
           Digit(k) == /\ s(k) < 16 => DigitOf(f[k], k - 1) = s(k) - 10 * g[k]
                       /\ \E m \in Int : f[k] = f[k - 1] + m * Unit(k - 1)
           S == {k \in 0 .. n : Sum(k)}
<1>1. f \in [0 .. n -> Int] /\ f[0] = a + b + c /\ g \in [0 .. n -> 0 .. 1] /\ g[0] = c
  BY DEF IsAdjustment, IsCarry
<1>2. Sum(0)
  <2>1. Unit(0) = 1 /\ \A v \in Int : v \div 1 = v
    BY Units
  <2>2. a + b + c \in Int
    OBVIOUS
  <2>3. f[0] \div Unit(0) = a + b + c /\ a \div Unit(0) = a /\ b \div Unit(0) = b /\ g[0] = c
    BY <1>1, <2>1, <2>2
  <2>4. QED
    BY <2>3
<1>3. ASSUME NEW k \in 1 .. n, Sum(k - 1) PROVE Sum(k) /\ Digit(k)
  <2> DEFINE j == k - 1
             fj == f[j]
             Qa == a \div Unit(k)
             Qb == b \div Unit(k)
             da == DigitOf(a, j)
             db == DigitOf(b, j)
  <2>1. j \in Nat /\ j \in 0 .. n - 1 /\ j \in 0 .. n /\ k \in 0 .. n /\ j + 1 = k
    OBVIOUS
  <2>2. /\ Qa \in Int /\ Qb \in Int /\ da \in 0 .. DigitSize - 1 /\ db \in 0 .. DigitSize - 1
        /\ a \div Unit(j) = DigitSize * Qa + da /\ b \div Unit(j) = DigitSize * Qb + db
    BY <2>1, NextQuotient
  <2>3. da < 10 /\ db < 10 /\ g[j] \in 0 .. 1 /\ fj \in Int
    BY <1>1, <2>1
  <2>4. DigitSize \in Nat
    BY Units
  <2>5. f[k] = IF DigitOf(fj, j) > 9 THEN fj + (DigitSize - 10) * Unit(j) ELSE fj
    BY DEF IsAdjustment, Unit, DigitOf
  <2>6. g[k] = IF s(k) > 9 THEN 1 ELSE 0
    BY DEF IsCarry
  <2>7. fj \div Unit(j) = a \div Unit(j) + b \div Unit(j) + g[j]
    BY <1>3
  <2>8. s(k) = da + db + g[j]
    OBVIOUS
  <2> HIDE DEF Qa, Qb, da, db, j, fj, s
  <2>9. s(k) \in 0 .. 19
    BY <2>2, <2>3, <2>4, <2>8
  <2>10. fj \div Unit(j) = DigitSize * (Qa + Qb) + s(k) /\ Qa + Qb \in Int
    <3>1. DigitSize * (Qa + Qb) = DigitSize * Qa + DigitSize * Qb
          /\ DigitSize * Qa \in Int /\ DigitSize * Qb \in Int
      BY <2>2, <2>4
    <3>2. QED
      BY <2>2, <2>3, <2>4, <2>7, <2>8, <3>1
  <2>11. /\ f[k] \div Unit(j + 1) = (Qa + Qb) + g[k]
         /\ s(k) < 16 => DigitOf(f[k], j) = s(k) - 10 * g[k]
         /\ \E m \in Int : f[k] = fj + m * Unit(j)
    <3> DEFINE Q == Qa + Qb
               z == s(k)
               fk == f[k]
               gk == g[k]
    <3>1. AdjustsColumn(fj, Q, z, j, fk, gk)
      BY <2>1, <2>3, <2>5, <2>6, <2>9, <2>10 DEF AdjustsColumn
    <3>2. fj \in Int /\ j \in Nat
      BY <2>1, <2>3
    <3> HIDE DEF Q, z, fk, gk
    <3>3. fk \div Unit(j + 1) = Q + gk /\ (z < 16 => DigitOf(fk, j) = z - 10 * gk)
      BY <3>1, ColumnStep
    <3>4. \E m \in Int : fk = fj + m * Unit(j)
      <4>1. DigitSize - 10 \in Int /\ 0 \in Int /\ Unit(j) \in Int
        BY <2>1, <2>4, Units
      <4>2. CASE DigitOf(fj, j) > 9
        BY <3>1, <4>1, <4>2 DEF AdjustsColumn
      <4>3. CASE ~(DigitOf(fj, j) > 9)
        <5>1. fk = fj + 0 * Unit(j)
          BY <3>1, <3>2, <4>1, <4>3 DEF AdjustsColumn
        <5>2. QED
          BY <4>1, <5>1
      <4>4. QED
        BY <4>2, <4>3
    <3>5. QED
      BY <3>3, <3>4 DEF Q, z, fk, gk
  <2>12. f[k] \div Unit(k) = Qa + Qb + g[k]
    BY <2>1, <2>11
  <2>13. QED
    BY <2>11, <2>12 DEF Qa, Qb, j, fj
<1>4. \A k \in 0 .. n : Sum(k)
  <2>1. 0 \in S
    BY <1>2
  <2>2. ASSUME NEW k \in 1 .. n, k - 1 \in S PROVE k \in S
    <3>1. Sum(k - 1) /\ k \in 0 .. n
      BY <2>2
    <3> HIDE DEF Sum
    <3>2. Sum(k)
      BY <1>3, <3>1
    <3>3. QED
      BY <3>1, <3>2
  <2> HIDE DEF S
  <2>3. \A k \in 0 .. n : k \in S
    BY <2>1, <2>2, InductionUpTo
  <2>4. QED
    BY <2>3 DEF S
<1>5. ASSUME NEW k \in 1 .. n PROVE Digit(k)
  <2>1. k - 1 \in 0 .. n
    OBVIOUS
  <2>2. Sum(k - 1)
    BY <1>4, <2>1
  <2> HIDE DEF Sum, Digit
  <2>3. QED
    BY <1>3, <2>2
<1>6. QED
  BY <1>4, <1>5 DEF AddsInColumns

\* The carries on paper are what the columns say.
LEMMA CarriesFollow ==
  ASSUME NEW a \in Int, NEW b \in Int, NEW c \in 0 .. 1
  PROVE  IsCarry(Carries(a, b, c), a, b, c, Columns)
<1> DEFINE n == Columns
           T == 0 .. 1
           step(p, k) == IF DigitOf(a, k - 1) + DigitOf(b, k - 1) + p > 9 THEN 1 ELSE 0
           body(f) == [k \in 0 .. n |-> IF k = 0 THEN c ELSE step(f[k - 1], k)]
           g == [p \in T \X (1 .. n) |-> step(p[1], p[2])]
           carry == CHOOSE f : f = body(f)
<1>1. n \in Nat
  BY ColumnsFill
<1> HIDE DEF n
<1>2. g \in StepFunctions(n, T)
  <2>1. ASSUME NEW p \in T \X (1 .. n) PROVE step(p[1], p[2]) \in T
    OBVIOUS
  <2>2. QED
    BY <2>1 DEF StepFunctions
<1> HIDE DEF step
<1>3. PICK f \in [0 .. n -> T] : f[0] = c /\ \A k \in 1 .. n : f[k] = g[<<f[k - 1], k>>]
  <2> HIDE DEF g, T
  <2>1. c \in T
    BY DEF T
  <2>2. Recursions(n, T, c, g) # {}
    BY <1>1, <1>2, <2>1, RecursionOnInterval
  <2>3. QED
    BY <2>2 DEF Recursions
<1>4. ASSUME NEW k \in 1 .. n PROVE f[k] = step(f[k - 1], k)
  <2>1. k - 1 \in 0 .. n
    BY <1>1
  <2>2. f[k - 1] \in T
    BY <2>1
  <2>3. g[<<f[k - 1], k>>] = step(f[k - 1], k)
    BY <2>2
  <2>4. QED
    BY <1>3, <2>3
<1>5. f = body(f)
  <2>1. \A k \in 0 .. n : k = 0 \/ k \in 1 .. n
    BY <1>1
  <2>2. \A k \in 0 .. n : f[k] = IF k = 0 THEN c ELSE step(f[k - 1], k)
    BY <1>3, <1>4, <2>1
  <2>3. QED
    BY <2>2
<1>6. carry = body(carry)
  BY <1>5, Zenon
<1>7. Carries(a, b, c) = carry
  BY DEF Carries, n, step
<1> HIDE DEF carry
<1>8. carry[0] = c /\ \A k \in 1 .. n : carry[k] = step(carry[k - 1], k)
  BY <1>1, <1>6
<1>9. carry = [k \in 0 .. n |-> carry[k]]
  BY <1>6
<1>10. \A k \in 0 .. n : carry[k] \in T
  <2>1. \A k \in 1 .. n : carry[k] \in T
    BY <1>8 DEF step
  <2>2. \A k \in 0 .. n : k = 0 \/ k \in 1 .. n
    BY <1>1
  <2>3. QED
    BY <1>8, <2>1, <2>2
<1>11. QED
  BY <1>7, <1>8, <1>9, <1>10 DEF IsCarry, n, step

\* The numbers that the digits of a value say, the highest digit first.
IsNumber(g, c, v) ==
  /\ g \in [0 .. Columns -> Int] /\ g[0] = c
  /\ \A k \in 1 .. Columns : g[k] = 10 * g[k - 1] + DigitOf(v, Columns - k)

\* The number of all its digits is the last of them.
LEMMA NumberFollows ==
  ASSUME NEW v \in Int, NEW c \in Int
  PROVE  \E g : IsNumber(g, c, v) /\ NumberOf(c, v) = g[Columns]
<1> DEFINE n == Columns
           step(p, k) == 10 * p + DigitOf(v, n - k)
           body(f) == [k \in 0 .. n |-> IF k = 0 THEN c ELSE step(f[k - 1], k)]
           g == [p \in Int \X (1 .. n) |-> step(p[1], p[2])]
           number == CHOOSE f : f = body(f)
<1>1. n \in Nat
  BY ColumnsFill
<1>2. ASSUME NEW k \in 1 .. n, NEW p \in Int PROVE step(p, k) \in Int
  <2>1. n - k \in Nat /\ DigitSize \in Nat
    BY <1>1, Units
  <2>2. DigitOf(v, n - k) \in 0 .. DigitSize - 1
    BY <2>1, NextQuotient
  <2>3. DigitOf(v, n - k) \in Int
    BY <2>1, <2>2
  <2>4. QED
    BY <2>3
<1> HIDE DEF n, step
<1>3. g \in StepFunctions(n, Int)
  <2>1. ASSUME NEW p \in Int \X (1 .. n) PROVE step(p[1], p[2]) \in Int
    <3>1. p[1] \in Int /\ p[2] \in 1 .. n
      OBVIOUS
    <3>2. QED
      BY <1>2, <3>1
  <2>2. QED
    BY <2>1 DEF StepFunctions
<1>4. PICK f \in [0 .. n -> Int] : f[0] = c /\ \A k \in 1 .. n : f[k] = g[<<f[k - 1], k>>]
  <2> HIDE DEF g
  <2>1. Recursions(n, Int, c, g) # {}
    BY <1>1, <1>3, RecursionOnInterval
  <2>2. QED
    BY <2>1 DEF Recursions
<1>5. ASSUME NEW k \in 1 .. n PROVE f[k] = step(f[k - 1], k)
  <2>1. k - 1 \in 0 .. n
    BY <1>1
  <2>2. f[k - 1] \in Int
    BY <2>1
  <2>3. g[<<f[k - 1], k>>] = step(f[k - 1], k)
    BY <2>2
  <2>4. QED
    BY <1>4, <2>3
<1>6. f = body(f)
  <2>1. \A k \in 0 .. n : k = 0 \/ k \in 1 .. n
    BY <1>1
  <2>2. \A k \in 0 .. n : f[k] = IF k = 0 THEN c ELSE step(f[k - 1], k)
    BY <1>4, <1>5, <2>1
  <2>3. QED
    BY <2>2
<1>7. number = body(number)
  BY <1>6, Zenon
<1>8. NumberOf(c, v) = number[n]
  BY DEF NumberOf, n, step
<1> HIDE DEF number
<1>9. number[0] = c /\ \A k \in 1 .. n : number[k] = step(number[k - 1], k)
  BY <1>1, <1>7
<1> DEFINE R == {k \in 0 .. n : number[k] \in Int}
<1>10. 0 \in R
  BY <1>1, <1>9
<1>11. ASSUME NEW k \in 1 .. n, k - 1 \in R PROVE k \in R
  <2>1. number[k - 1] \in Int /\ k \in 0 .. n
    BY <1>1, <1>11
  <2>2. number[k] \in Int
    BY <1>2, <1>9, <2>1
  <2>3. QED
    BY <2>1, <2>2
<1>12. \A k \in 0 .. n : k \in R
  <2> HIDE DEF R
  <2>1. QED
    BY <1>1, <1>10, <1>11, InductionUpTo
<1>13. number = [k \in 0 .. n |-> number[k]]
  BY <1>7
<1>14. number \in [0 .. n -> Int]
  BY <1>12, <1>13
<1>15. IsNumber(number, c, v)
  BY <1>9, <1>14 DEF IsNumber, n, step
<1>16. QED
  BY <1>8, <1>15 DEF n

\* A digit stays as the columns above it are adjusted.
LEMMA DigitsStay ==
  ASSUME NEW n \in Nat, NEW f \in [0 .. n -> Int],
         \A k \in 1 .. n : \E m \in Int : f[k] = f[k - 1] + m * Unit(k - 1)
  PROVE  \A k \in 1 .. n : DigitOf(f[n], k - 1) = DigitOf(f[k], k - 1)
<1> TAKE k \in 1 .. n
<1> DEFINE S == {j \in 0 .. n : j >= k => DigitOf(f[j], k - 1) = DigitOf(f[k], k - 1)}
<1>1. 0 \in S
  OBVIOUS
<1>2. ASSUME NEW j \in 1 .. n, j - 1 \in S PROVE j \in S
  <2>1. CASE j <= k
    <3>1. j < k \/ j = k
      BY <2>1
    <3>2. QED
      BY <3>1
  <2>2. CASE j > k
    <3>1. PICK m \in Int : f[j] = f[j - 1] + m * Unit(j - 1)
      OBVIOUS
    <3>2. k - 1 \in Nat /\ j - 1 \in Nat /\ k - 1 < j - 1 /\ j - 1 \in 0 .. n
      BY <2>2
    <3>3. f[j - 1] \in Int
      BY <3>2
    <3>4. DigitOf(f[j - 1] + m * Unit(j - 1), k - 1) = DigitOf(f[j - 1], k - 1)
      BY <3>2, <3>3, HigherColumns
    <3>5. DigitOf(f[j - 1], k - 1) = DigitOf(f[k], k - 1)
      BY <1>2, <3>2
    <3>6. QED
      BY <3>1, <3>4, <3>5
  <2>3. QED
    BY <2>1, <2>2
<1>3. n \in S
  <2> HIDE DEF S
  <2>1. \A j \in 0 .. n : j \in S
    BY <1>1, <1>2, InductionUpTo
  <2>2. QED
    BY <2>1
<1>4. QED
  BY <1>3

\* The digits and the carry of a decimal sum of words.
LEMMA DecimalColumns ==
  ASSUME NEW a \in Word, NEW b \in Word, NEW c \in 0 .. 1, IsDecimal(a), IsDecimal(b)
  PROVE  LET r == AddWithCarry(a, b, c, TRUE, WordSize)
             g == Carries(a, b, c)
         IN  /\ r.v \in Int /\ r.c = g[Columns]
             /\ \A k \in 1 .. Columns :
                    ColumnSum(a, b, c, k - 1) < 16
                        => DigitOf(r.v, k - 1) = ColumnSum(a, b, c, k - 1) - 10 * g[k]
<1> DEFINE n == Columns
           M == WordSize
           r == AddWithCarry(a, b, c, TRUE, M)
           g == Carries(a, b, c)
           t == DecimalAdjust(a + b + c, M)
<1>1. n \in Nat /\ n = Digits(M) /\ Unit(n) = M /\ M \in Nat \ {0} /\ M \in Width
      /\ a \in 0 .. M - 1 /\ b \in 0 .. M - 1 /\ a \in Int /\ b \in Int
  BY ColumnsFill, Widths DEF Width
<1>2. r.v = t % M /\ r.c = (t \div M) % 2
  BY DEF AddWithCarry
<1>3. a + b + c \in Int
  BY <1>1
<1>4. PICK f : IsAdjustment(f, a + b + c, n) /\ t = f[n]
  BY <1>1, <1>3, DecimalAdjustment
<1>5. IsCarry(g, a, b, c, n)
  BY <1>1, CarriesFollow
<1>6. \A k \in 0 .. n - 1 : DigitOf(a, k) < 10 /\ DigitOf(b, k) < 10
  BY DEF IsDecimal
<1> HIDE DEF n, M, r, g, t
<1>7. /\ \A k \in 0 .. n : f[k] \div Unit(k) = a \div Unit(k) + b \div Unit(k) + g[k]
      /\ \A k \in 1 .. n :
             LET s == DigitOf(a, k - 1) + DigitOf(b, k - 1) + g[k - 1]
             IN  /\ s < 16 => DigitOf(f[k], k - 1) = s - 10 * g[k]
                 /\ \E m \in Int : f[k] = f[k - 1] + m * Unit(k - 1)
  <2>1. IsDecimalSum(f, g, a, b, c, n)
    BY <1>1, <1>4, <1>5, <1>6 DEF IsDecimalSum
  <2>2. AddsInColumns(f, g, a, b, n)
    BY <2>1, ColumnSums
  <2>3. QED
    BY <2>2 DEF AddsInColumns
<1>8. f \in [0 .. n -> Int] /\ t \in Int /\ g \in [0 .. n -> 0 .. 1] /\ g[n] \in 0 .. 1 /\ n \in 0 .. n
  BY <1>1, <1>4, <1>5 DEF IsAdjustment, IsCarry
<1>9. t \div M = g[n]
  <2>1. a \div M = 0 /\ b \div M = 0
    BY <1>1, WrapsOnce
  <2>2. t \div M = a \div M + b \div M + g[n]
    BY <1>1, <1>4, <1>7, <1>8
  <2>3. QED
    BY <1>8, <2>1, <2>2
<1>10. r.c = g[n]
  BY <1>2, <1>8, <1>9
<1>11. r.v \in Int /\ r.v = t + (0 - g[n]) * Unit(n) /\ 0 - g[n] \in Int
  <2>1. r.v \in 0 .. M - 1 /\ t = M * g[n] + r.v
    <3>1. t % M \in 0 .. M - 1 /\ t = M * (t \div M) + (t % M)
      BY <1>1, <1>8, Remainder
    <3>2. QED
      BY <1>2, <1>9, <3>1
  <2>2. CASE g[n] = 0
    <3>0. \A x \in Int : 0 * x = 0 /\ x * 0 = 0
      OBVIOUS
    <3>1. 0 - g[n] = 0 /\ 0 * Unit(n) = 0 /\ M * 0 = 0
      <4>1. M \in Int /\ Unit(n) \in Int
        BY <1>1
      <4>2. 0 * Unit(n) = 0 /\ M * 0 = 0
        BY <3>0, <4>1
      <4>3. 0 - g[n] = 0
        BY <1>8, <2>2
      <4>4. QED
        BY <4>2, <4>3
    <3>2. QED
      BY <1>1, <1>8, <2>1, <2>2, <3>1
  <2>3. CASE g[n] = 1
    <3>1. 0 - g[n] = -1 /\ (-1) * Unit(n) = -M /\ M * 1 = M
      BY <1>1, <2>3
    <3>2. QED
      BY <1>1, <1>8, <2>1, <2>3, <3>1
  <2>4. QED
    BY <1>8, <2>2, <2>3
<1>12. ASSUME NEW k \in 1 .. n PROVE DigitOf(r.v, k - 1) = DigitOf(f[k], k - 1)
  <2>1. k - 1 \in Nat /\ k - 1 < n
    BY <1>1
  <2>2. DigitOf(t + (0 - g[n]) * Unit(n), k - 1) = DigitOf(t, k - 1)
    <3> DEFINE m == 0 - g[n]
               i == k - 1
    <3>1. m \in Int /\ t \in Int /\ i \in Nat /\ n \in Nat /\ i < n
      BY <1>1, <1>8, <1>11, <2>1
    <3> HIDE DEF m, i
    <3>2. DigitOf(t + m * Unit(n), i) = DigitOf(t, i)
      BY ONLY <3>1, HigherColumns, Zenon
    <3>3. QED
      BY <3>2 DEF m, i
  <2>3. \A j \in 1 .. n : \E m \in Int : f[j] = f[j - 1] + m * Unit(j - 1)
    BY <1>7
  <2>4. DigitOf(f[n], k - 1) = DigitOf(f[k], k - 1)
    BY <1>1, <1>8, <2>3, DigitsStay
  <2>5. QED
    BY <1>4, <1>11, <2>2, <2>4
<1>13. ASSUME NEW k \in 1 .. n, ColumnSum(a, b, c, k - 1) < 16
       PROVE  DigitOf(r.v, k - 1) = ColumnSum(a, b, c, k - 1) - 10 * g[k]
  <2>1. ColumnSum(a, b, c, k - 1) = DigitOf(a, k - 1) + DigitOf(b, k - 1) + g[k - 1]
    BY DEF ColumnSum, g
  <2>2. QED
    BY <1>7, <1>12, <1>13, <2>1
<1>14. QED
  BY <1>10, <1>11, <1>13 DEF n, M, r, g

\* A sum in decimal is the sum of the numbers its operands say as long as no
\* column reaches sixteen, for every width of a digit from four bits and of a
\* byte that digits fill (the decimal branches of op_adc in em16/include/emu816.h).
THEOREM DecimalSumsAreRight == OperandsSpec => []DecimalSums
<1>1. ASSUME OperandsOK,
             IsDecimal(wordA), IsDecimal(wordB),
             \A k \in 0 .. Columns - 1 : ColumnSum(wordA, wordB, carryIn, k) < 16
      PROVE  LET r == AddWithCarry(wordA, wordB, carryIn, TRUE, WordSize)
             IN  /\ IsDecimal(r.v)
                 /\ NumberOf(r.c, r.v) = NumberOf(0, wordA) + NumberOf(0, wordB) + carryIn
  <2> DEFINE n == Columns
             a == wordA
             b == wordB
             c == carryIn
             r == AddWithCarry(a, b, c, TRUE, WordSize)
             g == Carries(a, b, c)
             s(k) == ColumnSum(a, b, c, k)
  <2>1. n \in Nat /\ a \in Word /\ b \in Word /\ a \in Int /\ b \in Int /\ c \in 0 .. 1
    BY <1>1, ColumnsFill, Widths DEF OperandsOK
  <2>2. /\ r.v \in Int /\ r.c = g[n]
        /\ \A k \in 1 .. n : s(k - 1) < 16 => DigitOf(r.v, k - 1) = s(k - 1) - 10 * g[k]
    BY <1>1, <2>1, DecimalColumns
  <2>3. IsCarry(g, a, b, c, n)
    BY <2>1, CarriesFollow
  <2>4. \A k \in 0 .. n - 1 : s(k) = DigitOf(a, k) + DigitOf(b, k) + g[k]
    BY DEF ColumnSum
  <2>5. /\ g \in [0 .. n -> 0 .. 1] /\ g[0] = c
        /\ \A k \in 1 .. n : g[k] = IF DigitOf(a, k - 1) + DigitOf(b, k - 1) + g[k - 1] > 9 THEN 1 ELSE 0
    BY <2>3 DEF IsCarry
  <2>6. \A k \in 0 .. n - 1 : s(k) < 16
    BY <1>1
  <2> HIDE DEF n, a, b, c, r, g, s
  <2>7. ASSUME NEW k \in 1 .. n
        PROVE  /\ s(k - 1) = DigitOf(a, k - 1) + DigitOf(b, k - 1) + g[k - 1]
               /\ DigitOf(r.v, k - 1) = s(k - 1) - 10 * g[k]
               /\ g[k] = IF s(k - 1) > 9 THEN 1 ELSE 0
               /\ s(k - 1) < 16
               /\ DigitOf(a, k - 1) \in Int /\ DigitOf(b, k - 1) \in Int
               /\ g[k] \in 0 .. 1 /\ g[k - 1] \in 0 .. 1
    <3>1. k - 1 \in 0 .. n - 1 /\ k - 1 \in 0 .. n /\ k \in 0 .. n /\ k - 1 \in Nat
      BY <2>1
    <3>2. s(k - 1) < 16
      BY <2>6, <3>1
    <3>3. s(k - 1) = DigitOf(a, k - 1) + DigitOf(b, k - 1) + g[k - 1]
      BY <2>4, <3>1
    <3>4. DigitOf(r.v, k - 1) = s(k - 1) - 10 * g[k]
      BY <2>2, <3>2
    <3>5. g[k] = IF s(k - 1) > 9 THEN 1 ELSE 0
      BY <2>5, <3>3
    <3>6. g[k] \in 0 .. 1 /\ g[k - 1] \in 0 .. 1
      BY <2>5, <3>1
    <3>7. DigitOf(a, k - 1) \in 0 .. DigitSize - 1 /\ DigitOf(b, k - 1) \in 0 .. DigitSize - 1
          /\ DigitSize \in Nat
      BY <2>1, <3>1, NextQuotient, Units
    <3>8. QED
      BY <3>2, <3>3, <3>4, <3>5, <3>6, <3>7
  <2>8. IsDecimal(r.v)
    <3>1. ASSUME NEW k \in 0 .. n - 1 PROVE DigitOf(r.v, k) < 10
      <4>1. k + 1 \in 1 .. n /\ (k + 1) - 1 = k
        BY <2>1
      <4>2. /\ s(k) = DigitOf(a, k) + DigitOf(b, k) + g[k] /\ s(k) < 16
            /\ DigitOf(r.v, k) = s(k) - 10 * g[k + 1]
            /\ g[k + 1] = (IF s(k) > 9 THEN 1 ELSE 0)
            /\ DigitOf(a, k) \in Int /\ DigitOf(b, k) \in Int /\ g[k] \in 0 .. 1
        BY <2>7, <4>1
      <4>3. s(k) \in Int
        BY <4>2
      <4>4. QED
        BY <4>2, <4>3
    <3>2. QED
      BY <3>1 DEF IsDecimal, n
  <2>9. PICK na, nb, nr :
            /\ IsNumber(na, 0, a) /\ NumberOf(0, a) = na[n]
            /\ IsNumber(nb, 0, b) /\ NumberOf(0, b) = nb[n]
            /\ IsNumber(nr, r.c, r.v) /\ NumberOf(r.c, r.v) = nr[n]
    <3>1. n \in 0 .. n /\ r.c \in Int /\ 0 \in Int
      BY <2>1, <2>2, <2>5
    <3>2. \E h : IsNumber(h, 0, a) /\ NumberOf(0, a) = h[n]
      BY <2>1, <3>1, NumberFollows DEF n
    <3>3. \E h : IsNumber(h, 0, b) /\ NumberOf(0, b) = h[n]
      BY <2>1, <3>1, NumberFollows DEF n
    <3>4. \E h : IsNumber(h, r.c, r.v) /\ NumberOf(r.c, r.v) = h[n]
      BY <2>2, <3>1, NumberFollows DEF n
    <3>5. QED
      BY <3>2, <3>3, <3>4
  <2>10. /\ na \in [0 .. n -> Int] /\ nb \in [0 .. n -> Int] /\ nr \in [0 .. n -> Int]
         /\ na[0] = 0 /\ nb[0] = 0 /\ nr[0] = r.c
         /\ \A k \in 1 .. n : /\ na[k] = 10 * na[k - 1] + DigitOf(a, n - k)
                              /\ nb[k] = 10 * nb[k - 1] + DigitOf(b, n - k)
                              /\ nr[k] = 10 * nr[k - 1] + DigitOf(r.v, n - k)
    BY <2>9 DEF IsNumber, n
  <2> DEFINE S == {k \in 0 .. n : nr[k] = na[k] + nb[k] + g[n - k]}
  <2>11. 0 \in S
    <3>1. n - 0 = n /\ g[n] \in 0 .. 1 /\ 0 \in 0 .. n
      BY <2>1, <2>5
    <3>2. nr[0] = g[n] /\ na[0] + nb[0] + g[n - 0] = g[n]
      BY <2>2, <2>10, <3>1
    <3>3. QED
      BY <3>1, <3>2
  <2>12. ASSUME NEW k \in 1 .. n, k - 1 \in S PROVE k \in S
    <3> DEFINE j == n - k + 1
               da == DigitOf(a, n - k)
               db == DigitOf(b, n - k)
               dr == DigitOf(r.v, n - k)
    <3>1. j \in 1 .. n /\ j - 1 = n - k /\ n - (k - 1) = j /\ k - 1 \in 0 .. n /\ k \in 0 .. n
      BY <2>1
    <3>2. dr = da + db + g[n - k] - 10 * g[j] /\ da \in Int /\ db \in Int
          /\ g[n - k] \in Int /\ g[j] \in Int
      BY <2>7, <3>1
    <3>3. nr[k - 1] = na[k - 1] + nb[k - 1] + g[j]
      BY <2>12, <3>1
    <3>4. na[k] = 10 * na[k - 1] + da /\ nb[k] = 10 * nb[k - 1] + db /\ nr[k] = 10 * nr[k - 1] + dr
      BY <2>10
    <3>5. na[k - 1] \in Int /\ nb[k - 1] \in Int
      BY <2>10, <3>1
    <3> HIDE DEF da, db, dr, j
    <3>6. nr[k] = na[k] + nb[k] + g[n - k]
      BY <3>2, <3>3, <3>4, <3>5
    <3>7. QED
      BY <3>1, <3>6
  <2>13. n \in S
    <3> HIDE DEF S
    <3>1. \A k \in 0 .. n : k \in S
      BY <2>1, <2>11, <2>12, InductionUpTo
    <3>2. QED
      BY <2>1, <3>1
  <2>14. NumberOf(r.c, r.v) = NumberOf(0, a) + NumberOf(0, b) + c
    <3>1. n - n = 0
      BY <2>1
    <3>2. nr[n] = na[n] + nb[n] + g[0]
      BY <2>13, <3>1
    <3>3. QED
      BY <2>5, <2>9, <3>2
  <2>15. QED
    BY <2>8, <2>14 DEF r, a, b, c
<1>2. OperandsOK => DecimalSums
  BY <1>1 DEF DecimalSums
<1>3. QED
  BY <1>2, OperandTypes, PTL

-----------------------------------------------------------------------------
(* Words as two bytes.                                                     *)

\* A number above a byte, seen as a word.
LEMMA ByteAbove ==
  ASSUME NEW h \in Int, NEW l \in 0 .. ByteSize - 1
  PROVE  /\ (ByteSize * h + l) % WordSize = l + ByteSize * (h % ByteSize)
         /\ (ByteSize * h + l) \div WordSize = h \div ByteSize
<1> DEFINE B == ByteSize
           q == h \div B
           r == h % B
<1>1. B \in Nat \ {0} /\ WordSize = B * B /\ WordSize \in Nat \ {0} /\ l \in 0 .. B - 1
  BY Sizes, Widths
<1> HIDE DEF B
<1>2. q \in Int /\ r \in 0 .. B - 1 /\ h = B * q + r
  BY <1>1, Remainder
<1> HIDE DEF q, r
<1>3. B * h + l = WordSize * q + (l + B * r)
  <2>1. B * (B * q + r) = (B * B) * q + B * r /\ (B * B) * q \in Int /\ B * r \in Int
    BY <1>1, <1>2
  <2>2. QED
    BY <1>1, <1>2, <2>1
<1>4. l + B * r \in 0 .. WordSize - 1
  <2>1. B * (r + 1) <= B * B /\ B * (r + 1) = B * r + B /\ B * r \in Nat
    BY <1>1, <1>2
  <2>2. QED
    BY <1>1, <2>1
<1> DEFINE e == l + B * r
<1>5. e \in 0 .. WordSize - 1
  BY <1>4
<1> HIDE DEF e
<1>6. (WordSize * q + e) % WordSize = e /\ (WordSize * q + e) \div WordSize = q
  BY <1>1, <1>2, <1>5, RemainderIs
<1>7. QED
  BY <1>3, <1>6 DEF e, q, r, B

\* The sign of a word is that of its high byte.
LEMMA SignIsAbove ==
  ASSUME NEW l \in Byte, NEW h \in Byte
  PROVE  Negative(join(l, h), WordSize) <=> Negative(h, ByteSize)
<1> DEFINE B == ByteSize
<1>1. B \in Nat /\ WordSize = B * B /\ l \in 0 .. B - 1 /\ h \in 0 .. B - 1
  BY Sizes, Widths
<1>2. PICK half \in Nat \ {0} : B = 2 * half
  BY Sizes
<1>3. Negative(join(l, h), WordSize) <=> 2 * (l + B * h) >= B * B
  BY <1>1 DEF Negative, join
<1>4. Negative(h, B) <=> 2 * h >= B
  BY DEF Negative
<1> HIDE DEF B
<1>5. CASE h >= half
  <2>1. B * half <= B * h /\ B * B = 2 * (B * half) /\ B * h \in Int /\ B * half \in Int
    BY <1>1, <1>2, <1>5
  <2>2. QED
    BY <1>1, <1>2, <1>3, <1>4, <1>5, <2>1 DEF B
<1>6. CASE h < half
  <2>1. h + 1 <= half
    BY <1>1, <1>6
  <2>2. B * (h + 1) <= B * half /\ B * (h + 1) = B * h + B
        /\ B * B = 2 * (B * half) /\ B * h \in Int /\ B * half \in Int
    BY <1>1, <1>2, <2>1
  <2>3. QED
    BY <1>1, <1>2, <1>3, <1>4, <1>6, <2>2 DEF B
<1>7. QED
  BY <1>1, <1>2, <1>5, <1>6

\* A digit above a byte is a digit of what is above it.
LEMMA UpperDigit ==
  ASSUME NEW z \in Int, NEW l \in 0 .. ByteSize - 1, NEW k \in Nat
  PROVE  DigitOf(ByteSize * z + l, Digits(ByteSize) + k) = DigitOf(z, k)
<1> DEFINE B == ByteSize
           U == Unit(k)
           q == z \div U
           r == z % U
<1>1. U \in Nat \ {0} /\ Unit(Digits(B) + k) = B * U
  <2>1. Digits(B) \in Nat /\ Unit(Digits(B)) = B
    BY ColumnsFill
  <2>2. U \in Nat \ {0}
    BY Units
  <2>3. Unit(Digits(B) + k) = Unit(Digits(B)) * U
    BY <2>1, Units
  <2>4. QED
    BY <2>1, <2>2, <2>3
<1>2. B \in Nat \ {0} /\ l \in 0 .. B - 1
  BY Widths
<1> HIDE DEF B, U
<1>3. q \in Int /\ r \in 0 .. U - 1 /\ z = U * q + r
  BY <1>1, Remainder
<1>4. DigitOf(z, k) = q % DigitSize
  BY DEF DigitOf, U
<1> HIDE DEF q, r
<1> DEFINE e == B * r + l
<1>5. B * z + l = (B * U) * q + e
  <2>1. B * (U * q + r) = (B * U) * q + B * r /\ (B * U) * q \in Int /\ B * r \in Int
    BY <1>1, <1>2, <1>3
  <2>2. QED
    BY <1>2, <1>3, <2>1
<1>6. e \in 0 .. B * U - 1 /\ B * U \in Nat \ {0}
  <2>1. r + 1 <= U /\ r + 1 \in Nat
    BY <1>1, <1>3
  <2>2. B * (r + 1) <= B * U
    BY <1>1, <1>2, <2>1
  <2>3. B * (r + 1) = B * r + B /\ B * r \in Nat /\ B * U \in Nat \ {0}
    BY <1>1, <1>2, <1>3
  <2>4. QED
    BY <1>2, <2>2, <2>3
<1> HIDE DEF e
<1> DEFINE P == B * U
<1>7. P \in Nat \ {0} /\ e \in 0 .. P - 1
  BY <1>6
<1> HIDE DEF P
<1>8. (P * q + e) \div P = q
  BY <1>3, <1>7, RemainderIs
<1>9. QED
  BY <1>1, <1>4, <1>5, <1>8 DEF DigitOf, P, B

\* The adjustment of a word is that of its low byte and then of its high byte
\* with what the low one left above.
LEMMA AdjustmentChains ==
  ASSUME NEW x \in Int, NEW y \in Int, NEW fl, NEW fh, NEW fw,
         IsAdjustment(fl, x, Digits(ByteSize)),
         IsAdjustment(fh, y + (fl[Digits(ByteSize)] \div ByteSize), Digits(ByteSize)),
         IsAdjustment(fw, x + ByteSize * y, Digits(WordSize))
  PROVE  fw[Digits(WordSize)]
             = ByteSize * fh[Digits(ByteSize)] + (fl[Digits(ByteSize)] % ByteSize)
<1> DEFINE B == ByteSize
           m == Digits(B)
           D == DigitSize - 10
           q == fl[m] \div B
           r == fl[m] % B
<1>1. m \in Nat /\ Digits(WordSize) = m + m /\ Unit(m) = B /\ B \in Nat \ {0}
  BY ColumnsFill, Widths
<1>2. D \in Int /\ \A k \in Nat : Unit(k) \in Int
  BY Units
<1>3. /\ fl \in [0 .. m -> Int] /\ fl[0] = x
      /\ \A k \in 1 .. m : fl[k] = IF DigitOf(fl[k - 1], k - 1) > 9 THEN fl[k - 1] + D * Unit(k - 1)
                                   ELSE fl[k - 1]
  BY DEF IsAdjustment, Unit, DigitOf
<1>4. /\ fh \in [0 .. m -> Int] /\ fh[0] = y + q
      /\ \A k \in 1 .. m : fh[k] = IF DigitOf(fh[k - 1], k - 1) > 9 THEN fh[k - 1] + D * Unit(k - 1)
                                   ELSE fh[k - 1]
  BY DEF IsAdjustment, Unit, DigitOf
<1>5. /\ fw \in [0 .. m + m -> Int] /\ fw[0] = x + B * y
      /\ \A k \in 1 .. m + m :
             fw[k] = IF DigitOf(fw[k - 1], k - 1) > 9 THEN fw[k - 1] + D * Unit(k - 1) ELSE fw[k - 1]
  BY <1>1 DEF IsAdjustment, Unit, DigitOf
<1>6. r \in 0 .. B - 1 /\ q \in Int /\ fl[m] = B * q + r
  <2>1. m \in 0 .. m
    BY <1>1
  <2>2. fl[m] \in Int
    BY <1>3, <2>1
  <2>3. QED
    BY <1>1, <2>2, Remainder
<1>7. \A z \in Int, l \in 0 .. B - 1, k \in Nat : DigitOf(B * z + l, m + k) = DigitOf(z, k)
  BY UpperDigit
<1> HIDE DEF B, m, D, q, r
<1> DEFINE low == {k \in 0 .. m : fw[k] = fl[k] + y * B}
<1>8. m \in low
  <2>1. 0 \in low
    <3>1. B * y = y * B
      BY <1>1
    <3>2. QED
      BY <1>1, <1>3, <1>5, <3>1
  <2>2. ASSUME NEW k \in 1 .. m, k - 1 \in low PROVE k \in low
    <3> DEFINE u == fl[k - 1]
               e == y * B
               d == D * Unit(k - 1)
    <3>1. k - 1 \in Nat /\ k - 1 \in 0 .. m /\ k - 1 < m /\ k \in 0 .. m /\ k \in 1 .. m + m
      BY <1>1
    <3>2. u \in Int /\ e \in Int /\ d \in Int
      <4>1. Unit(k - 1) \in Int
        BY <1>2, <3>1
      <4>2. QED
        BY <1>1, <1>2, <1>3, <3>1, <4>1
    <3>3. fw[k - 1] = u + e
      BY <2>2
    <3>4. DigitOf(u + e, k - 1) = DigitOf(u, k - 1)
      BY <1>1, <3>1, <3>2, HigherColumns
    <3>5. fw[k] = IF DigitOf(u + e, k - 1) > 9 THEN (u + e) + d ELSE u + e
      BY <1>5, <3>1, <3>3
    <3>6. fl[k] = IF DigitOf(u, k - 1) > 9 THEN u + d ELSE u
      BY <1>3, <3>1
    <3> HIDE DEF u, e, d
    <3>7. fw[k] = fl[k] + e
      BY <3>2, <3>4, <3>5, <3>6
    <3>8. QED
      BY <3>1, <3>7 DEF e
  <2> HIDE DEF low
  <2>3. \A k \in 0 .. m : k \in low
    BY <1>1, <2>1, <2>2, InductionUpTo
  <2>4. QED
    BY <1>1, <2>3
<1> DEFINE high == {k \in 0 .. m : fw[m + k] = B * fh[k] + r}
<1>9. m \in high
  <2>1. 0 \in high
    <3>1. m + 0 = m /\ 0 \in 0 .. m
      BY <1>1
    <3>2. fw[m] = (B * q + r) + y * B
      BY <1>6, <1>8
    <3>3. B * (y + q) = B * q + y * B /\ B * q \in Int /\ y * B \in Int
      BY <1>1, <1>6
    <3>4. fw[m] = B * (y + q) + r
      BY <1>6, <3>2, <3>3
    <3>5. QED
      BY <1>4, <3>1, <3>4
  <2>2. ASSUME NEW k \in 1 .. m, k - 1 \in high PROVE k \in high
    <3> DEFINE z == fh[k - 1]
               U == Unit(k - 1)
               t == B * z + r
    <3>1. k - 1 \in Nat /\ k - 1 \in 0 .. m /\ k \in 0 .. m /\ m + k \in 1 .. m + m
          /\ (m + k) - 1 = m + (k - 1)
      BY <1>1
    <3>2. z \in Int /\ U \in Int
      BY <1>2, <1>4, <3>1
    <3>3. fw[m + (k - 1)] = t
      BY <2>2
    <3>4. DigitOf(t, m + (k - 1)) = DigitOf(z, k - 1)
      BY <1>6, <1>7, <3>1, <3>2
    <3>5. Unit(m + (k - 1)) = B * U
      BY <1>1, <3>1, Units
    <3>6. fw[m + k] = IF DigitOf(t, m + (k - 1)) > 9 THEN t + D * Unit(m + (k - 1)) ELSE t
      <4> HIDE DEF t
      <4>1. fw[m + k] = IF DigitOf(fw[(m + k) - 1], (m + k) - 1) > 9
                        THEN fw[(m + k) - 1] + D * Unit((m + k) - 1) ELSE fw[(m + k) - 1]
        BY <1>5, <3>1
      <4>2. QED
        BY <3>1, <3>3, <4>1
    <3>7. fh[k] = IF DigitOf(z, k - 1) > 9 THEN z + D * U ELSE z
      BY <1>4, <3>1
    <3> HIDE DEF z, U
    <3>8. t + D * (B * U) = B * (z + D * U) + r
      <4>1. D * (B * U) = B * (D * U) /\ D * U \in Int
        BY <1>1, <1>2, <3>2
      <4> DEFINE d == D * U
      <4>2. d \in Int /\ D * (B * U) = B * d
        BY <4>1
      <4> HIDE DEF d
      <4>3. B * (z + d) = B * z + B * d /\ B * z \in Int /\ B * d \in Int
        BY <1>1, <3>2, <4>2
      <4>4. QED
        BY <1>6, <4>2, <4>3 DEF d
    <3>9. fw[m + k] = B * fh[k] + r
      <4>1. CASE DigitOf(z, k - 1) > 9
        <5>1. fw[m + k] = t + D * (B * U) /\ fh[k] = z + D * U
          BY <3>4, <3>5, <3>6, <3>7, <4>1
        <5>2. QED
          BY <3>8, <5>1
      <4>2. CASE ~(DigitOf(z, k - 1) > 9)
        <5>1. fw[m + k] = t /\ fh[k] = z
          BY <3>4, <3>6, <3>7, <4>2
        <5>2. QED
          BY <5>1
      <4>3. QED
        BY <4>1, <4>2
    <3>10. QED
      BY <3>1, <3>9
  <2> HIDE DEF high
  <2>3. \A k \in 0 .. m : k \in high
    BY <1>1, <2>1, <2>2, InductionUpTo
  <2>4. QED
    BY <1>1, <2>3
<1>10. QED
  BY <1>1, <1>9 DEF m, r, B

\* What the sum of two low bytes leaves above the byte is a carry.
LEMMA LowCarry ==
  ASSUME NEW a \in Word, NEW b \in Word, NEW c \in 0 .. 1, IsDecimal(a), IsDecimal(b)
  PROVE  DecimalAdjust(lo(a) + lo(b) + c, ByteSize) \div ByteSize \in 0 .. 1
<1> DEFINE B == ByteSize
           m == Digits(B)
           l == lo(a)
           h == lo(b)
           t == DecimalAdjust(l + h + c, B)
           g == [k \in 0 .. m |-> Carries(l, h, c)[k]]
<1>1. m \in Nat \ {0} /\ m \in Nat /\ Columns = m + m /\ Unit(m) = B /\ B \in Nat \ {0} /\ B \in Width
  BY ColumnsFill, Widths DEF Width
<1>2. a \in Int /\ b \in Int /\ l \in 0 .. B - 1 /\ h \in 0 .. B - 1 /\ l \in Int /\ h \in Int
  <2>1. a \in Int /\ b \in Int
    BY Widths
  <2>2. QED
    BY <2>1, HalvesRange
<1>3. ASSUME NEW v \in Word, IsDecimal(v), NEW k \in 0 .. m - 1 PROVE DigitOf(lo(v), k) < 10
  <2>1. v \in Int
    BY Widths
  <2>2. lo(v) \in Int /\ hi(v) \in Int /\ v = lo(v) + hi(v) * Unit(m)
    <3>1. lo(v) \in Int /\ hi(v) \in Int
      BY <2>1, HalvesRange
    <3>2. v = join(lo(v), hi(v))
      BY WordOfHalves
    <3>3. v = lo(v) + B * hi(v)
      BY <3>2 DEF join
    <3>4. B * hi(v) = hi(v) * B
      BY <1>1, <3>1
    <3>5. QED
      BY <1>1, <3>1, <3>3, <3>4
  <2>3. k \in Nat /\ k < m /\ k \in 0 .. Columns - 1
    BY <1>1
  <2>4. DigitOf(lo(v) + hi(v) * Unit(m), k) = DigitOf(lo(v), k)
    BY <1>1, <2>2, <2>3, HigherColumns
  <2>5. DigitOf(v, k) < 10
    BY <1>3, <2>3 DEF IsDecimal
  <2>6. QED
    BY <2>2, <2>4, <2>5
<1>4. PICK f : IsAdjustment(f, l + h + c, m) /\ t = f[m]
  <2>1. l + h + c \in Int
    BY <1>2
  <2>2. QED
    BY <1>1, <2>1, DecimalAdjustment
<1>5. IsCarry(g, l, h, c, m)
  <2> DEFINE G == Carries(l, h, c)
  <2>1. IsCarry(G, l, h, c, Columns)
    BY <1>2, CarriesFollow
  <2> HIDE DEF G
  <2>2. g = [k \in 0 .. m |-> G[k]]
    BY DEF G
  <2> HIDE DEF g, l, h
  <2>3. /\ \A k \in 0 .. m : g[k] = G[k] /\ G[k] \in 0 .. 1
        /\ G[0] = c
        /\ \A k \in 1 .. m : G[k] = IF DigitOf(l, k - 1) + DigitOf(h, k - 1) + G[k - 1] > 9 THEN 1 ELSE 0
    BY <1>1, <2>1, <2>2 DEF IsCarry
  <2>4. \A k \in 1 .. m : k \in 0 .. m /\ k - 1 \in 0 .. m
    BY <1>1
  <2>5. g[0] = c
    BY <1>1, <2>3
  <2>6. \A k \in 1 .. m : g[k] = IF DigitOf(l, k - 1) + DigitOf(h, k - 1) + g[k - 1] > 9 THEN 1 ELSE 0
    BY <2>3, <2>4
  <2>7. g \in [0 .. m -> 0 .. 1]
    BY <2>2, <2>3
  <2>8. QED
    BY <2>5, <2>6, <2>7 DEF IsCarry
<1>6. \A k \in 0 .. m - 1 : DigitOf(l, k) < 10 /\ DigitOf(h, k) < 10
  BY <1>3
<1> HIDE DEF B, m, l, h, t, g
<1>7. IsDecimalSum(f, g, l, h, c, m)
  BY <1>1, <1>2, <1>4, <1>5, <1>6 DEF IsDecimalSum
<1>8. \A k \in 0 .. m : f[k] \div Unit(k) = l \div Unit(k) + h \div Unit(k) + g[k]
  <2>1. AddsInColumns(f, g, l, h, m)
    BY <1>7, ColumnSums
  <2>2. QED
    BY <2>1 DEF AddsInColumns
<1>9. l \div B = 0 /\ h \div B = 0
  <2>1. 0 <= l /\ l < B /\ 0 <= h /\ h < B
    BY <1>1, <1>2
  <2>2. l \div B = 0
    BY <1>1, <1>2, <2>1, WrapsOnce
  <2>3. h \div B = 0
    BY <1>1, <1>2, <2>1, WrapsOnce
  <2>4. QED
    BY <2>2, <2>3
<1>10. m \in 0 .. m /\ g[m] \in 0 .. 1
  BY <1>1, <1>5 DEF IsCarry
<1>11. t \div B = l \div B + h \div B + g[m]
  BY <1>1, <1>4, <1>8, <1>10
<1>12. t \div B \in 0 .. 1
  BY <1>9, <1>10, <1>11
<1>13. QED
  BY <1>12 DEF t, l, h, B

\* What a sum of two bytes or words is before its width is taken.
Temp(a, b, c, d, N) == IF d THEN DecimalAdjust(a + b + c, N) ELSE a + b + c

\* A sum of words before its width is taken is the low byte's and, above it, the
\* high bytes' with the low one's carry.
LEMMA SumsAbove ==
  ASSUME NEW a \in Word, NEW b \in Word, NEW c \in 0 .. 1, NEW d \in BOOLEAN,
         d => IsDecimal(a) /\ IsDecimal(b)
  PROVE  LET low == Temp(lo(a), lo(b), c, d, ByteSize)
             carry == low \div ByteSize
             high == Temp(hi(a), hi(b), carry, d, ByteSize)
         IN  /\ low \in Int /\ high \in Int /\ carry \in 0 .. 1
             /\ Temp(a, b, c, d, WordSize) = ByteSize * high + (low % ByteSize)
<1> DEFINE B == ByteSize
           l == lo(a)
           h == hi(a)
           p == lo(b)
           q == hi(b)
           x == l + p + c
           y == h + q
           low == Temp(l, p, c, d, B)
           carry == low \div B
           high == Temp(h, q, carry, d, B)
<1>1. B \in Nat \ {0} /\ B \in Width /\ WordSize \in Width
  BY Widths DEF Width
<1>2. /\ l \in 0 .. B - 1 /\ h \in 0 .. B - 1 /\ p \in 0 .. B - 1 /\ q \in 0 .. B - 1
      /\ l \in Int /\ h \in Int /\ p \in Int /\ q \in Int
  <2>1. a \in Int /\ b \in Int
    BY Widths
  <2>2. QED
    BY <2>1, HalvesRange
<1>3. a = l + B * h /\ b = p + B * q
  <2>1. a = join(l, h) /\ b = join(p, q)
    BY WordOfHalves
  <2>2. QED
    BY <2>1 DEF join
<1>4. x \in Int /\ y \in Int /\ a + b + c = x + B * y
  <2> HIDE DEF B, l, h, p, q
  <2>1. x \in Int /\ y \in Int
    BY <1>2
  <2>2. B * (h + q) = B * h + B * q /\ B * h \in Int /\ B * q \in Int
    BY <1>1, <1>2
  <2>3. QED
    BY <1>2, <1>3, <2>1, <2>2
<1>5. CASE d
  <2>1. low = DecimalAdjust(x, B) /\ high = DecimalAdjust(h + q + carry, B)
        /\ Temp(a, b, c, d, WordSize) = DecimalAdjust(x + B * y, WordSize)
    BY <1>4, <1>5 DEF Temp
  <2>2. carry \in 0 .. 1
    BY <1>5, <2>1, LowCarry
  <2>3. high = DecimalAdjust(y + carry, B) /\ y + carry \in Int
    BY <1>2, <2>1, <2>2
  <2> HIDE DEF x, y, low, high
  <2> DEFINE m == Digits(B)
             n == Digits(WordSize)
  <2>4. PICK fl : IsAdjustment(fl, x, m) /\ low = fl[m]
    BY <1>1, <1>4, <2>1, DecimalAdjustment
  <2>5. PICK fh : IsAdjustment(fh, y + carry, m) /\ high = fh[m]
    BY <1>1, <2>3, DecimalAdjustment
  <2>6. x + B * y \in Int
    BY <1>1, <1>4
  <2>7. PICK fw : IsAdjustment(fw, x + B * y, n) /\ Temp(a, b, c, d, WordSize) = fw[n]
    BY <1>1, <2>1, <2>6, DecimalAdjustment
  <2>8. m \in Nat /\ m \in 0 .. m
    BY ColumnsFill
  <2>9. low \in Int /\ high \in Int
    BY <2>4, <2>5, <2>8 DEF IsAdjustment
  <2>10. fw[n] = B * fh[m] + (fl[m] % B)
    <3>1. IsAdjustment(fh, y + (fl[m] \div B), m)
      BY <2>4, <2>5
    <3>2. QED
      BY <1>4, <2>4, <2>7, <3>1, AdjustmentChains
  <2>11. QED
    BY <2>2, <2>4, <2>5, <2>7, <2>9, <2>10 DEF low, high
<1>6. CASE ~d
  <2>1. low = x /\ high = h + q + carry /\ Temp(a, b, c, d, WordSize) = x + B * y
    BY <1>4, <1>6 DEF Temp
  <2> HIDE DEF low, high, B, l, h, p, q
  <2>2. x \div B \in 0 .. 1 /\ x \div B \in Int /\ x % B \in Int /\ x = B * (x \div B) + (x % B)
    <3>1. 0 <= x /\ x < 2 * B
      BY <1>1, <1>2
    <3> HIDE DEF x
    <3>2. x < B \/ (B <= x /\ x < 2 * B)
      BY <1>1, <1>4, <3>1
    <3>3. x \div B = 0 \/ x \div B = 1
      BY <1>1, <1>4, <3>1, <3>2, WrapsOnce
    <3>4. x \div B \in Int /\ x % B \in 0 .. B - 1 /\ x = B * (x \div B) + (x % B)
      BY <1>1, <1>4, Remainder
    <3>5. QED
      BY <1>1, <3>3, <3>4
  <2> HIDE DEF x
  <2> DEFINE k == x \div B
             e == x % B
  <2>3. carry = k /\ k \in 0 .. 1 /\ e \in Int /\ x = B * k + e
    BY <2>1, <2>2
  <2> HIDE DEF k, e
  <2>4. B * (h + q + k) = B * k + B * (h + q) /\ B * k \in Int /\ B * (h + q) \in Int
    BY <1>1, <1>2, <2>3
  <2>5. x + B * y = B * high + e
    BY <2>1, <2>3, <2>4
  <2>6. high \in Int /\ low \in Int /\ carry \in 0 .. 1
    BY <1>2, <1>4, <2>1, <2>3
  <2>7. low % B = e
    BY <2>1 DEF e
  <2>8. QED
    BY <2>1, <2>5, <2>6, <2>7 DEF low, high, B, l, h, p, q
<1>7. QED
  BY <1>5, <1>6

\* A sum of words is two of bytes with the carry handed on.
LEMMA SumsChain ==
  ASSUME NEW a \in Word, NEW b \in Word, NEW c \in 0 .. 1, NEW d \in BOOLEAN,
         d => IsDecimal(a) /\ IsDecimal(b)
  PROVE  LET low == AddWithCarry(lo(a), lo(b), c, d, ByteSize)
             high == AddWithCarry(hi(a), hi(b), low.c, d, ByteSize)
             both == AddWithCarry(a, b, c, d, WordSize)
         IN  join(low.v, high.v) = both.v /\ high.c = both.c /\ high.o = both.o
<1> DEFINE B == ByteSize
           M == WordSize
           tl == Temp(lo(a), lo(b), c, d, B)
           k == tl \div B
           th == Temp(hi(a), hi(b), k, d, B)
           t == Temp(a, b, c, d, M)
           low == AddWithCarry(lo(a), lo(b), c, d, B)
           high == AddWithCarry(hi(a), hi(b), low.c, d, B)
           both == AddWithCarry(a, b, c, d, M)
<1>1. B \in Nat \ {0} /\ M \in Nat \ {0} /\ Byte = 0 .. B - 1
  BY Widths
<1>2. tl \in Int /\ th \in Int /\ k \in 0 .. 1 /\ t = B * th + (tl % B)
  BY SumsAbove
<1>3. low.v = tl % B /\ low.c = k % 2
  BY DEF AddWithCarry, Temp
<1>4. low.c = k /\ low.v \in Byte
  <2> HIDE DEF tl, k
  <2>1. k = 0 \/ k = 1
    BY <1>2
  <2>2. k % 2 = k
    BY <2>1
  <2>3. tl % B \in 0 .. B - 1
    BY <1>1, <1>2, Remainder
  <2>4. QED
    BY <1>1, <1>3, <2>2, <2>3
<1>5. high = AddWithCarry(hi(a), hi(b), k, d, B)
  BY <1>4
<1>6. /\ high.v = th % B /\ high.c = (th \div B) % 2
      /\ high.o = (/\ Negative(hi(a), B) = Negative(hi(b), B)
                   /\ Negative(hi(a), B) # Negative(th % B, B))
  BY <1>5 DEF AddWithCarry, Temp
<1>7. /\ both.v = t % M /\ both.c = (t \div M) % 2
      /\ both.o = (/\ Negative(a, M) = Negative(b, M)
                   /\ Negative(a, M) # Negative(t % M, M))
  BY DEF AddWithCarry, Temp
<1> HIDE DEF tl, k, th, t, low, high, both
<1>8. t % M = low.v + B * (th % B) /\ t \div M = th \div B
  BY <1>1, <1>2, <1>3, <1>4, ByteAbove
<1>9. t % M = join(low.v, high.v) /\ high.v \in Byte
  <2>1. th % B \in 0 .. B - 1
    BY <1>1, <1>2, Remainder
  <2>2. QED
    BY <1>1, <1>6, <1>8, <2>1 DEF join
<1>10. a = join(lo(a), hi(a)) /\ b = join(lo(b), hi(b))
       /\ lo(a) \in Byte /\ hi(a) \in Byte /\ lo(b) \in Byte /\ hi(b) \in Byte
  <2>1. a \in Int /\ b \in Int
    BY Widths
  <2>2. QED
    BY <2>1, WordOfHalves, HalvesRange
<1>11. /\ Negative(a, M) = Negative(hi(a), B) /\ Negative(b, M) = Negative(hi(b), B)
       /\ Negative(t % M, M) = Negative(high.v, B)
  <2>1. \A x, y \in Byte : Negative(join(x, y), M) = Negative(y, B)
    <3>1. ASSUME NEW x \in Byte, NEW y \in Byte PROVE Negative(join(x, y), M) = Negative(y, B)
      <4>1. Negative(join(x, y), M) <=> Negative(y, B)
        BY SignIsAbove
      <4>2. Negative(join(x, y), M) \in BOOLEAN /\ Negative(y, B) \in BOOLEAN
        BY DEF Negative
      <4>3. QED
        BY <4>1, <4>2
    <3>2. QED
      BY <3>1
  <2>2. QED
    BY <1>4, <1>9, <1>10, <2>1
<1>12. high.o = both.o
  BY <1>6, <1>7, <1>11
<1>13. QED
  BY <1>6, <1>7, <1>8, <1>9, <1>12 DEF low, high, both

\* A rotation of a word to the left is two of bytes.
LEMMA RotationsLeftChain ==
  ASSUME NEW w \in Word, NEW c \in 0 .. 1
  PROVE  LET rolled == RotateLeft(lo(w), c, ByteSize)
         IN  join(rolled.v, RotateLeft(hi(w), rolled.c, ByteSize).v) = RotateLeft(w, c, WordSize).v
<1> DEFINE B == ByteSize
           l == lo(w)
           h == hi(w)
           t == 2 * l + c
           q == t \div B
           v == t % B
           carry == (2 * l) \div B
<1>1. /\ B \in Nat \ {0} /\ l \in 0 .. B - 1 /\ h \in 0 .. B - 1 /\ l \in Int /\ h \in Int
      /\ w = l + B * h
  <2>1. w \in Int
    BY Widths
  <2>2. w = join(l, h)
    BY WordOfHalves
  <2>3. QED
    BY <2>1, <2>2, Widths, HalvesRange DEF join
<1>2. PICK half \in Nat \ {0} : B = 2 * half
  BY Sizes
<1>3. RotateLeft(l, c, B).v = v /\ RotateLeft(l, c, B).c = carry
      /\ RotateLeft(h, carry, B).v = (2 * h + carry) % B
      /\ RotateLeft(w, c, WordSize).v = (2 * w + c) % WordSize
  BY DEF RotateLeft
<1> HIDE DEF B, l, h
<1>4. t \in Int /\ 2 * l \in Int
  BY <1>1
<1>5. q = carry
  <2>1. CASE l < half
    <3>1. 0 <= t /\ t < B /\ 0 <= 2 * l /\ 2 * l < B
      BY <1>1, <1>2, <2>1
    <3>2. q = 0
      BY <1>1, <1>4, <3>1, WrapsOnce
    <3>3. carry = 0
      BY <1>1, <1>4, <3>1, WrapsOnce
    <3>4. QED
      BY <3>2, <3>3
  <2>2. CASE l >= half
    <3>1. B <= t /\ t < 2 * B /\ B <= 2 * l /\ 2 * l < 2 * B
      BY <1>1, <1>2, <2>2
    <3>2. q = 1
      BY <1>1, <1>4, <3>1, WrapsOnce
    <3>3. carry = 1
      BY <1>1, <1>4, <3>1, WrapsOnce
    <3>4. QED
      BY <3>2, <3>3
  <2>3. QED
    BY <1>1, <1>2, <2>1, <2>2
<1> HIDE DEF t
<1>6. q \in Int /\ v \in 0 .. B - 1 /\ t = B * q + v
  BY <1>1, <1>4, Remainder
<1> HIDE DEF q, v, carry
<1> DEFINE z == 2 * h + q
<1>7. 2 * w + c = B * z + v /\ z \in Int
  <2>1. B * (2 * h + q) = 2 * (B * h) + B * q /\ B * h \in Int /\ B * q \in Int
    BY <1>1, <1>6
  <2>2. 2 * w + c = 2 * (B * h) + t
    BY <1>1, <2>1 DEF t
  <2>3. QED
    BY <1>1, <1>6, <2>1, <2>2
<1> HIDE DEF z
<1>8. (B * z + v) % WordSize = v + B * (z % B)
  BY <1>6, <1>7, ByteAbove DEF B
<1>9. QED
  BY <1>3, <1>5, <1>7, <1>8 DEF join, z, B, l, h

\* A rotation of a word to the right is two of bytes.
LEMMA RotationsRightChain ==
  ASSUME NEW w \in Word, NEW c \in 0 .. 1
  PROVE  LET rored == RotateRight(hi(w), c, ByteSize)
         IN  join(RotateRight(lo(w), rored.c, ByteSize).v, rored.v) = RotateRight(w, c, WordSize).v
<1> DEFINE B == ByteSize
           l == lo(w)
           h == hi(w)
           ql == l \div 2
           qh == h \div 2
           rl == l % 2
           rh == h % 2
<1>1. /\ B \in Nat \ {0} /\ l \in Int /\ h \in Int /\ w = l + B * h /\ WordSize = B * B
  <2>1. w \in Int
    BY Widths
  <2>2. w = join(l, h)
    BY WordOfHalves
  <2>3. QED
    BY <2>1, <2>2, Widths, Sizes, HalvesRange DEF join
<1>2. PICK half \in Nat \ {0} : B = 2 * half
  BY Sizes
<1>3. /\ RotateRight(h, c, B).v = qh + c * (B \div 2) /\ RotateRight(h, c, B).c = rh
      /\ RotateRight(l, rh, B).v = ql + rh * (B \div 2)
      /\ RotateRight(w, c, WordSize).v = w \div 2 + c * (WordSize \div 2)
  BY DEF RotateRight
<1> HIDE DEF B, l, h
<1>4. /\ ql \in Int /\ rl \in 0 .. 1 /\ l = 2 * ql + rl
      /\ qh \in Int /\ rh \in 0 .. 1 /\ h = 2 * qh + rh
  BY <1>1, Remainder
<1> HIDE DEF ql, qh, rl, rh
<1> DEFINE e == half * h
<1>5. e \in Int /\ w = 2 * (ql + e) + rl
  <2>1. B * h = 2 * (half * h) /\ half * h \in Int
    BY <1>1, <1>2
  <2> HIDE DEF e
  <2>2. B * h = 2 * e /\ e \in Int
    BY <2>1 DEF e
  <2>3. QED
    BY <1>1, <1>4, <2>2
<1>6. w \div 2 = ql + e
  <2> DEFINE z == ql + e
  <2>1. z \in Int /\ w = 2 * z + rl /\ rl \in 0 .. 2 - 1 /\ 2 \in Nat \ {0}
    BY <1>4, <1>5
  <2> HIDE DEF z
  <2>2. (2 * z + rl) \div 2 = z
    BY <2>1, RemainderIs
  <2>3. QED
    BY <2>1, <2>2 DEF z
<1>7. B \div 2 = half /\ WordSize \div 2 = B * half
  <2>1. B = 2 * half + 0 /\ 0 \in 0 .. 2 - 1 /\ 2 \in Nat \ {0}
    BY <1>2
  <2>2. B * half \in Int /\ WordSize = 2 * (B * half) + 0
    BY <1>1, <1>2
  <2>3. QED
    BY <2>1, <2>2, RemainderIs
<1>8. (ql + rh * half) + B * (qh + c * half) = (ql + e) + c * (B * half)
  <2>1. e = 2 * (half * qh) + half * rh /\ half * qh \in Int /\ half * rh \in Int
    BY <1>4
  <2>2. B * qh = 2 * (half * qh) /\ rh * half = half * rh
    BY <1>2, <1>4
  <2>3. B * (qh + c * half) = B * qh + c * (B * half) /\ B * qh \in Int /\ c * (B * half) \in Int
    BY <1>1, <1>4
  <2> HIDE DEF e
  <2>4. QED
    BY <1>4, <1>5, <2>1, <2>2, <2>3
<1>9. QED
  BY <1>3, <1>6, <1>7, <1>8 DEF join, B, l, h

\* A rotation to the right undoes the one to the left.
LEMMA RotationsUndo ==
  ASSUME NEW w \in Word, NEW c \in 0 .. 1
  PROVE  RotateRight(RotateLeft(w, c, WordSize).v, ShiftLeft(w, WordSize).c, WordSize).v = w
<1> DEFINE M == WordSize
           t == 2 * w + c
           s == (2 * w) \div M
           v == t % M
<1>1. M \in Nat \ {0} /\ w \in 0 .. M - 1 /\ w \in Int /\ M \in Width
  BY Widths DEF Width
<1>2. PICK half \in Nat \ {0} : M = 2 * half
  BY <1>1, WidthType
<1>3. RotateRight(RotateLeft(w, c, M).v, ShiftLeft(w, M).c, M).v = v \div 2 + s * (M \div 2)
  BY DEF RotateRight, RotateLeft, ShiftLeft
<1> HIDE DEF M
<1>4. t \in Int /\ 2 * w \in Int
  BY <1>1
<1>5. M \div 2 = half
  <2>1. M = 2 * half + 0 /\ 0 \in 0 .. 2 - 1 /\ 2 \in Nat \ {0}
    BY <1>2
  <2>2. QED
    BY <2>1, RemainderIs
<1>6. CASE w < half
  <2>1. 0 <= t /\ t < M /\ 0 <= 2 * w /\ 2 * w < M
    BY <1>1, <1>2, <1>6
  <2>2. v = t
    BY <1>1, <1>4, <2>1, WrapsOnce
  <2>3. s = 0
    BY <1>1, <1>4, <2>1, WrapsOnce
  <2>4. t \div 2 = w
    <3>1. c \in 0 .. 2 - 1 /\ 2 \in Nat \ {0}
      OBVIOUS
    <3>2. QED
      BY <1>1, <3>1, RemainderIs
  <2> HIDE DEF t, s, v
  <2>5. QED
    BY <1>1, <1>3, <1>5, <2>2, <2>3, <2>4 DEF M
<1>7. CASE w >= half
  <2>1. M <= t /\ t < 2 * M /\ M <= 2 * w /\ 2 * w < 2 * M
    BY <1>1, <1>2, <1>7
  <2>2. v = t - M
    BY <1>1, <1>4, <2>1, WrapsOnce
  <2>3. s = 1
    BY <1>1, <1>4, <2>1, WrapsOnce
  <2>4. v = 2 * (w - half) + c /\ w - half \in Int
    BY <1>1, <1>2, <2>2
  <2>5. v \div 2 = w - half
    <3>1. c \in 0 .. 2 - 1 /\ 2 \in Nat \ {0}
      OBVIOUS
    <3> HIDE DEF v
    <3>2. QED
      BY <2>4, <3>1, RemainderIs
  <2> HIDE DEF t, s, v
  <2>6. QED
    BY <1>1, <1>2, <1>3, <1>5, <2>3, <2>5 DEF M
<1>8. QED
  BY <1>1, <1>6, <1>7

\* A sum and a rotation of a word are those of its bytes with the carry handed on,
\* in decimal as well while the digits are digits, for every width of a digit from
\* four bits and of a byte that digits fill (op_adc, op_rol, op_ror and op_asl of
\* em16/include/emu816.h).
THEOREM WordsAreTwoBytes == OperandsSpec => []BytesChain
<1>1. ASSUME OperandsOK PROVE BytesChain
  <2>1. wordA \in Word /\ wordB \in Word /\ carryIn \in 0 .. 1 /\ inDecimal \in BOOLEAN
    BY <1>1, Zenon DEF OperandsOK
  <2>2. SUFFICES ASSUME inDecimal => IsDecimal(wordA) /\ IsDecimal(wordB) PROVE BytesChain
    BY Zenon DEF BytesChain
  <2>3. LET low == AddWithCarry(lo(wordA), lo(wordB), carryIn, inDecimal, ByteSize)
            high == AddWithCarry(hi(wordA), hi(wordB), low.c, inDecimal, ByteSize)
            both == AddWithCarry(wordA, wordB, carryIn, inDecimal, WordSize)
        IN  join(low.v, high.v) = both.v /\ high.c = both.c /\ high.o = both.o
    BY <2>1, <2>2, SumsChain, Zenon
  <2>4. LET rolled == RotateLeft(lo(wordA), carryIn, ByteSize)
        IN  join(rolled.v, RotateLeft(hi(wordA), rolled.c, ByteSize).v)
                = RotateLeft(wordA, carryIn, WordSize).v
    BY <2>1, RotationsLeftChain
  <2>5. LET rored == RotateRight(hi(wordA), carryIn, ByteSize)
        IN  join(RotateRight(lo(wordA), rored.c, ByteSize).v, rored.v)
                = RotateRight(wordA, carryIn, WordSize).v
    BY <2>1, RotationsRightChain
  <2>6. RotateRight(RotateLeft(wordA, carryIn, WordSize).v, ShiftLeft(wordA, WordSize).c, WordSize).v
            = wordA
    BY <2>1, RotationsUndo
  <2>7. QED
    BY <2>3, <2>4, <2>5, <2>6, Zenon DEF BytesChain
<1>2. QED
  BY <1>1, OperandTypes, PTL
=============================================================================
