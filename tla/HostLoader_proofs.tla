------------------------- MODULE HostLoader_proofs -------------------------
(***************************************************************************)
(* The areas of the modules and the blocks of NEW, for all files, command  *)
(* lines, sizes of a bank and numbers of modules, and whatever fails.      *)
(***************************************************************************)
EXTENDS HostLoader, SequenceTheorems, WellFoundedInduction, TLAPS

-----------------------------------------------------------------------------
(* Induction over the naturals.                                            *)

Less == {p \in Nat \X Nat : p[1] < p[2]}

\* Every nonempty set of naturals has a least element: the form of induction the
\* loop proofs use, on the set of counterexamples.
LEMMA LeastElement ==
  ASSUME NEW T \in SUBSET Nat, T # {}
  PROVE  \E n \in T : \A m \in T : n <= m
<1>1. IsWellFoundedOn(Less, Nat)
  BY NatLessThanWellFounded DEF OpToRel, Less
<1>2. PICK n \in T : \A m \in T : ~ (<<m, n>> \in Less)
  BY <1>1, WFMin
<1>3. ASSUME NEW m \in T PROVE n <= m
  <2>1. n \in Nat /\ m \in Nat
    OBVIOUS
  <2>2. ~ (m < n)
    BY <1>2, <2>1 DEF Less
  <2>3. QED
    BY <2>1, <2>2
<1>4. QED
  BY <1>3

-----------------------------------------------------------------------------

\* A call is a record of three fields, and of a file that exists.
Good(c)    == DOMAIN c = {"name", "map", "missing"} /\ c.name \in Names
GoodSeq(s) == s \in Seq(ToSet(s)) /\ \A k \in 1 .. Len(s) : Good(s[k])

Area(m) == m.base \in Nat /\ m.var \in Nat /\ m.code \in Nat /\ m.data \in Nat
Block   == [at : Nat, size : Nat, taken : Nat]

Typed ==
  /\ GoodSeq(calls)
  /\ nextCode \in Nat /\ nextVar \in Nat
  /\ loaded \in Seq(ToSet(loaded)) /\ \A k \in 1 .. Len(loaded) : Area(loaded[k])
  /\ blocks \in Seq(Block)

\* Nothing is loaded while the modules run, and no block is given out before.
Phases == (running => calls = <<>>) /\ (blocks # <<>> => running)

\* m lies below code and var; the list has the modules loaded last in front.
Below(m, code, var) == m.base + m.code <= code /\ m.var + m.data <= var
Stacked ==
  /\ \A k \in Whole : Below(loaded[k], nextCode, nextVar)
  /\ \A j, k \in Whole : j < k => Below(loaded[k], loaded[j].base, loaded[j].var)

\* Of the sizes of sixteen bits only 65535 rounds to less than it.
RoundsUp == \A n \in Requests : Rounded(n) >= n
Heaped ==
  \A k \in 1 .. Len(blocks) :
    /\ nextVar <= blocks[k].at /\ (RoundsUp => blocks[k].size <= blocks[k].taken)
    /\ blocks[k].at + blocks[k].taken <= HeapLimit
    /\ \A j \in 1 .. k - 1 : blocks[j].at + blocks[j].taken <= blocks[k].at

IInv == Typed /\ Phases /\ Stacked /\ Heaped

-----------------------------------------------------------------------------
(* Sequences. *)

\* A sequence is one over the set of its elements.
LEMMA OwnRange ==
  ASSUME NEW S, NEW s \in Seq(S)
  PROVE  s \in Seq(ToSet(s))
<1>1. s \in [1 .. Len(s) -> S] /\ DOMAIN s = 1 .. Len(s) /\ Len(s) \in Nat
  BY LenProperties
<1>2. \A k \in 1 .. Len(s) : s[k] \in ToSet(s)
  BY <1>1 DEF ToSet
<1>3. s \in [1 .. Len(s) -> ToSet(s)]
  BY <1>1, <1>2
<1>4. QED
  BY <1>1, <1>3, SeqDef

\* The calls stay good when one is begun (loadMod calls itself),
LEMMA GoodAppend ==
  ASSUME NEW s, GoodSeq(s), NEW c, Good(c)
  PROVE  GoodSeq(Append(s, c))
<1> DEFINE S == ToSet(s) \cup {c}
<1>1. s \in Seq(S) /\ Len(s) \in Nat
  BY LenProperties DEF GoodSeq
<1>2. /\ Append(s, c) \in Seq(S) /\ Len(Append(s, c)) = Len(s) + 1
      /\ \A k \in 1 .. Len(s) : Append(s, c)[k] = s[k]
      /\ Append(s, c)[Len(s) + 1] = c
  BY <1>1, AppendProperties
<1>3. \A k \in 1 .. Len(s) + 1 : k \in 1 .. Len(s) \/ k = Len(s) + 1
  BY <1>1
<1>4. Append(s, c) \in Seq(ToSet(Append(s, c)))
  BY <1>2, OwnRange
<1>5. QED
  BY <1>2, <1>3, <1>4 DEF GoodSeq

\* A sequence without its last element.
LEMMA FrontFacts ==
  ASSUME NEW S, NEW s \in Seq(S), s # <<>>
  PROVE  /\ Len(s) \in Nat \ {0} /\ Front(s) \in Seq(S) /\ Len(Front(s)) = Len(s) - 1
         /\ \A k \in 1 .. Len(s) - 1 : Front(s)[k] = s[k]
<1> DEFINE f == SubSeq(s, 1, Len(s) - 1)
           n == Len(s)
<1>1. n \in Nat \ {0}
  BY EmptySeq
<1>2. \A k \in 1 .. n - 1 : s[k] \in S
  BY <1>1, ElementOfSeq
<1>3. /\ f \in Seq(S)
      /\ Len(f) = IF 1 <= n - 1 THEN n - 1 - 1 + 1 ELSE 0
      /\ \A k \in 1 .. n - 1 - 1 + 1 : f[k] = s[1 + k - 1]
  BY <1>1, <1>2, SubSeqProperties
<1>4. Front(s) = f
  BY DEF Front
<1> HIDE DEF f, n
<1>5. Len(f) = n - 1
  BY <1>1, <1>3
<1>6. ASSUME NEW k \in 1 .. n - 1 PROVE f[k] = s[k]
  <2>1. k \in 1 .. n - 1 - 1 + 1 /\ 1 + k - 1 = k
    BY <1>1
  <2>2. QED
    BY <1>3, <2>1
<1>7. QED
  BY <1>1, <1>3, <1>4, <1>5, <1>6 DEF n

\* when the innermost one ends,
LEMMA GoodFront ==
  ASSUME NEW s, GoodSeq(s), s # <<>>
  PROVE  GoodSeq(Front(s))
<1> DEFINE S == ToSet(s)
<1>1. s \in Seq(S)
  BY DEF GoodSeq
<1>2. /\ Len(s) \in Nat \ {0} /\ Front(s) \in Seq(S) /\ Len(Front(s)) = Len(s) - 1
      /\ \A k \in 1 .. Len(s) - 1 : Front(s)[k] = s[k]
  BY <1>1, FrontFacts
<1>3. Front(s) \in Seq(ToSet(Front(s)))
  BY <1>2, OwnRange
<1>4. QED
  BY <1>2, <1>3 DEF GoodSeq

\* and when an import of one is resolved.
LEMMA GoodUpdate ==
  ASSUME NEW s, GoodSeq(s), s # <<>>, NEW c, Good(c)
  PROVE  GoodSeq([s EXCEPT ![Len(s)] = c])
<1> DEFINE S == ToSet(s) \cup {c}
           t == [s EXCEPT ![Len(s)] = c]
<1>1. s \in Seq(S) /\ Len(s) \in Nat \ {0}
  BY EmptySeq DEF GoodSeq
<1>2. /\ t \in Seq(S) /\ Len(t) = Len(s)
      /\ \A k \in 1 .. Len(s) : t[k] = IF k = Len(s) THEN c ELSE s[k]
  BY <1>1, ExceptSeq
<1>3. t \in Seq(ToSet(t))
  BY <1>2, OwnRange
<1>4. QED
  BY <1>1, <1>2, <1>3 DEF GoodSeq

LEMMA GoodResolved ==
  ASSUME NEW c, Good(c), NEW m
  PROVE  Good(Resolved(c, m))
  BY DEF Good, Resolved

LEMMA GoodLast ==
  ASSUME NEW s, GoodSeq(s), s # <<>>
  PROVE  Good(s[Len(s)])
<1>1. Len(s) \in Nat \ {0}
  BY EmptySeq DEF GoodSeq
<1>2. QED
  BY <1>1 DEF GoodSeq

\* What is kept of the calls when one returns, whatever it returns.
LEMMA ReturnKeepsCalls ==
  ASSUME GoodSeq(calls), calls # <<>>, NEW entry, Return(entry)
  PROVE  GoodSeq(calls')
<1> DEFINE outer == Front(calls)
<1>1. GoodSeq(outer)
  BY GoodFront
<1>2. CASE outer = <<>>
  <2>1. calls' = <<>>
    BY <1>2 DEF Return
  <2>2. QED
    BY <1>1, <1>2, <2>1
<1>3. CASE outer # <<>>
  <2>1. PICK m : calls' = [outer EXCEPT ![Len(outer)] = Resolved(outer[Len(outer)], m)]
    BY <1>3 DEF Return
  <2>2. Good(outer[Len(outer)])
    BY <1>1, <1>3, GoodLast
  <2>3. Good(Resolved(outer[Len(outer)], m))
    BY <2>2, GoodResolved
  <2>4. QED
    BY <1>1, <1>3, <2>1, <2>3, GoodUpdate
<1>4. QED
  BY <1>2, <1>3
-----------------------------------------------------------------------------
(* The steps. *)

\* What loadMod knows of the module it places.
LEMMA LaidFields ==
  ASSUME FileAssumption, Typed, calls # <<>>, NEW wild
  PROVE  LET info == Laid(Caller, wild)
         IN  /\ info.base = nextCode /\ info.var = nextVar
             /\ info.code \in Nat /\ info.data \in Nat
<1>1. Good(Caller)
  BY GoodLast DEF Typed, Caller
<1>2. File[Caller.name].code \in Nat /\ File[Caller.name].data \in Nat
  BY <1>1 DEF FileAssumption, Good
<1> HIDE DEF Caller
<1>3. QED
  BY <1>2 DEF Laid

\* Nothing of Stacked and Heaped depends on the calls or the entries.
AreaVars == <<loaded, nextCode, nextVar, running, blocks>>
LEMMA AreasUntouched ==
  ASSUME IInv, UNCHANGED AreaVars, GoodSeq(calls'), running => calls' = <<>>
  PROVE  IInv'
<1>1. Typed'
  BY DEF IInv, Typed, AreaVars, GoodSeq, Good, Area, Block
<1>2. Phases'
  BY DEF IInv, Phases, AreaVars
<1>3. Stacked'
  BY DEF IInv, Stacked, AreaVars, Whole, Below
<1>4. Heaped'
  BY DEF IInv, Heaped, AreaVars
<1>5. QED
  BY <1>1, <1>2, <1>3, <1>4 DEF IInv

\* main begins with a file of its command line.
LEMMA LoadNextKeeps ==
  ASSUME IInv, LoadNext
  PROVE  IInv'
<1>1. UNCHANGED AreaVars /\ ~running
  BY DEF LoadNext, AreaVars
<1>2. CASE Head(args) \in Names
  <2> DEFINE c == Call(Head(args))
  <2>1. calls' = <<c>>
    BY <1>2 DEF LoadNext
  <2>2. Good(c)
    BY <1>2 DEF Good, Call
  <2> HIDE DEF c
  <2>3. <<c>> \in Seq({c}) /\ Len(<<c>>) = 1 /\ <<c>>[1] = c
    OBVIOUS
  <2>4. <<c>> \in Seq(ToSet(<<c>>))
    BY <2>3, OwnRange
  <2>5. \A k \in 1 .. Len(<<c>>) : k = 1
    BY <2>3
  <2>6. GoodSeq(<<c>>)
    BY <2>2, <2>3, <2>4, <2>5 DEF GoodSeq
  <2>7. QED
    BY <1>1, <2>1, <2>6, AreasUntouched
<1>3. CASE Head(args) \notin Names
  <2>1. calls' = calls
    BY <1>3 DEF LoadNext
  <2>2. QED
    BY <1>1, <2>1, AreasUntouched DEF IInv, Typed
<1>4. QED
  BY <1>2, <1>3

\* loadMod turns to the next import.
LEMMA ImportKeeps ==
  ASSUME IInv, Import
  PROVE  IInv'
<1>1. UNCHANGED AreaVars
  BY DEF Import, AreaVars
<1>2. calls # <<>> /\ GoodSeq(calls) /\ ~running
  BY DEF Import, IInv, Typed, Phases
<1> DEFINE n == LookedUp(Caller.name)[Len(Caller.map) + 1]
           m == find_module_by_name(n)
<1>3. GoodSeq(calls')
  <2>1. CASE m = None /\ n \in Names
    <3>1. calls' = Append(calls, Call(n))
      BY <2>1 DEF Import
    <3>2. Good(Call(n))
      BY <2>1 DEF Good, Call
    <3>3. QED
      BY <1>2, <3>1, <3>2, GoodAppend
  <2>2. CASE ~(m = None /\ n \in Names)
    <3>1. calls' = [calls EXCEPT ![Len(calls)] = Resolved(Caller, m)]
      BY <2>2 DEF Import
    <3>2. Good(Resolved(Caller, m))
      BY <1>2, GoodLast, GoodResolved DEF Caller
    <3>3. QED
      BY <1>2, <3>1, <3>2, GoodUpdate
  <2>3. QED
    BY <2>1, <2>2
<1>4. QED
  BY <1>1, <1>2, <1>3, AreasUntouched

\* loadMod returns 0.
LEMMA GiveUpKeeps ==
  ASSUME IInv, GiveUp
  PROVE  IInv'
<1>1. UNCHANGED AreaVars
  BY DEF GiveUp, AreaVars
<1>2. calls # <<>> /\ GoodSeq(calls) /\ ~running
  BY DEF GiveUp, ImportsDone, IInv, Typed, Phases
<1>3. GoodSeq(calls')
  BY <1>2, ReturnKeepsCalls DEF GiveUp
<1>4. QED
  BY <1>1, <1>2, <1>3, AreasUntouched

\* loadMod places a module: behind all that were read to the end.
LEMMA PlaceKeeps ==
  ASSUME FileAssumption, IInv, Place
  PROVE  IInv'
<1>0. PICK wild :
        LET laid == Laid(Caller, wild)
        IN  /\ loaded' = <<laid>> \o loaded
            /\ nextCode' = IF laid.whole THEN nextCode + laid.code ELSE nextCode
            /\ nextVar' = IF laid.whole THEN nextVar + laid.data ELSE nextVar
            /\ Return([name |-> laid.name, base |-> laid.base])
  BY DEF Place
<1> DEFINE info == Laid(Caller, wild)
           S == ToSet(loaded) \cup {info}
<1>1. calls # <<>> /\ ~running /\ blocks = <<>>
  BY DEF Place, ImportsDone, IInv, Phases
<1>2. /\ info.base = nextCode /\ info.var = nextVar
      /\ info.code \in Nat /\ info.data \in Nat
  BY <1>1, LaidFields DEF IInv
<1>3. /\ loaded' = <<info>> \o loaded
      /\ nextCode' = IF info.whole THEN nextCode + info.code ELSE nextCode
      /\ nextVar' = IF info.whole THEN nextVar + info.data ELSE nextVar
      /\ Return([name |-> info.name, base |-> info.base])
      /\ running' = running /\ blocks' = blocks
  BY <1>0 DEF Place
<1> HIDE DEF info
<1>4. nextCode \in Nat /\ nextVar \in Nat
  BY DEF IInv, Typed
<1>5. /\ nextCode' \in Nat /\ nextVar' \in Nat /\ nextCode <= nextCode' /\ nextVar <= nextVar'
      /\ info.whole => nextCode' = nextCode + info.code /\ nextVar' = nextVar + info.data
  BY <1>2, <1>3, <1>4
<1>6. loaded \in Seq(S) /\ Len(loaded) \in Nat /\ <<info>> \in Seq(S) /\ Len(<<info>>) = 1 /\ <<info>>[1] = info
  BY LenProperties DEF IInv, Typed
<1>7. /\ loaded' \in Seq(S) /\ Len(loaded') = Len(loaded) + 1
      /\ loaded'[1] = info
      /\ \A k \in 2 .. Len(loaded) + 1 : loaded'[k] = loaded[k - 1]
  <2>1. /\ loaded' \in Seq(S) /\ Len(loaded') = 1 + Len(loaded)
        /\ \A i \in 1 .. 1 + Len(loaded) :
               loaded'[i] = IF i <= 1 THEN <<info>>[i] ELSE loaded[i - 1]
    BY <1>3, <1>6, ConcatProperties
  <2>2. QED
    BY <1>6, <2>1
<1>8. \A k \in 1 .. Len(loaded') : k = 1 \/ (k \in 2 .. Len(loaded) + 1 /\ k - 1 \in 1 .. Len(loaded))
  BY <1>6, <1>7
<1>9. DOMAIN loaded' = 1 .. Len(loaded') /\ DOMAIN loaded = 1 .. Len(loaded)
  BY <1>6, <1>7, LenProperties
<1>10. \A k \in Whole' : k = 1 \/ (k \in 2 .. Len(loaded) + 1 /\ k - 1 \in Whole /\ loaded'[k] = loaded[k - 1])
  BY <1>7, <1>8, <1>9 DEF Whole
<1>11. Typed'
  <2>1. GoodSeq(calls')
    BY <1>1, <1>3, ReturnKeepsCalls DEF IInv, Typed
  <2>2. loaded' \in Seq(ToSet(loaded'))
    BY <1>7, OwnRange
  <2>3. \A k \in 1 .. Len(loaded') : Area(loaded'[k])
    BY <1>2, <1>4, <1>7, <1>8 DEF IInv, Typed, Area
  <2>4. QED
    BY <1>3, <1>5, <2>1, <2>2, <2>3 DEF IInv, Typed, Area
<1>12. Phases'
  BY <1>1, <1>3 DEF Phases
<1>13. Stacked'
  <2>1. \A k \in Whole : Area(loaded[k]) /\ Below(loaded[k], nextCode, nextVar)
    BY <1>9 DEF IInv, Stacked, Typed, Whole
  <2>2. \A k \in Whole' : Below(loaded'[k], nextCode', nextVar')
    <3>1. SUFFICES ASSUME NEW k \in Whole' PROVE Below(loaded'[k], nextCode', nextVar')
      OBVIOUS
    <3>2. CASE k = 1
      <4>1. loaded'[k] = info /\ info.whole
        BY <1>7, <3>2 DEF Whole
      <4>2. QED
        BY <1>2, <1>4, <1>5, <4>1 DEF Below
    <3>3. CASE k # 1
      <4>1. k - 1 \in Whole /\ loaded'[k] = loaded[k - 1]
        BY <1>10, <3>3
      <4>2. Area(loaded[k - 1]) /\ Below(loaded[k - 1], nextCode, nextVar)
        BY <2>1, <4>1
      <4>3. QED
        BY <1>4, <1>5, <4>1, <4>2 DEF Below, Area
    <3>4. QED
      BY <3>2, <3>3
  <2>3. \A j, k \in Whole' : j < k => Below(loaded'[k], loaded'[j].base, loaded'[j].var)
    <3>1. SUFFICES ASSUME NEW j \in Whole', NEW k \in Whole', j < k
                   PROVE  Below(loaded'[k], loaded'[j].base, loaded'[j].var)
      OBVIOUS
    <3>2. j \in 1 .. Len(loaded) + 1 /\ k \in 1 .. Len(loaded) + 1
      BY <1>6, <1>7, <1>9 DEF Whole
    <3>3. k # 1
      BY <1>6, <3>1, <3>2
    <3>4. k - 1 \in Whole /\ loaded'[k] = loaded[k - 1]
      BY <1>10, <3>3
    <3>5. CASE j = 1
      BY <1>2, <1>7, <2>1, <3>4, <3>5 DEF Below
    <3>6. CASE j # 1
      <4>1. j - 1 \in Whole /\ loaded'[j] = loaded[j - 1] /\ j - 1 < k - 1
        BY <1>6, <1>10, <3>1, <3>2, <3>6
      <4>2. QED
        BY <3>4, <4>1 DEF IInv, Stacked
    <3>7. QED
      BY <3>5, <3>6
  <2>4. QED
    BY <2>2, <2>3 DEF Stacked
<1>14. Heaped'
  BY <1>1, <1>3 DEF Heaped
<1>15. QED
  BY <1>11, <1>12, <1>13, <1>14 DEF IInv

\* The heap begins behind the variables, and each block behind the one before.
LEMMA HeapTop ==
  ASSUME IInv
  PROVE  /\ heap_top \in Nat /\ nextVar <= heap_top
         /\ \A k \in 1 .. Len(blocks) : blocks[k].at + blocks[k].taken <= heap_top
<1>1. nextVar \in Nat /\ blocks \in Seq(Block) /\ Len(blocks) \in Nat
  BY LenProperties DEF IInv, Typed
<1>2. CASE blocks = <<>>
  BY <1>1, <1>2 DEF heap_top
<1>3. CASE blocks # <<>>
  <2> DEFINE n == Len(blocks)
  <2>1. n \in 1 .. n /\ n \in Nat
    BY <1>1, <1>3, EmptySeq
  <2>2. heap_top = blocks[n].at + blocks[n].taken
    BY <1>3 DEF heap_top, Last
  <2>3. \A k \in 1 .. n : blocks[k].at \in Nat /\ blocks[k].taken \in Nat
    <3>1. \A k \in 1 .. n : blocks[k] \in Block
      BY <1>1, ElementOfSeq
    <3>2. QED
      BY <3>1 DEF Block
  <2> HIDE DEF n
  <2>4. /\ nextVar <= blocks[n].at
        /\ \A j \in 1 .. n - 1 : blocks[j].at + blocks[j].taken <= blocks[n].at
    BY <2>1 DEF IInv, Heaped, n
  <2>5. \A k \in 1 .. n : blocks[k].at + blocks[k].taken <= heap_top
    <3>1. SUFFICES ASSUME NEW k \in 1 .. n PROVE blocks[k].at + blocks[k].taken <= heap_top
      OBVIOUS
    <3>2. CASE k = n
      BY <2>1, <2>2, <2>3, <3>2
    <3>3. CASE k # n
      <4>1. k \in 1 .. n - 1
        BY <2>1, <3>3
      <4>2. blocks[k].at + blocks[k].taken <= blocks[n].at
        BY <2>4, <4>1
      <4>3. QED
        BY <2>1, <2>2, <2>3, <4>2
    <3>4. QED
      BY <3>2, <3>3
  <2>6. QED
    BY <1>1, <2>1, <2>2, <2>3, <2>4, <2>5 DEF n
<1>4. QED
  BY <1>2, <1>3

\* heap_alloc gives out the bytes from its top on.
LEMMA NewKeeps ==
  ASSUME FileAssumption, IInv, NEW size \in Requests, New(size)
  PROVE  IInv'
<1> DEFINE top == heap_top
           taken == Rounded(size)
           b == [at |-> top, size |-> size, taken |-> taken]
           n == Len(blocks)
<1>1. /\ running /\ top + taken <= HeapLimit /\ blocks' = Append(blocks, b)
      /\ UNCHANGED <<calls, loaded, nextCode, nextVar, running>>
  BY DEF New
<1>2. size \in Nat /\ taken \in Nat /\ (RoundsUp => size <= taken)
  <2>1. size \in Nat /\ BankSize \in Nat \ {0}
    BY DEF FileAssumption
  <2>2. (size + 1) - ((size + 1) % 2) \in Int
    BY <2>1
  <2>3. taken \in Nat
    BY <2>1, <2>2 DEF Rounded, InBank
  <2>4. RoundsUp => size <= taken
    BY DEF RoundsUp
  <2>5. QED
    BY <2>1, <2>3, <2>4
<1>3. /\ top \in Nat /\ nextVar <= top
      /\ \A k \in 1 .. n : blocks[k].at + blocks[k].taken <= top
  BY HeapTop
<1> HIDE DEF top, taken
<1>4. blocks \in Seq(Block) /\ n \in Nat /\ b \in Block /\ b.at = top /\ b.size = size /\ b.taken = taken
  BY <1>2, <1>3, LenProperties DEF IInv, Typed, Block
<1> HIDE DEF b, n
<1>5. /\ blocks' \in Seq(Block) /\ Len(blocks') = n + 1 /\ blocks'[n + 1] = b
      /\ \A k \in 1 .. n : blocks'[k] = blocks[k]
  BY <1>1, <1>4, AppendProperties DEF n
<1>6. Typed'
  BY <1>1, <1>5 DEF IInv, Typed, GoodSeq, Good, Area
<1>7. Phases'
  BY <1>1 DEF IInv, Phases
<1>8. Stacked'
  BY <1>1 DEF IInv, Stacked, Whole, Below
<1>9. Heaped'
  <2>1. SUFFICES ASSUME NEW k \in 1 .. Len(blocks')
                 PROVE  /\ nextVar' <= blocks'[k].at /\ (RoundsUp => blocks'[k].size <= blocks'[k].taken)
                        /\ blocks'[k].at + blocks'[k].taken <= HeapLimit
                        /\ \A j \in 1 .. k - 1 : blocks'[j].at + blocks'[j].taken <= blocks'[k].at
    BY DEF Heaped
  <2>2. CASE k = n + 1
    <3>1. \A j \in 1 .. k - 1 : j \in 1 .. n
      BY <1>4, <2>2
    <3>2. QED
      BY <1>1, <1>2, <1>3, <1>4, <1>5, <2>2, <3>1
  <2>3. CASE k # n + 1
    <3>1. k \in 1 .. n
      BY <1>4, <1>5, <2>3
    <3>2. \A j \in 1 .. k - 1 : j \in 1 .. n
      BY <1>4, <3>1
    <3>3. QED
      BY <1>1, <1>5, <3>1, <3>2 DEF IInv, Heaped, n
  <2>4. QED
    BY <2>2, <2>3
<1>10. QED
  BY <1>6, <1>7, <1>8, <1>9 DEF IInv

-----------------------------------------------------------------------------
(* The theorem. *)

\* Modules stacked and blocks in order share nothing.
LEMMA ApartFollows ==
  ASSUME IInv, RoundsUp
  PROVE  AreasApart
<1>1. DOMAIN loaded = 1 .. Len(loaded) /\ Len(loaded) \in Nat /\ DOMAIN blocks = 1 .. Len(blocks) /\ Len(blocks) \in Nat
  BY LenProperties DEF IInv, Typed
<1>2. \A k \in Whole : k \in Nat /\ Area(loaded[k]) /\ Below(loaded[k], nextCode, nextVar)
  BY <1>1 DEF IInv, Typed, Stacked, Whole
<1>3. \A k \in 1 .. Len(blocks) : blocks[k].at \in Nat /\ blocks[k].size \in Nat /\ blocks[k].taken \in Nat
  <2>1. blocks \in Seq(Block)
    BY DEF IInv, Typed
  <2>2. \A k \in 1 .. Len(blocks) : blocks[k] \in Block
    BY <2>1, ElementOfSeq
  <2>3. QED
    BY <2>2 DEF Block
<1>4. ASSUME NEW j \in Whole, NEW k \in Whole, j # k
      PROVE  /\ ~Overlap(loaded[j].base, loaded[j].code, loaded[k].base, loaded[k].code)
             /\ ~Overlap(loaded[j].var, loaded[j].data, loaded[k].var, loaded[k].data)
  <2>1. j < k \/ k < j
    BY <1>2, <1>4
  <2>2. Below(loaded[k], loaded[j].base, loaded[j].var) \/ Below(loaded[j], loaded[k].base, loaded[k].var)
    BY <2>1 DEF IInv, Stacked
  <2>3. QED
    BY <1>2, <2>2 DEF Below, Overlap, Area
<1>5. ASSUME NEW j \in DOMAIN blocks
      PROVE  /\ blocks[j].at + blocks[j].size <= HeapLimit
             /\ \A k \in Whole : ~Overlap(blocks[j].at, blocks[j].size, loaded[k].var, loaded[k].data)
             /\ \A k \in DOMAIN blocks \ {j} :
                  ~Overlap(blocks[j].at, blocks[j].size, blocks[k].at, blocks[k].size)
  <2>1. /\ nextVar <= blocks[j].at /\ blocks[j].size <= blocks[j].taken
        /\ blocks[j].at + blocks[j].taken <= HeapLimit
    BY <1>1 DEF IInv, Heaped
  <2>2. HeapLimit \in Nat /\ nextVar \in Nat
    BY FileAssumption DEF FileAssumption, IInv, Typed
  <2>3. blocks[j].at + blocks[j].size <= HeapLimit
    BY <1>1, <1>3, <2>1, <2>2
  <2>4. ASSUME NEW k \in Whole PROVE ~Overlap(blocks[j].at, blocks[j].size, loaded[k].var, loaded[k].data)
    BY <1>1, <1>2, <1>3, <2>1, <2>2 DEF Below, Overlap, Area
  <2>5. ASSUME NEW k \in DOMAIN blocks \ {j}
        PROVE  ~Overlap(blocks[j].at, blocks[j].size, blocks[k].at, blocks[k].size)
    <3>1. k \in 1 .. Len(blocks) /\ j \in 1 .. Len(blocks) /\ blocks[k].size <= blocks[k].taken
      BY <1>1, <2>5 DEF IInv, Heaped
    <3>2. k \in 1 .. j - 1 \/ j \in 1 .. k - 1
      BY <1>1, <2>5, <3>1
    <3>3. \/ blocks[k].at + blocks[k].taken <= blocks[j].at
          \/ blocks[j].at + blocks[j].taken <= blocks[k].at
      BY <3>1, <3>2 DEF IInv, Heaped
    <3>4. /\ blocks[k].at \in Nat /\ blocks[k].size \in Nat /\ blocks[k].taken \in Nat
          /\ blocks[j].at \in Nat /\ blocks[j].size \in Nat /\ blocks[j].taken \in Nat
      BY <1>3, <3>1
    <3>5. QED
      BY <2>1, <3>1, <3>3, <3>4 DEF Overlap
  <2>6. QED
    BY <2>3, <2>4, <2>5
<1>6. QED
  BY <1>4, <1>5 DEF AreasApart

\* The inductive invariant: what was read to the end is stacked, and the blocks of
\* NEW lie in order behind it (loadMod, heap_alloc).
THEOREM LoaderInvariance == Spec => []IInv
<1>1. Init => IInv
  <2>1. SUFFICES ASSUME Init PROVE IInv
    OBVIOUS
  <2>2. <<>> \in Seq({}) /\ Len(<<>>) = 0 /\ ToSet(<<>>) = {} /\ DOMAIN <<>> = {}
    BY EmptySeq DEF ToSet
  <2>3. <<>> \in Seq(Block)
    BY EmptySeq
  <2>4. /\ calls = <<>> /\ loaded = <<>> /\ blocks = <<>> /\ running = FALSE
        /\ nextCode \in Nat /\ nextVar \in Nat
    <3>1. VarBase \in Nat
      BY FileAssumption DEF FileAssumption
    <3>2. calls = <<>> /\ loaded = <<>> /\ blocks = <<>> /\ nextCode = 0 /\ nextVar = VarBase
      BY <2>1 DEF Init
    <3>3. running = FALSE
      BY <2>1 DEF Init
    <3>4. QED
      BY <3>1, <3>2, <3>3
  <2>5. GoodSeq(<<>>)
    <3>1. <<>> \in Seq(ToSet(<<>>))
      BY <2>2
    <3>2. \A k \in 1 .. Len(<<>>) : FALSE
      BY <2>2
    <3>3. QED
      BY <3>1, <3>2 DEF GoodSeq
  <2>6. loaded \in Seq(ToSet(loaded)) /\ \A k \in 1 .. Len(loaded) : Area(loaded[k])
    BY <2>2, <2>4
  <2>7. Typed
    BY <2>3, <2>4, <2>5, <2>6 DEF Typed
  <2>8. Phases
    BY <2>4 DEF Phases
  <2>9. Stacked
    <3>1. Whole = {}
      BY <2>2, <2>4 DEF Whole
    <3>2. QED
      BY <3>1 DEF Stacked
  <2>10. Heaped
    <3>1. \A k \in 1 .. Len(blocks) : FALSE
      BY <2>2, <2>4
    <3>2. QED
      BY <3>1 DEF Heaped
  <2>11. QED
    BY <2>7, <2>8, <2>9, <2>10 DEF IInv
<1>2. IInv /\ [Next]_vars => IInv'
  <2>1. SUFFICES ASSUME IInv, [Next]_vars PROVE IInv'
    OBVIOUS
  <2>2. CASE LoadNext
    BY <2>1, <2>2, LoadNextKeeps
  <2>3. CASE Import
    BY <2>1, <2>3, ImportKeeps
  <2>4. CASE GiveUp
    BY <2>1, <2>4, GiveUpKeeps
  <2>5. CASE Place
    BY <2>1, <2>5, PlaceKeeps, FileAssumption
  <2>6. CASE Start
    <3>1. /\ calls = <<>> /\ calls' = calls /\ running' = TRUE
          /\ UNCHANGED <<loaded, nextCode, nextVar, blocks>>
      BY <2>6 DEF Start
    <3>2. Typed' /\ Stacked' /\ Heaped'
      BY <2>1, <3>1 DEF IInv, Typed, GoodSeq, Good, Area, Stacked, Whole, Below, Heaped
    <3>3. Phases'
      BY <3>1 DEF Phases
    <3>4. QED
      BY <3>2, <3>3 DEF IInv
  <2>7. CASE RunNext
    <3>1. UNCHANGED AreaVars /\ calls' = calls
      BY <2>7 DEF RunNext, AreaVars
    <3>2. QED
      BY <2>1, <3>1, AreasUntouched DEF IInv, Typed, Phases
  <2>8. CASE \E size \in Requests : New(size)
    BY <2>1, <2>8, NewKeeps, FileAssumption
  <2>9. CASE UNCHANGED vars
    <3>1. UNCHANGED AreaVars /\ calls' = calls
      BY <2>9 DEF vars, AreaVars
    <3>2. QED
      BY <2>1, <3>1, AreasUntouched DEF IInv, Typed, Phases
  <2>10. QED
    BY <2>1, <2>2, <2>3, <2>4, <2>5, <2>6, <2>7, <2>8, <2>9 DEF Next
<1>3. QED
  BY <1>1, <1>2, PTL DEF Spec

\* Code, variables and blocks stay apart (loadMod, heap_alloc), as long as no
\* program asks for a size that rounds to less than it.
THEOREM AreasStayApart == ASSUME RoundsUp PROVE Spec => []AreasApart
  BY LoaderInvariance, ApartFollows, PTL

-----------------------------------------------------------------------------
(* What the imports of a module resolve to. *)

\* What a table of n takes of a sequence.
LEMMA UptoFacts ==
  ASSUME NEW S, NEW s \in Seq(S), NEW n \in Nat
  PROVE  /\ Upto(s, n) \in Seq(S) /\ Len(Upto(s, n)) = IF Len(s) < n THEN Len(s) ELSE n
         /\ \A k \in 1 .. Len(Upto(s, n)) : k \in 1 .. Len(s) /\ Upto(s, n)[k] = s[k]
<1> DEFINE l == IF Len(s) < n THEN Len(s) ELSE n
           f == SubSeq(s, 1, l)
<1>1. Len(s) \in Nat /\ l \in Nat /\ l <= Len(s)
  BY LenProperties
<1> HIDE DEF l
<1>2. \A k \in 1 .. l : k \in 1 .. Len(s) /\ s[k] \in S
  BY <1>1, ElementOfSeq
<1>3. /\ f \in Seq(S) /\ Len(f) = IF 1 <= l THEN l - 1 + 1 ELSE 0
      /\ \A k \in 1 .. l - 1 + 1 : f[k] = s[1 + k - 1]
  BY <1>1, <1>2, SubSeqProperties
<1> HIDE DEF f
<1>4. Len(f) = l
  BY <1>1, <1>3
<1>5. ASSUME NEW k \in 1 .. l PROVE f[k] = s[k]
  <2>1. k \in 1 .. l - 1 + 1 /\ 1 + k - 1 = k
    BY <1>1
  <2>2. QED
    BY <1>3, <2>1
<1>6. Upto(s, n) = f
  BY DEF Upto, f, l
<1>7. QED
  BY <1>2, <1>3, <1>4, <1>5, <1>6 DEF l

\* The imports that loadMod looks up: those of the file below the limit.
LEMMA LookedUpFacts ==
  ASSUME NEW n \in Names
  PROVE  /\ Len(LookedUp(n)) \in Nat
         /\ \A k \in 1 .. Len(File[n].imports) : k < MaxImports =>
                k \in 1 .. Len(LookedUp(n)) /\ LookedUp(n)[k] = File[n].imports[k]
<1>1. /\ File[n].imports \in Seq(STRING) /\ Len(File[n].imports) \in Nat
      /\ MaxImports \in Nat /\ MaxImports - 1 \in Nat
  BY FileAssumption, LenProperties DEF FileAssumption
<1>2. /\ Len(LookedUp(n)) = IF Len(File[n].imports) < MaxImports - 1
                            THEN Len(File[n].imports) ELSE MaxImports - 1
      /\ \A k \in 1 .. Len(LookedUp(n)) : LookedUp(n)[k] = File[n].imports[k]
  BY <1>1, UptoFacts DEF LookedUp
<1>3. QED
  BY <1>1, <1>2

\* The exports that loadMod keeps: those of the file below the limit.
LEMMA KeptFacts ==
  ASSUME NEW n \in Names, NEW k \in 1 .. Len(File[n].exports), k < MaxExports
  PROVE  k \in 1 .. Len(KeptExports(n)) /\ KeptExports(n)[k] = File[n].exports[k]
<1>1. /\ File[n].exports \in Seq(Nat) /\ Len(File[n].exports) \in Nat
      /\ MaxExports \in Nat /\ MaxExports - 1 \in Nat
  BY FileAssumption, LenProperties DEF FileAssumption
<1> DEFINE s == File[n].exports
           m == MaxExports - 1
<1> HIDE DEF s, m
<1>2. /\ Len(Upto(s, m)) = IF Len(s) < m THEN Len(s) ELSE m
      /\ \A j \in 1 .. Len(Upto(s, m)) : Upto(s, m)[j] = s[j]
  <2>1. s \in Seq(Nat) /\ m \in Nat
    BY <1>1 DEF s, m
  <2>2. QED
    BY <2>1, UptoFacts
<1>3. KeptExports(n) = Upto(s, m) /\ k \in 1 .. Len(s) /\ k <= m /\ Len(s) \in Nat /\ m \in Nat
  BY <1>1 DEF KeptExports, s, m
<1>4. QED
  BY <1>2, <1>3 DEF s

\* The references of a file are those the compiler writes against the imports
\* that are there (PutRelocation in ORG): JSR only for the module's own
\* procedures, PER only for imported ones, offsets in a bank, exports that the
\* imported module has.
Compiled ==
  \A n \in Names : \A r \in File[n].refs :
    /\ r.kind = "JSR" => r.mno = 0
    /\ r.kind = "PER" => r.mno # 0
    /\ r.mno = 0 => r.no < BankSize
    /\ (r.mno # 0 /\ r.kind \in {"JSL", "PER", "vtable"} /\ File[n].imports[r.mno] \in Names) =>
           r.no \in 1 .. Len(File[File[n].imports[r.mno]].exports)

\* A module in the list has the exports of its file that fit, and did not look up
\* itself.
Entered(m) ==
  /\ m # None /\ m.name \in Names /\ m.exports = KeptExports(m.name)
  /\ \A k \in 1 .. Len(LookedUp(m.name)) : LookedUp(m.name)[k] # m.name

\* The call c has resolved the first of the imports it looks up, each to a module in
\* L of that name.
Resolving(c, L) ==
  /\ c.map \in Seq(ToSet(c.map)) /\ Len(c.map) <= Len(LookedUp(c.name))
  /\ ~c.missing => \A k \in 1 .. Len(c.map) : c.map[k] \in L /\ c.map[k].name = LookedUp(c.name)[k]

\* The call c waits for its next import, n.
Awaits(c, n) == Len(c.map) < Len(LookedUp(c.name)) /\ n = LookedUp(c.name)[Len(c.map) + 1]

CallsOk(cs, L) ==
  /\ \A k \in 1 .. Len(cs) : Resolving(cs[k], L)
  /\ \A k \in 1 .. Len(cs) - 1 : Awaits(cs[k], cs[k + 1].name)

Bindings == (\A m \in ToSet(loaded) : Entered(m)) /\ CallsOk(calls, ToSet(loaded))

\* Arithmetic modulo the size of a bank.
LEMMA Division ==
  ASSUME NEW n \in Nat, n # 0, NEW x \in Nat
  PROVE  x = n * (x \div n) + (x % n) /\ x % n \in 0 .. n - 1 /\ x \div n \in Nat
  OBVIOUS

LEMMA MultipleApart ==
  ASSUME NEW n \in Nat, n # 0, NEW d \in Int, n * d < n, -n < n * d
  PROVE  d = 0
<1>1. CASE d >= 1
  <2>1. n * d >= n
    BY <1>1
  <2>2. QED
    BY <2>1
<1>2. CASE d <= -1
  <2>1. n * d <= -n
    BY <1>2
  <2>2. QED
    BY <2>1
<1>3. QED
  BY <1>1, <1>2

LEMMA ModShift ==
  ASSUME NEW n \in Nat, n # 0, NEW x \in Nat
  PROVE  (n + x) % n = x % n
<1> DEFINE a == x \div n
           b == (n + x) \div n
           r == x % n
           t == (n + x) % n
<1>1. x = n * a + r /\ r \in 0 .. n - 1 /\ a \in Nat
  BY Division
<1>2. n + x = n * b + t /\ t \in 0 .. n - 1 /\ b \in Nat
  <2>1. n + x \in Nat
    OBVIOUS
  <2>2. QED
    BY <2>1, Division
<1> HIDE DEF a, b, r, t
<1>3. n * (b - a - 1) = r - t
  BY <1>1, <1>2
<1>4. b - a - 1 = 0
  <2>1. b - a - 1 \in Int /\ r - t < n /\ -n < r - t
    BY <1>1, <1>2
  <2>2. QED
    BY <1>3, <2>1, MultipleApart
<1>5. r = t
  BY <1>1, <1>2, <1>4
<1>6. QED
  BY <1>5 DEF r, t

\* An address of the code and its low word.
LEMMA CodeInBank ==
  ASSUME NEW x \in Nat
  PROVE  InBank(CodeStart + x) = InBank(x)
<1>1. BankSize \in Nat /\ BankSize # 0
  BY FileAssumption DEF FileAssumption
<1>2. QED
  BY <1>1, ModShift DEF InBank, CodeStart

LEMMA ShortInBank ==
  ASSUME NEW x \in Nat, x < BankSize
  PROVE  InBank(x) = x
<1>1. BankSize \in Nat /\ BankSize # 0
  BY FileAssumption DEF FileAssumption
<1>2. QED
  BY <1>1 DEF InBank

-----------------------------------------------------------------------------
(* The calls and what they have resolved. *)

\* find_module_by_name, on any list.
LEMMA Lookup ==
  ASSUME NEW S, NEW s \in Seq(S), NEW n
  PROVE  LET k == SelectInSeq(s, LAMBDA m : m.name = n)
         IN  k = 0 \/ (k \in 1 .. Len(s) /\ s[k].name = n)
<1> DEFINE I == {i \in 1 .. Len(s) : s[i].name = n}
<1>1. CASE I = {}
  BY <1>1 DEF SelectInSeq
<1>2. CASE I # {}
  <2>1. I \in SUBSET Nat
    OBVIOUS
  <2>2. \E i \in I : \A j \in I : i <= j
    BY <1>2, <2>1, LeastElement
  <2>3. Min(I) \in I
    BY <2>2 DEF Min
  <2>4. SelectInSeq(s, LAMBDA m : m.name = n) = Min(I)
    BY <1>2 DEF SelectInSeq
  <2>5. QED
    BY <2>3, <2>4
<1>3. QED
  BY <1>1, <1>2

\* What the lookup gives a caller that waits for n.
Answers(m, n, L) == m = None \/ (m \in L /\ m.name = n)

LEMMA FindAnswers ==
  ASSUME NEW s, s \in Seq(ToSet(s)), NEW n
  PROVE  Answers(Find(s, n), n, ToSet(s))
<1> DEFINE k == SelectInSeq(s, LAMBDA m : m.name = n)
<1>1. k = 0 \/ (k \in 1 .. Len(s) /\ s[k].name = n)
  BY Lookup
<1>2. Find(s, n) = IF k = 0 THEN None ELSE s[k]
  BY DEF Find
<1> HIDE DEF k
<1>3. DOMAIN s = 1 .. Len(s)
  BY LenProperties
<1>4. QED
  BY <1>1, <1>2, <1>3 DEF Answers, ToSet

LEMMA ResolvedFields ==
  ASSUME NEW c, Good(c), NEW m
  PROVE  /\ Resolved(c, m).name = c.name
         /\ Resolved(c, m).map = Append(c.map, m)
         /\ Resolved(c, m).missing <=> (c.missing \/ m = None)
  BY DEF Good, Resolved

LEMMA ResolvingGrows ==
  ASSUME NEW c, NEW L, NEW K, L \subseteq K, Resolving(c, L)
  PROVE  Resolving(c, K)
  BY DEF Resolving

\* A call has one import more resolved.
LEMMA ResolveOne ==
  ASSUME NEW c, Good(c), NEW L, Resolving(c, L), NEW n, Awaits(c, n), NEW m, Answers(m, n, L)
  PROVE  Resolving(Resolved(c, m), L)
<1> DEFINE d == Resolved(c, m)
           S == ToSet(c.map) \cup {m}
           len == Len(c.map)
<1>1. d.name = c.name /\ d.map = Append(c.map, m) /\ (d.missing <=> (c.missing \/ m = None))
  BY ResolvedFields
<1>2. c.map \in Seq(S) /\ len \in Nat /\ m \in S
  BY LenProperties DEF Resolving
<1>3. /\ Append(c.map, m) \in Seq(S) /\ Len(Append(c.map, m)) = len + 1
      /\ \A k \in 1 .. len : Append(c.map, m)[k] = c.map[k]
      /\ Append(c.map, m)[len + 1] = m
  BY <1>2, AppendProperties
<1>4. Append(c.map, m) \in Seq(ToSet(Append(c.map, m)))
  BY <1>3, OwnRange
<1>5. len < Len(LookedUp(c.name)) /\ n = LookedUp(c.name)[len + 1]
  BY DEF Awaits
<1>6. Len(LookedUp(c.name)) \in Nat
  BY LookedUpFacts DEF Good
<1>7. ASSUME ~d.missing, NEW k \in 1 .. Len(d.map)
      PROVE  d.map[k] \in L /\ d.map[k].name = LookedUp(d.name)[k]
  <2>1. ~c.missing /\ m # None
    BY <1>1, <1>7
  <2>2. CASE k = len + 1
    BY <1>1, <1>3, <1>5, <2>1, <2>2 DEF Answers
  <2>3. CASE k # len + 1
    <3>1. k \in 1 .. len
      BY <1>1, <1>2, <1>3, <1>7, <2>3
    <3>2. QED
      BY <1>1, <1>3, <2>1, <3>1 DEF Resolving
  <2>4. QED
    BY <2>2, <2>3
<1>8. Len(d.map) <= Len(LookedUp(d.name)) /\ d.map \in Seq(ToSet(d.map))
  BY <1>1, <1>2, <1>3, <1>4, <1>5, <1>6
<1> HIDE DEF d
<1>9. Resolving(d, L)
  BY <1>7, <1>8 DEF Resolving
<1>10. QED
  BY <1>9 DEF d

\* A call that begins has resolved nothing.
LEMMA CallBegins ==
  ASSUME NEW n \in Names, NEW L
  PROVE  Good(Call(n)) /\ Resolving(Call(n), L) /\ Call(n).name = n
<1>1. Good(Call(n)) /\ Call(n).name = n /\ Call(n).map = <<>>
  BY DEF Good, Call
<1>2. <<>> \in Seq(ToSet(<<>>)) /\ Len(<<>>) = 0
  BY EmptySeq
<1>3. \A k \in 1 .. Len(<<>>) : FALSE
  BY <1>2
<1>4. Len(LookedUp(n)) \in Nat
  BY LookedUpFacts
<1> DEFINE c == Call(n)
<1> HIDE DEF c
<1>5. Resolving(c, L)
  BY <1>1, <1>2, <1>3, <1>4 DEF Resolving, c
<1>6. QED
  BY <1>1, <1>5 DEF c

LEMMA CallsGrow ==
  ASSUME NEW cs, NEW L, NEW K, L \subseteq K, CallsOk(cs, L)
  PROVE  CallsOk(cs, K)
  BY ResolvingGrows DEF CallsOk

\* The innermost call begins one, resolves an import, or ends.
LEMMA CallsPush ==
  ASSUME NEW cs, GoodSeq(cs), NEW L, CallsOk(cs, L), NEW c, Resolving(c, L),
         cs # <<>> => Awaits(cs[Len(cs)], c.name)
  PROVE  CallsOk(Append(cs, c), L)
<1> DEFINE S == ToSet(cs) \cup {c}
           n == Len(cs)
           d == Append(cs, c)
<1>1. cs \in Seq(S) /\ n \in Nat /\ (n # 0 => cs # <<>>)
  BY LenProperties, EmptySeq DEF GoodSeq
<1>2. Len(d) = n + 1 /\ d[n + 1] = c /\ \A k \in 1 .. n : d[k] = cs[k]
  BY <1>1, AppendProperties
<1> HIDE DEF n, d
<1>3. \A k \in 1 .. Len(d) : Resolving(d[k], L)
  <2>1. \A k \in 1 .. Len(d) : k = n + 1 \/ k \in 1 .. n
    BY <1>1, <1>2
  <2>2. QED
    BY <1>2, <2>1 DEF CallsOk, n
<1>4. ASSUME NEW k \in 1 .. Len(d) - 1 PROVE Awaits(d[k], d[k + 1].name)
  <2>1. k \in 1 .. n /\ d[k] = cs[k]
    BY <1>1, <1>2
  <2>2. CASE k = n
    <3>1. cs # <<>> /\ d[k + 1] = c
      BY <1>1, <1>2, <2>1, <2>2
    <3>2. QED
      BY <2>1, <2>2, <3>1 DEF n
  <2>3. CASE k # n
    <3>1. k \in 1 .. n - 1 /\ k + 1 \in 1 .. n
      BY <1>1, <2>1, <2>3
    <3>2. d[k + 1] = cs[k + 1]
      BY <1>2, <3>1
    <3>3. QED
      BY <2>1, <3>1, <3>2 DEF CallsOk, n
  <2>4. QED
    BY <2>2, <2>3
<1>5. QED
  BY <1>3, <1>4 DEF CallsOk, d

LEMMA CallsTop ==
  ASSUME NEW cs, GoodSeq(cs), cs # <<>>, NEW L, CallsOk(cs, L), NEW c, Resolving(c, L),
         c.name = cs[Len(cs)].name
  PROVE  CallsOk([cs EXCEPT ![Len(cs)] = c], L)
<1> DEFINE S == ToSet(cs) \cup {c}
           n == Len(cs)
           d == [cs EXCEPT ![Len(cs)] = c]
<1>1. cs \in Seq(S) /\ n \in Nat \ {0} /\ n \in 1 .. n /\ c \in S
  BY EmptySeq DEF GoodSeq
<1>2. Len(d) = n /\ \A k \in 1 .. n : d[k] = IF k = n THEN c ELSE cs[k]
  BY <1>1, ExceptSeq
<1> HIDE DEF n, d
<1>3. \A k \in 1 .. Len(d) : Resolving(d[k], L)
  BY <1>2 DEF CallsOk, n
<1>4. ASSUME NEW k \in 1 .. Len(d) - 1 PROVE Awaits(d[k], d[k + 1].name)
  <2>1. k \in 1 .. n /\ k + 1 \in 1 .. n /\ k # n /\ k \in 1 .. n - 1
    BY <1>1, <1>2
  <2>2. d[k] = cs[k] /\ d[k + 1].name = cs[k + 1].name
    BY <1>2, <2>1 DEF n
  <2>3. QED
    BY <2>1, <2>2 DEF CallsOk, n
<1>5. QED
  BY <1>3, <1>4 DEF CallsOk, d

LEMMA CallsPop ==
  ASSUME NEW cs, GoodSeq(cs), cs # <<>>, NEW L, CallsOk(cs, L)
  PROVE  /\ CallsOk(Front(cs), L)
         /\ Front(cs) # <<>> => Awaits(Front(cs)[Len(Front(cs))], cs[Len(cs)].name)
<1> DEFINE n == Len(cs)
           d == Front(cs)
<1>1. cs \in Seq(ToSet(cs))
  BY DEF GoodSeq
<1>2. /\ n \in Nat \ {0} /\ Len(d) = n - 1 /\ d \in Seq(ToSet(cs))
      /\ \A k \in 1 .. n - 1 : d[k] = cs[k]
  BY <1>1, FrontFacts
<1>3. d # <<>> => Len(d) # 0
  BY <1>2, EmptySeq
<1> HIDE DEF n, d
<1>4. \A k \in 1 .. n - 1 : k \in 1 .. n
  BY <1>2
<1>5. \A k \in 1 .. Len(d) : Resolving(d[k], L)
  BY <1>2, <1>4 DEF CallsOk, n
<1>6. ASSUME NEW k \in 1 .. Len(d) - 1 PROVE Awaits(d[k], d[k + 1].name)
  <2>1. k \in 1 .. n - 1 /\ k + 1 \in 1 .. n - 1
    BY <1>2
  <2>2. QED
    BY <1>2, <2>1 DEF CallsOk, n
<1>7. ASSUME d # <<>> PROVE Awaits(d[Len(d)], cs[n].name)
  <2>1. n - 1 \in 1 .. n - 1 /\ n - 1 + 1 = n
    BY <1>2, <1>3, <1>7
  <2>2. QED
    BY <1>2, <2>1 DEF CallsOk, n
<1>8. QED
  BY <1>5, <1>6, <1>7 DEF CallsOk, n, d

\* What the calls know when one returns; the list may have got longer.
LEMMA ReturnKeepsOk ==
  ASSUME GoodSeq(calls), calls # <<>>, loaded' \in Seq(ToSet(loaded')),
         ToSet(loaded) \subseteq ToSet(loaded'), CallsOk(calls, ToSet(loaded)),
         NEW entry, Return(entry)
  PROVE  CallsOk(calls', ToSet(loaded'))
<1> DEFINE outer == Front(calls)
           L == ToSet(loaded')
           c == outer[Len(outer)]
           m == Find(loaded', Caller.name)
<1>1. CallsOk(calls, L)
  BY CallsGrow
<1>2. GoodSeq(outer)
  BY GoodFront
<1>3. CallsOk(outer, L) /\ (outer # <<>> => Awaits(c, Caller.name))
  BY <1>1, CallsPop DEF Caller
<1>4. CASE outer = <<>>
  <2>1. calls' = outer
    BY <1>4 DEF Return
  <2>2. QED
    BY <1>3, <2>1
<1>5. CASE outer # <<>>
  <2>1. calls' = [outer EXCEPT ![Len(outer)] = Resolved(c, m)]
    BY <1>5 DEF Return
  <2>2. Answers(m, Caller.name, L)
    BY FindAnswers
  <2>3. Len(outer) \in Nat \ {0} /\ Good(c)
    BY <1>2, <1>5, EmptySeq, GoodLast DEF GoodSeq
  <2> HIDE DEF c, m, outer, L
  <2>4. Resolving(c, L)
    <3>1. Len(outer) \in 1 .. Len(outer)
      BY <2>3
    <3>2. QED
      BY <1>3, <3>1 DEF CallsOk, c
  <2>5. Resolving(Resolved(c, m), L)
    BY <1>3, <1>5, <2>2, <2>3, <2>4, ResolveOne
  <2>6. Resolved(c, m).name = c.name
    BY <2>3, ResolvedFields
  <2>7. CallsOk(calls', L)
    BY <1>2, <1>3, <1>5, <2>1, <2>5, <2>6, CallsTop DEF c
  <2>8. QED
    BY <2>7 DEF L
<1>6. QED
  BY <1>4, <1>5

-----------------------------------------------------------------------------
(* Binding. *)

\* The target of a reference whose imports are all resolved.
LEMMA TargetMeant ==
  ASSUME NEW c, NEW L, Resolving(c, L), ~c.missing, Len(c.map) = Len(LookedUp(c.name)),
         NEW r, r.mno \in 1 .. Len(LookedUp(c.name))
  PROVE  Target(r, c.map) \in L /\ Target(r, c.map).name = LookedUp(c.name)[r.mno]
<1>1. r.mno # 0 /\ Target(r, c.map) = c.map[r.mno]
  <2>1. r.mno # 0
    <3>1. \A k \in 1 .. Len(LookedUp(c.name)) : k # 0
      OBVIOUS
    <3>2. QED
      BY <3>1
  <2>2. QED
    BY <2>1 DEF Target
<1>2. QED
  BY <1>1 DEF Resolving

\* apply_relocation and the fixups write what the reference asks for: in the
\* module itself,
LEMMA BoundInOwn ==
  ASSUME Compiled, NEW n \in Names, NEW r \in File[n].refs, r.mno = 0,
         NEW m, m.base \in Nat, NEW map
  PROVE  Bound(r, m.base, m.var, map) = Shown(r.kind, Address(m, m, r))
<1>1. /\ r.kind \in Kinds /\ r.no \in Nat /\ r.kind # "PER" /\ r.no < BankSize
  BY FileAssumption DEF FileAssumption, Compiled
<1>2. Target(r, map) = None
  BY DEF Target
<1>3. BankSize \in Nat
  BY FileAssumption DEF FileAssumption
<1>4. InBank(CodeStart + (m.base + r.no)) = InBank(m.base + r.no) /\ InBank(r.no) = r.no
  <2>1. m.base + r.no \in Nat
    BY <1>1
  <2>2. QED
    BY <1>1, <2>1, CodeInBank, ShortInBank
<1>5. CodeStart + (m.base + r.no) = CodeStart + m.base + r.no
  BY <1>1, <1>3 DEF CodeStart
<1>6. r.kind = "JSR" \/ r.kind = "JSL" \/ r.kind = "LDA" \/ r.kind = "vtable" \/ r.kind = "ancestor"
  BY <1>1 DEF Kinds
<1>7. QED
  BY <1>2, <1>4, <1>5, <1>6
  DEF Bound, BoundInCode, BoundInTables, InTables, Shown, Address

\* and in the module t that is imported.
LEMMA BoundInImport ==
  ASSUME NEW n \in Names, NEW r \in File[n].refs, r.mno # 0, Compiled, HasRoom(r),
         NEW t, t # None, t.base \in Nat, t.name \in Names, t.exports = KeptExports(t.name),
         t.name = File[n].imports[r.mno],
         NEW map, Target(r, map) = t, NEW m, NEW base, NEW var
  PROVE  Bound(r, base, var, map) = Shown(r.kind, Address(t, m, r))
<1>1. /\ r.kind \in Kinds /\ r.kind # "JSR"
  BY FileAssumption DEF FileAssumption, Compiled
<1>2. CASE r.kind \in {"LDA", "ancestor"}
  BY <1>2 DEF Bound, BoundInCode, BoundInTables, InTables, Shown, Address
<1>3. CASE r.kind \in {"JSL", "PER", "vtable"}
  <2> DEFINE exports == File[t.name].exports
  <2>1. r.no \in 1 .. Len(t.exports) /\ t.exports[r.no] = exports[r.no] /\ r.no \in 1 .. Len(exports)
    <3>1. r.no \in 1 .. Len(exports) /\ r.no < MaxExports
      BY <1>3 DEF Compiled, HasRoom
    <3>2. QED
      BY <3>1, KeptFacts
  <2>2. exports \in Seq(Nat)
    BY FileAssumption DEF FileAssumption
  <2>3. t.exports[r.no] \in Nat
    BY <2>1, <2>2, ElementOfSeq
  <2>4. t.base + t.exports[r.no] \in Nat
    BY <2>3
  <2>5. InBank(CodeStart + (t.base + t.exports[r.no])) = InBank(t.base + t.exports[r.no])
    BY <2>4, CodeInBank
  <2>6. CodeStart + (t.base + t.exports[r.no]) = CodeStart + t.base + t.exports[r.no]
    <3>1. BankSize \in Nat
      BY FileAssumption DEF FileAssumption
    <3>2. QED
      BY <2>3, <3>1 DEF CodeStart
  <2>7. Exports(t, r.no)
    BY <2>1 DEF Exports
  <2>8. ExportOf(t, r.no, r.no) = t.base + t.exports[r.no]
    BY <2>7 DEF ExportOf
  <2>9. QED
    BY <1>3, <2>1, <2>5, <2>6, <2>7, <2>8
    DEF Bound, BoundInCode, BoundInTables, InTables, Shown, Address
<1>4. QED
  BY <1>1, <1>2, <1>3 DEF Kinds

\* What loadMod enters of a module.
LEMMA LaidEntry ==
  ASSUME NEW c, NEW wild
  PROVE  LET info == Laid(c, wild)
         IN  /\ info.name = c.name /\ info.base = nextCode /\ info.var = nextVar
             /\ info.exports = KeptExports(c.name) /\ info # None
             /\ \A b \in info.refs :
                  /\ b.r \in File[c.name].refs
                  /\ ~Stray(b.r) => b.to = Bound(b.r, nextCode, nextVar, c.map)
             /\ info.code = File[c.name].code /\ info.whole = (File[c.name].read = "all")
             /\ info.map = [k \in DOMAIN c.map |->
                     [name |-> c.map[k].name, base |-> c.map[k].base, var |-> c.map[k].var]]
<1> DEFINE info == Laid(c, wild)
<1>1. "base" \in DOMAIN info /\ "base" \notin DOMAIN None
  BY DEF Laid, None
<1>2. info # None
  BY <1>1
<1>3. /\ info.name = c.name /\ info.base = nextCode /\ info.var = nextVar
      /\ info.exports = KeptExports(c.name)
      /\ info.code = File[c.name].code /\ info.whole = (File[c.name].read = "all")
      /\ info.map = [k \in DOMAIN c.map |->
                     [name |-> c.map[k].name, base |-> c.map[k].base, var |-> c.map[k].var]]
  BY DEF Laid
<1>4. info.refs = {[r |-> r, to |-> IF Stray(r) THEN wild[r]
                                    ELSE Bound(r, nextCode, nextVar, c.map)] :
                      r \in {s \in File[c.name].refs : File[c.name].read = "all" \/ s.kind \in InTables}}
  BY DEF Laid
<1>5. QED
  BY <1>2, <1>3, <1>4

\* The list when loadMod has entered a module.
LEMMA ListGrows ==
  ASSUME NEW list, list \in Seq(ToSet(list)), NEW info
  PROVE  LET longer == <<info>> \o list
         IN  /\ longer \in Seq(ToSet(longer)) /\ ToSet(longer) = ToSet(list) \cup {info}
             /\ Len(list) \in Nat /\ Len(longer) = Len(list) + 1 /\ longer[1] = info
             /\ \A k \in 2 .. Len(list) + 1 : longer[k] = list[k - 1]
<1> DEFINE S == ToSet(list) \cup {info}
           longer == <<info>> \o list
           n == Len(list)
<1>1. list \in Seq(S) /\ n \in Nat /\ <<info>> \in Seq(S) /\ Len(<<info>>) = 1 /\ <<info>>[1] = info
  BY LenProperties
<1>2. /\ longer \in Seq(S) /\ Len(longer) = 1 + n
      /\ \A i \in 1 .. 1 + n : longer[i] = IF i <= 1 THEN <<info>>[i] ELSE list[i - 1]
  BY <1>1, ConcatProperties
<1>3. longer \in Seq(ToSet(longer))
  BY <1>2, OwnRange
<1>4. DOMAIN longer = 1 .. n + 1 /\ DOMAIN list = 1 .. n
  BY <1>1, <1>2, LenProperties
<1> HIDE DEF longer, n
<1>5. longer[1] = info /\ \A k \in 2 .. n + 1 : longer[k] = list[k - 1]
  BY <1>1, <1>2
<1>6. ToSet(longer) = S
  <2>1. ASSUME NEW x \in ToSet(longer) PROVE x \in S
    <3>1. PICK k \in 1 .. n + 1 : x = longer[k]
      BY <1>4, <2>1 DEF ToSet
    <3>2. k = 1 \/ (k \in 2 .. n + 1 /\ k - 1 \in 1 .. n)
      BY <1>1
    <3>3. QED
      BY <1>4, <1>5, <3>1, <3>2 DEF ToSet
  <2>2. ASSUME NEW x \in S PROVE x \in ToSet(longer)
    <3>1. CASE x = info
      <4>1. 1 \in 1 .. n + 1
        BY <1>1
      <4>2. QED
        BY <1>4, <1>5, <3>1, <4>1 DEF ToSet
    <3>2. CASE x # info
      <4>1. PICK k \in 1 .. n : x = list[k]
        BY <1>4, <2>2, <3>2 DEF ToSet
      <4>2. k + 1 \in 2 .. n + 1 /\ k + 1 - 1 = k /\ k + 1 \in 1 .. n + 1
        BY <1>1
      <4>3. QED
        BY <1>4, <1>5, <4>1, <4>2 DEF ToSet
    <3>3. QED
      BY <3>1, <3>2
  <2>3. QED
    BY <2>1, <2>2
<1>7. QED
  BY <1>1, <1>2, <1>3, <1>5, <1>6 DEF longer, n

\* The call that loadMod is in has its file, and knows what it has resolved.
LEMMA CallerKnows ==
  ASSUME IInv, Bindings, calls # <<>>
  PROVE  Good(Caller) /\ Resolving(Caller, ToSet(loaded))
<1>1. Good(Caller)
  BY GoodLast DEF IInv, Typed, Caller
<1>2. Len(calls) \in 1 .. Len(calls)
  BY EmptySeq DEF IInv, Typed, GoodSeq
<1>3. QED
  BY <1>1, <1>2 DEF Bindings, CallsOk, Caller

\* A module whose imports are all in the list does not import itself: nobody who
\* does is in the list.
LEMMA PlacedEntered ==
  ASSUME IInv, Bindings, Place, NEW wild
  PROVE  Entered(Laid(Caller, wild))
<1> DEFINE c == Caller
           info == Laid(c, wild)
<1>1. calls # <<>> /\ ~c.missing /\ Len(c.map) = Len(LookedUp(c.name))
  BY DEF Place, ImportsDone
<1>2. Good(c) /\ Resolving(c, ToSet(loaded))
  BY <1>1, CallerKnows
<1> HIDE DEF c
<1>3. info.name = c.name /\ info.exports = KeptExports(c.name) /\ info # None
  BY LaidEntry
<1>4. ASSUME NEW k \in 1 .. Len(LookedUp(c.name)), LookedUp(c.name)[k] = c.name PROVE FALSE
  <2>1. c.map[k] \in ToSet(loaded) /\ c.map[k].name = c.name
    BY <1>1, <1>2, <1>4 DEF Resolving
  <2>2. Entered(c.map[k])
    BY <2>1 DEF Bindings
  <2>3. QED
    BY <1>4, <2>1, <2>2 DEF Entered
<1> HIDE DEF info
<1>5. Entered(info)
  BY <1>2, <1>3, <1>4 DEF Entered, Good
<1>6. QED
  BY <1>5 DEF info, c

\* Its references are bound to what they mean.
LEMMA PlacedBinds ==
  ASSUME Compiled, IInv, Bindings, Place,
         NEW wild, NEW m, m = Laid(Caller, wild), loaded' = <<m>> \o loaded,
         NEW b \in m.refs, HasRoom(b.r)
  PROVE  \E t \in Meant(m, b.r)' : b.to = Shown(b.r.kind, Address(t, m, b.r))
<1> DEFINE c == Caller
<1>1. calls # <<>> /\ ~c.missing /\ Len(c.map) = Len(LookedUp(c.name))
  BY DEF Place, ImportsDone
<1>2. Good(c) /\ Resolving(c, ToSet(loaded)) /\ Entered(m)
  BY <1>1, CallerKnows, PlacedEntered
<1>3. loaded \in Seq(ToSet(loaded)) /\ nextCode \in Nat /\ \A k \in 1 .. Len(loaded) : loaded[k].base \in Nat
  BY DEF IInv, Typed, Area
<1>4. ToSet(loaded') = ToSet(loaded) \cup {m}
  BY <1>3, ListGrows
<1>5. m.name = c.name /\ m.base = nextCode /\ m.var = nextVar
  <2>1. m = Laid(c, wild)
    OBVIOUS
  <2> HIDE DEF c
  <2>2. QED
    BY <2>1 DEF Laid
<1> DEFINE r == b.r
<1>6. r \in File[c.name].refs /\ (~Stray(r) => b.to = Bound(r, nextCode, nextVar, c.map))
  BY LaidEntry
<1> HIDE DEF c, r
<1>7. c.name \in Names
  BY <1>2 DEF Good
<1>8. b.r = r /\ b.to = Bound(r, m.base, m.var, c.map) /\ HasRoom(r)
  <2>1. r.mno \in Nat /\ MaxImports \in Nat
    BY <1>6, <1>7, FileAssumption DEF FileAssumption
  <2>2. ~Stray(r) /\ HasRoom(r)
    BY <2>1 DEF Stray, HasRoom, r
  <2>3. QED
    BY <1>5, <1>6, <2>2 DEF r
<1>9. CASE r.mno = 0
  <2>1. Meant(m, b.r)' = {m}
    BY <1>8, <1>9 DEF Meant
  <2>2. b.to = Shown(r.kind, Address(m, m, r))
    BY <1>3, <1>5, <1>6, <1>7, <1>8, <1>9, BoundInOwn
  <2>3. QED
    BY <1>8, <2>1, <2>2
<1>10. CASE r.mno # 0
  <2> DEFINE t == Target(r, c.map)
  <2>1. r.mno \in 1 .. Len(LookedUp(c.name)) /\ LookedUp(c.name)[r.mno] = File[c.name].imports[r.mno]
    <3>1. File[c.name].imports \in Seq(STRING) /\ r.mno \in 0 .. Len(File[c.name].imports)
      BY <1>6, <1>7, FileAssumption DEF FileAssumption
    <3>2. r.mno \in 1 .. Len(File[c.name].imports) /\ r.mno < MaxImports
      BY <1>8, <1>10, <3>1, LenProperties DEF HasRoom
    <3>3. QED
      BY <1>7, <3>2, LookedUpFacts
  <2>2. t \in ToSet(loaded) /\ t.name = LookedUp(c.name)[r.mno]
    BY <1>1, <1>2, <2>1, TargetMeant
  <2>3. Entered(t)
    BY <2>2 DEF Bindings
  <2>4. t.base \in Nat
    <3>1. DOMAIN loaded = 1 .. Len(loaded)
      BY <1>3, LenProperties
    <3>2. QED
      BY <1>3, <2>2, <3>1 DEF ToSet
  <2>5. b.to = Shown(r.kind, Address(t, m, r))
    <3> HIDE DEF t
    <3>1. t # None /\ t.name \in Names /\ t.exports = KeptExports(t.name)
      BY <2>3 DEF Entered
    <3>2. Target(r, c.map) = t
      BY DEF t
    <3>3. Bound(r, m.base, m.var, c.map) = Shown(r.kind, Address(t, m, r))
      BY <1>6, <1>7, <1>8, <1>10, <2>1, <2>2, <2>4, <3>1, <3>2, BoundInImport
    <3>4. QED
      BY <1>8, <3>3
  <2>6. t # m
    <3>1. LookedUp(m.name)[r.mno] # m.name
      BY <1>2, <1>5, <2>1 DEF Entered
    <3>2. QED
      BY <1>5, <2>2, <3>1
  <2> HIDE DEF t
  <2>7. t \in Meant(m, b.r)'
    BY <1>4, <1>5, <1>8, <1>10, <2>1, <2>2, <2>6 DEF Meant
  <2>8. QED
    BY <1>8, <2>5, <2>7
<1>11. QED
  BY <1>9, <1>10

-----------------------------------------------------------------------------
(* The steps keep the bindings. *)

LEMMA ImportBinds ==
  ASSUME IInv, Bindings, Import
  PROVE  Bindings'
<1> DEFINE L == ToSet(loaded)
           c == Caller
           n == LookedUp(c.name)[Len(c.map) + 1]
           m == find_module_by_name(n)
<1>1. calls # <<>> /\ loaded' = loaded /\ GoodSeq(calls) /\ loaded \in Seq(L)
  BY DEF Import, IInv, Typed
<1>2. Good(c) /\ Resolving(c, L)
  BY <1>1, CallerKnows
<1>3. Awaits(c, n)
  BY DEF Import, Awaits
<1>4. Answers(m, n, L)
  BY <1>1, FindAnswers DEF find_module_by_name
<1>5. calls' = IF m = None /\ n \in Names THEN Append(calls, Call(n))
               ELSE [calls EXCEPT ![Len(calls)] = Resolved(c, m)]
  BY DEF Import
<1>6. CallsOk(calls, L)
  BY DEF Bindings
<1>7. c = calls[Len(calls)]
  BY DEF Caller
<1> HIDE DEF c, m, n, L
<1>8. CallsOk(calls', L)
  <2>1. CASE m = None /\ n \in Names
    <3>1. Resolving(Call(n), L) /\ Call(n).name = n
      BY <2>1, CallBegins
    <3>2. calls' = Append(calls, Call(n))
      BY <1>5, <2>1
    <3>3. QED
      BY <1>1, <1>3, <1>6, <1>7, <3>1, <3>2, CallsPush
  <2>2. CASE ~(m = None /\ n \in Names)
    <3>1. calls' = [calls EXCEPT ![Len(calls)] = Resolved(c, m)]
      BY <1>5, <2>2
    <3>2. Resolving(Resolved(c, m), L) /\ Resolved(c, m).name = c.name
      BY <1>2, <1>3, <1>4, ResolveOne, ResolvedFields
    <3>3. QED
      BY <1>1, <1>6, <1>7, <3>1, <3>2, CallsTop
  <2>3. QED
    BY <2>1, <2>2
<1>9. QED
  BY <1>1, <1>8 DEF Bindings, L

LEMMA PlaceKeepsBindings ==
  ASSUME IInv, Bindings, Place
  PROVE  Bindings' /\ \E wild : /\ loaded' = <<Laid(Caller, wild)>> \o loaded
                              /\ ToSet(loaded') = ToSet(loaded) \cup {Laid(Caller, wild)}
<1>0. PICK wild : LET laid == Laid(Caller, wild)
                  IN  /\ calls # <<>> /\ loaded' = <<laid>> \o loaded
                      /\ Return([name |-> laid.name, base |-> laid.base])
  BY DEF Place, ImportsDone
<1> DEFINE info == Laid(Caller, wild)
<1>1. /\ calls # <<>> /\ loaded' = <<info>> \o loaded
      /\ Return([name |-> info.name, base |-> info.base])
  BY <1>0
<1>2. GoodSeq(calls) /\ loaded \in Seq(ToSet(loaded))
  BY DEF IInv, Typed
<1>3. Entered(info)
  BY PlacedEntered
<1> HIDE DEF info
<1>4. ToSet(loaded') = ToSet(loaded) \cup {info} /\ loaded' \in Seq(ToSet(loaded'))
  BY <1>1, <1>2, ListGrows
<1>5. CallsOk(calls', ToSet(loaded'))
  BY <1>1, <1>2, <1>4, ReturnKeepsOk DEF Bindings
<1>6. Bindings'
  BY <1>3, <1>4, <1>5 DEF Bindings, Entered
<1>7. QED
  BY <1>1, <1>4, <1>6 DEF info

LEMMA PlaceKeepsReferences ==
  ASSUME Compiled, IInv, Bindings, ReferencesBind, Place
  PROVE  ReferencesBind'
<1>0. PICK wild : /\ loaded' = <<Laid(Caller, wild)>> \o loaded
                  /\ ToSet(loaded') = ToSet(loaded) \cup {Laid(Caller, wild)}
  BY PlaceKeepsBindings
<1> DEFINE info == Laid(Caller, wild)
<1> HIDE DEF info
<1>1. loaded' = <<info>> \o loaded /\ ToSet(loaded') = ToSet(loaded) \cup {info} /\ info = Laid(Caller, wild)
  BY <1>0 DEF info
<1>2. ASSUME NEW m \in ToSet(loaded), NEW b \in m.refs, HasRoom(b.r)
      PROVE  \E t \in Meant(m, b.r)' : b.to = Shown(b.r.kind, Address(t, m, b.r))
  <2>1. PICK t \in Meant(m, b.r) : b.to = Shown(b.r.kind, Address(t, m, b.r))
    BY <1>2 DEF ReferencesBind
  <2>2. t \in Meant(m, b.r)'
    BY <1>1, <2>1 DEF Meant
  <2>3. QED
    BY <2>1, <2>2
<1>3. ASSUME NEW m \in ToSet(loaded'), NEW b \in m.refs, HasRoom(b.r)
      PROVE  \E t \in Meant(m, b.r)' : b.to = Shown(b.r.kind, Address(t, m, b.r))
  <2>1. CASE m = info
    <3>1. b \in info.refs
      BY <1>3, <2>1
    <3>2. QED
      BY <1>1, <1>3, <2>1, <3>1, PlacedBinds
  <2>2. CASE m # info
    <3>1. m \in ToSet(loaded)
      BY <1>1, <1>3, <2>2
    <3>2. QED
      BY <1>2, <1>3, <3>1
  <2>3. QED
    BY <2>1, <2>2
<1>4. QED
  BY <1>3 DEF ReferencesBind, HasRoom, Meant, Address, Shown, InBank, CodeStart

\* The inductive invariant of the imports: each call under way has resolved the
\* first of those it looks up, at most fifteen of a file (MAX_IMPORTS), to modules
\* that are still in the list, whatever was loaded in between (loadMod).
THEOREM ImportsResolve == Spec => []Bindings
<1>1. Init => Bindings
  <2>1. SUFFICES ASSUME Init PROVE Bindings
    OBVIOUS
  <2>2. calls = <<>> /\ loaded = <<>>
    BY <2>1 DEF Init
  <2>3. ToSet(<<>>) = {} /\ Len(<<>>) = 0
    BY DEF ToSet
  <2>4. \A k \in 1 .. Len(<<>>) : FALSE
    BY <2>3
  <2>5. \A k \in 1 .. Len(<<>>) - 1 : FALSE
    BY <2>3
  <2>6. CallsOk(calls, ToSet(loaded))
    BY <2>2, <2>4, <2>5 DEF CallsOk
  <2>7. QED
    BY <2>2, <2>3, <2>6 DEF Bindings
<1>2. IInv /\ Bindings /\ [Next]_vars => Bindings'
  <2>1. SUFFICES ASSUME IInv, Bindings, [Next]_vars PROVE Bindings'
    OBVIOUS
  <2>2. loaded' = loaded /\ calls' = calls => Bindings'
    BY <2>1 DEF Bindings
  <2>3. CASE LoadNext
    <3>1. loaded' = loaded /\ calls = <<>>
      BY <2>3 DEF LoadNext
    <3>2. CASE Head(args) \in Names
      <4> DEFINE c == Call(Head(args))
                 L == ToSet(loaded)
      <4>1. calls' = <<c>>
        BY <2>3, <3>2 DEF LoadNext
      <4>2. Resolving(c, L)
        BY <3>2, CallBegins
      <4> HIDE DEF c, L
      <4>3. Len(<<c>>) = 1 /\ <<c>>[1] = c
        OBVIOUS
      <4>4. (\A k \in 1 .. Len(<<c>>) : k = 1) /\ (\A k \in 1 .. Len(<<c>>) - 1 : FALSE)
        BY <4>3
      <4>5. CallsOk(<<c>>, L)
        BY <4>2, <4>3, <4>4 DEF CallsOk
      <4>6. QED
        BY <2>1, <3>1, <4>1, <4>5 DEF Bindings, L
    <3>3. CASE Head(args) \notin Names
      <4>1. calls' = calls
        BY <2>3, <3>3 DEF LoadNext
      <4>2. QED
        BY <2>2, <3>1, <4>1
    <3>4. QED
      BY <3>2, <3>3
  <2>4. CASE Import
    BY <2>1, <2>4, ImportBinds
  <2>5. CASE GiveUp
    <3>1. calls # <<>> /\ loaded' = loaded /\ Return(None)
      BY <2>5 DEF GiveUp, ImportsDone
    <3>2. GoodSeq(calls) /\ loaded \in Seq(ToSet(loaded))
      BY <2>1 DEF IInv, Typed
    <3>3. CallsOk(calls, ToSet(loaded)) /\ ToSet(loaded) \subseteq ToSet(loaded') /\ loaded' \in Seq(ToSet(loaded'))
      BY <2>1, <3>1, <3>2 DEF Bindings
    <3>4. CallsOk(calls', ToSet(loaded'))
      BY <3>1, <3>2, <3>3, ReturnKeepsOk
    <3>5. QED
      BY <2>1, <3>1, <3>4 DEF Bindings
  <2>6. CASE Place
    BY <2>1, <2>6, PlaceKeepsBindings
  <2>7. CASE Start
    BY <2>2, <2>7 DEF Start
  <2>8. CASE RunNext
    BY <2>2, <2>8 DEF RunNext
  <2>9. CASE \E size \in Requests : New(size)
    BY <2>2, <2>9 DEF New
  <2>10. CASE UNCHANGED vars
    BY <2>2, <2>10 DEF vars
  <2>11. QED
    BY <2>1, <2>3, <2>4, <2>5, <2>6, <2>7, <2>8, <2>9, <2>10 DEF Next
<1>3. QED
  BY <1>1, <1>2, LoaderInvariance, PTL DEF Spec

\* Every reference to one of the first fifteen imports and, if to an export, to one
\* of the first 63 (MAX_IMPORTS, MAX_EXPORTS) leads to what it names, whoever loaded
\* that module and whatever was loaded or failed in between (apply_relocation, the
\* fixups of loadMod), for any files that were compiled against each other.
THEOREM ReferencesAreBound == ASSUME Compiled PROVE Spec => []ReferencesBind
<1>1. Init => ReferencesBind
  <2>1. SUFFICES ASSUME Init PROVE ReferencesBind
    OBVIOUS
  <2>2. loaded = <<>> /\ ToSet(<<>>) = {}
    BY <2>1 DEF Init, ToSet
  <2>3. QED
    BY <2>2 DEF ReferencesBind
<1>2. IInv /\ Bindings /\ ReferencesBind /\ [Next]_vars => ReferencesBind'
  <2>1. SUFFICES ASSUME IInv, Bindings, ReferencesBind, [Next]_vars PROVE ReferencesBind'
    OBVIOUS
  <2>2. CASE Place
    BY <2>1, <2>2, PlaceKeepsReferences
  <2>3. CASE ~Place
    <3>1. loaded' = loaded
      BY <2>1, <2>3 DEF Next, LoadNext, Import, GiveUp, Start, RunNext, New, vars
    <3>2. QED
      BY <2>1, <3>1 DEF ReferencesBind, HasRoom, Meant, Address, Shown, InBank, CodeStart
  <2>4. QED
    BY <2>2, <2>3
<1>3. QED
  BY <1>1, <1>2, LoaderInvariance, ImportsResolve, PTL DEF Spec

-----------------------------------------------------------------------------
(* The order of the list, of the entries and of the manifest. *)

\* How an entry names a module, and how the map of an importer does.
Id(m)   == [name |-> m.name, base |-> m.base]
Kept(m) == [name |-> m.name, base |-> m.base, var |-> m.var]

\* What a module is bound to was in the list before it.
OlderImports ==
  \A j \in 1 .. Len(loaded) : \A i \in DOMAIN loaded[j].map :
    \E k \in j + 1 .. Len(loaded) : loaded[j].map[i] = Kept(loaded[k])

\* The module j of the list has the place k among entries that are full so far.
Enters(j, k) ==
  /\ entries[k] = Id(loaded[j])
  /\ \A i \in j + 1 .. Len(loaded) : \E l \in 1 .. k - 1 : entries[l] = Id(loaded[i])

\* Entries are 0 or modules, and each has the whole list before it; as long as
\* there is room no module is left out.
EntriesInOrder ==
  /\ entries \in Seq(ToSet(entries))
  /\ \A k \in 1 .. Len(entries) : entries[k] = None \/ \E j \in 1 .. Len(loaded) : Enters(j, k)
  /\ Len(entries) < MaxEntries =>
         \A i \in 1 .. Len(loaded) : \E l \in 1 .. Len(entries) : entries[l] = Id(loaded[i])

Running == ran \in Nat /\ ran <= Len(entries) /\ (running => manifest = Manifest)

\* Files with a code section and a relocation table that can be read, and what
\* the list then has.
Readable == \A n \in Names : File[n].code > 0 /\ File[n].read # "bad"
Readied  == Readable => \A k \in 1 .. Len(loaded) : loaded[k].whole /\ loaded[k].code > 0

Ordered == OlderImports /\ EntriesInOrder /\ Running /\ Readied

LEMMA IdIsReal == ASSUME NEW m PROVE Id(m) # None
<1>1. "base" \in DOMAIN Id(m) /\ "base" \notin DOMAIN None
  BY DEF Id, None
<1>2. QED
  BY <1>1

\* A call that ends without a module, or a file that is not there, adds at most 0.
LEMMA EntriesGetNothing ==
  ASSUME EntriesInOrder, loaded' = loaded,
         \/ entries' = entries
         \/ Len(entries) < MaxEntries /\ entries' = Append(entries, None)
  PROVE  EntriesInOrder' /\ Len(entries) <= Len(entries')
<1> DEFINE n == Len(entries)
           S == ToSet(entries) \cup {None}
<1>1. entries \in Seq(S) /\ n \in Nat
  BY LenProperties DEF EntriesInOrder
<1>2. CASE entries' = entries
  <2>1. \A j, k : Enters(j, k)' <=> Enters(j, k)
    BY <1>2 DEF Enters, Id
  <2>2. EntriesInOrder'
    BY <1>2, <2>1 DEF EntriesInOrder, Id
  <2>3. QED
    BY <1>1, <1>2, <2>2
<1>3. CASE n < MaxEntries /\ entries' = Append(entries, None)
  <2>1. /\ entries' \in Seq(S) /\ Len(entries') = n + 1 /\ entries'[n + 1] = None
        /\ \A k \in 1 .. n : entries'[k] = entries[k]
    BY <1>1, <1>3, AppendProperties
  <2>2. entries' \in Seq(ToSet(entries'))
    BY <2>1, OwnRange
  <2> HIDE DEF n
  <2>3. \A k \in 1 .. Len(entries') : k = n + 1 \/ k \in 1 .. n
    BY <1>1, <2>1
  <2>4. ASSUME NEW j \in 1 .. Len(loaded), NEW k \in 1 .. n, Enters(j, k) PROVE Enters(j, k)'
    <3>1. \A l \in 1 .. k - 1 : l \in 1 .. n
      BY <1>1, <2>4
    <3>2. QED
      BY <2>1, <2>4, <3>1 DEF Enters, Id
  <2>5. \A k \in 1 .. Len(entries') : entries'[k] = None \/ \E j \in 1 .. Len(loaded') : Enters(j, k)'
    BY <2>1, <2>3, <2>4 DEF EntriesInOrder, n
  <2>6. \A i \in 1 .. Len(loaded') : \E l \in 1 .. Len(entries') : entries'[l] = Id(loaded'[i])
    <3>1. \A i \in 1 .. Len(loaded) : \E l \in 1 .. n : entries[l] = Id(loaded[i])
      BY <1>3 DEF EntriesInOrder, n
    <3>2. \A l \in 1 .. n : l \in 1 .. Len(entries')
      BY <1>1, <2>1
    <3>3. QED
      BY <2>1, <3>1, <3>2
  <2>7. QED
    BY <1>1, <2>1, <2>2, <2>5, <2>6 DEF EntriesInOrder, Id, n
<1>4. QED
  BY <1>2, <1>3

\* loadMod ends with the module it has entered at the front of the list.
LEMMA EntriesGetModule ==
  ASSUME EntriesInOrder, loaded \in Seq(ToSet(loaded)), NEW info, loaded' = <<info>> \o loaded,
         entries' = IF Len(entries) < MaxEntries THEN Append(entries, Id(info)) ELSE entries
  PROVE  EntriesInOrder' /\ Len(entries) <= Len(entries')
<1> DEFINE n == Len(entries)
           N == Len(loaded)
           S == ToSet(entries) \cup {Id(info)}
<1>1. entries \in Seq(S) /\ n \in Nat
  BY LenProperties DEF EntriesInOrder
<1>2. /\ N \in Nat /\ Len(loaded') = N + 1 /\ loaded'[1] = info
      /\ \A k \in 2 .. N + 1 : loaded'[k] = loaded[k - 1]
  BY ListGrows
<1>3. n <= Len(entries') /\ \A k \in 1 .. n : entries'[k] = entries[k]
  BY <1>1, AppendProperties
<1>4. entries' \in Seq(ToSet(entries'))
  <2>1. entries' \in Seq(S)
    BY <1>1, AppendProperties
  <2>2. QED
    BY <2>1, OwnRange
<1> HIDE DEF n, N
<1>5. ASSUME NEW j \in 1 .. N, NEW k \in 1 .. n, Enters(j, k) PROVE Enters(j + 1, k)'
  <2>1. j + 1 \in 2 .. N + 1 /\ j + 1 - 1 = j
    BY <1>2
  <2>2. entries'[k] = Id(loaded'[j + 1])
    <3>1. loaded'[j + 1] = loaded[j]
      BY <1>2, <2>1
    <3>2. entries[k] = Id(loaded[j])
      BY <1>5 DEF Enters
    <3>3. QED
      BY <1>3, <3>1, <3>2
  <2>3. ASSUME NEW i \in j + 1 + 1 .. Len(loaded')
        PROVE  \E l \in 1 .. k - 1 : entries'[l] = Id(loaded'[i])
    <3>1. i - 1 \in j + 1 .. N /\ i \in 2 .. N + 1
      BY <1>2, <2>3
    <3>2. PICK l \in 1 .. k - 1 : entries[l] = Id(loaded[i - 1])
      BY <1>5, <3>1 DEF Enters, N
    <3>3. l \in 1 .. n
      BY <1>1, <3>2
    <3>4. QED
      BY <1>2, <1>3, <3>1, <3>2, <3>3
  <2>4. QED
    BY <2>2, <2>3 DEF Enters, Id
<1>6. \A k \in 1 .. n : entries'[k] = None \/ \E j \in 1 .. Len(loaded') : Enters(j, k)'
  <2>1. SUFFICES ASSUME NEW k \in 1 .. n, entries'[k] # None
                 PROVE  \E j \in 1 .. Len(loaded') : Enters(j, k)'
    OBVIOUS
  <2>2. PICK j \in 1 .. N : Enters(j, k)
    BY <1>3, <2>1 DEF EntriesInOrder, n, N
  <2>3. j + 1 \in 1 .. Len(loaded')
    BY <1>2
  <2>4. QED
    BY <1>5, <2>2, <2>3
<1>7. CASE n < MaxEntries
  <2>1. entries' = Append(entries, Id(info))
    BY <1>7 DEF n
  <2>2. Len(entries') = n + 1 /\ entries'[n + 1] = Id(info)
    BY <1>1, <2>1, AppendProperties DEF n
  <2>3. \A i \in 1 .. N : \E l \in 1 .. n : entries[l] = Id(loaded[i])
    BY <1>7 DEF EntriesInOrder, n, N
  <2>4. ASSUME NEW i \in 2 .. N + 1 PROVE \E l \in 1 .. n : entries'[l] = Id(loaded'[i])
    <3>1. i - 1 \in 1 .. N
      BY <1>2
    <3>2. QED
      BY <1>2, <1>3, <2>3, <3>1
  <2>5. ASSUME NEW k, k = n + 1 PROVE Enters(1, k)'
    <3>1. \A i \in 1 + 1 .. Len(loaded') : i \in 2 .. N + 1
      BY <1>2
    <3>2. k - 1 = n
      BY <1>1, <2>5
    <3>3. QED
      BY <1>2, <2>2, <2>4, <2>5, <3>1, <3>2 DEF Enters, Id
  <2>6. \A k \in 1 .. Len(entries') : k \in 1 .. n \/ k = n + 1
    BY <1>1, <2>2
  <2>7. 1 \in 1 .. Len(loaded')
    BY <1>2
  <2>8. \A k \in 1 .. Len(entries') : entries'[k] = None \/ \E j \in 1 .. Len(loaded') : Enters(j, k)'
    BY <1>6, <2>5, <2>6, <2>7
  <2>9. ASSUME NEW i \in 1 .. Len(loaded') PROVE \E l \in 1 .. Len(entries') : entries'[l] = Id(loaded'[i])
    <3>1. n + 1 \in 1 .. Len(entries') /\ \A l \in 1 .. n : l \in 1 .. Len(entries')
      BY <1>1, <2>2
    <3>2. i = 1 \/ i \in 2 .. N + 1
      BY <1>2, <2>9
    <3>3. QED
      BY <1>2, <2>2, <2>4, <3>1, <3>2
  <2>10. QED
    BY <1>3, <1>4, <2>8, <2>9 DEF EntriesInOrder, Id, n
<1>8. CASE ~(n < MaxEntries)
  <2>1. entries' = entries
    BY <1>8 DEF n
  <2>2. Len(entries') = n /\ ~(Len(entries') < MaxEntries)
    BY <1>8, <2>1 DEF n
  <2>3. QED
    BY <1>3, <1>4, <1>6, <2>2 DEF EntriesInOrder, Id, n
<1>9. QED
  BY <1>7, <1>8

\* The map of the module that is placed names modules of the list.
LEMMA PlacedImports ==
  ASSUME IInv, Bindings, Ordered, Place, NEW wild, NEW info, info = Laid(Caller, wild),
         loaded' = <<info>> \o loaded
  PROVE  OlderImports'
<1> DEFINE c == Caller
           N == Len(loaded)
<1>0. info = Laid(c, wild)
  OBVIOUS
<1>1. calls # <<>> /\ ~c.missing /\ Len(c.map) = Len(LookedUp(c.name))
  BY DEF Place, ImportsDone
<1>2. Resolving(c, ToSet(loaded))
  BY <1>1, CallerKnows
<1> HIDE DEF c
<1>3. info.map = [k \in DOMAIN c.map |->
                     [name |-> c.map[k].name, base |-> c.map[k].base, var |-> c.map[k].var]]
  BY <1>0, LaidEntry
<1>4. loaded \in Seq(ToSet(loaded)) /\ DOMAIN loaded = 1 .. N
  BY LenProperties DEF IInv, Typed
<1>5. /\ N \in Nat /\ Len(loaded') = N + 1 /\ loaded'[1] = info
      /\ \A k \in 2 .. N + 1 : loaded'[k] = loaded[k - 1]
  BY <1>4, ListGrows
<1> HIDE DEF N
<1>6. ASSUME NEW i \in DOMAIN info.map
      PROVE  \E k \in 1 + 1 .. Len(loaded') : info.map[i] = Kept(loaded'[k])
  <2>1. i \in 1 .. Len(c.map) /\ info.map[i] = Kept(c.map[i])
    <3>1. i \in DOMAIN c.map /\ info.map[i] = Kept(c.map[i])
      BY <1>3, <1>6 DEF Kept
    <3>2. DOMAIN c.map = 1 .. Len(c.map)
      BY <1>2, LenProperties DEF Resolving
    <3>3. QED
      BY <3>1, <3>2
  <2>2. c.map[i] \in ToSet(loaded)
    BY <1>1, <1>2, <2>1 DEF Resolving
  <2>3. PICK k \in 1 .. N : c.map[i] = loaded[k]
    BY <1>4, <2>2 DEF ToSet
  <2>4. k + 1 \in 2 .. N + 1 /\ k + 1 - 1 = k /\ k + 1 \in 1 + 1 .. Len(loaded')
    BY <1>5
  <2>5. info.map[i] = Kept(loaded'[k + 1])
    BY <1>5, <2>1, <2>3, <2>4
  <2>6. QED
    BY <2>4, <2>5
<1>7. ASSUME NEW j \in 2 .. N + 1, NEW i \in DOMAIN loaded'[j].map
      PROVE  \E k \in j + 1 .. Len(loaded') : loaded'[j].map[i] = Kept(loaded'[k])
  <2>1. loaded'[j] = loaded[j - 1] /\ j - 1 \in 1 .. N
    BY <1>5
  <2>2. PICK k \in j - 1 + 1 .. N : loaded[j - 1].map[i] = Kept(loaded[k])
    BY <1>7, <2>1 DEF Ordered, OlderImports, N
  <2>3. k + 1 \in j + 1 .. Len(loaded') /\ k + 1 \in 2 .. N + 1 /\ k + 1 - 1 = k
    BY <1>5, <2>2
  <2>4. loaded'[j].map[i] = Kept(loaded'[k + 1])
    BY <1>5, <2>1, <2>2, <2>3
  <2>5. QED
    BY <2>3, <2>4
<1>8. \A j \in 1 .. Len(loaded') : j = 1 \/ j \in 2 .. N + 1
  BY <1>5
<1>9. ASSUME NEW j \in 1 .. Len(loaded'), NEW i \in DOMAIN loaded'[j].map
      PROVE  \E k \in j + 1 .. Len(loaded') : loaded'[j].map[i] = Kept(loaded'[k])
  <2>1. CASE j = 1
    BY <1>5, <1>6, <1>9, <2>1
  <2>2. CASE j # 1
    BY <1>7, <1>8, <1>9, <2>2
  <2>3. QED
    BY <2>1, <2>2
<1>10. QED
  BY <1>9 DEF OlderImports, Kept

LEMMA PlaceKeepsOrder ==
  ASSUME IInv, Bindings, Ordered, Place
  PROVE  Ordered'
<1>0. PICK wild : LET laid == Laid(Caller, wild)
                  IN  /\ loaded' = <<laid>> \o loaded
                      /\ Return([name |-> laid.name, base |-> laid.base])
  BY DEF Place
<1> DEFINE c == Caller
           info == Laid(c, wild)
<1>1. /\ calls # <<>> /\ ~running /\ loaded' = <<info>> \o loaded
      /\ Return([name |-> info.name, base |-> info.base])
      /\ running' = running /\ ran' = ran
      /\ File[c.name].read # "cut"
  BY <1>0 DEF Place, ImportsDone, IInv, Phases
<1>2. Good(c)
  BY <1>1, CallerKnows
<1> HIDE DEF c
<1>3. info.code = File[c.name].code /\ info.whole = (File[c.name].read = "all")
  BY LaidEntry
<1> HIDE DEF info
<1>4. loaded \in Seq(ToSet(loaded))
  BY DEF IInv, Typed
<1>5. entries' = IF Len(entries) < MaxEntries THEN Append(entries, Id(info)) ELSE entries
  <2>1. [name |-> info.name, base |-> info.base] = Id(info) /\ Id(info) # None
    BY IdIsReal DEF Id
  <2>2. QED
    BY <1>1, <2>1 DEF Return
<1>6. EntriesInOrder' /\ Len(entries) <= Len(entries')
  BY <1>1, <1>4, <1>5, EntriesGetModule DEF Ordered
<1>7. OlderImports'
  BY <1>0, PlacedImports
<1>8. Running'
  <2>1. Len(entries) \in Nat /\ Len(entries') \in Nat
    BY <1>6, LenProperties DEF Ordered, EntriesInOrder
  <2>2. QED
    BY <1>1, <1>6, <2>1 DEF Ordered, Running
<1>9. Readied'
  <2>1. SUFFICES ASSUME Readable PROVE \A k \in 1 .. Len(loaded') : loaded'[k].whole /\ loaded'[k].code > 0
    BY DEF Readied
  <2>2. File[c.name].read = "all" /\ File[c.name].code > 0
    BY <1>1, <1>2, <2>1, FileAssumption DEF FileAssumption, Good, Readable
  <2>3. /\ Len(loaded) \in Nat /\ Len(loaded') = Len(loaded) + 1 /\ loaded'[1] = info
        /\ \A k \in 2 .. Len(loaded) + 1 : loaded'[k] = loaded[k - 1]
    BY <1>1, <1>4, ListGrows
  <2>4. \A k \in 1 .. Len(loaded') : k = 1 \/ (k \in 2 .. Len(loaded) + 1 /\ k - 1 \in 1 .. Len(loaded))
    BY <2>3
  <2>5. QED
    BY <1>3, <2>1, <2>2, <2>3, <2>4 DEF Ordered, Readied
<1>10. QED
  BY <1>6, <1>7, <1>8, <1>9 DEF Ordered

\* A step that loads nothing and adds at most 0 to the entries.
LEMMA OrderUntouched ==
  ASSUME Ordered, loaded' = loaded,
         \/ entries' = entries
         \/ Len(entries) < MaxEntries /\ entries' = Append(entries, None),
         ran' = ran, running' => manifest' = Manifest
  PROVE  Ordered'
<1>1. EntriesInOrder' /\ Len(entries) <= Len(entries')
  BY EntriesGetNothing DEF Ordered
<1>2. Len(entries) \in Nat /\ Len(entries') \in Nat
  BY <1>1, LenProperties DEF Ordered, EntriesInOrder
<1>3. OlderImports' /\ Readied'
  BY DEF Ordered, OlderImports, Kept, Readied
<1>4. Running'
  BY <1>1, <1>2 DEF Ordered, Running, Manifest
<1>5. QED
  BY <1>1, <1>3, <1>4 DEF Ordered

\* The inductive invariant of the order: main's entries, the list and the manifest
\* have every module behind those it is bound to (loadMod, main).
THEOREM ListKeepsOrder == Spec => []Ordered
<1>1. Init => Ordered
  <2>1. SUFFICES ASSUME Init PROVE Ordered
    OBVIOUS
  <2>2. loaded = <<>> /\ entries = <<>> /\ ran = 0
    BY <2>1 DEF Init
  <2>3. running = FALSE
    BY <2>1 DEF Init
  <2>4. <<>> \in Seq(ToSet(<<>>)) /\ Len(<<>>) = 0
    BY EmptySeq
  <2>5. \A k \in 1 .. Len(<<>>) : FALSE
    BY <2>4
  <2>6. OlderImports /\ EntriesInOrder /\ Readied
    BY <2>2, <2>4, <2>5 DEF OlderImports, EntriesInOrder, Readied
  <2>7. Running
    BY <2>2, <2>3, <2>4 DEF Running
  <2>8. QED
    BY <2>6, <2>7 DEF Ordered
<1>2. IInv /\ Bindings /\ Ordered /\ [Next]_vars => Ordered'
  <2>1. SUFFICES ASSUME IInv, Bindings, Ordered, [Next]_vars PROVE Ordered'
    OBVIOUS
  <2>2. calls # <<>> => ~running
    BY <2>1 DEF IInv, Phases
  <2>3. CASE LoadNext
    <3>1. loaded' = loaded /\ ran' = ran /\ running' = running /\ ~running
      BY <2>3 DEF LoadNext
    <3>2. \/ entries' = entries
          \/ Len(entries) < MaxEntries /\ entries' = Append(entries, None)
      BY <2>3 DEF LoadNext
    <3>3. QED
      BY <2>1, <3>1, <3>2, OrderUntouched
  <2>4. CASE Import
    <3>1. UNCHANGED <<loaded, entries, ran, running>> /\ ~running
      BY <2>2, <2>4 DEF Import
    <3>2. QED
      BY <2>1, <3>1, OrderUntouched
  <2>5. CASE GiveUp
    <3>1. UNCHANGED <<loaded, ran, running>> /\ ~running
      BY <2>2, <2>5 DEF GiveUp, ImportsDone
    <3>2. \/ entries' = entries
          \/ Len(entries) < MaxEntries /\ entries' = Append(entries, None)
      BY <2>5 DEF GiveUp, Return
    <3>3. QED
      BY <2>1, <3>1, <3>2, OrderUntouched
  <2>6. CASE Place
    BY <2>1, <2>6, PlaceKeepsOrder
  <2>7. CASE Start
    <3>1. UNCHANGED <<loaded, entries, ran>> /\ manifest' = Manifest
      BY <2>7 DEF Start
    <3>2. QED
      BY <2>1, <3>1, OrderUntouched
  <2>8. CASE RunNext
    <3>1. UNCHANGED <<loaded, entries, running, manifest>> /\ ran' = ran + 1 /\ ran < Len(entries)
      BY <2>8 DEF RunNext
    <3>2. Len(entries) \in Nat
      BY <2>1, LenProperties DEF Ordered, EntriesInOrder
    <3>3. OlderImports' /\ EntriesInOrder' /\ Readied'
      BY <2>1, <3>1 DEF Ordered, OlderImports, EntriesInOrder, Enters, Readied, Id, Kept
    <3>4. Running'
      BY <2>1, <3>1, <3>2 DEF Ordered, Running, Manifest
    <3>5. QED
      BY <3>3, <3>4 DEF Ordered
  <2>9. CASE \E size \in Requests : New(size)
    <3>1. UNCHANGED <<loaded, entries, ran, running, manifest>>
      BY <2>9 DEF New
    <3>2. QED
      BY <2>1, <3>1, OrderUntouched DEF Ordered, Running
  <2>10. CASE UNCHANGED vars
    <3>1. UNCHANGED <<loaded, entries, ran, running, manifest>>
      BY <2>10 DEF vars
    <3>2. QED
      BY <2>1, <3>1, OrderUntouched DEF Ordered, Running
  <2>11. QED
    BY <2>1, <2>3, <2>4, <2>5, <2>6, <2>7, <2>8, <2>9, <2>10 DEF Next
<1>3. QED
  BY <1>1, <1>2, LoaderInvariance, ImportsResolve, PTL DEF Spec

\* The manifest of a list that fits is the list, the oldest first.
LEMMA ManifestIsList ==
  ASSUME loaded \in Seq(ToSet(loaded)), Len(loaded) <= MaxEntries
  PROVE  LET n == Len(loaded)
         IN  /\ DOMAIN Manifest = 1 .. n
             /\ \A k \in 1 .. n :
                  LET m == loaded[n - k + 1]
                  IN  Manifest[k] = [name |-> m.name, base |-> m.base, var |-> m.var, exports |-> m.exports]
<1> DEFINE n == Len(loaded)
           kept == Upto(loaded, MaxEntries)
<1>1. n \in Nat /\ MaxEntries \in Nat /\ \A k \in 1 .. n : loaded[k] \in ToSet(loaded)
  BY LenProperties, ElementOfSeq, FileAssumption DEF FileAssumption
<1>2. kept \in Seq(ToSet(loaded)) /\ Len(kept) = n /\ \A k \in 1 .. n : kept[k] = loaded[k]
  <2>1. (IF Len(loaded) < MaxEntries THEN Len(loaded) ELSE MaxEntries) = n
    BY <1>1
  <2>2. QED
    BY <1>1, <2>1, UptoFacts
<1>3. DOMAIN kept = 1 .. n
  BY <1>2, LenProperties
<1>4. Manifest = [k \in DOMAIN kept |->
                    LET m == Reverse(kept)[k]
                    IN  [name |-> m.name, base |-> m.base, var |-> m.var, exports |-> m.exports]]
  BY DEF Manifest
<1> HIDE DEF kept, n
<1>5. ASSUME NEW k \in 1 .. n PROVE Reverse(kept)[k] = loaded[n - k + 1]
  <2>1. n - k + 1 \in 1 .. n /\ n - k + 1 = (n - k) + 1
    BY <1>1
  <2>2. Reverse(kept)[k] = kept[(n - k) + 1]
    BY <1>2 DEF Reverse
  <2>3. QED
    BY <1>2, <2>1, <2>2
<1>6. QED
  BY <1>3, <1>4, <1>5 DEF n

\* Modules that were read to the end and have code lie at different places.
LEMMA BasesDiffer ==
  ASSUME IInv, \A k \in 1 .. Len(loaded) : loaded[k].whole /\ loaded[k].code > 0,
         NEW j \in 1 .. Len(loaded), NEW k \in 1 .. Len(loaded), loaded[j].base = loaded[k].base
  PROVE  j = k
<1>1. DOMAIN loaded = 1 .. Len(loaded) /\ Len(loaded) \in Nat
  BY LenProperties DEF IInv, Typed
<1>2. j \in Whole /\ k \in Whole
  BY <1>1 DEF Whole
<1>3. Area(loaded[j]) /\ Area(loaded[k]) /\ loaded[j].code > 0 /\ loaded[k].code > 0
  BY DEF IInv, Typed
<1>4. ~(j < k)
  BY <1>2, <1>3 DEF IInv, Stacked, Below, Area
<1>5. ~(k < j)
  BY <1>2, <1>3 DEF IInv, Stacked, Below, Area
<1>6. QED
  BY <1>1, <1>4, <1>5

LEMMA ImportsFirstFollows ==
  ASSUME Readable, IInv, Ordered
  PROVE  ImportsComeFirst
<1> DEFINE n == Len(loaded)
<1>1. loaded \in Seq(ToSet(loaded)) /\ DOMAIN loaded = 1 .. n /\ n \in Nat
  BY LenProperties DEF IInv, Typed
<1>2. \A k \in 1 .. n : loaded[k].whole /\ loaded[k].code > 0
  BY DEF Ordered, Readied
<1>3. Len(entries) \in Nat /\ ran \in Nat /\ ran <= Len(entries)
  BY LenProperties DEF Ordered, EntriesInOrder, Running
<1> HIDE DEF n
<1>4. ASSUME NEW m \in ToSet(loaded), NEW k \in 1 .. ran,
             entries[k] = [name |-> m.name, base |-> m.base], NEW i \in DOMAIN m.map
      PROVE  \E j \in 1 .. k - 1 : entries[j] = [name |-> m.map[i].name, base |-> m.map[i].base]
  <2>1. PICK p \in 1 .. n : m = loaded[p]
    BY <1>1, <1>4 DEF ToSet
  <2>2. k \in 1 .. Len(entries) /\ entries[k] = Id(m) /\ entries[k] # None
    BY <1>3, <1>4, IdIsReal DEF Id
  <2>3. PICK q \in 1 .. n : Enters(q, k)
    BY <2>2 DEF Ordered, EntriesInOrder, n
  <2>4. loaded[q].base = m.base
    <3>1. Id(m) = Id(loaded[q])
      BY <2>2, <2>3 DEF Enters
    <3>2. QED
      BY <3>1 DEF Id
  <2>5. p = q
    BY <1>2, <2>1, <2>4, BasesDiffer DEF n
  <2>6. PICK r \in p + 1 .. n : m.map[i] = Kept(loaded[r])
    BY <1>4, <2>1 DEF Ordered, OlderImports, n
  <2>7. PICK l \in 1 .. k - 1 : entries[l] = Id(loaded[r])
    BY <2>3, <2>5, <2>6 DEF Enters, n
  <2>8. Id(loaded[r]) = [name |-> m.map[i].name, base |-> m.map[i].base]
    BY <2>6 DEF Id, Kept
  <2>9. QED
    BY <2>7, <2>8
<1>5. ASSUME NEW m \in ToSet(loaded), running, n <= MaxEntries
      PROVE  \E k \in DOMAIN manifest :
               /\ manifest[k].name = m.name /\ manifest[k].base = m.base
               /\ \A i \in DOMAIN m.map :
                      \E j \in 1 .. k - 1 :
                          manifest[j].name = m.map[i].name /\ manifest[j].var = m.map[i].var
  <2>1. PICK p \in 1 .. n : m = loaded[p]
    BY <1>1, <1>5 DEF ToSet
  <2>2. manifest = Manifest
    BY <1>5 DEF Ordered, Running
  <2>3. /\ DOMAIN manifest = 1 .. n
        /\ \A k \in 1 .. n : manifest[k] = [name |-> loaded[n - k + 1].name, base |-> loaded[n - k + 1].base,
                                            var |-> loaded[n - k + 1].var, exports |-> loaded[n - k + 1].exports]
    BY <1>1, <1>5, <2>2, ManifestIsList DEF n
  <2> DEFINE k == n - p + 1
  <2>4. k \in 1 .. n /\ n - k + 1 = p
    BY <1>1
  <2> HIDE DEF k
  <2>5. manifest[k].name = m.name /\ manifest[k].base = m.base
    BY <2>1, <2>3, <2>4
  <2>6. ASSUME NEW i \in DOMAIN m.map
        PROVE  \E j \in 1 .. k - 1 : manifest[j].name = m.map[i].name /\ manifest[j].var = m.map[i].var
    <3>1. PICK r \in p + 1 .. n : m.map[i] = Kept(loaded[r])
      BY <2>1, <2>6 DEF Ordered, OlderImports, n
    <3>2. n - r + 1 \in 1 .. k - 1 /\ n - r + 1 \in 1 .. n /\ n - (n - r + 1) + 1 = r
      BY <1>1, <2>4, <3>1
    <3>3. manifest[n - r + 1].name = loaded[r].name /\ manifest[n - r + 1].var = loaded[r].var
      BY <2>3, <3>2
    <3>4. m.map[i].name = loaded[r].name /\ m.map[i].var = loaded[r].var
      BY <3>1 DEF Kept
    <3>5. QED
      BY <3>2, <3>3, <3>4
  <2>7. QED
    BY <2>3, <2>4, <2>5, <2>6
<1>6. QED
  BY <1>4, <1>5 DEF ImportsComeFirst, n

\* Bodies run after those of the modules they are bound to, also when there are
\* more modules than entries, and the manifest has the modules in that order
\* (run_modules, main).  A file whose relocation table cannot be read may be
\* loaded twice to the same place, and an entry no longer tells which is meant.
THEOREM ImportsRunFirst == ASSUME Readable PROVE Spec => []ImportsComeFirst
  BY LoaderInvariance, ListKeepsOrder, ImportsFirstFollows, PTL

=============================================================================
