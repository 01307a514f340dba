----------------------- MODULE MemoryManager_proofs -----------------------
(***************************************************************************)
(* What MemoryManager keeps for every size of table and zone.  The         *)
(* inductive invariant is IInv: the type invariant, the order of the table *)
(* and its agreement with the blocks callers hold.  Insertion, coalescing  *)
(* and carving are first described one by one, over any ordered table.     *)
(***************************************************************************)
EXTENDS MemoryManager, WellFoundedInduction, SequenceTheorems, TLAPS

-----------------------------------------------------------------------------
(* Induction over the naturals, and functions defined by recursion.        *)

Less == {p \in Nat \X Nat : p[1] < p[2]}

\* Every nonempty set of naturals has a least element: the form of induction the
\* loop proofs use, on the set of counterexamples.
LEMMA LeastElement ==
  ASSUME NEW T \in SUBSET Nat, T # {}
  PROVE  \E n \in T : \A m \in T : n <= m
<1>1. IsWellFoundedOn(Less, Nat)
  BY NatLessThanWellFounded DEF OpToRel, Less
<1>2. PICK n \in T : \A m \in T : ~ (<<m, n>> \in Less)
  BY <1>1, WFMin
<1>3. ASSUME NEW m \in T PROVE n <= m
  <2>1. n \in Nat /\ m \in Nat
    OBVIOUS
  <2>2. ~ (m < n)
    BY <1>2, <2>1 DEF Less
  <2>3. QED
    BY <2>1, <2>2
<1>4. QED
  BY <1>3

StepFunctions(N, T) == [T \X (1 .. N) -> T]

\* The functions that start at a and follow the step g.
Recursions(N, T, a, g) ==
  {f \in [0 .. N -> T] : f[0] = a /\ \A n \in 1 .. N : f[n] = g[<<f[n - 1], n>>]}

\* A recursion over 0..N whose steps stay in T defines a function into T.
LEMMA RecursionOnInterval ==
  ASSUME NEW N \in Nat, NEW T, NEW a \in T, NEW g \in StepFunctions(N, T)
  PROVE  Recursions(N, T, a, g) # {}
<1>0. g \in [T \X (1 .. N) -> T]
  BY DEF StepFunctions
<1> DEFINE Upto(k) == \E f \in [0 .. k -> T] :
                        /\ f[0] = a
                        /\ \A n \in 1 .. k : f[n] = g[<<f[n - 1], n>>]
           Bad == {k \in 0 .. N : ~Upto(k)}
<1>1. Upto(0)
  <2>1. [n \in 0 .. 0 |-> a] \in [0 .. 0 -> T]
    OBVIOUS
  <2>2. [n \in 0 .. 0 |-> a][0] = a
    OBVIOUS
  <2>3. \A n \in 1 .. 0 : FALSE
    OBVIOUS
  <2>4. QED
    BY <2>1, <2>2, <2>3
<1>2. ASSUME NEW k \in 1 .. N, Upto(k - 1) PROVE Upto(k)
  <2>1. PICK f \in [0 .. (k - 1) -> T] :
               /\ f[0] = a
               /\ \A n \in 1 .. (k - 1) : f[n] = g[<<f[n - 1], n>>]
    BY <1>2
  <2> DEFINE h == [n \in 0 .. k |-> IF n = k THEN g[<<f[k - 1], k>>] ELSE f[n]]
  <2>2. f[k - 1] \in T
    OBVIOUS
  <2>3. g[<<f[k - 1], k>>] \in T
    BY <1>0, <2>2
  <2>4. \A n \in 0 .. (k - 1) : n \in 0 .. k /\ n # k
    OBVIOUS
  <2>5. \A n \in 0 .. k : n # k => n \in 0 .. (k - 1)
    OBVIOUS
  <2>6. h \in [0 .. k -> T]
    BY <2>3, <2>5
  <2>7. h[0] = a
    BY <2>1, <2>4
  <2>8. ASSUME NEW n \in 1 .. k PROVE h[n] = g[<<h[n - 1], n>>]
    <3>1. n \in 0 .. k /\ n - 1 \in 0 .. k /\ n - 1 # k
      OBVIOUS
    <3>2. h[n - 1] = f[n - 1]
      BY <3>1
    <3>3. CASE n = k
      BY <3>1, <3>2, <3>3
    <3>4. CASE n # k
      <4>1. n \in 1 .. (k - 1)
        BY <3>4
      <4>2. h[n] = f[n]
        BY <3>1, <3>4
      <4>3. QED
        BY <2>1, <3>2, <4>1, <4>2
    <3>5. QED
      BY <3>3, <3>4
  <2>9. QED
    BY <2>6, <2>7, <2>8
<1>3. Bad = {}
  <2>1. SUFFICES ASSUME Bad # {} PROVE FALSE
    OBVIOUS
  <2>2. Bad \in SUBSET Nat
    OBVIOUS
  <2>3. PICK k \in Bad : \A m \in Bad : k <= m
    BY <2>1, <2>2, LeastElement
  <2>4. k # 0
    BY <1>1
  <2>5. k \in 1 .. N /\ k - 1 \in 0 .. N /\ ~(k <= k - 1)
    BY <2>4
  <2>6. Upto(k - 1)
    BY <2>3, <2>5
  <2>7. QED
    BY <1>2, <2>5, <2>6
<1>4. Upto(N)
  <2>1. N \in 0 .. N
    OBVIOUS
  <2>2. QED
    BY <1>3, <2>1
<1>5. QED
  BY <1>4 DEF Recursions

-----------------------------------------------------------------------------

Tables == Seq(SegmentType)

\* Inserting a segment shifts the later ones up by one.
LEMMA InsertAtShifts ==
  ASSUME NEW s \in Tables, NEW i \in 1 .. Len(s) + 1, NEW e \in SegmentType
  PROVE  /\ InsertAt(s, i, e) \in Tables
         /\ Len(InsertAt(s, i, e)) = Len(s) + 1
         /\ \A j \in 1 .. Len(s) + 1 :
              InsertAt(s, i, e)[j] = IF j < i THEN s[j] ELSE IF j = i THEN e ELSE s[j - 1]
<1> DEFINE lo == SubSeq(s, 1, i - 1)
           hi == SubSeq(s, i, Len(s))
           front == lo \o <<e>>
<1>0. Len(s) \in Nat /\ \A j \in 1 .. Len(s) : s[j] \in SegmentType
  BY LenProperties, ElementOfSeq DEF Tables
<1>1. lo \in Tables /\ Len(lo) = i - 1 /\ \A j \in 1 .. (i - 1) : lo[j] = s[j]
  <2>1. \A j \in 1 .. (i - 1) : s[j] \in SegmentType
    BY <1>0
  <2>2. QED
    BY <1>0, <2>1, SubSeqProperties DEF Tables
<1>2. hi \in Tables /\ Len(hi) = Len(s) - i + 1
      /\ \A j \in 1 .. (Len(s) - i + 1) : hi[j] = s[i + j - 1]
  <2>1. \A j \in i .. Len(s) : s[j] \in SegmentType
    BY <1>0
  <2>2. QED
    BY <1>0, <2>1, SubSeqProperties DEF Tables
<1>3. <<e>> \in Tables /\ Len(<<e>>) = 1 /\ <<e>>[1] = e
  BY DEF Tables
<1>4. InsertAt(s, i, e) = front \o hi
  BY DEF InsertAt
<1> HIDE DEF lo, hi
<1>5. /\ front \in Tables /\ Len(front) = i
      /\ \A j \in 1 .. i : front[j] = IF j < i THEN s[j] ELSE e
  <2>1. /\ front \in Tables /\ Len(front) = Len(lo) + Len(<<e>>)
        /\ \A j \in 1 .. Len(lo) + Len(<<e>>) :
             front[j] = IF j <= Len(lo) THEN lo[j] ELSE <<e>>[j - Len(lo)]
    BY <1>1, <1>3, ConcatProperties DEF Tables
  <2>2. QED
    BY <1>0, <1>1, <1>3, <2>1
<1> HIDE DEF front
<1>6. /\ front \o hi \in Tables /\ Len(front \o hi) = Len(front) + Len(hi)
      /\ \A j \in 1 .. Len(front) + Len(hi) :
           (front \o hi)[j] = IF j <= Len(front) THEN front[j] ELSE hi[j - Len(front)]
  BY <1>2, <1>5, ConcatProperties DEF Tables
<1>7. ASSUME NEW j \in 1 .. Len(s) + 1
      PROVE (front \o hi)[j] = IF j < i THEN s[j] ELSE IF j = i THEN e ELSE s[j - 1]
  <2>1. CASE j <= i
    BY <1>0, <1>2, <1>5, <1>6, <2>1
  <2>2. CASE j > i
    <3>1. j - i \in 1 .. (Len(s) - i + 1) /\ i + (j - i) - 1 = j - 1
      BY <1>0, <2>2
    <3>2. (front \o hi)[j] = hi[j - i]
      BY <1>0, <1>2, <1>5, <1>6, <2>2
    <3>3. QED
      BY <1>2, <2>2, <3>1, <3>2
  <2>3. j <= i \/ j > i
    BY <1>0
  <2>4. QED
    BY <2>1, <2>2, <2>3, Zenon
<1>8. QED
  BY <1>0, <1>2, <1>4, <1>5, <1>6, <1>7

-----------------------------------------------------------------------------
(* The loop of coalesce. *)

LEMMA ExtendType ==
  ASSUME NEW t \in Tables, NEW e \in SegmentType
  PROVE  Extend(t, e) \in Tables
<1>1. CASE t # <<>> /\ Last(t).kind = Free /\ e.kind = Free
  <2> DEFINE n == Len(t)
             w == [t[n] EXCEPT !.size = t[n].size + e.size]
  <2>1. n \in 1 .. Len(t)
    <3>1. Len(t) \in Nat \ {0}
      BY <1>1, EmptySeq DEF Tables
    <3>2. QED
      BY <3>1
  <2>2. w \in SegmentType
    <3>1. t[n] \in SegmentType
      BY <2>1, ElementOfSeq DEF Tables
    <3>2. t[n].size + e.size \in Nat
      BY <3>1 DEF SegmentType
    <3> HIDE DEF n
    <3>3. QED
      BY <3>1, <3>2 DEF SegmentType
  <2>3. Extend(t, e) = [t EXCEPT ![n] = w]
    BY <1>1 DEF Extend
  <2> HIDE DEF n, w
  <2>4. QED
    BY <2>1, <2>2, <2>3, ExceptSeq DEF Tables
<1>2. CASE ~(t # <<>> /\ Last(t).kind = Free /\ e.kind = Free)
  <2>1. Extend(t, e) = Append(t, e)
    BY <1>2, Zenon DEF Extend
  <2>2. QED
    BY <2>1, AppendProperties DEF Tables
<1>3. QED
  BY <1>1, <1>2

InZone(e) == e.size > 0 /\ RamBase <= e.base /\ End(e) <= RamTop
IfUsed(e) == IF e.kind # Free THEN {e} ELSE {}

\* Taking one more segment keeps the table in order, ends no later than the
\* segment taken, and keeps exactly the used segments.
LEMMA ExtendEffect ==
  ASSUME NEW t \in Tables, NEW e \in SegmentType, Ordered(t), InZone(e),
         t # <<>> => End(Last(t)) <= e.base
  PROVE  LET u == Extend(t, e)
         IN  /\ u \in Tables /\ u # <<>> /\ Len(u) <= Len(t) + 1
             /\ Ordered(u)
             /\ End(Last(u)) <= End(e)
             /\ Used(u) = Used(t) \cup IfUsed(e)
<1> DEFINE u == Extend(t, e)
<1>0. /\ Len(t) \in Nat /\ DOMAIN t = 1 .. Len(t)
      /\ \A j \in 1 .. Len(t) : t[j] \in SegmentType
  BY LenProperties, ElementOfSeq DEF Tables
<1>1. CASE t # <<>> /\ Last(t).kind = Free /\ e.kind = Free
  <2> DEFINE n == Len(t)
             w == [t[n] EXCEPT !.size = t[n].size + e.size]
  <2>1. n \in 1 .. Len(t) /\ Last(t) = t[n] /\ t[n] \in SegmentType
    <3>1. Len(t) # 0
      BY <1>1, EmptySeq DEF Tables
    <3>2. QED
      BY <1>0, <3>1 DEF Last
  <2>2. w \in SegmentType /\ w.kind = Free /\ w.base = t[n].base /\ w.size = t[n].size + e.size
    BY <1>1, <2>1 DEF SegmentType
  <2>3. u = [t EXCEPT ![n] = w]
    BY <1>1 DEF Extend
  <2> HIDE DEF w, n
  <2>4. /\ u \in Tables /\ Len(u) = Len(t)
        /\ \A j \in 1 .. Len(t) : u[j] = IF j = n THEN w ELSE t[j]
    BY <2>1, <2>2, <2>3, ExceptSeq DEF Tables
  <2> HIDE DEF u
  <2>5. DOMAIN u = 1 .. Len(t) /\ u # <<>> /\ Last(u) = w
    <3>1. DOMAIN u = 1 .. Len(u)
      BY <2>4, LenProperties DEF Tables
    <3>2. u # <<>>
      BY <2>1, <2>4, EmptySeq DEF Tables
    <3>3. Last(u) = w
      BY <2>1, <2>4 DEF Last, n
    <3>4. QED
      BY <2>4, <3>1, <3>2, <3>3
  <2>6. End(w) <= End(e) /\ End(w) >= End(t[n]) /\ InZone(w)
    <3>1. End(t[n]) <= e.base
      BY <1>1, <2>1
    <3>2. RamBase <= t[n].base /\ t[n].size > 0
      BY <1>0, <2>1 DEF Ordered
    <3>3. /\ t[n].base \in Nat /\ t[n].size \in Nat /\ e.base \in Nat /\ e.size \in Nat
          /\ e.size > 0 /\ e.base + e.size <= RamTop
      BY <2>1 DEF SegmentType, InZone, End
    <3>4. QED
      BY <2>2, <3>1, <3>2, <3>3, MemoryConstants DEF End, InZone
  <2>7. Ordered(u)
    <3>1. ASSUME NEW i \in DOMAIN u, NEW j \in DOMAIN u, i < j
          PROVE  End(u[i]) <= u[j].base
      <4>1. i # n
        BY <1>0, <2>5, <3>1 DEF n
      <4>2. End(t[i]) <= t[j].base
        BY <1>0, <2>5, <3>1 DEF Ordered
      <4>3. QED
        BY <2>2, <2>4, <2>5, <4>1, <4>2
    <3>2. ASSUME NEW i \in DOMAIN u
          PROVE  RamBase <= u[i].base /\ End(u[i]) <= RamTop /\ u[i].size > 0
      BY <1>0, <2>4, <2>5, <2>6 DEF Ordered, InZone
    <3>3. QED
      BY <3>1, <3>2 DEF Ordered
  <2>8. Used(u) = Used(t) \cup IfUsed(e)
    <3>1. IfUsed(e) = {}
      BY <1>1 DEF IfUsed
    <3>2. \A j \in 1 .. Len(t) : /\ u[j].kind # Free <=> t[j].kind # Free
                                 /\ u[j].kind # Free => u[j] = t[j]
      BY <1>1, <2>1, <2>2, <2>4
    <3>3. QED
      BY <1>0, <2>5, <3>1, <3>2 DEF Used
  <2>9. Len(u) <= Len(t) + 1 /\ End(Last(u)) <= End(e)
    BY <1>0, <2>4, <2>5, <2>6
  <2>10. QED
    BY <2>4, <2>5, <2>7, <2>8, <2>9 DEF u
<1>2. CASE ~(t # <<>> /\ Last(t).kind = Free /\ e.kind = Free)
  <2>1. u = Append(t, e)
    BY <1>2, Zenon DEF Extend
  <2>2. /\ u \in Tables /\ Len(u) = Len(t) + 1
        /\ \A j \in 1 .. Len(t) + 1 : u[j] = IF j = Len(t) + 1 THEN e ELSE t[j]
    BY <1>0, <2>1, AppendProperties DEF Tables
  <2> HIDE DEF u
  <2>3. DOMAIN u = 1 .. Len(t) + 1 /\ u # <<>> /\ Last(u) = e
    BY <1>0, <2>2, LenProperties, EmptySeq DEF Tables, Last
  <2>4. \A i \in 1 .. Len(t) : End(t[i]) <= e.base
    <3>1. ASSUME NEW i \in 1 .. Len(t) PROVE End(t[i]) <= e.base
      <4>1. t # <<>> /\ Last(t) = t[Len(t)] /\ Len(t) \in 1 .. Len(t)
        BY <1>0, EmptySeq DEF Last, Tables
      <4>2. CASE i = Len(t)
        BY <4>1, <4>2
      <4>3. CASE i # Len(t)
        <5>1. i < Len(t)
          <6>1. Len(t) \in Nat
            BY <1>0
          <6>2. QED
            BY <4>3, <6>1
        <5>2. End(t[i]) <= t[Len(t)].base
          BY <1>0, <4>1, <5>1 DEF Ordered
        <5>3. t[Len(t)] \in SegmentType /\ t[i] \in SegmentType
          BY <1>0, <4>1
        <5>4. QED
          BY <4>1, <5>2, <5>3 DEF End, SegmentType
      <4>4. QED
        BY <4>2, <4>3
    <3>2. QED
      BY <3>1
  <2>5. Ordered(u)
    <3>1. ASSUME NEW i \in DOMAIN u, NEW j \in DOMAIN u, i < j
          PROVE  End(u[i]) <= u[j].base
      <4>1. i \in 1 .. Len(t) /\ u[i] = t[i]
        BY <1>0, <2>2, <2>3, <3>1
      <4>2. CASE j = Len(t) + 1
        BY <1>0, <2>2, <2>4, <4>1, <4>2
      <4>3. CASE j # Len(t) + 1
        <5>1. j \in 1 .. Len(t) /\ u[j] = t[j]
          BY <1>0, <2>2, <2>3, <4>3
        <5>2. QED
          BY <1>0, <3>1, <4>1, <5>1 DEF Ordered
      <4>4. QED
        BY <4>2, <4>3
    <3>2. ASSUME NEW i \in DOMAIN u
          PROVE  RamBase <= u[i].base /\ End(u[i]) <= RamTop /\ u[i].size > 0
      BY <1>0, <2>2, <2>3 DEF Ordered, InZone
    <3>3. QED
      BY <3>1, <3>2 DEF Ordered
  <2>6. Used(u) = Used(t) \cup IfUsed(e)
    BY <1>0, <2>2, <2>3 DEF Used, IfUsed
  <2>7. Len(u) <= Len(t) + 1 /\ End(Last(u)) <= End(e)
    BY <1>0, <2>2, <2>3 DEF End, SegmentType
  <2>8. QED
    BY <2>2, <2>3, <2>5, <2>6, <2>7 DEF u
<1>3. QED
  BY <1>1, <1>2

\* The loop's intermediate tables exist: merged is the function its recursion says.
LEMMA MergedTables ==
  ASSUME NEW s \in Tables
  PROVE  \E m \in [0 .. Len(s) -> Tables] :
           /\ m[0] = <<>>
           /\ \A n \in 1 .. Len(s) : m[n] = Extend(m[n - 1], s[n])
           /\ coalesce(s) = m[Len(s)]
<1> DEFINE N == Len(s)
           g == [p \in Tables \X (1 .. N) |-> Extend(p[1], s[p[2]])]
           body(f) == [n \in 0 .. N |-> IF n = 0 THEN <<>> ELSE Extend(f[n - 1], s[n])]
           m == CHOOSE f : f = body(f)
<1>1. N \in Nat /\ \A n \in 1 .. N : s[n] \in SegmentType
  BY LenProperties, ElementOfSeq DEF Tables
<1>2. <<>> \in Tables
  BY EmptySeq DEF Tables
<1>3. \A t \in Tables, e \in SegmentType : Extend(t, e) \in Tables
  BY ExtendType
<1>4. g \in StepFunctions(N, Tables)
  BY <1>1, <1>3 DEF StepFunctions
<1>5. PICK f \in [0 .. N -> Tables] :
        /\ f[0] = <<>>
        /\ \A n \in 1 .. N : f[n] = g[<<f[n - 1], n>>]
  <2>1. N \in Nat
    BY <1>1
  <2> HIDE DEF g, N
  <2>2. Recursions(N, Tables, <<>>, g) # {}
    BY <1>2, <1>4, <2>1, RecursionOnInterval
  <2>3. QED
    BY <2>2 DEF Recursions
<1>6. \A n \in 1 .. N : f[n] = Extend(f[n - 1], s[n])
  <2>1. ASSUME NEW n \in 1 .. N PROVE f[n] = Extend(f[n - 1], s[n])
    <3>1. n - 1 \in 0 .. N
      BY <1>1
    <3>2. f[n - 1] \in Tables
      BY <3>1
    <3>3. g[<<f[n - 1], n>>] = Extend(f[n - 1], s[n])
      BY <3>2
    <3>4. QED
      BY <1>5, <3>3
  <2>2. QED
    BY <2>1
<1>7. f = body(f)
  <2>1. \A n \in 0 .. N : n = 0 \/ n \in 1 .. N
    BY <1>1
  <2>2. \A n \in 0 .. N : f[n] = IF n = 0 THEN <<>> ELSE Extend(f[n - 1], s[n])
    BY <1>5, <1>6, <2>1
  <2>3. QED
    BY <2>2
<1>8. m = body(m)
  BY <1>7, Zenon
<1>9. coalesce(s) = m[N]
  BY DEF coalesce
<1> HIDE DEF m
<1>10. /\ m[0] = <<>> /\ \A n \in 1 .. N : m[n] = Extend(m[n - 1], s[n])
       /\ m = [n \in 0 .. N |-> m[n]]
  BY <1>1, <1>8
<1>11. \A n \in 0 .. N : m[n] \in Tables
  <2> DEFINE Bad == {n \in 0 .. N : m[n] \notin Tables}
  <2>1. SUFFICES ASSUME Bad # {} PROVE FALSE
    OBVIOUS
  <2>2. PICK n \in Bad : \A k \in Bad : n <= k
    <3>1. Bad \in SUBSET Nat
      BY <1>1
    <3>2. QED
      BY <2>1, <3>1, LeastElement
  <2>3. n \in 1 .. N /\ n - 1 \in 0 .. N /\ ~(n <= n - 1)
    BY <1>1, <1>2, <1>10
  <2>4. m[n - 1] \in Tables
    BY <2>2, <2>3
  <2>5. QED
    BY <1>1, <1>3, <1>10, <2>3, <2>4
<1>12. m \in [0 .. N -> Tables]
  BY <1>10, <1>11
<1>13. QED
  BY <1>9, <1>10, <1>12

\* coalesce keeps the order, the bounds and exactly the used segments, and adds none.
LEMMA CoalesceEffect ==
  ASSUME NEW s \in Tables, Ordered(s)
  PROVE  /\ coalesce(s) \in Tables /\ Len(coalesce(s)) <= Len(s)
         /\ coalesce(s) = <<>> <=> s = <<>>
         /\ Ordered(coalesce(s))
         /\ Used(coalesce(s)) = Used(s)
<1> DEFINE N == Len(s)
           UsedUpto(n) == {s[i] : i \in {j \in 1 .. n : s[j].kind # Free}}
<1>1. N \in Nat /\ DOMAIN s = 1 .. N
  BY LenProperties DEF Tables
<1>2. \A n \in 1 .. N : s[n] \in SegmentType
  BY ElementOfSeq DEF Tables
<1>3. PICK m \in [0 .. N -> Tables] :
        /\ m[0] = <<>>
        /\ \A n \in 1 .. N : m[n] = Extend(m[n - 1], s[n])
        /\ coalesce(s) = m[N]
  BY MergedTables
<1> DEFINE Good(n) == /\ Len(m[n]) <= n
                      /\ Ordered(m[n])
                      /\ n = 0 \/ (m[n] # <<>> /\ End(Last(m[n])) <= End(s[n]))
                      /\ Used(m[n]) = UsedUpto(n)
           Bad == {n \in 0 .. N : ~Good(n)}
<1>4. Good(0)
  <2>1. Len(m[0]) = 0 /\ DOMAIN m[0] = {}
    BY <1>3
  <2>2. Ordered(m[0])
    BY <2>1 DEF Ordered
  <2>3. Used(m[0]) = {} /\ UsedUpto(0) = {}
    BY <2>1 DEF Used
  <2>4. QED
    BY <2>1, <2>2, <2>3
<1>5. ASSUME NEW n \in 1 .. N, Good(n - 1) PROVE Good(n)
  <2>1. m[n - 1] \in Tables /\ s[n] \in SegmentType /\ m[n] = Extend(m[n - 1], s[n])
    <3>1. n - 1 \in 0 .. N
      BY <1>1
    <3>2. QED
      BY <1>2, <1>3, <3>1
  <2>2. InZone(s[n])
    BY <1>1 DEF Ordered, InZone
  <2>3. m[n - 1] # <<>> => End(Last(m[n - 1])) <= s[n].base
    <3>1. CASE n = 1
      BY <1>3, <3>1
    <3>2. CASE n # 1
      <4>1. n - 1 \in 1 .. N /\ n - 1 < n /\ n - 1 # 0
        BY <1>1, <3>2
      <4>2. End(s[n - 1]) <= s[n].base
        BY <1>1, <4>1 DEF Ordered
      <4>3. End(Last(m[n - 1])) <= End(s[n - 1]) /\ m[n - 1] # <<>>
        BY <1>5, <4>1
      <4>4. Last(m[n - 1]) \in SegmentType /\ s[n - 1] \in SegmentType
        <5>1. Len(m[n - 1]) \in 1 .. Len(m[n - 1])
          BY <2>1, <4>3, EmptySeq DEF Tables
        <5>2. QED
          BY <1>2, <2>1, <4>1, <5>1, ElementOfSeq DEF Tables, Last
      <4>5. QED
        BY <2>1, <4>2, <4>3, <4>4 DEF End, SegmentType
    <3>3. QED
      BY <3>1, <3>2
  <2>4. /\ m[n] # <<>> /\ Len(m[n]) <= Len(m[n - 1]) + 1
        /\ Ordered(m[n]) /\ End(Last(m[n])) <= End(s[n])
        /\ Used(m[n]) = Used(m[n - 1]) \cup IfUsed(s[n])
    BY <1>5, <2>1, <2>2, <2>3, ExtendEffect
  <2>5. UsedUpto(n) = UsedUpto(n - 1) \cup IfUsed(s[n])
    <3>1. 1 .. n = (1 .. (n - 1)) \cup {n}
      BY <1>1
    <3>2. QED
      BY <3>1 DEF IfUsed
  <2>6. Len(m[n]) <= n
    <3>1. Len(m[n - 1]) \in Nat /\ Len(m[n]) \in Nat
      <4>1. n \in 0 .. N
        BY <1>1
      <4>2. QED
        BY <1>3, <2>1, <4>1, LenProperties DEF Tables
    <3>2. QED
      BY <1>1, <1>5, <2>4, <3>1
  <2>7. QED
    BY <1>5, <2>4, <2>5, <2>6
<1>6. Bad = {}
  <2>1. SUFFICES ASSUME Bad # {} PROVE FALSE
    OBVIOUS
  <2>2. PICK n \in Bad : \A k \in Bad : n <= k
    <3>1. Bad \in SUBSET Nat
      BY <1>1
    <3> HIDE DEF Bad
    <3>2. QED
      BY <2>1, <3>1, LeastElement
  <2>3. n \in 0 .. N /\ n # 0
    BY <1>4
  <2>4. n \in 1 .. N /\ n - 1 \in 0 .. N /\ ~(n <= n - 1)
    BY <1>1, <2>3
  <2>5. Good(n - 1)
    BY <2>2, <2>4
  <2>6. QED
    BY <1>5, <2>2, <2>4, <2>5
<1>7. Good(N)
  <2>1. N \in 0 .. N
    BY <1>1
  <2>2. QED
    BY <1>6, <2>1
<1>8. Used(s) = UsedUpto(N)
  BY <1>1 DEF Used
<1>9. m[N] \in Tables
  BY <1>1, <1>3
<1>10. m[N] = <<>> <=> s = <<>>
  <2>1. N = 0 <=> s = <<>>
    BY EmptySeq DEF Tables
  <2>2. QED
    BY <1>3, <1>7, <2>1
<1>11. QED
  BY <1>3, <1>7, <1>8, <1>9, <1>10

-----------------------------------------------------------------------------
(* carve: a replacement followed by at most two insertions. *)

\* e lies within the free segment i of s, and r is s with e in its place.
Within(s, i, e) ==
  /\ s \in Tables /\ Ordered(s) /\ i \in 1 .. Len(s) /\ s[i].kind = Free
  /\ e \in SegmentType /\ InZone(e)
  /\ s[i].base <= e.base /\ End(e) <= End(s[i])

Replaced(s, i, e, r) ==
  /\ r \in Tables /\ Len(r) = Len(s)
  /\ \A j \in 1 .. Len(s) : r[j] = IF j = i THEN e ELSE s[j]
  /\ Ordered(r)
  /\ Used(r) = Used(s) \cup IfUsed(e)

\* Shrinking or claiming a free segment within its own bounds.
LEMMA ReplaceEffect ==
  ASSUME NEW s, NEW i, NEW e, Within(s, i, e)
  PROVE  Replaced(s, i, e, [s EXCEPT ![i] = e])
<1> s \in Tables /\ Ordered(s) /\ i \in 1 .. Len(s) /\ s[i].kind = Free
    /\ e \in SegmentType /\ InZone(e) /\ s[i].base <= e.base /\ End(e) <= End(s[i])
  BY DEF Within
<1> DEFINE r == [s EXCEPT ![i] = e]
<1>1. DOMAIN s = 1 .. Len(s) /\ \A j \in 1 .. Len(s) : s[j] \in SegmentType
  BY LenProperties, ElementOfSeq DEF Tables
<1>2. /\ r \in Tables /\ Len(r) = Len(s)
      /\ \A j \in 1 .. Len(s) : r[j] = IF j = i THEN e ELSE s[j]
  BY ExceptSeq DEF Tables
<1>3. DOMAIN r = 1 .. Len(s)
  BY <1>2, LenProperties DEF Tables
<1> HIDE DEF r
<1>4. Ordered(r)
  <2>1. ASSUME NEW p \in 1 .. Len(s), NEW q \in 1 .. Len(s), p < q
        PROVE  End(r[p]) <= r[q].base
    <3>1. End(s[p]) <= s[q].base
      BY <1>1, <2>1 DEF Ordered
    <3>2. s[p] \in SegmentType /\ s[q] \in SegmentType
      BY <1>1
    <3>3. End(r[p]) <= End(s[p]) /\ End(r[p]) \in Nat
      BY <1>2, <3>2 DEF End, SegmentType
    <3>4. s[q].base <= r[q].base /\ r[q].base \in Nat
      BY <1>2, <3>2 DEF SegmentType
    <3>5. End(s[p]) \in Nat /\ s[q].base \in Nat
      BY <3>2 DEF End, SegmentType
    <3>6. QED
      BY <3>1, <3>3, <3>4, <3>5
  <2>2. ASSUME NEW p \in 1 .. Len(s)
        PROVE  RamBase <= r[p].base /\ End(r[p]) <= RamTop /\ r[p].size > 0
    <3>1. RamBase <= s[p].base /\ End(s[p]) <= RamTop /\ s[p].size > 0
      BY <1>1 DEF Ordered
    <3>2. QED
      BY <1>2, <3>1 DEF InZone
  <2>3. QED
    BY <1>3, <2>1, <2>2 DEF Ordered
<1>5. Used(r) = Used(s) \cup IfUsed(e)
  <2>1. \A j \in 1 .. Len(s) : j # i => r[j] = s[j]
    BY <1>2
  <2>2. r[i] = e
    BY <1>2
  <2>3. QED
    BY <1>1, <1>3, <2>1, <2>2 DEF Used, IfUsed
<1>6. QED
  BY <1>2, <1>4, <1>5 DEF r, Replaced

\* e lies between the segments i-1 and i of s, and t is s with e between them,
\* unless s is full.
Between(s, i, e) ==
  /\ s \in Tables /\ Ordered(s) /\ Len(s) <= MaxBlocks /\ i \in 2 .. Len(s) + 1
  /\ e \in SegmentType /\ InZone(e)
  /\ End(s[i - 1]) <= e.base /\ (i <= Len(s) => End(e) <= s[i].base)

Inserted(s, i, e, t) ==
  /\ t \in Tables /\ Len(t) <= MaxBlocks /\ Ordered(t)
  /\ Len(s) < MaxBlocks =>
       /\ Len(t) = Len(s) + 1 /\ t[i] = e
       /\ i <= Len(s) => t[i + 1] = s[i]
       /\ Used(t) = Used(s) \cup IfUsed(e)
  /\ Len(s) = MaxBlocks => t = s

\* A segment inserted between its neighbours; a full table drops it.
LEMMA InsertEffect ==
  ASSUME NEW s, NEW i, NEW e, Between(s, i, e)
  PROVE  Inserted(s, i, e, insert(s, i, e))
<1> s \in Tables /\ Ordered(s) /\ Len(s) <= MaxBlocks /\ i \in 2 .. Len(s) + 1
    /\ e \in SegmentType /\ InZone(e)
    /\ End(s[i - 1]) <= e.base /\ (i <= Len(s) => End(e) <= s[i].base)
  BY DEF Between
<1> DEFINE t == insert(s, i, e)
<1>1. DOMAIN s = 1 .. Len(s) /\ \A j \in 1 .. Len(s) : s[j] \in SegmentType
  BY LenProperties, ElementOfSeq DEF Tables
<1>2. Len(s) \in Nat /\ MaxBlocks \in Nat
  BY LenProperties, MemoryConstants DEF Tables
<1>3. CASE Len(s) < MaxBlocks
  <2>1. t = InsertAt(s, i, e)
    BY <1>3 DEF insert
  <2>2. i \in 1 .. Len(s) + 1
    BY <1>2
  <2>3. /\ t \in Tables /\ Len(t) = Len(s) + 1
        /\ \A j \in 1 .. Len(s) + 1 : t[j] = IF j < i THEN s[j] ELSE IF j = i THEN e ELSE s[j - 1]
    BY <2>1, <2>2, InsertAtShifts
  <2> HIDE DEF t
  <2>4. DOMAIN t = 1 .. Len(s) + 1
    BY <2>3, LenProperties DEF Tables
  <2>5. \A j \in 1 .. Len(s) : /\ s[j].base \in Nat /\ End(s[j]) \in Nat /\ s[j].base <= End(s[j])
    BY <1>1 DEF End, SegmentType
  <2>6. e.base \in Nat /\ End(e) \in Nat
    BY DEF End, SegmentType
  <2>7. \A p, q \in 1 .. Len(s) : p < q => End(s[p]) <= s[q].base
    BY <1>1 DEF Ordered
  <2>8. \A p \in 1 .. (i - 1) : End(s[p]) <= e.base
    <3>1. ASSUME NEW p \in 1 .. (i - 1), p # i - 1 PROVE End(s[p]) <= e.base
      <4>1. p \in 1 .. Len(s) /\ i - 1 \in 1 .. Len(s) /\ p < i - 1
        BY <1>2, <3>1
      <4>2. End(s[p]) <= s[i - 1].base
        BY <2>7, <4>1
      <4>3. /\ End(s[p]) \in Nat /\ s[i - 1].base \in Nat /\ End(s[i - 1]) \in Nat
            /\ s[i - 1].base <= End(s[i - 1])
        BY <2>5, <4>1
      <4>4. End(s[i - 1]) <= e.base
        OBVIOUS
      <4>5. QED
        BY <2>6, <4>2, <4>3, <4>4
    <3>2. QED
      BY <3>1
  <2>9. \A q \in i .. Len(s) : End(e) <= s[q].base
    <3>1. ASSUME NEW q \in i .. Len(s), q # i PROVE End(e) <= s[q].base
      <4>1. q \in 1 .. Len(s) /\ i \in 1 .. Len(s) /\ i < q
        BY <1>2, <3>1
      <4>2. End(s[i]) <= s[q].base
        BY <2>7, <4>1
      <4>3. QED
        BY <2>5, <2>6, <4>1, <4>2
    <3>2. QED
      BY <1>2, <3>1
  <2>10. ASSUME NEW p \in 1 .. Len(s) + 1, NEW q \in 1 .. Len(s) + 1, p < q
         PROVE  End(t[p]) <= t[q].base
    <3>1. CASE q < i
      <4>1. p \in 1 .. Len(s) /\ q \in 1 .. Len(s) /\ p < i
        BY <1>2, <2>10, <3>1
      <4>2. QED
        BY <2>3, <2>7, <2>10, <3>1, <4>1
    <3>2. CASE q = i
      <4>1. p \in 1 .. (i - 1)
        BY <1>2, <2>10, <3>2
      <4>2. QED
        BY <2>3, <2>8, <3>2, <4>1
    <3>3. CASE q > i /\ p < i
      <4>1. p \in 1 .. Len(s) /\ q - 1 \in 1 .. Len(s) /\ p < q - 1
        BY <1>2, <3>3
      <4>2. t[p] = s[p] /\ t[q] = s[q - 1]
        BY <1>2, <2>3, <3>3
      <4>3. QED
        BY <2>7, <4>1, <4>2
    <3>4. CASE q > i /\ p = i
      <4>1. q - 1 \in i .. Len(s)
        BY <1>2, <3>4
      <4>2. t[p] = e /\ t[q] = s[q - 1]
        BY <1>2, <2>3, <3>4
      <4>3. QED
        BY <2>9, <4>1, <4>2
    <3>5. CASE q > i /\ p > i
      <4>1. p - 1 \in 1 .. Len(s) /\ q - 1 \in 1 .. Len(s) /\ p - 1 < q - 1
        BY <1>2, <2>10, <3>5
      <4>2. t[p] = s[p - 1] /\ t[q] = s[q - 1]
        BY <1>2, <2>3, <3>5
      <4>3. QED
        BY <2>7, <4>1, <4>2
    <3>6. QED
      BY <1>2, <3>1, <3>2, <3>3, <3>4, <3>5
  <2>11. ASSUME NEW p \in 1 .. Len(s) + 1
         PROVE  RamBase <= t[p].base /\ End(t[p]) <= RamTop /\ t[p].size > 0
    <3>1. \A j \in 1 .. Len(s) : InZone(s[j])
      BY <1>1 DEF Ordered, InZone
    <3>2. CASE p < i
      <4>1. p \in 1 .. Len(s) /\ t[p] = s[p]
        BY <1>2, <2>3, <3>2
      <4>2. QED
        BY <3>1, <4>1 DEF InZone
    <3>3. CASE p = i
      BY <2>3, <3>3 DEF InZone
    <3>4. CASE p > i
      <4>1. p - 1 \in 1 .. Len(s) /\ t[p] = s[p - 1]
        BY <1>2, <2>3, <3>4
      <4>2. QED
        BY <3>1, <4>1 DEF InZone
    <3>5. QED
      BY <1>2, <3>2, <3>3, <3>4
  <2>12. Ordered(t)
    BY <2>4, <2>10, <2>11 DEF Ordered
  <2>13. t[i] = e /\ (i <= Len(s) => t[i + 1] = s[i])
    BY <1>2, <2>3
  <2>14. Used(t) = Used(s) \cup IfUsed(e)
    <3>1. \A j \in 1 .. Len(s) : \E p \in 1 .. Len(s) + 1 : t[p] = s[j]
      <4>1. ASSUME NEW j \in 1 .. Len(s) PROVE \E p \in 1 .. Len(s) + 1 : t[p] = s[j]
        <5>1. CASE j < i
          BY <1>2, <2>3, <5>1
        <5>2. CASE j >= i
          <6>1. j + 1 \in 1 .. Len(s) + 1 /\ t[j + 1] = s[j]
            BY <1>2, <2>3, <5>2
          <6>2. QED
            BY <6>1
        <5>3. QED
          BY <1>2, <5>1, <5>2
      <4>2. QED
        BY <4>1
    <3>2. \A p \in 1 .. Len(s) + 1 : t[p] = e \/ \E j \in 1 .. Len(s) : t[p] = s[j]
      <4>1. ASSUME NEW p \in 1 .. Len(s) + 1, p # i PROVE \E j \in 1 .. Len(s) : t[p] = s[j]
        <5>1. CASE p < i
          BY <1>2, <2>3, <5>1
        <5>2. CASE p > i
          <6>1. p - 1 \in 1 .. Len(s) /\ t[p] = s[p - 1]
            BY <1>2, <2>3, <5>2
          <6>2. QED
            BY <6>1
        <5>3. QED
          BY <1>2, <4>1, <5>1, <5>2
      <4>2. QED
        BY <2>13, <4>1
    <3>3. i \in 1 .. Len(s) + 1
      BY <2>2
    <3>4. \A x : x \in Used(s) <=> \E j \in 1 .. Len(s) : x = s[j] /\ x.kind # Free
      BY <1>1 DEF Used
    <3>5. \A x : x \in Used(t) <=> \E j \in 1 .. Len(s) + 1 : x = t[j] /\ x.kind # Free
      BY <2>4 DEF Used
    <3>6. \A x : x \in IfUsed(e) <=> x = e /\ x.kind # Free
      BY DEF IfUsed
    <3>7. ASSUME NEW x \in Used(t) PROVE x \in Used(s) \cup IfUsed(e)
      <4>1. PICK p \in 1 .. Len(s) + 1 : x = t[p] /\ x.kind # Free
        BY <3>5
      <4>2. x = e \/ \E j \in 1 .. Len(s) : x = s[j]
        BY <3>2, <4>1
      <4>3. QED
        BY <3>4, <3>6, <4>1, <4>2
    <3>8. Used(s) \subseteq Used(t)
      BY <3>1, <3>4, <3>5
    <3>9. IfUsed(e) \subseteq Used(t)
      BY <2>13, <3>3, <3>5, <3>6
    <3>10. QED
      BY <3>7, <3>8, <3>9
  <2>15. Len(t) <= MaxBlocks /\ Len(s) # MaxBlocks
    BY <1>2, <1>3, <2>3
  <2>16. QED
    BY <2>3, <2>12, <2>13, <2>14, <2>15 DEF t, Inserted
<1>4. CASE ~(Len(s) < MaxBlocks)
  BY <1>4 DEF insert, Inserted
<1>5. QED
  BY <1>3, <1>4

\* [a, a + sz) lies within the free segment i of s.
Carvable(s, i, a, sz) ==
  /\ s \in Tables /\ Ordered(s) /\ Len(s) <= MaxBlocks
  /\ i \in 1 .. Len(s) /\ s[i].kind = Free
  /\ a \in Nat /\ sz \in Nat /\ sz > 0
  /\ s[i].base <= a /\ a + sz <= End(s[i])

\* carve keeps the order and the bound of the table whatever happens; unless it
\* needs more segments than the table has left, it adds exactly the block.
LEMMA CarveEffect ==
  ASSUME NEW s, NEW i, NEW a, NEW sz, Carvable(s, i, a, sz),
         NEW k \in Kinds, NEW own \in Owners \cup {Sys}
  PROVE  /\ carve(s, i, a, sz, k, own) \in Tables
         /\ Len(carve(s, i, a, sz, k, own)) <= MaxBlocks
         /\ Len(carve(s, i, a, sz, k, own)) >= Len(s)
         /\ Ordered(carve(s, i, a, sz, k, own))
         /\ Len(s) + Added(s, i, a, sz) <= MaxBlocks =>
              Used(carve(s, i, a, sz, k, own)) = Used(s) \cup {Segment(a, sz, k, own)}
<1> s \in Tables /\ Ordered(s) /\ Len(s) <= MaxBlocks
    /\ i \in 1 .. Len(s) /\ s[i].kind = Free
    /\ a \in Nat /\ sz \in Nat /\ sz > 0
    /\ s[i].base <= a /\ a + sz <= End(s[i])
  BY DEF Carvable
<1> DEFINE t     == carve(s, i, a, sz, k, own)
           block == Segment(a, sz, k, own)
           tail  == Segment(a + sz, End(s[i]) - (a + sz), Free, Sys)
           lead  == [s[i] EXCEPT !.size = a - s[i].base]
<1>1. DOMAIN s = 1 .. Len(s) /\ \A j \in 1 .. Len(s) : s[j] \in SegmentType
  BY LenProperties, ElementOfSeq DEF Tables
<1>2. Len(s) \in Nat /\ MaxBlocks \in Nat /\ RamTop \in Nat /\ RamBase \in Nat
  BY LenProperties, MemoryConstants DEF Tables
<1>3. s[i].base \in Nat /\ s[i].size \in Nat /\ End(s[i]) \in Nat
  BY <1>1 DEF SegmentType, End
<1>4. InZone(s[i])
  BY <1>1 DEF Ordered, InZone
<1>5. /\ block \in SegmentType /\ block.base = a /\ block.kind = k /\ block.kind # Free
      /\ End(block) = a + sz /\ InZone(block) /\ IfUsed(block) = {block}
  <2>1. block \in SegmentType /\ block.base = a /\ block.size = sz /\ block.kind = k
    BY DEF SegmentType, Segment
  <2>2. k # Free
    BY MemoryConstants
  <2> HIDE DEF block
  <2>3. End(block) = a + sz
    BY <2>1 DEF End
  <2>4. InZone(block)
    BY <1>2, <1>3, <1>4, <2>1, <2>3 DEF InZone
  <2>5. QED
    BY <2>1, <2>2, <2>3, <2>4 DEF IfUsed
<1>6. ASSUME a + sz < End(s[i])
      PROVE  /\ tail \in SegmentType /\ tail.base = a + sz /\ End(tail) = End(s[i])
             /\ InZone(tail) /\ IfUsed(tail) = {}
  <2>1. /\ tail \in SegmentType /\ tail.base = a + sz /\ tail.kind = Free
        /\ tail.size = End(s[i]) - (a + sz)
    <3>1. a + sz \in Nat /\ End(s[i]) - (a + sz) \in Nat
      BY <1>3, <1>6
    <3>2. QED
      BY <3>1 DEF SegmentType, Segment
  <2> HIDE DEF tail
  <2>2. End(tail) = End(s[i])
    BY <1>3, <2>1 DEF End
  <2>3. InZone(tail)
    BY <1>2, <1>3, <1>4, <1>6, <2>1, <2>2 DEF InZone
  <2>4. QED
    BY <2>1, <2>2, <2>3 DEF IfUsed
<1>7. i < Len(s) => End(s[i]) <= s[i + 1].base
  <2>1. i < Len(s) => i + 1 \in 1 .. Len(s)
    BY <1>2
  <2>2. QED
    BY <1>1, <2>1 DEF Ordered
<1>8. Added(s, i, a, sz) =
        (IF a = s[i].base THEN 0 ELSE 1) + (IF a + sz < End(s[i]) THEN 1 ELSE 0)
  BY DEF Added
<1>9. i < Len(s) => s[i + 1] \in SegmentType
  <2>1. i < Len(s) => i + 1 \in 1 .. Len(s)
    BY <1>2
  <2>2. QED
    BY <1>1, <2>1
<1>10. CASE a = s[i].base
  <2> DEFINE r == [s EXCEPT ![i] = block]
  <2>1. t = IF a + sz < End(s[i]) THEN insert(r, i + 1, tail) ELSE r
    BY <1>10 DEF carve
  <2> HIDE DEF t, block, tail
  <2>2. /\ r \in Tables /\ Len(r) = Len(s)
        /\ \A j \in 1 .. Len(s) : r[j] = IF j = i THEN block ELSE s[j]
        /\ Ordered(r) /\ Used(r) = Used(s) \cup {block}
    <3>1. s[i].base <= block.base /\ End(block) <= End(s[i])
      BY <1>3, <1>5, <1>10
    <3>2. Within(s, i, block)
      BY <1>5, <3>1 DEF Within
    <3>3. Replaced(s, i, block, r)
      BY <3>2, ReplaceEffect
    <3>4. QED
      BY <1>5, <3>3 DEF Replaced
  <2> HIDE DEF r
  <2>3. CASE ~(a + sz < End(s[i]))
    <3>1. t = r /\ Added(s, i, a, sz) = 0
      BY <1>8, <1>10, <2>1, <2>3
    <3>2. Len(t) >= Len(s) /\ Len(t) <= MaxBlocks
      BY <1>2, <2>2, <3>1
    <3>3. QED
      BY <2>2, <3>1, <3>2 DEF t, block
  <2>4. CASE a + sz < End(s[i])
    <3>1. i + 1 \in 2 .. Len(r) + 1 /\ r[(i + 1) - 1] = block
      BY <1>2, <2>2
    <3>2. End(r[(i + 1) - 1]) <= tail.base
      BY <1>5, <1>6, <2>4, <3>1
    <3>3. i + 1 <= Len(r) => End(tail) <= r[i + 1].base
      <4>1. i + 1 <= Len(r) => i < Len(s) /\ r[i + 1] = s[i + 1]
        BY <1>2, <2>2
      <4>2. QED
        BY <1>6, <1>7, <2>4, <4>1
    <3>4. tail \in SegmentType /\ InZone(tail) /\ IfUsed(tail) = {}
      BY <1>6, <2>4
    <3>5. LET u == insert(r, i + 1, tail)
          IN  /\ u \in Tables /\ Len(u) <= MaxBlocks /\ Ordered(u)
              /\ Len(r) < MaxBlocks => Len(u) = Len(r) + 1 /\ Used(u) = Used(r) \cup IfUsed(tail)
              /\ Len(r) = MaxBlocks => u = r
      <4>1. Between(r, i + 1, tail)
        BY <2>2, <3>1, <3>2, <3>3, <3>4 DEF Between
      <4>2. Inserted(r, i + 1, tail, insert(r, i + 1, tail))
        BY <4>1, InsertEffect
      <4>3. QED
        BY <4>2 DEF Inserted
    <3>6. t = insert(r, i + 1, tail)
      BY <2>1, <2>4
    <3>7. Added(s, i, a, sz) = 1
      BY <1>8, <1>10, <2>4
    <3>8. Len(t) >= Len(s)
      BY <1>2, <2>2, <3>5, <3>6
    <3>9. Len(s) + Added(s, i, a, sz) <= MaxBlocks => Used(t) = Used(s) \cup {block}
      BY <1>2, <2>2, <3>4, <3>5, <3>6, <3>7
    <3>10. QED
      BY <3>5, <3>6, <3>8, <3>9 DEF t, block
  <2>5. QED
    BY <2>3, <2>4
<1>11. CASE a # s[i].base
  <2> DEFINE r == [s EXCEPT ![i] = lead]
             u == insert(r, i + 1, block)
  <2>1. t = IF a + sz < End(s[i]) THEN insert(u, i + 2, tail) ELSE u
    BY <1>11 DEF carve
  <2>2. /\ lead \in SegmentType /\ lead.base = s[i].base /\ lead.kind = Free
        /\ lead.size = a - s[i].base
    <3>1. a - s[i].base \in Nat
      BY <1>3
    <3>2. QED
      BY <1>1, <3>1 DEF SegmentType
  <2> HIDE DEF t, block, tail, lead
  <2>3. End(lead) = a /\ InZone(lead) /\ IfUsed(lead) = {}
    <3>1. End(lead) = a
      BY <1>3, <2>2 DEF End
    <3>2. InZone(lead)
      BY <1>2, <1>3, <1>4, <1>11, <2>2, <3>1 DEF InZone
    <3>3. QED
      BY <2>2, <3>1, <3>2 DEF IfUsed
  <2>4. /\ r \in Tables /\ Len(r) = Len(s)
        /\ \A j \in 1 .. Len(s) : r[j] = IF j = i THEN lead ELSE s[j]
        /\ Ordered(r) /\ Used(r) = Used(s)
    <3>1. s[i].base <= lead.base /\ End(lead) <= End(s[i])
      BY <1>3, <2>2, <2>3
    <3>2. Used(s) \cup IfUsed(lead) = Used(s)
      BY <2>3
    <3>3. QED
      <4>1. Within(s, i, lead)
        BY <2>2, <2>3, <3>1 DEF Within
      <4>2. Replaced(s, i, lead, r)
        BY <4>1, ReplaceEffect
      <4>3. QED
        BY <3>2, <4>2 DEF Replaced
  <2> HIDE DEF r
  <2>5. i + 1 \in 2 .. Len(r) + 1 /\ r[(i + 1) - 1] = lead
    BY <1>2, <2>4
  <2>6. i + 1 <= Len(r) => i < Len(s) /\ r[i + 1] = s[i + 1]
    BY <1>2, <2>4
  <2>7. End(r[(i + 1) - 1]) <= block.base
    BY <1>5, <2>3, <2>5
  <2>8. i + 1 <= Len(r) => End(block) <= r[i + 1].base
    BY <1>3, <1>5, <1>7, <1>9, <2>6 DEF SegmentType
  <2>9. /\ u \in Tables /\ Len(u) <= MaxBlocks /\ Ordered(u)
        /\ Len(r) < MaxBlocks =>
             /\ Len(u) = Len(r) + 1 /\ u[i + 1] = block
             /\ i + 1 <= Len(r) => u[(i + 1) + 1] = r[i + 1]
             /\ Used(u) = Used(r) \cup {block}
        /\ Len(r) = MaxBlocks => u = r
    <3>1. Between(r, i + 1, block)
      BY <1>5, <2>4, <2>5, <2>7, <2>8 DEF Between
    <3>2. Inserted(r, i + 1, block, u)
      BY <3>1, InsertEffect
    <3>3. QED
      BY <1>5, <3>2 DEF Inserted
  <2>10. u \in Tables /\ Len(u) \in Nat
    BY <2>9, LenProperties DEF Tables
  <2> HIDE DEF u
  <2>11. CASE ~(a + sz < End(s[i]))
    <3>1. t = u /\ Added(s, i, a, sz) = 1
      BY <1>8, <1>11, <2>1, <2>11
    <3>2. Len(t) >= Len(s)
      BY <1>2, <2>4, <2>9, <2>10, <3>1
    <3>3. Len(s) + Added(s, i, a, sz) <= MaxBlocks => Used(t) = Used(s) \cup {block}
      BY <1>2, <2>4, <2>9, <3>1
    <3>4. QED
      BY <2>9, <3>1, <3>2, <3>3 DEF t, block
  <2>12. CASE a + sz < End(s[i]) /\ Len(s) < MaxBlocks
    <3>1. /\ Len(u) = Len(s) + 1 /\ u[i + 1] = block /\ Used(u) = Used(s) \cup {block}
          /\ i < Len(s) => u[i + 2] = s[i + 1]
      <4>1. i < Len(s) => i + 1 <= Len(r)
        BY <1>2, <2>4
      <4>2. (i + 1) + 1 = i + 2
        BY <1>2
      <4>3. QED
        BY <2>4, <2>6, <2>9, <2>12, <4>1, <4>2
    <3>2. i + 2 \in 2 .. Len(u) + 1 /\ (i + 2) - 1 = i + 1
      BY <1>2, <3>1
    <3>3. End(u[(i + 2) - 1]) <= tail.base
      BY <1>3, <1>5, <1>6, <2>12, <3>1, <3>2
    <3>4. i + 2 <= Len(u) => End(tail) <= u[i + 2].base
      <4>1. i + 2 <= Len(u) => i < Len(s)
        BY <1>2, <3>1
      <4>2. QED
        BY <1>6, <1>7, <2>12, <3>1, <4>1
    <3>5. tail \in SegmentType /\ InZone(tail) /\ IfUsed(tail) = {}
      BY <1>6, <2>12
    <3>6. LET v == insert(u, i + 2, tail)
          IN  /\ v \in Tables /\ Len(v) <= MaxBlocks /\ Ordered(v)
              /\ Len(u) < MaxBlocks => Len(v) = Len(u) + 1 /\ Used(v) = Used(u) \cup IfUsed(tail)
              /\ Len(u) = MaxBlocks => v = u
      <4>1. Between(u, i + 2, tail)
        BY <2>9, <3>2, <3>3, <3>4, <3>5 DEF Between
      <4>2. Inserted(u, i + 2, tail, insert(u, i + 2, tail))
        BY <4>1, InsertEffect
      <4>3. QED
        BY <4>2 DEF Inserted
    <3>7. t = insert(u, i + 2, tail) /\ Added(s, i, a, sz) = 2
      BY <1>8, <1>11, <2>1, <2>12
    <3>8. Len(t) >= Len(s)
      <4> DEFINE n == Len(s)  v == insert(u, i + 2, tail)
      <4>1. n \in Nat /\ Len(u) = n + 1 /\ Len(u) <= MaxBlocks /\ MaxBlocks \in Nat
        BY <1>2, <2>9, <3>1, MemoryConstants
      <4>2. Len(u) < MaxBlocks => Len(v) = Len(u) + 1
        BY <3>6
      <4>3. Len(u) = MaxBlocks => v = u
        BY <3>6
      <4>4. t = v
        BY <3>7
      <4> HIDE DEF n, v
      <4>5. Len(v) >= n
        BY <4>1, <4>2, <4>3
      <4>6. QED
        BY <4>4, <4>5 DEF n
    <3>9. Len(s) + Added(s, i, a, sz) <= MaxBlocks => Used(t) = Used(s) \cup {block}
      BY <1>2, <3>1, <3>5, <3>6, <3>7
    <3>10. QED
      BY <3>6, <3>7, <3>8, <3>9 DEF t, block
  <2>13. CASE a + sz < End(s[i]) /\ Len(s) = MaxBlocks
    <3>1. u = r
      BY <2>4, <2>9, <2>13
    <3>2. insert(u, i + 2, tail) = u
      BY <1>2, <2>4, <2>13, <3>1 DEF insert
    <3>3. t = r /\ Added(s, i, a, sz) = 2
      BY <1>8, <1>11, <2>1, <2>13, <3>1, <3>2
    <3>4. ~(Len(s) + Added(s, i, a, sz) <= MaxBlocks)
      BY <1>2, <2>13, <3>3
    <3>5. QED
      BY <1>2, <2>4, <3>3, <3>4 DEF t
  <2>14. QED
    BY <1>2, <2>11, <2>12, <2>13
<1>12. QED
  BY <1>10, <1>11

-----------------------------------------------------------------------------
(* The actions. *)

\* What alignUp answers is an address at or above the one it is given.
LEMMA AlignUpBound ==
  ASSUME NEW a \in Nat, NEW al
  PROVE  alignUp(a, al) \in Nat /\ alignUp(a, al) >= a
<1>1. CASE al \in {Bank, Page}
  <2>1. al \in Nat /\ al > 0
    BY <1>1, MemoryConstants
  <2>2. a + (al - 1) \in Nat
    BY <2>1
  <2> DEFINE x == a + (al - 1)
  <2> HIDE DEF x
  <2>3. x % al \in Nat /\ x % al <= al - 1
    BY <2>1, <2>2 DEF x
  <2>4. alignUp(a, al) = x - (x % al)
    BY <1>1, <2>1, <2>2 DEF alignUp, x
  <2> DEFINE y == x % al
  <2> HIDE DEF y
  <2>5. y \in Nat /\ y <= al - 1 /\ alignUp(a, al) = x - y
    BY <2>3, <2>4 DEF y
  <2>6. QED
    BY <2>1, <2>5 DEF x
<1>2. CASE al \notin {Bank, Page}
  BY <1>2 DEF alignUp
<1>3. QED
  BY <1>1, <1>2

\* The inductive invariant.  TableOrdered is what carve and coalesce rely on,
\* and it gives every base at most one segment; TableIsHeld ties the table to
\* what the callers were told.
IInv == TypeOK /\ TableOrdered /\ TableIsHeld

LEMMA IInvFacts ==
  ASSUME IInv
  PROVE  /\ seg \in Tables /\ Ordered(seg) /\ Len(seg) <= MaxBlocks
         /\ Len(seg) \in Nat /\ DOMAIN seg = 1 .. Len(seg)
         /\ \A i \in 1 .. Len(seg) : seg[i] \in SegmentType
         /\ held \subseteq SegmentType /\ truncated \in BOOLEAN
         /\ ~truncated => Used(seg) = held
<1>1. seg \in Tables
  BY DEF IInv, TypeOK, Tables
<1>2. Len(seg) \in Nat /\ DOMAIN seg = 1 .. Len(seg)
  BY <1>1, LenProperties DEF Tables
<1>3. \A i \in 1 .. Len(seg) : seg[i] \in SegmentType
  BY <1>1, ElementOfSeq DEF Tables
<1>4. QED
  BY <1>1, <1>2, <1>3 DEF IInv, TypeOK, TableOrdered, TableIsHeld

LEMMA GrantKeeps ==
  ASSUME IInv, NEW i, NEW a, NEW sz, Carvable(seg, i, a, sz),
         NEW k \in Kinds, NEW own \in Owners \cup {Sys}, Grant(i, a, sz, k, own)
  PROVE  IInv'
<1>1. /\ seg' \in Tables /\ Len(seg') <= MaxBlocks /\ Ordered(seg')
      /\ Len(seg) + Added(seg, i, a, sz) <= MaxBlocks =>
           Used(seg') = Used(seg) \cup {Segment(a, sz, k, own)}
  BY CarveEffect DEF Grant
<1>2. held' = held \cup {Segment(a, sz, k, own)}
  BY DEF Grant
<1>3. Segment(a, sz, k, own) \in SegmentType
  BY DEF Carvable, Segment, SegmentType
<1>4. truncated' \in BOOLEAN
  BY IInvFacts DEF Grant
<1>5. ~truncated' => Used(seg') = held'
  <2>1. Len(seg) + Added(seg, i, a, sz) \in Int /\ MaxBlocks \in Int
    BY IInvFacts, MemoryConstants DEF Added
  <2>2. ~truncated' => ~truncated /\ Len(seg) + Added(seg, i, a, sz) <= MaxBlocks
    <3>1. truncated' = (truncated \/ Len(seg) + Added(seg, i, a, sz) > MaxBlocks)
      BY DEF Grant
    <3>2. ~(Len(seg) + Added(seg, i, a, sz) > MaxBlocks)
            => Len(seg) + Added(seg, i, a, sz) <= MaxBlocks
      BY <2>1
    <3>3. QED
      BY <3>1, <3>2
  <2>3. QED
    BY <1>1, <1>2, <2>2, IInvFacts
<1>6. TypeOK'
  BY <1>1, <1>2, <1>3, <1>4, IInvFacts DEF TypeOK, Tables
<1>7. QED
  BY <1>1, <1>5, <1>6 DEF IInv, TableOrdered, TableIsHeld

\* The aligned block that Alloc takes lies within the segment that Fits it.
LEMMA FitsCarvable ==
  ASSUME IInv, NEW i \in DOMAIN seg, NEW sz \in Sizes, NEW al, Fits(seg[i], sz, al)
  PROVE  Carvable(seg, i, alignUp(seg[i].base, al), sz)
<1>1. i \in 1 .. Len(seg) /\ seg[i] \in SegmentType
  BY IInvFacts
<1>2. seg[i].base \in Nat
  BY <1>1 DEF SegmentType
<1>3. alignUp(seg[i].base, al) \in Nat /\ alignUp(seg[i].base, al) >= seg[i].base
  BY <1>2, AlignUpBound
<1>4. sz \in Nat /\ sz > 0
  BY MemoryConstants
<1>5. QED
  BY <1>1, <1>2, <1>3, <1>4, IInvFacts DEF Carvable, Fits

\* The block that AllocFixed takes lies within the segment that Holds it.
LEMMA HoldsCarvable ==
  ASSUME IInv, NEW i \in DOMAIN seg, NEW b \in Addresses, NEW sz \in Sizes,
         Holds(seg[i], b, sz)
  PROVE  Carvable(seg, i, b, sz)
<1>1. i \in 1 .. Len(seg)
  BY IInvFacts
<1>2. b \in Nat
  BY MemoryConstants DEF Addresses
<1>3. sz \in Nat /\ sz > 0
  BY MemoryConstants
<1>4. QED
  BY <1>1, <1>2, <1>3, IInvFacts DEF Carvable, Holds

LEMMA AllocKeeps ==
  ASSUME IInv, NEW k \in Kinds, NEW sz \in Sizes, NEW al \in Alignments,
         NEW own \in Owners \cup {Sys}, Alloc(k, sz, al, own)
  PROVE  IInv'
<1>1. PICK i \in DOMAIN seg :
        Fits(seg[i], sz, al) /\ Grant(i, alignUp(seg[i].base, al), sz, k, own)
  BY DEF Alloc
<1>2. QED
  BY <1>1, FitsCarvable, GrantKeeps

LEMMA AllocFixedKeeps ==
  ASSUME IInv, NEW b \in Addresses, NEW sz \in Sizes, NEW k \in Kinds,
         NEW own \in Owners \cup {Sys}, AllocFixed(b, sz, k, own)
  PROVE  IInv'
<1>1. PICK i \in DOMAIN seg : Holds(seg[i], b, sz) /\ Grant(i, b, sz, k, own)
  BY DEF AllocFixed
<1>2. QED
  BY <1>1, HoldsCarvable, GrantKeeps

LEMMA InitialiseKeeps ==
  ASSUME IInv, Initialise
  PROVE  IInv'
<1> DEFINE z == Segment(RamBase, RamTop - RamBase, Free, Sys)
<1>1. /\ z \in SegmentType /\ z.base = RamBase /\ z.size = RamTop - RamBase
      /\ z.kind = Free
  BY MemoryConstants DEF Segment, SegmentType
<1> HIDE DEF z
<1>2. seg' = <<z>> /\ held' = held /\ truncated' = truncated
  BY DEF Initialise, z
<1>3. /\ seg' \in Seq(SegmentType) /\ Len(seg') = 1 /\ DOMAIN seg' = {1}
      /\ seg'[1] = z
  BY <1>1, <1>2
<1>4. End(z) = RamTop
  BY <1>1, MemoryConstants DEF End
<1>5. TypeOK'
  BY <1>2, <1>3, IInvFacts, MemoryConstants DEF TypeOK
<1>6. Ordered(seg')
  BY <1>1, <1>3, <1>4, MemoryConstants DEF Ordered
<1>7. Used(seg) = {}
  BY DEF Initialise, Used
<1>8. Used(seg') = {}
  BY <1>1, <1>3 DEF Used
<1>9. ~truncated' => Used(seg') = held'
  BY <1>2, <1>7, <1>8, IInvFacts
<1>10. QED
  BY <1>5, <1>6, <1>9 DEF IInv, TableOrdered, TableIsHeld

\* s with the segments numbered F freed.
Freeing(s, F) == [i \in DOMAIN s |-> IF i \in F THEN Freed(s[i]) ELSE s[i]]

\* Freeing segments moves none of them; the used ones that remain are the others.
LEMMA FreeingEffect ==
  ASSUME NEW s \in Tables, Ordered(s), NEW F
  PROVE  /\ Freeing(s, F) \in Tables /\ Len(Freeing(s, F)) = Len(s)
         /\ Ordered(Freeing(s, F))
         /\ \A x : x \in Used(Freeing(s, F)) <=>
                   \E j \in 1 .. Len(s) : j \notin F /\ x = s[j] /\ x.kind # Free
<1> DEFINE r == Freeing(s, F)
<1>1. /\ DOMAIN s = 1 .. Len(s) /\ Len(s) \in Nat
      /\ \A j \in 1 .. Len(s) : s[j] \in SegmentType
  BY LenProperties, ElementOfSeq DEF Tables
<1>2. ASSUME NEW j \in 1 .. Len(s)
      PROVE  /\ r[j] \in SegmentType
             /\ r[j].base = s[j].base /\ r[j].size = s[j].size
             /\ j \in F => r[j].kind = Free
             /\ j \notin F => r[j] = s[j]
  BY <1>1 DEF Freeing, Freed, SegmentType
<1>3. DOMAIN r = 1 .. Len(s)
  BY <1>1 DEF Freeing
<1>4. r = [j \in 1 .. Len(s) |-> r[j]]
  BY <1>1 DEF Freeing
<1> HIDE DEF r
<1>5. r \in Seq(SegmentType)
  BY <1>1, <1>2, <1>4
<1>6. Len(r) = Len(s)
  BY <1>1, <1>3, <1>5, LenProperties
<1>7. \A j \in 1 .. Len(s) : End(r[j]) = End(s[j])
  BY <1>2 DEF End
<1>8. Ordered(r)
  BY <1>1, <1>2, <1>3, <1>7 DEF Ordered
<1>9. \A x : x \in Used(r) <=> \E j \in 1 .. Len(s) : j \notin F /\ x = s[j] /\ x.kind # Free
  <2>1. \A x : x \in Used(r) <=> \E j \in 1 .. Len(s) : x = r[j] /\ r[j].kind # Free
    BY <1>3 DEF Used
  <2>2. QED
    BY <1>2, <2>1
<1>10. QED
  BY <1>5, <1>6, <1>8, <1>9 DEF r, Tables

\* In an ordered table an address is the base of at most one segment.
LEMMA DistinctBases ==
  ASSUME NEW s \in Tables, Ordered(s), NEW p \in 1 .. Len(s), NEW q \in 1 .. Len(s),
         s[p].base = s[q].base
  PROVE  p = q
<1>1. /\ DOMAIN s = 1 .. Len(s) /\ Len(s) \in Nat
      /\ \A j \in 1 .. Len(s) : s[j] \in SegmentType
  BY LenProperties, ElementOfSeq DEF Tables
<1>2. \A i, j \in 1 .. Len(s) : i < j => s[i].base < s[j].base
  <2>1. ASSUME NEW i \in 1 .. Len(s), NEW j \in 1 .. Len(s), i < j
        PROVE  s[i].base < s[j].base
    <3>1. End(s[i]) <= s[j].base /\ s[i].size > 0
      BY <1>1, <2>1 DEF Ordered
    <3>2. s[i].base \in Nat /\ s[i].size \in Nat /\ s[j].base \in Nat
      BY <1>1 DEF SegmentType
    <3>3. QED
      BY <3>1, <3>2 DEF End
  <2>2. QED
    BY <2>1
<1>3. s[p].base \in Nat /\ s[q].base \in Nat
  BY <1>1 DEF SegmentType
<1>4. ~(p < q) /\ ~(q < p)
  BY <1>2, <1>3
<1>5. QED
  BY <1>1, <1>4

\* What coalescing the table with the segments F freed leaves.
LEMMA ReclaimEffect ==
  ASSUME NEW s \in Tables, Ordered(s), NEW F
  PROVE  /\ coalesce(Freeing(s, F)) \in Tables
         /\ Len(coalesce(Freeing(s, F))) <= Len(s)
         /\ (coalesce(Freeing(s, F)) = <<>> <=> s = <<>>)
         /\ Ordered(coalesce(Freeing(s, F)))
         /\ \A x : x \in Used(coalesce(Freeing(s, F))) <=>
                   \E j \in 1 .. Len(s) : j \notin F /\ x = s[j] /\ x.kind # Free
<1> DEFINE r == Freeing(s, F)
<1>1. /\ r \in Tables /\ Len(r) = Len(s) /\ Ordered(r)
      /\ \A x : x \in Used(r) <=>
                \E j \in 1 .. Len(s) : j \notin F /\ x = s[j] /\ x.kind # Free
  BY FreeingEffect
<1> HIDE DEF r
<1>2. /\ coalesce(r) \in Tables /\ Len(coalesce(r)) <= Len(r)
      /\ (coalesce(r) = <<>> <=> r = <<>>)
      /\ Ordered(coalesce(r)) /\ Used(coalesce(r)) = Used(r)
  BY <1>1, CoalesceEffect
<1>3. r = <<>> <=> s = <<>>
  BY <1>1, EmptySeq DEF Tables
<1>4. QED
  BY <1>1, <1>2, <1>3 DEF r

\* What Release does to the table and to what the callers hold.
LEMMA ReleaseEffect ==
  ASSUME IInv, NEW addr, Release(addr)
  PROVE  /\ seg' \in Tables /\ Len(seg') <= Len(seg) /\ Ordered(seg')
         /\ (seg' = <<>> <=> seg = <<>>)
         /\ \A x : x \in Used(seg') <=> x \in Used(seg) /\ x.base # addr
         /\ held' = {h \in held : h.base # addr} /\ truncated' = truncated
<1>1. held' = {h \in held : h.base # addr} /\ truncated' = truncated
  BY DEF Release
<1>2. \A x : x \in Used(seg) <=> \E j \in 1 .. Len(seg) : x = seg[j] /\ x.kind # Free
  BY IInvFacts DEF Used
<1>3. CASE \A i \in DOMAIN seg : seg[i].base # addr
  <2>1. seg' = seg
    BY <1>3 DEF Release
  <2>2. \A x \in Used(seg) : x.base # addr
    BY <1>2, <1>3, IInvFacts
  <2>3. QED
    BY <1>1, <2>1, <2>2, IInvFacts
<1>4. ASSUME NEW i \in DOMAIN seg, seg[i].base = addr,
             seg' = IF seg[i].kind # Free
                    THEN coalesce([seg EXCEPT ![i] = Freed(@)]) ELSE seg
      PROVE  /\ seg' \in Tables /\ Len(seg') <= Len(seg) /\ Ordered(seg')
             /\ (seg' = <<>> <=> seg = <<>>)
             /\ \A x : x \in Used(seg') <=> x \in Used(seg) /\ x.base # addr
  <2>1. i \in 1 .. Len(seg)
    BY IInvFacts
  <2>2. \A j \in 1 .. Len(seg) : j \notin {i} <=> seg[j].base # addr
    BY <1>4, <2>1, IInvFacts, DistinctBases
  <2>3. CASE seg[i].kind # Free
    <3>1. [seg EXCEPT ![i] = Freed(@)] = Freeing(seg, {i})
      BY IInvFacts DEF Freeing
    <3>2. seg' = coalesce(Freeing(seg, {i}))
      BY <1>4, <2>3, <3>1
    <3>3. /\ seg' \in Tables /\ Len(seg') <= Len(seg) /\ Ordered(seg')
          /\ (seg' = <<>> <=> seg = <<>>)
          /\ \A x : x \in Used(seg') <=>
                    \E j \in 1 .. Len(seg) : j \notin {i} /\ x = seg[j] /\ x.kind # Free
      BY <3>2, IInvFacts, ReclaimEffect
    <3>4. QED
      BY <1>2, <2>2, <3>3
  <2>4. CASE seg[i].kind = Free
    <3>1. seg' = seg
      BY <1>4, <2>4
    <3>2. \A x \in Used(seg) : x.base # addr
      BY <1>2, <2>2, <2>4
    <3>3. QED
      BY <3>1, <3>2, IInvFacts
  <2>5. QED
    BY <2>3, <2>4
<1>5. QED
  BY <1>1, <1>3, <1>4 DEF Release

\* What FreeOwner does to the table and to what the callers hold.
LEMMA FreeOwnerEffect ==
  ASSUME IInv, NEW own, FreeOwner(own)
  PROVE  /\ seg' \in Tables /\ Len(seg') <= Len(seg) /\ Ordered(seg')
         /\ (seg' = <<>> <=> seg = <<>>)
         /\ \A x : x \in Used(seg') <=> x \in Used(seg) /\ x.owner # own
         /\ held' = {h \in held : h.owner # own} /\ truncated' = truncated
<1> DEFINE F == {j \in DOMAIN seg : ReclaimedBy(seg[j], own)}
<1>1. [i \in DOMAIN seg |-> IF ReclaimedBy(seg[i], own) THEN Freed(seg[i]) ELSE seg[i]]
        = Freeing(seg, F)
  BY DEF Freeing
<1>2. \A j \in 1 .. Len(seg) :
        j \notin F <=> (seg[j].kind = Free \/ seg[j].owner # own)
  BY IInvFacts DEF ReclaimedBy
<1> HIDE DEF F
<1>3. seg' = coalesce(Freeing(seg, F))
  BY <1>1 DEF FreeOwner
<1>4. /\ seg' \in Tables /\ Len(seg') <= Len(seg) /\ Ordered(seg')
      /\ (seg' = <<>> <=> seg = <<>>)
      /\ \A x : x \in Used(seg') <=>
                \E j \in 1 .. Len(seg) : j \notin F /\ x = seg[j] /\ x.kind # Free
  BY <1>3, IInvFacts, ReclaimEffect
<1>5. \A x : x \in Used(seg) <=> \E j \in 1 .. Len(seg) : x = seg[j] /\ x.kind # Free
  BY IInvFacts DEF Used
<1>6. held' = {h \in held : h.owner # own} /\ truncated' = truncated
  BY DEF FreeOwner
<1>7. QED
  BY <1>2, <1>4, <1>5, <1>6

LEMMA ReleaseKeeps ==
  ASSUME IInv, NEW addr, Release(addr)
  PROVE  IInv'
<1>1. /\ seg' \in Tables /\ Len(seg') <= Len(seg) /\ Ordered(seg')
      /\ \A x : x \in Used(seg') <=> x \in Used(seg) /\ x.base # addr
      /\ held' = {h \in held : h.base # addr} /\ truncated' = truncated
  BY ReleaseEffect
<1>2. TypeOK'
  <2>1. Len(seg') \in Nat /\ MaxBlocks \in Nat
    BY <1>1, LenProperties, MemoryConstants DEF Tables
  <2>2. QED
    BY <1>1, <2>1, IInvFacts DEF TypeOK, Tables
<1>3. ~truncated' => Used(seg') = held'
  BY <1>1, IInvFacts
<1>4. QED
  BY <1>1, <1>2, <1>3 DEF IInv, TableOrdered, TableIsHeld

LEMMA FreeOwnerKeeps ==
  ASSUME IInv, NEW own, FreeOwner(own)
  PROVE  IInv'
<1>1. /\ seg' \in Tables /\ Len(seg') <= Len(seg) /\ Ordered(seg')
      /\ \A x : x \in Used(seg') <=> x \in Used(seg) /\ x.owner # own
      /\ held' = {h \in held : h.owner # own} /\ truncated' = truncated
  BY FreeOwnerEffect
<1>2. TypeOK'
  <2>1. Len(seg') \in Nat /\ MaxBlocks \in Nat
    BY <1>1, LenProperties, MemoryConstants DEF Tables
  <2>2. QED
    BY <1>1, <2>1, IInvFacts DEF TypeOK, Tables
<1>3. ~truncated' => Used(seg') = held'
  BY <1>1, IInvFacts
<1>4. QED
  BY <1>1, <1>2, <1>3 DEF IInv, TableOrdered, TableIsHeld

-----------------------------------------------------------------------------
(* The theorems. *)

LEMMA InitEstablishes == Init => IInv
<1> SUFFICES ASSUME Init PROVE IInv
  OBVIOUS
<1>1. /\ seg \in Seq(SegmentType) /\ Len(seg) = 0 /\ DOMAIN seg = {}
      /\ held = {} /\ truncated = FALSE
  BY DEF Init
<1>2. Used(seg) = {}
  BY <1>1 DEF Used
<1>3. TypeOK
  <2>1. Len(seg) <= MaxBlocks
    BY <1>1, MemoryConstants
  <2>2. held \subseteq SegmentType /\ truncated \in BOOLEAN
    BY <1>1
  <2>3. QED
    BY <1>1, <2>1, <2>2 DEF TypeOK
<1>4. Ordered(seg)
  BY <1>1 DEF Ordered
<1>5. QED
  BY <1>1, <1>2, <1>3, <1>4 DEF IInv, TableOrdered, TableIsHeld

LEMMA NextKeeps == IInv /\ [Next]_vars => IInv'
<1> SUFFICES ASSUME IInv, [Next]_vars PROVE IInv'
  OBVIOUS
<1>1. CASE Initialise
  BY <1>1, InitialiseKeeps
<1>2. ASSUME NEW k \in Kinds, NEW sz \in Sizes, NEW own \in Owners \cup {Sys},
             NEW al \in Alignments, Alloc(k, sz, al, own)
      PROVE  IInv'
  BY <1>2, AllocKeeps
<1>3. ASSUME NEW k \in Kinds, NEW sz \in Sizes, NEW own \in Owners \cup {Sys},
             NEW b \in Addresses, AllocFixed(b, sz, k, own)
      PROVE  IInv'
  BY <1>3, AllocFixedKeeps
<1>4. CASE Refuse \/ UNCHANGED vars
  <2>1. seg' = seg /\ held' = held /\ truncated' = truncated
    BY <1>4 DEF Refuse, vars
  <2>2. QED
    BY <2>1 DEF IInv, TypeOK, TableOrdered, Ordered, TableIsHeld, Used
<1>5. ASSUME NEW addr \in Addresses, Release(addr) PROVE IInv'
  BY <1>5, ReleaseKeeps
<1>6. ASSUME NEW own \in Owners \cup {Sys}, FreeOwner(own) PROVE IInv'
  BY <1>6, FreeOwnerKeeps
<1>7. QED
  BY <1>1, <1>2, <1>3, <1>4, <1>5, <1>6 DEF Next

THEOREM Invariance == Spec => []IInv
  BY InitEstablishes, NextKeeps, PTL DEF Spec

\* The table never outgrows its arrays, whatever the calls: insert's bound test
\* (MemoryManager.Mod, insert) covers both segments that carve may add.
THEOREM TypeCorrect == Spec => []TypeOK
<1>1. IInv => TypeOK
  BY DEF IInv
<1>2. QED
  BY <1>1, Invariance, PTL

\* The segments stay in order, disjoint and inside the zone through every carve
\* and coalesce, even after a full table has dropped some.
THEOREM TableStaysOrdered == Spec => []TableOrdered
<1>1. IInv => TableOrdered
  BY DEF IInv
<1>2. QED
  BY <1>1, Invariance, PTL

\* Until insert drops a segment, the used segments are exactly the blocks that
\* Alloc and AllocFixed have handed out and nobody has given back.
THEOREM TableStaysHeld == Spec => []TableIsHeld
<1>1. IInv => TableIsHeld
  BY DEF IInv
<1>2. QED
  BY <1>1, Invariance, PTL

\* Two segments at different places of an ordered table share no byte.
LEMMA OrderedApart ==
  ASSUME IInv, NEW p \in 1 .. Len(seg), NEW q \in 1 .. Len(seg), p # q
  PROVE  End(seg[p]) <= seg[q].base \/ End(seg[q]) <= seg[p].base
<1>1. \A i, j \in 1 .. Len(seg) : i < j => End(seg[i]) <= seg[j].base
  BY IInvFacts DEF Ordered
<1>2. p < q \/ q < p
  BY IInvFacts
<1>3. QED
  BY <1>1, <1>2

\* Two blocks that callers hold never share a byte, as long as insert has never
\* dropped a segment.
THEOREM HeldStayDisjoint == Spec => []HeldDisjointUnlessTruncated
<1>1. IInv => HeldDisjointUnlessTruncated
  <2> SUFFICES ASSUME IInv, ~truncated, NEW g \in held, NEW h \in held, g # h
               PROVE  ~Overlap(g, h)
    BY DEF HeldDisjointUnlessTruncated, HeldDisjoint
  <2>1. g \in Used(seg) /\ h \in Used(seg)
    BY IInvFacts
  <2>2. PICK p \in 1 .. Len(seg) : g = seg[p]
    BY <2>1, IInvFacts DEF Used
  <2>3. PICK q \in 1 .. Len(seg) : h = seg[q]
    BY <2>1, IInvFacts DEF Used
  <2>4. p # q
    BY <2>2, <2>3
  <2>5. End(g) <= h.base \/ End(h) <= g.base
    BY <2>2, <2>3, <2>4, OrderedApart
  <2>6. /\ g.base \in Nat /\ h.base \in Nat /\ End(g) \in Nat /\ End(h) \in Nat
    BY IInvFacts DEF SegmentType, End
  <2>7. QED
    BY <2>5, <2>6 DEF Overlap
<1>2. QED
  BY <1>1, Invariance, PTL

\* A block granted out of a free segment is clear of every block callers hold.
LEMMA GrantGives ==
  ASSUME IInv, NEW i, NEW a, NEW sz \in Sizes, Carvable(seg, i, a, sz),
         NEW k \in Kinds, NEW own \in Owners \cup {Sys}, Grant(i, a, sz, k, own),
         ~truncated'
  PROVE  Promise!Next
<1> DEFINE b == [base |-> a, size |-> sz, kind |-> k, owner |-> own]
<1>1. /\ i \in 1 .. Len(seg) /\ seg[i].kind = Free /\ a \in Nat /\ sz \in Nat
      /\ seg[i].base <= a /\ a + sz <= End(seg[i]) /\ seg[i] \in SegmentType
  BY IInvFacts DEF Carvable
<1>2. ~truncated
  BY DEF Grant
<1>3. /\ b.base = a /\ b.size = sz /\ Segment(a, sz, k, own) = b
      /\ held' = held \cup {b}
  BY DEF Grant, Segment
<1>4. RamBase <= a /\ a + sz <= RamTop /\ a \in RamBase .. RamTop
  <2>1. RamBase <= seg[i].base /\ End(seg[i]) <= RamTop
    BY <1>1, IInvFacts DEF Ordered
  <2>2. seg[i].base \in Nat /\ End(seg[i]) \in Nat /\ RamBase \in Nat /\ RamTop \in Nat
    BY <1>1, MemoryConstants DEF SegmentType, End
  <2>3. QED
    BY <1>1, <2>1, <2>2
<1>5. ASSUME NEW g \in held PROVE Promise!Apart(b, g)
  <2>1. PICK q \in 1 .. Len(seg) : g = seg[q] /\ seg[q].kind # Free
    BY <1>2, IInvFacts DEF Used
  <2>2. i # q
    BY <1>1, <2>1
  <2>3. End(seg[i]) <= g.base \/ End(g) <= seg[i].base
    BY <1>1, <2>1, <2>2, OrderedApart
  <2>4. g.base \in Nat /\ g.size \in Nat /\ seg[i].base \in Nat /\ End(seg[i]) \in Nat
    BY <1>1, IInvFacts DEF SegmentType, End
  <2>5. a + sz <= g.base \/ g.base + g.size <= a
    BY <1>1, <2>3, <2>4 DEF End
  <2>6. QED
    BY <1>3, <2>5 DEF Promise!Apart
<1>6. seg # <<>> /\ seg' # <<>>
  <2>1. seg' \in Tables /\ Len(seg') >= Len(seg)
    BY CarveEffect DEF Grant
  <2>2. Len(seg) > 0 /\ Len(seg') > 0
    BY <1>1, <2>1, IInvFacts, LenProperties DEF Tables
  <2>3. QED
    BY <2>2
<1>7. Promise!Give(b)
  BY <1>3, <1>4, <1>5, <1>6 DEF Promise!Give
<1>8. own \in Owners \cup {Promise!Sys}
  BY DEF Promise!Sys, Sys
<1>9. QED
  BY <1>4, <1>7, <1>8 DEF Promise!Next

\* Every call of the module, seen by its callers, is one of the promised steps or
\* changes nothing of theirs, as long as insert drops no segment.
THEOREM PromiseKept == Spec => KeepsPromise
<1>1. Init => Promise!Init
  BY DEF Init, Promise!Init
<1>2. IInv /\ [Next]_vars => [~truncated' => Promise!Next]_<<held, seg # <<>>>>
  <2> SUFFICES ASSUME IInv, [Next]_vars, ~truncated'
               PROVE  Promise!Next \/ UNCHANGED <<held, seg # <<>>>>
    OBVIOUS
  <2>1. CASE Initialise
    <3>1. seg = <<>> /\ seg' # <<>> /\ held' = held
      BY <2>1 DEF Initialise
    <3>2. QED
      BY <3>1 DEF Promise!Next, Promise!Open
  <2>2. ASSUME NEW k \in Kinds, NEW sz \in Sizes, NEW own \in Owners \cup {Sys},
               NEW al \in Alignments, Alloc(k, sz, al, own)
        PROVE  Promise!Next
    <3>1. PICK i \in DOMAIN seg :
            Fits(seg[i], sz, al) /\ Grant(i, alignUp(seg[i].base, al), sz, k, own)
      BY <2>2 DEF Alloc
    <3>2. Carvable(seg, i, alignUp(seg[i].base, al), sz)
      BY <3>1, FitsCarvable
    <3>3. QED
      BY <3>1, <3>2, GrantGives
  <2>3. ASSUME NEW k \in Kinds, NEW sz \in Sizes, NEW own \in Owners \cup {Sys},
               NEW b \in Addresses, AllocFixed(b, sz, k, own)
        PROVE  Promise!Next
    <3>1. PICK i \in DOMAIN seg : Holds(seg[i], b, sz) /\ Grant(i, b, sz, k, own)
      BY <2>3 DEF AllocFixed
    <3>2. Carvable(seg, i, b, sz)
      BY <3>1, HoldsCarvable
    <3>3. QED
      BY <3>1, <3>2, GrantGives
  <2>4. CASE Refuse \/ UNCHANGED vars
    BY <2>4 DEF Refuse, vars
  <2>5. ASSUME NEW addr \in Addresses, Release(addr)
        PROVE  Promise!Next \/ UNCHANGED <<held, seg # <<>>>>
    <3>1. /\ held' = {h \in held : h.base # addr} /\ (seg' = <<>> <=> seg = <<>>)
          /\ ~truncated
      BY <2>5, ReleaseEffect
    <3>2. CASE \E b \in held : b.base = addr
      <4>1. PICK b \in held : b.base = addr
        BY <3>2
      <4>2. \A h \in held : h.base = addr => h = b
        <5>1. ASSUME NEW h \in held, h.base = addr PROVE h = b
          <6>1. PICK p \in 1 .. Len(seg) : h = seg[p]
            BY <3>1, IInvFacts DEF Used
          <6>2. PICK q \in 1 .. Len(seg) : b = seg[q]
            BY <3>1, IInvFacts DEF Used
          <6>3. p = q
            BY <4>1, <5>1, <6>1, <6>2, IInvFacts, DistinctBases
          <6>4. QED
            BY <6>1, <6>2, <6>3
        <5>2. QED
          BY <5>1
      <4>3. held' = held \ {b}
        BY <3>1, <4>1, <4>2
      <4>4. Promise!TakeBack(b)
        BY <3>1, <4>3 DEF Promise!TakeBack
      <4>5. QED
        BY <4>4 DEF Promise!Next
    <3>3. CASE ~ \E b \in held : b.base = addr
      <4>1. held' = held
        BY <3>1, <3>3
      <4>2. QED
        BY <3>1, <4>1
    <3>4. QED
      BY <3>2, <3>3
  <2>6. ASSUME NEW own \in Owners \cup {Sys}, FreeOwner(own) PROVE Promise!Next
    <3>1. /\ held' = {h \in held : h.owner # own} /\ (seg' = <<>> <=> seg = <<>>)
      BY <2>6, FreeOwnerEffect
    <3>2. Promise!Exit(own)
      BY <3>1 DEF Promise!Exit
    <3>3. own \in Owners \cup {Promise!Sys}
      BY DEF Promise!Sys, Sys
    <3>4. QED
      BY <3>2, <3>3 DEF Promise!Next
  <2>7. QED
    BY <2>1, <2>2, <2>3, <2>4, <2>5, <2>6 DEF Next
<1>3. QED
  BY <1>1, <1>2, Invariance, PTL DEF Spec, KeepsPromise
=============================================================================
