---------------------------- MODULE Files_proofs ----------------------------
(***************************************************************************)
(* Theorems about Files, for every disk, number of files and riders, and   *)
(* any calls and resets.                                                   *)
(*                                                                         *)
(* In order: cluster chains; blocks and sequences of writes; the invariant *)
(* IInv; positions and sectors; whole files and what leaves them alone;    *)
(* what a reset leaves of a call's writes; one lemma for each call; and    *)
(* what IInv implies.                                                      *)
(***************************************************************************)
EXTENDS Files, WellFoundedInduction, SequenceTheorems, FiniteSetTheorems, TLAPS

-----------------------------------------------------------------------------
(* Induction over the naturals, and functions defined by recursion.        *)

Less == {p \in Nat \X Nat : p[1] < p[2]}

\* Every nonempty set of naturals has a least element: the form of induction the
\* loop proofs use, on the set of counterexamples.
LEMMA LeastElement ==
  ASSUME NEW T \in SUBSET Nat, T # {}
  PROVE  \E n \in T : \A m \in T : n <= m
<1>1. IsWellFoundedOn(Less, Nat)
  BY NatLessThanWellFounded DEF OpToRel, Less
<1>2. PICK n \in T : \A m \in T : ~ (<<m, n>> \in Less)
  BY <1>1, WFMin
<1>3. ASSUME NEW m \in T PROVE n <= m
  <2>1. n \in Nat /\ m \in Nat
    OBVIOUS
  <2>2. ~ (m < n)
    BY <1>2, <2>1 DEF Less
  <2>3. QED
    BY <2>1, <2>2
<1>4. QED
  BY <1>3

StepFunctions(N, T) == [T \X (1 .. N) -> T]

\* The functions that start at a and follow the step g.
Recursions(N, T, a, g) ==
  {f \in [0 .. N -> T] : f[0] = a /\ \A n \in 1 .. N : f[n] = g[<<f[n - 1], n>>]}

\* A recursion over 0..N whose steps stay in T defines a function into T.
LEMMA RecursionOnInterval ==
  ASSUME NEW N \in Nat, NEW T, NEW a \in T, NEW g \in StepFunctions(N, T)
  PROVE  Recursions(N, T, a, g) # {}
<1>0. g \in [T \X (1 .. N) -> T]
  BY DEF StepFunctions
<1> DEFINE Upto(k) == \E f \in [0 .. k -> T] :
                        /\ f[0] = a
                        /\ \A n \in 1 .. k : f[n] = g[<<f[n - 1], n>>]
           Bad == {k \in 0 .. N : ~Upto(k)}
<1>1. Upto(0)
  <2>1. [n \in 0 .. 0 |-> a] \in [0 .. 0 -> T]
    OBVIOUS
  <2>2. [n \in 0 .. 0 |-> a][0] = a
    OBVIOUS
  <2>3. \A n \in 1 .. 0 : FALSE
    OBVIOUS
  <2>4. QED
    BY <2>1, <2>2, <2>3
<1>2. ASSUME NEW k \in 1 .. N, Upto(k - 1) PROVE Upto(k)
  <2>1. PICK f \in [0 .. (k - 1) -> T] :
               /\ f[0] = a
               /\ \A n \in 1 .. (k - 1) : f[n] = g[<<f[n - 1], n>>]
    BY <1>2
  <2> DEFINE h == [n \in 0 .. k |-> IF n = k THEN g[<<f[k - 1], k>>] ELSE f[n]]
  <2>2. f[k - 1] \in T
    OBVIOUS
  <2>3. g[<<f[k - 1], k>>] \in T
    BY <1>0, <2>2
  <2>4. \A n \in 0 .. (k - 1) : n \in 0 .. k /\ n # k
    OBVIOUS
  <2>5. \A n \in 0 .. k : n # k => n \in 0 .. (k - 1)
    OBVIOUS
  <2>6. h \in [0 .. k -> T]
    BY <2>3, <2>5
  <2>7. h[0] = a
    BY <2>1, <2>4
  <2>8. ASSUME NEW n \in 1 .. k PROVE h[n] = g[<<h[n - 1], n>>]
    <3>1. n \in 0 .. k /\ n - 1 \in 0 .. k /\ n - 1 # k
      OBVIOUS
    <3>2. h[n - 1] = f[n - 1]
      BY <3>1
    <3>3. CASE n = k
      BY <3>1, <3>2, <3>3
    <3>4. CASE n # k
      <4>1. n \in 1 .. (k - 1)
        BY <3>4
      <4>2. h[n] = f[n]
        BY <3>1, <3>4
      <4>3. QED
        BY <2>1, <3>2, <4>1, <4>2
    <3>5. QED
      BY <3>3, <3>4
  <2>9. QED
    BY <2>6, <2>7, <2>8
<1>3. Bad = {}
  <2>1. SUFFICES ASSUME Bad # {} PROVE FALSE
    OBVIOUS
  <2>2. Bad \in SUBSET Nat
    OBVIOUS
  <2>3. PICK k \in Bad : \A m \in Bad : k <= m
    BY <2>1, <2>2, LeastElement
  <2>4. k # 0
    BY <1>1
  <2>5. k \in 1 .. N /\ k - 1 \in 0 .. N /\ ~(k <= k - 1)
    BY <2>4
  <2>6. Upto(k - 1)
    BY <2>3, <2>5
  <2>7. QED
    BY <1>2, <2>5, <2>6
<1>4. Upto(N)
  <2>1. N \in 0 .. N
    OBVIOUS
  <2>2. QED
    BY <1>3, <2>1
<1>5. QED
  BY <1>4 DEF Recursions

-----------------------------------------------------------------------------

ClusterRefs == Clusters \cup {FATFree, EOC}
FATs == [Clusters -> ClusterRefs]

\* What the constants are, one fact each.
LEMMA Constants ==
  /\ secsPerCluster \in Nat /\ secsPerCluster > 0 /\ SectorSize \in Nat /\ SectorSize > 0
  /\ fatSectors \in Nat /\ fatSectors > 0 /\ FatPerSector \in Nat /\ FatPerSector > 0
  /\ Slots \in Nat /\ maxCluster \in Nat /\ maxCluster >= 2
  /\ MaxLen \in Nat
<1>1. secsPerCluster \in Nat \ {0} /\ SectorSize \in Nat \ {0} /\ fatSectors \in Nat \ {0}
      /\ FatPerSector \in Nat \ {0} /\ Slots \in Nat \ {0}
  BY FilesConstants
<1>2. MaxLen \in Nat /\ maxCluster \in Nat /\ maxCluster >= 2
  BY FilesConstants
<1>3. QED
  BY <1>1, <1>2

\* Clusters and the two marks of the FAT are numbers, and different ones.
LEMMA References ==
  /\ \A c \in Clusters : c \in ClusterRefs /\ c \in Nat /\ c >= 2 /\ c # EOC /\ c # FATFree
  /\ EOC \in ClusterRefs /\ FATFree \in ClusterRefs /\ 0 \in ClusterRefs /\ FATFree = 0 /\ 0 \notin Clusters
  /\ EOC \notin Clusters /\ EOC # FATFree /\ EOC \in Nat
  /\ \A c \in ClusterRefs : c \in Nat /\ c <= EOC /\ (c \notin Clusters => c = EOC \/ c = 0)
<1>1. maxCluster \in Nat /\ maxCluster >= 2
  BY Constants
<1>2. QED
  BY <1>1 DEF Clusters, ClusterRefs, EOC, FATFree

-----------------------------------------------------------------------------
(* Cluster chains: FollowChain step by step. *)

Followed(F, c) == IF c \in Clusters THEN F[c] ELSE c

\* A link of the FAT is a reference.
LEMMA FollowedType == \A F \in FATs, c \in ClusterRefs : Followed(F, c) \in ClusterRefs
BY DEF FATs, Followed

\* The function that FollowChain walks by exists and obeys its recursion.
LEMMA ChainFunction ==
  ASSUME NEW F \in FATs, NEW start \in ClusterRefs, NEW N \in Nat
  PROVE  \E m \in [0 .. N -> ClusterRefs] :
           /\ m[0] = start
           /\ \A n \in 1 .. N : m[n] = Followed(F, m[n - 1])
           /\ FollowChain(F, start, N) = m[N]
<1> DEFINE g == [p \in ClusterRefs \X (1 .. N) |-> Followed(F, p[1])]
           body(f) == [n \in 0 .. N |-> IF n = 0 THEN start
                          ELSE IF f[n - 1] \in Clusters THEN F[f[n - 1]] ELSE f[n - 1]]
           m == CHOOSE f : f = body(f)
<1>1. g \in StepFunctions(N, ClusterRefs)
  BY FollowedType DEF StepFunctions
<1>2. PICK f \in [0 .. N -> ClusterRefs] :
        /\ f[0] = start
        /\ \A n \in 1 .. N : f[n] = g[<<f[n - 1], n>>]
  <2> HIDE DEF g
  <2>1. Recursions(N, ClusterRefs, start, g) # {}
    BY <1>1, RecursionOnInterval
  <2>2. QED
    BY <2>1 DEF Recursions
<1>3. ASSUME NEW n \in 1 .. N PROVE f[n] = Followed(F, f[n - 1])
  <2>1. n - 1 \in 0 .. N
    OBVIOUS
  <2>2. f[n - 1] \in ClusterRefs
    BY <2>1
  <2>3. g[<<f[n - 1], n>>] = Followed(F, f[n - 1])
    BY <2>2
  <2>4. QED
    BY <1>2, <2>3
<1>4. f = body(f)
  <2>1. \A n \in 0 .. N : n = 0 \/ n \in 1 .. N
    OBVIOUS
  <2>2. \A n \in 0 .. N : f[n] = IF n = 0 THEN start
                          ELSE IF f[n - 1] \in Clusters THEN F[f[n - 1]] ELSE f[n - 1]
    BY <1>2, <1>3, <2>1 DEF Followed
  <2>3. QED
    BY <2>2
<1>5. m = body(m)
  BY <1>4, Zenon
<1>6. FollowChain(F, start, N) = m[N]
  BY DEF FollowChain
<1> HIDE DEF m
<1>7. /\ m[0] = start
      /\ \A n \in 1 .. N : m[n] = Followed(F, m[n - 1])
      /\ m = [n \in 0 .. N |-> m[n]]
  BY <1>5 DEF Followed
<1>8. \A n \in 0 .. N : m[n] = f[n]
  <2> DEFINE Bad == {n \in 0 .. N : m[n] # f[n]}
  <2>1. SUFFICES ASSUME Bad # {} PROVE FALSE
    OBVIOUS
  <2>2. PICK n \in Bad : \A k \in Bad : n <= k
    <3>1. Bad \in SUBSET Nat
      OBVIOUS
    <3>2. QED
      BY <2>1, <3>1, LeastElement
  <2>3. n \in 1 .. N /\ n - 1 \in 0 .. N /\ ~(n <= n - 1)
    BY <1>2, <1>7
  <2>4. m[n - 1] = f[n - 1]
    BY <2>2, <2>3
  <2>5. QED
    BY <1>3, <1>7, <2>2, <2>3, <2>4
<1>9. m \in [0 .. N -> ClusterRefs]
  BY <1>7, <1>8
<1>10. QED
  BY <1>6, <1>7, <1>9

\* A set of numbers with 0 and every successor has all of them.
LEMMA Induction ==
  ASSUME NEW S \in SUBSET Nat, 0 \in S, \A n \in S : n + 1 \in S
  PROVE  \A n \in Nat : n \in S
<1>1. SUFFICES ASSUME Nat \ S # {} PROVE FALSE
  OBVIOUS
<1>2. PICK n \in Nat \ S : \A m \in Nat \ S : n <= m
  <2>1. Nat \ S \in SUBSET Nat
    OBVIOUS
  <2>2. QED
    BY <1>1, <2>1, LeastElement
<1>3. n # 0 /\ n - 1 \in Nat /\ ~(n <= n - 1)
  OBVIOUS
<1>4. n - 1 \in S
  BY <1>2, <1>3
<1>5. n - 1 + 1 = n
  OBVIOUS
<1>6. QED
  BY <1>4, <1>5

\* One more link.
LEMMA ChainStep ==
  ASSUME NEW F \in FATs, NEW start \in ClusterRefs
  PROVE  /\ FollowChain(F, start, 0) = start
         /\ \A n \in Nat : /\ FollowChain(F, start, n) \in ClusterRefs
                           /\ FollowChain(F, start, n + 1) = Followed(F, FollowChain(F, start, n))
<1>1. FollowChain(F, start, 0) = start
  BY ChainFunction
<1>2. ASSUME NEW n \in Nat
      PROVE  /\ FollowChain(F, start, n) \in ClusterRefs
             /\ FollowChain(F, start, n + 1) = Followed(F, FollowChain(F, start, n))
  <2>1. PICK a \in [0 .. n -> ClusterRefs] :
           /\ a[0] = start
           /\ \A i \in 1 .. n : a[i] = Followed(F, a[i - 1])
           /\ FollowChain(F, start, n) = a[n]
    BY ChainFunction
  <2>2. PICK b \in [0 .. (n + 1) -> ClusterRefs] :
           /\ b[0] = start
           /\ \A i \in 1 .. (n + 1) : b[i] = Followed(F, b[i - 1])
           /\ FollowChain(F, start, n + 1) = b[n + 1]
    <3>1. n + 1 \in Nat
      OBVIOUS
    <3>2. QED
      BY <3>1, ChainFunction
  <2> DEFINE S == {i \in Nat : i <= n => a[i] = b[i]}
  <2>3. 0 \in S
    BY <2>1, <2>2
  <2>4. ASSUME NEW i \in S PROVE i + 1 \in S
    <3>1. CASE i + 1 <= n
      <4>1. i \in 0 .. n /\ i + 1 \in 1 .. n /\ i + 1 \in 1 .. (n + 1) /\ (i + 1) - 1 = i
        BY <3>1
      <4>2. a[i] = b[i]
        BY <3>1
      <4>3. QED
        BY <2>1, <2>2, <4>1, <4>2
    <3>2. QED
      BY <3>1
  <2>5. n \in S
    BY <2>3, <2>4, Induction
  <2>6. n \in 0 .. n /\ n + 1 \in 1 .. (n + 1) /\ (n + 1) - 1 = n
    OBVIOUS
  <2>7. QED
    BY <2>1, <2>2, <2>5, <2>6
<1>3. QED
  BY <1>1, <1>2

\* a links and b more are a + b links.
LEMMA FollowAdd ==
  ASSUME NEW F \in FATs, NEW start \in ClusterRefs, NEW a \in Nat, NEW b \in Nat
  PROVE  FollowChain(F, FollowChain(F, start, a), b) = FollowChain(F, start, a + b)
<1> DEFINE c == FollowChain(F, start, a)
           S == {n \in Nat : FollowChain(F, c, n) = FollowChain(F, start, a + n)}
<1>1. c \in ClusterRefs
  BY ChainStep
<1> HIDE DEF c
<1>2. 0 \in S
  BY <1>1, ChainStep DEF c
<1>3. ASSUME NEW n \in S PROVE n + 1 \in S
  <2>1. a + n \in Nat /\ a + (n + 1) = (a + n) + 1 /\ n + 1 \in Nat
    OBVIOUS
  <2>2. FollowChain(F, c, n + 1) = Followed(F, FollowChain(F, c, n))
    BY <1>1, ChainStep
  <2>3. FollowChain(F, start, (a + n) + 1) = Followed(F, FollowChain(F, start, a + n))
    BY <2>1, ChainStep
  <2>4. QED
    BY <2>1, <2>2, <2>3
<1>4. b \in S
  BY <1>2, <1>3, Induction
<1>5. QED
  BY <1>4 DEF c

-----------------------------------------------------------------------------
(* Chains that end. *)

Ends(F, start, n) ==
  /\ n \in Nat
  /\ \A k \in 0 .. (n - 1) : FollowChain(F, start, k) \in Clusters
  /\ FollowChain(F, start, n) \notin Clusters

Reach(F, start) == {c \in Clusters : \E k \in Nat : FollowChain(F, start, k) = c}

\* Before the end of a chain are clusters, after it nothing new.
LEMMA EndStays ==
  ASSUME NEW F \in FATs, NEW start \in ClusterRefs, NEW n, Ends(F, start, n)
  PROVE  \A k \in Nat : /\ FollowChain(F, start, k) \in Clusters <=> k < n
                        /\ k >= n => FollowChain(F, start, k) = FollowChain(F, start, n)
<1> DEFINE S == {k \in Nat : FollowChain(F, start, n + k) = FollowChain(F, start, n)}
<1>0. n \in Nat
  BY DEF Ends
<1>1. 0 \in S
  BY <1>0
<1>2. ASSUME NEW k \in S PROVE k + 1 \in S
  <2>1. n + k \in Nat /\ n + (k + 1) = (n + k) + 1 /\ k + 1 \in Nat
    BY <1>0
  <2>2. FollowChain(F, start, (n + k) + 1) = Followed(F, FollowChain(F, start, n + k))
    BY <2>1, ChainStep
  <2>3. QED
    BY <2>1, <2>2 DEF Followed, Ends
<1>3. \A k \in Nat : k \in S
  <2>1. S \in SUBSET Nat
    OBVIOUS
  <2> HIDE DEF S
  <2>2. QED
    BY <1>1, <1>2, <2>1, Induction
<1>4. ASSUME NEW k \in Nat, k >= n PROVE FollowChain(F, start, k) = FollowChain(F, start, n)
  <2>1. k - n \in Nat /\ n + (k - n) = k
    BY <1>0, <1>4
  <2>2. QED
    BY <1>3, <2>1
<1>5. ASSUME NEW k \in Nat, k < n PROVE FollowChain(F, start, k) \in Clusters
  <2>1. k \in 0 .. (n - 1)
    BY <1>0, <1>5
  <2>2. QED
    BY <2>1 DEF Ends
<1>6. FollowChain(F, start, n) \notin Clusters
  BY DEF Ends
<1>7. \A k \in Nat : k < n \/ k >= n
  BY <1>0
<1>8. QED
  BY <1>0, <1>4, <1>5, <1>6, <1>7

\* A chain has one length.
LEMMA OneEnd ==
  ASSUME NEW F \in FATs, NEW start \in ClusterRefs, NEW n, NEW m, Ends(F, start, n), Ends(F, start, m)
  PROVE  n = m
<1>1. n \in Nat /\ m \in Nat
  BY DEF Ends
<1>2. FollowChain(F, start, n) \notin Clusters /\ FollowChain(F, start, m) \notin Clusters
  BY DEF Ends
<1>3. ~(n < m)
  BY <1>1, <1>2, EndStays
<1>4. ~(m < n)
  BY <1>1, <1>2, EndStays
<1>5. QED
  BY <1>1, <1>3, <1>4

\* A chain that ends visits no cluster twice.
LEMMA NoClusterTwice ==
  ASSUME NEW F \in FATs, NEW start \in ClusterRefs, NEW n, Ends(F, start, n),
         NEW j \in Nat, NEW k \in Nat, j < n, k < n, FollowChain(F, start, j) = FollowChain(F, start, k)
  PROVE  j = k
<1>0. n \in Nat
  BY DEF Ends
<1>1. ASSUME NEW a \in Nat, NEW b \in Nat, a < b, b < n, FollowChain(F, start, a) = FollowChain(F, start, b)
      PROVE  FALSE
  <2>1. n - b \in Nat /\ b + (n - b) = n /\ a + (n - b) \in Nat /\ a + (n - b) < n
    BY <1>0, <1>1
  <2>2. FollowChain(F, start, n) = FollowChain(F, FollowChain(F, start, b), n - b)
    BY <2>1, FollowAdd
  <2>3. FollowChain(F, start, a + (n - b)) = FollowChain(F, FollowChain(F, start, a), n - b)
    BY <2>1, FollowAdd
  <2>4. FollowChain(F, start, a + (n - b)) \in Clusters
    BY <2>1, EndStays
  <2>5. FollowChain(F, start, n) \notin Clusters
    BY DEF Ends
  <2>6. QED
    BY <1>1, <2>2, <2>3, <2>4, <2>5
<1>2. QED
  BY <1>1

\* A FAT that agrees with another on a chain has the same chain.
LEMMA SameChain ==
  ASSUME NEW F \in FATs, NEW G \in FATs, NEW start \in ClusterRefs,
         \A c \in Reach(F, start) : G[c] = F[c]
  PROVE  /\ \A k \in Nat : FollowChain(G, start, k) = FollowChain(F, start, k)
         /\ Reach(G, start) = Reach(F, start)
         /\ \A n : Ends(F, start, n) => Ends(G, start, n)
<1> DEFINE S == {k \in Nat : FollowChain(G, start, k) = FollowChain(F, start, k)}
<1>1. 0 \in S
  BY ChainStep
<1>2. ASSUME NEW k \in S PROVE k + 1 \in S
  <2>1. FollowChain(F, start, k) \in ClusterRefs /\ FollowChain(G, start, k) = FollowChain(F, start, k)
    BY ChainStep
  <2>2. FollowChain(F, start, k) \in Clusters => FollowChain(F, start, k) \in Reach(F, start)
    BY DEF Reach
  <2>3. Followed(F, FollowChain(F, start, k)) = Followed(G, FollowChain(F, start, k))
    BY <2>2 DEF Followed
  <2>4. QED
    BY <2>1, <2>3, ChainStep
<1>3. \A k \in Nat : k \in S
  <2>1. S \in SUBSET Nat
    OBVIOUS
  <2> HIDE DEF S
  <2>2. QED
    BY <1>1, <1>2, <2>1, Induction
<1>4. \A k \in Nat : FollowChain(G, start, k) = FollowChain(F, start, k)
  BY <1>3
<1>5. Reach(G, start) = Reach(F, start)
  BY <1>4 DEF Reach
<1>6. ASSUME NEW n, Ends(F, start, n) PROVE Ends(G, start, n)
  <2>1. \A k \in 0 .. (n - 1) : k \in Nat
    BY <1>6 DEF Ends
  <2>2. QED
    BY <1>4, <1>6, <2>1 DEF Ends
<1>7. QED
  BY <1>4, <1>5, <1>6

\* There are maxCluster - 1 clusters.
LEMMA ClustersFinite == IsFiniteSet(Clusters) /\ Cardinality(Clusters) = maxCluster - 1
<1>1. maxCluster \in Nat /\ maxCluster >= 2
  BY Constants
<1>2. QED
  BY <1>1, FS_Interval DEF Clusters

\* A chain has as many clusters as links to its end, and no more than there are.
LEMMA ChainSize ==
  ASSUME NEW F \in FATs, NEW start \in ClusterRefs, NEW n, Ends(F, start, n)
  PROVE  /\ IsFiniteSet(Reach(F, start)) /\ Cardinality(Reach(F, start)) = n
         /\ n <= maxCluster - 1
         /\ \A c \in Reach(F, start) : \E k \in 0 .. (n - 1) : c = FollowChain(F, start, k)
<1> DEFINE R == Reach(F, start)
           f == [i \in 1 .. n |-> FollowChain(F, start, i - 1)]
<1>0. n \in Nat
  BY DEF Ends
<1>1. \A i \in 1 .. n : f[i] \in R
  <2>1. ASSUME NEW i \in 1 .. n PROVE f[i] \in R
    <3>1. i - 1 \in Nat /\ i - 1 < n
      BY <1>0
    <3>2. FollowChain(F, start, i - 1) \in Clusters
      BY <3>1, EndStays
    <3>3. QED
      BY <3>1, <3>2 DEF Reach
  <2>2. QED
    BY <2>1
<1>2. \A i, j \in 1 .. n : f[i] = f[j] => i = j
  <2>1. ASSUME NEW i \in 1 .. n, NEW j \in 1 .. n, f[i] = f[j] PROVE i = j
    <3>1. i - 1 \in Nat /\ i - 1 < n /\ j - 1 \in Nat /\ j - 1 < n
      BY <1>0
    <3>2. FollowChain(F, start, i - 1) = FollowChain(F, start, j - 1)
      BY <2>1
    <3>3. i - 1 = j - 1
      BY <3>1, <3>2, NoClusterTwice
    <3>4. QED
      BY <1>0, <3>3
  <2>2. QED
    BY <2>1
<1>3. \A c \in R : \E k \in 0 .. (n - 1) : c = FollowChain(F, start, k)
  <2>1. ASSUME NEW c \in R PROVE \E k \in 0 .. (n - 1) : c = FollowChain(F, start, k)
    <3>1. PICK k \in Nat : FollowChain(F, start, k) = c /\ c \in Clusters
      BY DEF Reach
    <3>2. k < n
      BY <3>1, EndStays
    <3>3. k \in 0 .. (n - 1)
      BY <1>0, <3>2
    <3>4. QED
      BY <3>1, <3>3
  <2>2. QED
    BY <2>1
<1>4. \A c \in R : \E i \in 1 .. n : f[i] = c
  <2>1. ASSUME NEW c \in R PROVE \E i \in 1 .. n : f[i] = c
    <3>1. PICK k \in 0 .. (n - 1) : c = FollowChain(F, start, k)
      BY <1>3
    <3>2. k + 1 \in 1 .. n /\ (k + 1) - 1 = k
      BY <1>0
    <3>3. f[k + 1] = c
      BY <3>1, <3>2
    <3>4. QED
      BY <3>2, <3>3
  <2>2. QED
    BY <2>1
<1>5. ExistsBijection(1 .. n, R)
  <2>1. f \in [1 .. n -> R]
    BY <1>1
  <2> HIDE DEF f, R
  <2>2. f \in Injection(1 .. n, R)
    BY <1>2, <2>1 DEF Injection, IsInjective
  <2>3. f \in Surjection(1 .. n, R)
    BY <1>4, <2>1 DEF Surjection
  <2>4. QED
    BY <2>2, <2>3 DEF ExistsBijection, Bijection
<1>6. IsFiniteSet(R) /\ Cardinality(R) = n
  <2> HIDE DEF R
  <2>1. Cardinality(R) = n
    BY <1>0, <1>5, FS_CountingElements
  <2>2. IsFiniteSet(1 .. n)
    BY <1>0, FS_Interval
  <2>3. QED
    BY <1>5, <2>1, <2>2, FS_Bijection
<1>7. n <= maxCluster - 1
  <2>1. R \in SUBSET Clusters
    BY DEF Reach
  <2> HIDE DEF R
  <2>2. QED
    BY <1>6, <2>1, ClustersFinite, FS_Subset
<1>8. QED
  BY <1>3, <1>6, <1>7

\* What Hops counts, and Chain gathers.
LEMMA HopsAndChain ==
  ASSUME NEW F \in FATs, NEW start \in ClusterRefs, NEW n, Ends(F, start, n)
  PROVE  /\ start \in Clusters <=> n > 0
         /\ start \in Clusters => Hops(F, start) = n - 1
         /\ Chain(F, start) = Reach(F, start)
<1>0. n \in Nat /\ n <= maxCluster - 1 /\ maxCluster \in Nat /\ maxCluster >= 2
  BY ChainSize, Constants DEF Ends
<1>1. start \in Clusters <=> n > 0
  <2>1. FollowChain(F, start, 0) = start
    BY ChainStep
  <2>2. 0 \in Nat /\ (0 < n <=> n > 0)
    BY <1>0
  <2>3. QED
    BY <2>1, <2>2, EndStays
<1>2. ASSUME start \in Clusters PROVE Hops(F, start) = n - 1
  <2> DEFINE T == {k \in 0 .. (maxCluster - 2) : FollowChain(F, start, k + 1) \notin Clusters} \cup {maxCluster}
  <2>1. n > 0
    BY <1>1, <1>2
  <2>2. n - 1 \in T
    <3>1. n - 1 \in 0 .. (maxCluster - 2) /\ (n - 1) + 1 = n
      BY <1>0, <2>1
    <3>2. QED
      BY <3>1 DEF Ends
  <2>3. \A k \in T : n - 1 <= k
    <3>1. ASSUME NEW k \in 0 .. (maxCluster - 2), FollowChain(F, start, k + 1) \notin Clusters
          PROVE  n - 1 <= k
      <4>1. k + 1 \in Nat /\ ~(k + 1 < n)
        BY <3>1, EndStays
      <4>2. QED
        BY <1>0, <4>1
    <3>2. n - 1 <= maxCluster
      BY <1>0
    <3>3. QED
      BY <3>1, <3>2
  <2>4. \A k \in T : k \in Nat
    BY <1>0
  <2>5. Hops(F, start) = Min(T)
    BY DEF Hops
  <2> HIDE DEF T
  <2>6. Min(T) \in T /\ \A k \in T : Min(T) <= k
    BY <2>2, <2>3 DEF Min
  <2>7. Min(T) \in Nat /\ n - 1 \in Nat
    BY <1>0, <2>1, <2>4, <2>6
  <2>8. QED
    BY <2>2, <2>3, <2>5, <2>6, <2>7
<1>3. CASE start \in Clusters
  <2>1. Chain(F, start) = {FollowChain(F, start, k) : k \in 0 .. (n - 1)}
    BY <1>2, <1>3 DEF Chain
  <2>2. \A k \in 0 .. (n - 1) : FollowChain(F, start, k) \in Reach(F, start)
    <3>1. ASSUME NEW k \in 0 .. (n - 1) PROVE FollowChain(F, start, k) \in Reach(F, start)
      <4>1. k \in Nat
        BY <1>0
      <4>2. QED
        BY <4>1 DEF Ends, Reach
    <3>2. QED
      BY <3>1
  <2>3. \A c \in Reach(F, start) : \E k \in 0 .. (n - 1) : c = FollowChain(F, start, k)
    BY ChainSize
  <2>4. QED
    BY <1>1, <1>2, <2>1, <2>2, <2>3
<1>4. CASE start \notin Clusters
  <2>1. Chain(F, start) = {}
    BY <1>4 DEF Chain
  <2>2. n = 0
    BY <1>0, <1>1, <1>4
  <2>3. \A c \in Reach(F, start) : \E k \in 0 .. (n - 1) : c = FollowChain(F, start, k)
    BY ChainSize
  <2>4. \A k \in 0 .. (n - 1) : FALSE
    BY <2>2
  <2>5. Reach(F, start) = {}
    BY <2>3, <2>4
  <2>6. QED
    BY <1>1, <1>4, <2>1, <2>5
<1>5. QED
  BY <1>3, <1>4

\* A chain that ends in EOC has no free cluster.
LEMMA ChainTaken ==
  ASSUME NEW F \in FATs, NEW start \in ClusterRefs, NEW n, Ends(F, start, n),
         n > 0 => FollowChain(F, start, n) = EOC
  PROVE  \A c \in Reach(F, start) : F[c] # FATFree
<1>1. SUFFICES ASSUME NEW c \in Reach(F, start) PROVE F[c] # FATFree
  OBVIOUS
<1>2. PICK k \in 0 .. (n - 1) : c = FollowChain(F, start, k)
  BY ChainSize
<1>3. n \in Nat /\ k \in Nat /\ k + 1 \in Nat /\ n > 0 /\ (k + 1 < n \/ k + 1 = n)
  BY DEF Ends
<1>4. FollowChain(F, start, k + 1) = F[c]
  BY <1>2, <1>3, ChainStep DEF Followed, Ends
<1>5. CASE k + 1 < n
  BY <1>3, <1>4, <1>5, EndStays, References
<1>6. CASE k + 1 = n
  BY <1>3, <1>4, <1>6, References
<1>7. QED
  BY <1>3, <1>5, <1>6

\* A file that starts at 0 has no clusters.
LEMMA NoChain ==
  ASSUME NEW F \in FATs
  PROVE  Ends(F, 0, 0) /\ Reach(F, 0) = {} /\ \A k \in Nat : FollowChain(F, 0, k) = 0
<1>1. Ends(F, 0, 0)
  <2>1. FollowChain(F, 0, 0) = 0
    BY ChainStep, References
  <2>2. \A k \in 0 .. (0 - 1) : FALSE
    OBVIOUS
  <2>3. QED
    BY <2>1, <2>2, References DEF Ends
<1>2. \A k \in Nat : FollowChain(F, 0, k) = 0
  BY <1>1, ChainStep, EndStays, References
<1>3. QED
  BY <1>1, <1>2, References DEF Reach

\* A chain of one cluster.
LEMMA FreshChain ==
  ASSUME NEW G \in FATs, NEW c \in Clusters, G[c] = EOC
  PROVE  /\ Ends(G, c, 1) /\ FollowChain(G, c, 1) = EOC
         /\ FollowChain(G, c, 0) = c /\ Reach(G, c) = {c}
<1>0. c \in ClusterRefs
  BY References
<1>1. FollowChain(G, c, 0) = c
  BY <1>0, ChainStep
<1>2. FollowChain(G, c, 1) = EOC
  <2>1. 0 \in Nat /\ 0 + 1 = 1
    OBVIOUS
  <2>2. FollowChain(G, c, 0 + 1) = Followed(G, FollowChain(G, c, 0))
    BY <1>0, <2>1, ChainStep
  <2>3. QED
    BY <1>1, <2>1, <2>2 DEF Followed
<1>3. Ends(G, c, 1)
  <2>1. \A k \in 0 .. (1 - 1) : k = 0
    OBVIOUS
  <2>2. QED
    BY <1>1, <1>2, <2>1, References DEF Ends
<1>4. \A d \in Reach(G, c) : d = c
  <2>1. ASSUME NEW d \in Reach(G, c) PROVE d = c
    <3>1. PICK k \in 0 .. (1 - 1) : d = FollowChain(G, c, k)
      BY <1>0, <1>3, ChainSize
    <3>2. k = 0
      OBVIOUS
    <3>3. QED
      BY <1>1, <3>1, <3>2
  <2>2. QED
    BY <2>1
<1>5. c \in Reach(G, c)
  <2>1. 0 \in Nat
    OBVIOUS
  <2>2. QED
    BY <1>1, <2>1 DEF Reach
<1>6. QED
  BY <1>1, <1>2, <1>3, <1>4, <1>5

\* A chain with one more cluster at its end.
Lengthened(F, start, n, c, G) == G = [F EXCEPT ![c] = EOC, ![FollowChain(F, start, n - 1)] = c]

\* A free cluster linked to the last one of a chain: what ExtendFile leaves.
LEMMA LongerChain ==
  ASSUME NEW F \in FATs, NEW start \in ClusterRefs, NEW n, Ends(F, start, n), n > 0,
         FollowChain(F, start, n) = EOC, NEW c \in Clusters, F[c] = FATFree,
         NEW G, Lengthened(F, start, n, c, G)
  PROVE  /\ c \notin Reach(F, start)
         /\ G \in FATs
         /\ Ends(G, start, n + 1) /\ FollowChain(G, start, n + 1) = EOC
         /\ \A k \in 0 .. (n - 1) : FollowChain(G, start, k) = FollowChain(F, start, k)
         /\ FollowChain(G, start, n) = c
         /\ Reach(G, start) = Reach(F, start) \cup {c}
         /\ \A d \in Clusters : d # c /\ d \notin Reach(F, start) => G[d] = F[d]
<1> DEFINE last == FollowChain(F, start, n - 1)
<1>0. n \in Nat /\ n - 1 \in Nat /\ n - 1 < n /\ (n - 1) + 1 = n /\ n + 1 \in Nat
  BY DEF Ends
<1>1. c \notin Reach(F, start)
  BY ChainTaken
<1>2. last \in Clusters /\ last \in Reach(F, start)
  <2>1. last \in Clusters
    BY <1>0, EndStays
  <2>2. QED
    BY <1>0, <2>1 DEF Reach
<1>3. last # c
  BY <1>1, <1>2
<1>4. G \in FATs /\ G[c] = EOC /\ G[last] = c /\ \A d \in Clusters : d # c /\ d # last => G[d] = F[d]
  <2> HIDE DEF last
  <2>1. G = [F EXCEPT ![c] = EOC, ![last] = c]
    BY DEF last, Lengthened
  <2>2. c \in ClusterRefs /\ EOC \in ClusterRefs
    BY References
  <2>3. QED
    BY <1>2, <1>3, <2>1, <2>2 DEF FATs
<1>5. \A k \in Nat : k < n => FollowChain(G, start, k) = FollowChain(F, start, k)
  <2> DEFINE S == {k \in Nat : k < n => FollowChain(G, start, k) = FollowChain(F, start, k)}
  <2>1. 0 \in S
    BY <1>4, ChainStep
  <2>2. ASSUME NEW k \in S PROVE k + 1 \in S
    <3>1. SUFFICES ASSUME k + 1 < n PROVE FollowChain(G, start, k + 1) = FollowChain(F, start, k + 1)
      OBVIOUS
    <3>2. k < n /\ k < n - 1
      BY <1>0, <3>1
    <3>3. FollowChain(G, start, k) = FollowChain(F, start, k)
      BY <3>2
    <3>4. FollowChain(F, start, k) \in Clusters
      BY <3>2, EndStays
    <3>5. FollowChain(F, start, k) # last
      <4>1. FollowChain(F, start, k) = FollowChain(F, start, n - 1) => k = n - 1
        BY <1>0, <3>2, NoClusterTwice
      <4>2. QED
        BY <1>0, <3>2, <4>1
    <3>6. FollowChain(F, start, k) # c
      BY <1>1, <3>4 DEF Reach
    <3>7. G[FollowChain(F, start, k)] = F[FollowChain(F, start, k)]
      BY <1>4, <3>4, <3>5, <3>6
    <3>8. Followed(G, FollowChain(G, start, k)) = Followed(F, FollowChain(F, start, k))
      BY <3>3, <3>4, <3>7 DEF Followed
    <3>9. k \in Nat
      OBVIOUS
    <3>10. QED
      BY <1>4, <3>8, <3>9, ChainStep
  <2>3. \A k \in Nat : k \in S
    <3>1. S \in SUBSET Nat
      OBVIOUS
    <3> HIDE DEF S
    <3>2. QED
      BY <2>1, <2>2, <3>1, Induction
  <2>4. QED
    BY <2>3
<1>6. FollowChain(G, start, n) = c
  <2>1. FollowChain(G, start, n - 1) = last
    BY <1>0, <1>5
  <2>2. FollowChain(G, start, (n - 1) + 1) = Followed(G, FollowChain(G, start, n - 1))
    BY <1>0, <1>4, ChainStep
  <2>3. QED
    BY <1>0, <1>2, <1>4, <2>1, <2>2 DEF Followed
<1>7. FollowChain(G, start, n + 1) = EOC
  <2>1. FollowChain(G, start, n + 1) = Followed(G, FollowChain(G, start, n))
    BY <1>0, <1>4, ChainStep
  <2>2. QED
    BY <1>4, <1>6, <2>1 DEF Followed
<1>8. \A k \in 0 .. (n - 1) : k \in Nat /\ k < n
  BY <1>0
<1>9. Ends(G, start, n + 1)
  <2>1. ASSUME NEW k \in 0 .. ((n + 1) - 1) PROVE FollowChain(G, start, k) \in Clusters
    <3>1. k \in Nat /\ (k < n \/ k = n)
      BY <1>0
    <3>2. k < n => FollowChain(F, start, k) \in Clusters
      BY <3>1, EndStays
    <3>3. QED
      BY <1>5, <1>6, <3>1, <3>2
  <2>2. QED
    BY <1>0, <1>7, <2>1, References DEF Ends
<1>10. Reach(G, start) = Reach(F, start) \cup {c}
  <2>1. ASSUME NEW d \in Reach(G, start) PROVE d \in Reach(F, start) \/ d = c
    <3>1. PICK k \in 0 .. ((n + 1) - 1) : d = FollowChain(G, start, k)
      BY <1>4, <1>9, ChainSize
    <3>2. k \in Nat /\ (k < n \/ k = n)
      BY <1>0
    <3>3. CASE k < n
      <4>1. d = FollowChain(F, start, k) /\ d \in Clusters
        BY <1>5, <3>1, <3>2, <3>3, EndStays
      <4>2. QED
        BY <3>2, <4>1 DEF Reach
    <3>4. QED
      BY <1>6, <3>1, <3>2, <3>3
  <2>2. ASSUME NEW d \in Reach(F, start) PROVE d \in Reach(G, start)
    <3>1. PICK k \in 0 .. (n - 1) : d = FollowChain(F, start, k)
      BY ChainSize
    <3>2. d \in Clusters
      BY DEF Reach
    <3>3. d = FollowChain(G, start, k) /\ k \in Nat
      BY <1>5, <1>8, <3>1
    <3>4. QED
      BY <3>2, <3>3 DEF Reach
  <2>3. c \in Reach(G, start)
    BY <1>0, <1>6 DEF Reach
  <2>4. QED
    BY <2>1, <2>2, <2>3
<1>11. QED
  BY <1>1, <1>2, <1>4, <1>5, <1>6, <1>7, <1>8, <1>9, <1>10

-----------------------------------------------------------------------------
(* The blocks of a disk, and a sequence of writes to them. *)

Sectors == [0 .. (SectorSize - 1) -> Bytes \cup {0}]
Entries == [name : Names \cup {""}, cluster : Clusters \cup {0}, len : Nat]
Dirs    == [1 .. Slots -> Entries]
Blocks  == [Clusters \X Secs -> Sectors]
Disks   == [fat : FATs, dir : Dirs, data : Blocks]

\* Every cluster has its entry in a sector of the FAT.
LEMMA SectorNumber == \A c \in Clusters : FatSector(c) \in 1 .. fatSectors
<1>1. SUFFICES ASSUME NEW c \in Clusters PROVE FatSector(c) \in 1 .. fatSectors
  OBVIOUS
<1>2. c \in Nat /\ c - 2 \in Nat /\ c - 2 <= maxCluster - 2 /\ maxCluster \in Nat
  BY Constants DEF Clusters
<1>3. fatSectors \in Nat /\ FatPerSector \in Nat /\ FatPerSector > 0 /\ fatSectors * FatPerSector \in Nat
  BY Constants
<1>4. fatSectors * FatPerSector >= maxCluster - 1
  BY FilesConstants
<1> DEFINE q == (c - 2) \div FatPerSector
<1>5. q \in Nat /\ q * FatPerSector <= c - 2
  BY <1>2, <1>3
<1>6. q < fatSectors
  <2>1. SUFFICES ASSUME q >= fatSectors PROVE FALSE
    BY <1>3, <1>5
  <2> HIDE DEF q
  <2>2. q * FatPerSector >= fatSectors * FatPerSector
    BY <1>3, <1>5, <2>1
  <2>3. q * FatPerSector \in Nat
    BY <1>3, <1>5
  <2>4. QED
    BY <1>2, <1>3, <1>4, <1>5, <2>2, <2>3
<1>7. QED
  BY <1>3, <1>5, <1>6 DEF FatSector

\* A data write changes one block and keeps the type of the disk.
LEMMA PutData ==
  ASSUME NEW d \in Disks, NEW c \in Clusters, NEW s \in Secs, NEW b \in Sectors
  PROVE  /\ Put(d, DataWrite(c, s, b)) \in Disks
         /\ Put(d, DataWrite(c, s, b)) = [d EXCEPT !.data[<<c, s>>] = b]
<1>1. Put(d, DataWrite(c, s, b)) = [d EXCEPT !.data[<<c, s>>] = b]
  BY DEF Put, DataWrite
<1>2. [d.data EXCEPT ![<<c, s>>] = b] \in Blocks
  BY DEF Disks, Blocks
<1>3. [d EXCEPT !.data[<<c, s>>] = b] \in Disks
  BY <1>2 DEF Disks
<1>4. QED
  BY <1>1, <1>3

\* A directory write changes one entry and keeps the type of the disk.
LEMMA PutDir ==
  ASSUME NEW d \in Disks, NEW s \in 1 .. Slots, NEW e \in Entries
  PROVE  /\ Put(d, DirWrite(s, e)) \in Disks
         /\ Put(d, DirWrite(s, e)) = [d EXCEPT !.dir[s] = e]
<1>1. Put(d, DirWrite(s, e)) = [d EXCEPT !.dir[s] = e]
  BY DEF Put, DirWrite
<1>2. [d.dir EXCEPT ![s] = e] \in Dirs
  BY DEF Disks, Dirs
<1>3. [d EXCEPT !.dir[s] = e] \in Disks
  BY <1>2 DEF Disks
<1>4. QED
  BY <1>1, <1>3

Mix(F, G, i) == [c \in Clusters |-> IF FatSector(c) <= i THEN G[c] ELSE F[c]]

\* Sector i of the FAT, when those before it are written, makes the mix one
\* longer.
LEMMA PutFat ==
  ASSUME NEW d \in Disks, NEW G \in FATs, NEW i \in Nat, i > 0, NEW e \in Disks, d = [e EXCEPT !.fat = Mix(e.fat, G, i - 1)]
  PROVE  /\ Put(d, FatWrite(i, G)) \in Disks
         /\ Put(d, FatWrite(i, G)) = [e EXCEPT !.fat = Mix(e.fat, G, i)]
<1>1. Put(d, FatWrite(i, G)) = [d EXCEPT !.fat = [c \in Clusters |-> IF FatSector(c) = i THEN G[c] ELSE d.fat[c]]]
  BY DEF Put, FatWrite
<1>2. d.fat = Mix(e.fat, G, i - 1)
  BY DEF Disks
<1>3. [c \in Clusters |-> IF FatSector(c) = i THEN G[c] ELSE d.fat[c]] = Mix(e.fat, G, i)
  <2>1. \A c \in Clusters : FatSector(c) \in Nat /\ (FatSector(c) <= i <=> FatSector(c) = i \/ FatSector(c) <= i - 1)
    BY SectorNumber, Constants
  <2>2. \A c \in Clusters : d.fat[c] = IF FatSector(c) <= i - 1 THEN G[c] ELSE e.fat[c]
    BY <1>2 DEF Mix
  <2>3. QED
    BY <2>1, <2>2 DEF Mix
<1>4. Mix(e.fat, G, i) \in FATs
  BY DEF Mix, FATs, Disks
<1>5. [e EXCEPT !.fat = Mix(e.fat, G, i)] \in Disks
  BY <1>4 DEF Disks
<1>6. [d EXCEPT !.fat = Mix(e.fat, G, i)] = [e EXCEPT !.fat = Mix(e.fat, G, i)]
  BY DEF Disks
<1>7. QED
  BY <1>1, <1>3, <1>5, <1>6

\* No sector written is the old FAT, all of them the new one.
LEMMA MixEnds ==
  ASSUME NEW F \in FATs, NEW G \in FATs
  PROVE  Mix(F, G, 0) = F /\ Mix(F, G, fatSectors) = G
<1>1. \A c \in Clusters : FatSector(c) \in Nat /\ ~(FatSector(c) <= 0) /\ FatSector(c) <= fatSectors
  BY SectorNumber, Constants
<1>2. QED
  BY <1>1 DEF Mix, FATs

\* One write after the other.
LEMMA DoneStep ==
  ASSUME NEW w, Len(w) \in Nat, disk \in Disks, NEW k \in Nat,
         \A n \in 1 .. k, d \in Disks : Put(d, w[n]) \in Disks
  PROVE  /\ Done(w, k) \in Disks
         /\ k = 0 => Done(w, k) = disk
         /\ k > 0 => Done(w, k) = Put(Done(w, k - 1), w[k])
<1>1. ASSUME NEW N \in 0 .. k
      PROVE  \E m \in [0 .. N -> Disks] :
               /\ m[0] = disk
               /\ \A n \in 1 .. N : m[n] = Put(m[n - 1], w[n])
               /\ Done(w, N) = m[N]
  <2> DEFINE g == [p \in Disks \X (1 .. N) |-> Put(p[1], w[p[2]])]
             body(f) == [n \in 0 .. N |-> IF n = 0 THEN disk ELSE Put(f[n - 1], w[n])]
             m == CHOOSE f : f = body(f)
  <2>0. \A n \in 1 .. N : n \in 1 .. k
    OBVIOUS
  <2>1. g \in StepFunctions(N, Disks)
    BY <2>0 DEF StepFunctions
  <2>2. PICK f \in [0 .. N -> Disks] :
          /\ f[0] = disk
          /\ \A n \in 1 .. N : f[n] = g[<<f[n - 1], n>>]
    <3> HIDE DEF g
    <3>1. Recursions(N, Disks, disk, g) # {}
      BY <2>1, RecursionOnInterval
    <3>2. QED
      BY <3>1 DEF Recursions
  <2>3. ASSUME NEW n \in 1 .. N PROVE f[n] = Put(f[n - 1], w[n])
    <3>1. n - 1 \in 0 .. N
      OBVIOUS
    <3>2. f[n - 1] \in Disks
      BY <3>1
    <3>3. g[<<f[n - 1], n>>] = Put(f[n - 1], w[n])
      BY <3>2
    <3>4. QED
      BY <2>2, <3>3
  <2>4. f = body(f)
    <3>1. \A n \in 0 .. N : n = 0 \/ n \in 1 .. N
      OBVIOUS
    <3>2. \A n \in 0 .. N : f[n] = IF n = 0 THEN disk ELSE Put(f[n - 1], w[n])
      BY <2>2, <2>3, <3>1
    <3>3. QED
      BY <3>2
  <2>5. m = body(m)
    BY <2>4, Zenon
  <2>6. Done(w, N) = m[N]
    BY DEF Done
  <2> HIDE DEF m
  <2>7. /\ m[0] = disk
        /\ \A n \in 1 .. N : m[n] = Put(m[n - 1], w[n])
        /\ m = [n \in 0 .. N |-> m[n]]
    <3>1. \A n \in 0 .. N : m[n] = IF n = 0 THEN disk ELSE Put(m[n - 1], w[n])
      BY <2>5
    <3>2. DOMAIN m = 0 .. N /\ m = [n \in 0 .. N |-> m[n]]
      BY <2>5
    <3>3. 0 \in 0 .. N /\ \A n \in 1 .. N : n \in 0 .. N /\ n # 0
      OBVIOUS
    <3>4. QED
      BY <3>1, <3>2, <3>3
  <2>8. \A n \in Nat : n <= N => m[n] \in Disks
    <3> DEFINE S == {n \in Nat : n <= N => m[n] \in Disks}
    <3>1. 0 \in S
      BY <2>7
    <3>2. ASSUME NEW n \in S PROVE n + 1 \in S
      <4>1. CASE n + 1 <= N
        <5>1. n + 1 \in 1 .. N /\ (n + 1) - 1 = n /\ n <= N
          BY <4>1
        <5>2. m[n + 1] = Put(m[n], w[n + 1]) /\ m[n] \in Disks /\ n + 1 \in 1 .. k
          BY <2>0, <2>7, <5>1
        <5>3. QED
          BY <5>2
      <4>2. QED
        BY <4>1
    <3>3. S \in SUBSET Nat
      OBVIOUS
    <3>4. \A n \in Nat : n \in S
      <4> HIDE DEF S
      <4>1. QED
        BY <3>1, <3>2, <3>3, Induction
    <3>5. QED
      BY <3>4
  <2>9. m \in [0 .. N -> Disks]
    BY <2>7, <2>8
  <2>10. QED
    BY <2>6, <2>7, <2>9
<1>2. PICK a \in [0 .. k -> Disks] :
        /\ a[0] = disk
        /\ \A n \in 1 .. k : a[n] = Put(a[n - 1], w[n])
        /\ Done(w, k) = a[k]
  <2>1. k \in 0 .. k
    OBVIOUS
  <2>2. QED
    BY <1>1, <2>1
<1>3. ASSUME k > 0 PROVE Done(w, k) = Put(Done(w, k - 1), w[k])
  <2>1. k - 1 \in 0 .. k /\ k \in 1 .. k
    BY <1>3
  <2>2. PICK b \in [0 .. (k - 1) -> Disks] :
          /\ b[0] = disk
          /\ \A n \in 1 .. (k - 1) : b[n] = Put(b[n - 1], w[n])
          /\ Done(w, k - 1) = b[k - 1]
    BY <1>1, <2>1
  <2> DEFINE S == {n \in Nat : n <= k - 1 => a[n] = b[n]}
  <2>3. 0 \in S
    BY <1>2, <2>2
  <2>4. ASSUME NEW n \in S PROVE n + 1 \in S
    <3>1. CASE n + 1 <= k - 1
      <4>1. n + 1 \in 1 .. (k - 1) /\ n + 1 \in 1 .. k /\ (n + 1) - 1 = n /\ a[n] = b[n]
        BY <3>1
      <4>2. QED
        BY <1>2, <2>2, <4>1
    <3>2. QED
      BY <3>1
  <2>5. \A n \in Nat : n \in S
    <3>1. S \in SUBSET Nat
      OBVIOUS
    <3> HIDE DEF S
    <3>2. QED
      BY <2>3, <2>4, <3>1, Induction
  <2>6. k - 1 \in S
    BY <1>3, <2>5
  <2>7. QED
    BY <1>2, <2>1, <2>2, <2>6
<1>4. QED
  BY <1>2, <1>3

-----------------------------------------------------------------------------
(* The invariant. *)

\* The file that starts at start, by the FAT F and the blocks data, is t: its
\* chain ends in EOC, has clusters enough and holds t's bytes in order.
GoodIn(F, data, start, t, n) ==
  /\ Ends(F, start, n)
  /\ n > 0 => FollowChain(F, start, n) = EOC
  /\ Len(t) <= n * ClusterBytes
  /\ \A pos \in 0 .. (Len(t) - 1) : data[SectorAt(F, start, pos)][pos % SectorSize] = t[pos + 1]
Good(F, data, start, t) == \E n \in Nat : GoodIn(F, data, start, t, n)

\* The blocks as an open file sees them: its buffer hides the one it is of.
Seen(data, f) ==
  IF f.bufCluster \in Clusters THEN [data EXCEPT ![<<f.bufCluster, f.bufSecOfs>>] = f.buf] ELSE data

BufferOK(F, data, f) ==
  /\ f.bufCluster # -1 => f.bufCluster \in Reach(F, f.startCluster)
  /\ f.bufDirty => f.bufCluster # -1
  /\ ~f.bufDirty /\ f.bufCluster # -1 => f.buf = data[<<f.bufCluster, f.bufSecOfs>>]

FileOK(F, data, f, t) ==
  /\ f.len = Len(t)
  /\ BufferOK(F, data, f)
  /\ Good(F, Seen(data, f), f.startCluster, t)

EntryOK(F, d, s, t) ==
  /\ d.dir[s].len = Len(t)
  /\ Good(F, d.data, d.dir[s].cluster, t)

\* G has the chain that F has there.
Agree(F, G, start) == \A c \in Reach(F, start) : G[c] = F[c]

Apart(F, a, b) == Reach(F, a) \cap Reach(F, b) = {}

\* What the disk alone says of the entries that are not in tn: each is a whole
\* file, that of sv, and no two share a cluster.
DiskOK(d, tn, sv) ==
  \A s \in (1 .. Slots) \ tn :
    d.dir[s] # NoEntry =>
      /\ EntryOK(d.fat, d, s, sv[s])
      /\ \A u \in (1 .. Slots) \ tn :
           d.dir[u] # NoEntry /\ u # s => Apart(d.fat, d.dir[s].cluster, d.dir[u].cluster)

FileRecs == [name : Names, len : Nat, startCluster : Clusters \cup {0}, dirEntry : 0 .. Slots,
             registered : BOOLEAN, modified : BOOLEAN, buf : Sectors,
             bufCluster : Clusters \cup {-1}, bufSecOfs : Secs, bufDirty : BOOLEAN]
RiderRecs == [file : Handles, pos : Nat, cluster : ClusterRefs, clusterIdx : Nat, secOfs : Secs]
Texts == Seq(Bytes)

Types ==
  /\ disk \in Disks /\ fat \in FATs /\ fatDirty \in BOOLEAN
  /\ file \in [DOMAIN file -> FileRecs] /\ DOMAIN file \subseteq Handles
  /\ text \in [DOMAIN file -> Texts]
  /\ saved \in [1 .. Slots -> Texts]
  /\ rider \in [DOMAIN rider -> RiderRecs]
  /\ torn \subseteq {s \in 1 .. Slots : disk.dir[s] # NoEntry}
  /\ ~fatDirty => disk.fat = fat

\* An open file and its entry.
Linked(h) ==
  LET f == file[h]
      e == disk.dir[f.dirEntry]
  IN  f.registered =>
        /\ f.dirEntry \notin torn /\ e # NoEntry
        /\ Len(saved[f.dirEntry]) <= Len(text[h])
        /\ f.modified => Len(saved[f.dirEntry]) # Len(text[h])
        /\ ~f.modified => /\ e.cluster = f.startCluster /\ e.len = f.len
                          /\ Agree(fat, disk.fat, f.startCluster)

OpenFiles ==
  \A h \in DOMAIN file :
    /\ FileOK(fat, disk.data, file[h], text[h])
    /\ file[h].registered <=> file[h].dirEntry # 0
    /\ Linked(h)

Idle == {s \in (1 .. Slots) \ torn : disk.dir[s] # NoEntry /\ ~InUse(s)}

IdleEntries ==
  \A s \in Idle :
    /\ EntryOK(fat, disk, s, saved[s])
    /\ Agree(fat, disk.fat, disk.dir[s].cluster)

NoSharing ==
  /\ \A g, h \in DOMAIN file : g # h =>
       /\ Apart(fat, file[g].startCluster, file[h].startCluster)
       /\ file[g].registered => file[g].dirEntry # file[h].dirEntry
  /\ \A h \in DOMAIN file, s \in Idle : Apart(fat, file[h].startCluster, disk.dir[s].cluster)
  /\ \A s, u \in Idle : s # u => Apart(fat, disk.dir[s].cluster, disk.dir[u].cluster)

RidersInStep ==
  \A r \in DOMAIN rider :
    /\ rider[r].file \in DOMAIN file
    /\ rider[r].pos <= file[rider[r].file].len
    /\ r \notin stale =>
         rider[r].cluster = FollowChain(fat, file[rider[r].file].startCluster, rider[r].clusterIdx)

IInv ==
  /\ Types /\ OpenFiles /\ IdleEntries /\ NoSharing /\ RidersInStep
  /\ ~misread /\ ~wild

-----------------------------------------------------------------------------
(* Positions and sectors. *)

\* Quotient and remainder.
LEMMA Division ==
  ASSUME NEW a \in Nat, NEW m \in Nat, m > 0
  PROVE  /\ a \div m \in Nat /\ a % m \in 0 .. (m - 1)
         /\ a = (a \div m) * m + (a % m)
OBVIOUS

\* There is one quotient and one remainder.
LEMMA DivisionUnique ==
  ASSUME NEW m \in Nat, m > 0, NEW x \in Nat, NEW i \in Nat, i < m, NEW y \in Nat, NEW j \in Nat, j < m,
         x * m + i = y * m + j
  PROVE  x = y /\ i = j
<1>1. ASSUME NEW u \in Nat, NEW v \in Nat, NEW k \in Nat, NEW l \in Nat, k < m, l < m, u * m + k = v * m + l, u < v
      PROVE  FALSE
  <2>1. v * m >= (u + 1) * m
    <3>1. v >= u + 1 /\ v - (u + 1) \in Nat
      BY <1>1
    <3>2. (v - (u + 1)) * m >= 0
      BY <3>1
    <3>3. v * m = (u + 1) * m + (v - (u + 1)) * m
      BY <3>1
    <3>4. (u + 1) * m \in Nat /\ (v - (u + 1)) * m \in Nat
      BY <3>1
    <3>5. QED
      BY <3>2, <3>3, <3>4
  <2>2. (u + 1) * m = u * m + m
    OBVIOUS
  <2>3. u * m \in Nat /\ v * m \in Nat
    OBVIOUS
  <2>4. QED
    BY <1>1, <2>1, <2>2, <2>3
<1>2. x = y
  BY <1>1
<1>3. QED
  BY <1>2

\* A position is a cluster, a sector in it and an index in the sector, which is
\* what BufIdx computes.
LEMMA Geometry ==
  /\ ClusterBytes \in Nat /\ ClusterBytes > 0
  /\ \A pos \in Nat :
       /\ pos \div ClusterBytes \in Nat
       /\ (pos % ClusterBytes) \div SectorSize \in Secs
       /\ pos % SectorSize \in 0 .. (SectorSize - 1)
       /\ pos - (pos \div ClusterBytes) * ClusterBytes - ((pos % ClusterBytes) \div SectorSize) * SectorSize
            = pos % SectorSize
<1> DEFINE k == secsPerCluster
           m == SectorSize
           b == k * m
<1>1. k \in Nat /\ k > 0 /\ m \in Nat /\ m > 0 /\ b = ClusterBytes
  BY Constants DEF ClusterBytes
<1>2. b \in Nat /\ b > 0
  <2> HIDE DEF k, m
  <2>1. b \in Nat
    BY <1>1
  <2>2. (k - 1) * m \in Nat /\ k * m = (k - 1) * m + m
    <3>1. k - 1 \in Nat
      BY <1>1
    <3>2. QED
      BY <1>1, <3>1
  <2>3. QED
    BY <1>1, <2>1, <2>2
<1>3. ASSUME NEW pos \in Nat
      PROVE  /\ pos \div b \in Nat
             /\ (pos % b) \div m \in Secs
             /\ pos % m \in 0 .. (m - 1)
             /\ pos - (pos \div b) * b - ((pos % b) \div m) * m = pos % m
  <2> DEFINE q == pos \div b
             l == pos % b
             s == l \div m
             i == l % m
  <2>0. pos % m \in 0 .. (m - 1) /\ pos \div m \in Nat /\ pos = (pos \div m) * m + (pos % m)
    <3> HIDE DEF m
    <3>1. QED
      BY <1>1, Division
  <2>1. q \in Nat /\ l \in 0 .. (b - 1) /\ pos = q * b + l
    <3> HIDE DEF b
    <3>1. QED
      BY <1>2, Division
  <2>2. l \in Nat
    BY <1>2, <2>1
  <2>3. s \in Nat /\ i \in 0 .. (m - 1) /\ l = s * m + i
    <3> HIDE DEF l, m
    <3>1. QED
      BY <1>1, <2>2, Division
  <2> HIDE DEF s, i, q, l
  <2>4. q * b = (q * k) * m /\ q * k \in Nat
    <3> HIDE DEF k, m
    <3>1. QED
      BY <1>1, <2>1
  <2> DEFINE u == q * k + s
  <2>5. u \in Nat
    BY <2>3, <2>4
  <2>6. u * m = (q * k) * m + s * m
    <3> DEFINE v == q * k
    <3>1. v \in Nat
      BY <2>4
    <3> HIDE DEF v, m, k
    <3>2. (v + s) * m = v * m + s * m
      BY <1>1, <2>3, <3>1
    <3>3. QED
      BY <3>2 DEF v
  <2>7. pos = u * m + i
    <3>1. (q * k) * m \in Nat /\ s * m \in Nat
      <4> HIDE DEF k, m
      <4>1. QED
        BY <1>1, <2>1, <2>3, <2>4
    <3> HIDE DEF b, u, k, m
    <3>2. QED
      BY <1>1, <2>1, <2>3, <2>4, <2>6, <3>1
  <2>8. i = pos % m
    <3> HIDE DEF u, b, k, m
    <3>1. i \in Nat /\ i < m /\ pos % m \in Nat /\ pos % m < m
      BY <1>1, <2>0, <2>3
    <3>2. QED
      BY <1>1, <2>0, <2>5, <2>7, <3>1, DivisionUnique
  <2>9. s < k
    <3> HIDE DEF k, m
    <3>1. SUFFICES ASSUME s >= k PROVE FALSE
      BY <1>1, <2>3
    <3>2. s - k \in Nat /\ (s - k) * m \in Nat /\ s * m = k * m + (s - k) * m
      <4>1. s - k \in Nat
        BY <1>1, <2>3, <3>1
      <4>2. QED
        BY <1>1, <2>3, <4>1
    <3>3. k * m = b /\ s * m \in Nat
      BY <1>1, <2>3
    <3> HIDE DEF b
    <3>4. QED
      BY <1>1, <1>2, <2>1, <2>3, <3>2, <3>3
  <2>10. s \in Secs
    BY <1>1, <2>3, <2>9 DEF Secs
  <2>11. pos - q * b - s * m = pos % m
    <3>1. s * m \in Nat /\ q * b \in Nat
      <4> HIDE DEF k, m, b
      <4>1. QED
        BY <1>1, <1>2, <2>1, <2>3
    <3> HIDE DEF b, k, m
    <3>2. QED
      BY <1>1, <2>1, <2>3, <2>8, <3>1
  <2>12. QED
    BY <2>0, <2>1, <2>10, <2>11 DEF q, s, l
<1>4. QED
  BY <1>1, <1>2, <1>3

\* The positions of n clusters are those whose cluster number is below n.
LEMMA ClusterOf ==
  ASSUME NEW pos \in Nat, NEW n \in Nat
  PROVE  /\ pos < n * ClusterBytes <=> pos \div ClusterBytes < n
         /\ pos = n * ClusterBytes => pos \div ClusterBytes = n
         /\ n * ClusterBytes \in Nat
<1> DEFINE b == ClusterBytes
           q == pos \div b
<1>1. b \in Nat /\ b > 0
  BY Geometry
<1>2. q \in Nat /\ pos % b \in 0 .. (b - 1) /\ pos = q * b + (pos % b)
  <2> HIDE DEF b
  <2>1. QED
    BY <1>1, Division
<1> HIDE DEF b, q
<1>3. n * b \in Nat /\ q * b \in Nat
  BY <1>1, <1>2
<1>4. ASSUME q < n PROVE pos < n * b
  <2>1. n - (q + 1) \in Nat /\ n * b = q * b + b + (n - (q + 1)) * b
    <3>1. n - (q + 1) \in Nat
      BY <1>2, <1>4
    <3>2. QED
      BY <1>1, <1>2, <3>1
  <2>2. (n - (q + 1)) * b \in Nat
    BY <1>1, <2>1
  <2>3. QED
    BY <1>1, <1>2, <1>3, <2>1, <2>2
<1>5. ASSUME pos < n * b PROVE q < n
  <2>1. SUFFICES ASSUME q >= n PROVE FALSE
    BY <1>2
  <2>2. q - n \in Nat /\ (q - n) * b \in Nat /\ q * b = n * b + (q - n) * b
    <3>1. q - n \in Nat
      BY <1>2, <2>1
    <3>2. QED
      BY <1>1, <1>2, <3>1
  <2>3. QED
    BY <1>1, <1>2, <1>3, <1>5, <2>2
<1>6. ASSUME pos = n * b PROVE q = n
  <2>1. q * b + (pos % b) = n * b + 0 /\ pos % b \in Nat /\ pos % b < b /\ 0 \in Nat /\ 0 < b
    BY <1>1, <1>2, <1>3, <1>6
  <2>2. QED
    BY <1>1, <1>2, <2>1, DivisionUnique
<1>7. QED
  BY <1>3, <1>4, <1>5, <1>6 DEF b, q

\* A position inside the chain is in a block of one of its clusters.
LEMMA BlockOfPosition ==
  ASSUME NEW F \in FATs, NEW start \in ClusterRefs, NEW n, Ends(F, start, n),
         NEW pos \in Nat, pos < n * ClusterBytes
  PROVE  /\ SectorAt(F, start, pos) \in Clusters \X Secs
         /\ SectorAt(F, start, pos)[1] = FollowChain(F, start, pos \div ClusterBytes)
         /\ SectorAt(F, start, pos)[1] \in Reach(F, start)
         /\ SectorAt(F, start, pos)[2] = (pos % ClusterBytes) \div SectorSize
<1> DEFINE q == pos \div ClusterBytes
           s == (pos % ClusterBytes) \div SectorSize
<1>1. n \in Nat
  BY DEF Ends
<1>2. q \in Nat /\ q < n
  BY <1>1, ClusterOf, Geometry
<1>3. s \in Secs
  BY Geometry
<1>4. SectorAt(F, start, pos) = <<FollowChain(F, start, q), s>>
  BY DEF SectorAt
<1> HIDE DEF q, s
<1>5. FollowChain(F, start, q) \in Clusters
  BY <1>2, EndStays
<1>6. FollowChain(F, start, q) \in Reach(F, start)
  BY <1>2, <1>5 DEF Reach
<1>7. QED
  BY <1>3, <1>4, <1>5, <1>6 DEF q, s

\* No two positions share a byte of a block.
LEMMA OneByte ==
  ASSUME NEW F \in FATs, NEW start \in ClusterRefs, NEW n, Ends(F, start, n),
         NEW p \in Nat, p < n * ClusterBytes, NEW q \in Nat, q < n * ClusterBytes,
         SectorAt(F, start, p) = SectorAt(F, start, q), p % SectorSize = q % SectorSize
  PROVE  p = q
<1> DEFINE cp == p \div ClusterBytes
           cq == q \div ClusterBytes
           sp == (p % ClusterBytes) \div SectorSize
           sq == (q % ClusterBytes) \div SectorSize
<1>1. n \in Nat
  BY DEF Ends
<1>2. cp \in Nat /\ cp < n /\ cq \in Nat /\ cq < n
  BY <1>1, ClusterOf, Geometry
<1>3. FollowChain(F, start, cp) = FollowChain(F, start, cq) /\ sp = sq
  BY DEF SectorAt
<1>4. cp = cq
  <2> HIDE DEF cp, cq
  <2>1. QED
    BY <1>2, <1>3, NoClusterTwice
<1>5. /\ p - cp * ClusterBytes - sp * SectorSize = p % SectorSize
      /\ q - cq * ClusterBytes - sq * SectorSize = q % SectorSize
  BY Geometry
<1> DEFINE x == cp * ClusterBytes
           y == sp * SectorSize
<1>6. x \in Nat /\ y \in Nat
  <2>1. sp \in Nat /\ ClusterBytes \in Nat /\ SectorSize \in Nat
    <3>1. sp \in Secs
      BY Geometry
    <3>2. QED
      BY <3>1, Geometry, Constants DEF Secs
  <2> HIDE DEF cp, sp
  <2>2. QED
    BY <1>2, <2>1
<1>7. p - x - y = q - x - y
  BY <1>3, <1>4, <1>5
<1>8. QED
  <2> HIDE DEF x, y
  <2>1. QED
    BY <1>6, <1>7

-----------------------------------------------------------------------------
(* Whole files: what leaves them alone, and what a write makes of them. *)

\* A good file's chain ends and is long enough.
LEMMA GoodEnds ==
  ASSUME NEW F, NEW data, NEW start, NEW t, NEW n, GoodIn(F, data, start, t, n)
  PROVE  Ends(F, start, n) /\ n \in Nat /\ (n > 0 => FollowChain(F, start, n) = EOC) /\ Len(t) <= n * ClusterBytes
BY DEF GoodIn, Ends

\* A position of the text is a position inside the chain.
LEMMA Position ==
  ASSUME NEW t \in Texts, NEW n \in Nat, Len(t) <= n * ClusterBytes, NEW pos \in 0 .. (Len(t) - 1)
  PROVE  pos \in Nat /\ pos < n * ClusterBytes
<1>1. Len(t) \in Nat
  BY LenProperties DEF Texts
<1>2. n * ClusterBytes \in Nat
  BY ClusterOf
<1>3. QED
  BY <1>1, <1>2

\* A file stays good when its links and its blocks do.
LEMMA GoodFrame ==
  ASSUME NEW F \in FATs, NEW G \in FATs, NEW data, NEW other, NEW start \in ClusterRefs, NEW t \in Texts,
         NEW n, GoodIn(F, data, start, t, n), Agree(F, G, start),
         \A c \in Reach(F, start), s \in Secs : other[<<c, s>>] = data[<<c, s>>]
  PROVE  GoodIn(G, other, start, t, n)
<1>1. Ends(F, start, n) /\ n \in Nat /\ (n > 0 => FollowChain(F, start, n) = EOC) /\ Len(t) <= n * ClusterBytes
  BY GoodEnds
<1>2. \A k \in Nat : FollowChain(G, start, k) = FollowChain(F, start, k)
  BY SameChain DEF Agree
<1>3. Ends(G, start, n)
  BY <1>1, SameChain DEF Agree
<1>4. ASSUME NEW pos \in 0 .. (Len(t) - 1)
      PROVE  other[SectorAt(G, start, pos)][pos % SectorSize] = t[pos + 1]
  <2>1. pos \in Nat /\ pos < n * ClusterBytes
    BY <1>1, Position
  <2>2. pos \div ClusterBytes \in Nat
    BY <2>1, Geometry
  <2>3. SectorAt(G, start, pos) = SectorAt(F, start, pos)
    BY <1>2, <2>2 DEF SectorAt
  <2>4. PICK c \in Reach(F, start), s \in Secs : SectorAt(F, start, pos) = <<c, s>>
    <3>1. SectorAt(F, start, pos) \in Clusters \X Secs /\ SectorAt(F, start, pos)[1] \in Reach(F, start)
      BY <1>1, <2>1, BlockOfPosition
    <3>2. QED
      BY <3>1
  <2>5. data[SectorAt(F, start, pos)][pos % SectorSize] = t[pos + 1]
    BY DEF GoodIn
  <2>6. QED
    BY <2>3, <2>4, <2>5
<1>5. QED
  BY <1>1, <1>2, <1>3, <1>4 DEF GoodIn

\* The byte at pos, inside the chain and not past the end, becomes x.
\* The blocks with the byte x at pos of the file that starts there.
BytePut(F, data, start, pos, x, other) ==
  other = [data EXCEPT ![SectorAt(F, start, pos)] = [@ EXCEPT ![pos % SectorSize] = x]]

\* A byte put at a position, at most the end, of a file that has a cluster
\* there.
LEMMA GoodOverwrite ==
  ASSUME NEW F \in FATs, NEW data \in Blocks, NEW start \in ClusterRefs, NEW t \in Texts, NEW n,
         GoodIn(F, data, start, t, n), NEW pos \in Nat, pos <= Len(t), pos < n * ClusterBytes, NEW x \in Bytes,
         NEW other, BytePut(F, data, start, pos, x, other)
  PROVE  /\ Overwrite(t, pos, x) \in Texts
         /\ pos + 1 > Len(t) => Len(Overwrite(t, pos, x)) = pos + 1
         /\ ~(pos + 1 > Len(t)) => Len(Overwrite(t, pos, x)) = Len(t)
         /\ GoodIn(F, other, start, Overwrite(t, pos, x), n)
<1> other = [data EXCEPT ![SectorAt(F, start, pos)] = [@ EXCEPT ![pos % SectorSize] = x]]
  BY DEF BytePut
<1> DEFINE u == Overwrite(t, pos, x)
<1>1. Ends(F, start, n) /\ n \in Nat /\ (n > 0 => FollowChain(F, start, n) = EOC) /\ Len(t) <= n * ClusterBytes
  BY GoodEnds
<1>2. Len(t) \in Nat /\ t \in Seq(Bytes) /\ n * ClusterBytes \in Nat
  BY <1>1, LenProperties, ClusterOf DEF Texts
<1>3. /\ u \in Seq(Bytes) /\ Len(u) \in Nat
      /\ Len(u) = IF pos + 1 > Len(t) THEN pos + 1 ELSE Len(t)
      /\ \A p \in 0 .. (Len(u) - 1) : u[p + 1] = IF p = pos THEN x ELSE t[p + 1]
      /\ \A p \in 0 .. (Len(u) - 1) : p # pos => p \in 0 .. (Len(t) - 1)
  <2>1. CASE pos < Len(t)
    <3>1. pos + 1 \in 1 .. Len(t)
      BY <1>2, <2>1
    <3>2. u = [t EXCEPT ![pos + 1] = x]
      BY <2>1 DEF Overwrite
    <3>3. u \in Seq(Bytes) /\ Len(u) = Len(t) /\ \A i \in 1 .. Len(t) : u[i] = IF i = pos + 1 THEN x ELSE t[i]
      BY <1>2, <3>1, <3>2, ExceptSeq
    <3>4. \A p \in 0 .. (Len(t) - 1) : p + 1 \in 1 .. Len(t) /\ (p + 1 = pos + 1 <=> p = pos)
      BY <1>2
    <3> HIDE DEF u
    <3>5. QED
      BY <1>2, <2>1, <3>3, <3>4
  <2>2. CASE pos = Len(t)
    <3>1. u = Append(t, x)
      BY <1>2, <2>2 DEF Overwrite
    <3>2. /\ u \in Seq(Bytes) /\ Len(u) = Len(t) + 1
          /\ \A i \in 1 .. Len(t) : u[i] = t[i]
          /\ u[Len(t) + 1] = x
      BY <1>2, <3>1, AppendProperties
    <3> HIDE DEF u
    <3>3. QED
      BY <1>2, <2>2, <3>2
  <2>3. QED
    BY <1>2, <2>1, <2>2
<1> HIDE DEF u
<1>4. Len(u) <= n * ClusterBytes
  BY <1>1, <1>2, <1>3
<1>5. SectorAt(F, start, pos) \in Clusters \X Secs
  BY <1>1, BlockOfPosition
<1>6. ASSUME NEW p \in 0 .. (Len(u) - 1)
      PROVE  other[SectorAt(F, start, p)][p % SectorSize] = u[p + 1]
  <2>1. p \in Nat /\ p < n * ClusterBytes
    BY <1>2, <1>3, <1>4
  <2>2. SectorAt(F, start, p) \in Clusters \X Secs /\ p % SectorSize \in 0 .. (SectorSize - 1)
        /\ pos % SectorSize \in 0 .. (SectorSize - 1)
    BY <1>1, <2>1, BlockOfPosition, Geometry
  <2> DEFINE a == SectorAt(F, start, p)
             b == SectorAt(F, start, pos)
             i == p % SectorSize
             j == pos % SectorSize
  <2>3. a = b /\ i = j => p = pos
    BY <1>1, <2>1, OneByte
  <2>4. p # pos => data[a][i] = t[p + 1]
    BY <1>3 DEF GoodIn
  <2>5. a \in Clusters \X Secs /\ b \in Clusters \X Secs /\ i \in 0 .. (SectorSize - 1) /\ j \in 0 .. (SectorSize - 1)
    BY <1>5, <2>2
  <2>6. p = pos => a = b /\ i = j
    OBVIOUS
  <2>7. other = [data EXCEPT ![b] = [@ EXCEPT ![j] = x]]
    OBVIOUS
  <2> HIDE DEF a, b, i, j
  <2>8. other[a][i] = IF a = b /\ i = j THEN x ELSE data[a][i]
    <3> DEFINE e == [data[b] EXCEPT ![j] = x]
    <3>1. DOMAIN data = Clusters \X Secs /\ data[b] \in Sectors
      BY <2>5 DEF Blocks
    <3>2. DOMAIN data[b] = 0 .. (SectorSize - 1)
      BY <3>1 DEF Sectors
    <3>3. e[i] = IF i = j THEN x ELSE data[b][i]
      BY <2>5, <3>2
    <3>4. other[a] = IF a = b THEN e ELSE data[a]
      <4> HIDE DEF e
      <4>1. other = [data EXCEPT ![b] = e]
        BY <2>7 DEF e
      <4>2. QED
        BY <2>5, <3>1, <4>1
    <3>5. QED
      BY <3>3, <3>4
  <2>9. QED
    BY <1>3, <2>3, <2>4, <2>6, <2>8 DEF a, i
<1>7. QED
  BY <1>1, <1>3, <1>4, <1>6 DEF GoodIn, Texts, u

\* A file with one more cluster holds what it held.
LEMMA GoodLonger ==
  ASSUME NEW F \in FATs, NEW data, NEW start \in ClusterRefs, NEW t \in Texts, NEW n,
         GoodIn(F, data, start, t, n), n > 0, NEW c \in Clusters, F[c] = FATFree,
         NEW G, Lengthened(F, start, n, c, G)
  PROVE  GoodIn(G, data, start, t, n + 1)
<1>1. Ends(F, start, n) /\ n \in Nat /\ FollowChain(F, start, n) = EOC /\ Len(t) <= n * ClusterBytes
  BY GoodEnds
<1>2. /\ Ends(G, start, n + 1) /\ FollowChain(G, start, n + 1) = EOC
      /\ \A k \in 0 .. (n - 1) : FollowChain(G, start, k) = FollowChain(F, start, k)
  BY <1>1, LongerChain
<1>3. Len(t) <= (n + 1) * ClusterBytes
  <2>1. (n + 1) * ClusterBytes = n * ClusterBytes + ClusterBytes /\ n * ClusterBytes \in Nat
    BY <1>1, Geometry
  <2>2. Len(t) \in Nat
    BY LenProperties DEF Texts
  <2>3. QED
    BY <1>1, <2>1, <2>2, Geometry
<1>4. ASSUME NEW pos \in 0 .. (Len(t) - 1)
      PROVE  data[SectorAt(G, start, pos)][pos % SectorSize] = t[pos + 1]
  <2>1. pos \in Nat /\ pos < n * ClusterBytes
    BY <1>1, Position
  <2>2. pos \div ClusterBytes \in Nat /\ pos \div ClusterBytes < n
    BY <1>1, <2>1, Geometry, ClusterOf
  <2>3. pos \div ClusterBytes \in 0 .. (n - 1)
    BY <1>1, <2>2
  <2>4. SectorAt(G, start, pos) = SectorAt(F, start, pos)
    BY <1>2, <2>3 DEF SectorAt
  <2>5. QED
    BY <2>4 DEF GoodIn
<1>5. QED
  BY <1>2, <1>3, <1>4 DEF GoodIn

\* A file without clusters holds nothing, and its first cluster holds that.
LEMMA GoodNone ==
  ASSUME NEW F \in FATs, NEW data
  PROVE  /\ GoodIn(F, data, 0, <<>>, 0)
         /\ \A t \in Texts : \A n : GoodIn(F, data, 0, t, n) => n = 0 /\ Len(t) = 0
<1>1. Ends(F, 0, 0) /\ 0 \in ClusterRefs /\ Len(<<>>) = 0 /\ 0 * ClusterBytes = 0
  BY NoChain, References, Geometry
<1>2. \A pos \in 0 .. (Len(<<>>) - 1) : FALSE
  BY <1>1
<1>3. GoodIn(F, data, 0, <<>>, 0)
  <2>1. ~(0 > 0) /\ Len(<<>>) <= 0 * ClusterBytes
    BY <1>1
  <2>2. QED
    BY <1>1, <1>2, <2>1 DEF GoodIn
<1>4. ASSUME NEW t \in Texts, NEW n, GoodIn(F, data, 0, t, n) PROVE n = 0 /\ Len(t) = 0
  <2>1. Ends(F, 0, n) /\ Len(t) <= n * ClusterBytes
    BY <1>4, GoodEnds
  <2>2. n = 0
    BY <1>1, <2>1, OneEnd
  <2>3. Len(t) \in Nat
    BY LenProperties DEF Texts
  <2>4. QED
    BY <1>1, <2>1, <2>2, <2>3
<1>5. QED
  BY <1>3, <1>4

\* An empty file with its first cluster holds nothing still.
LEMMA GoodFirst ==
  ASSUME NEW F \in FATs, NEW data, NEW t \in Texts, NEW n, GoodIn(F, data, 0, t, n),
         NEW c \in Clusters, NEW G \in FATs, G[c] = EOC
  PROVE  GoodIn(G, data, c, t, 1)
<1>1. Len(t) = 0
  BY GoodNone
<1>2. Ends(G, c, 1) /\ FollowChain(G, c, 1) = EOC
  BY FreshChain
<1>3. 1 * ClusterBytes = ClusterBytes /\ ClusterBytes >= 0
  BY Geometry
<1>4. \A pos \in 0 .. (Len(t) - 1) : FALSE
  BY <1>1
<1>5. Len(t) <= 1 * ClusterBytes
  BY <1>1, <1>3
<1>6. QED
  BY <1>2, <1>4, <1>5 DEF GoodIn

-----------------------------------------------------------------------------
(* The writes of a procedure: its buffer, an entry, the FAT. *)

\* A function on 1 .. n is a sequence of length n.
LEMMA FunctionIsSeq == ASSUME NEW S, NEW n \in Nat, NEW f \in [1 .. n -> S] PROVE f \in Seq(S) /\ Len(f) = n
<1>1. [k \in 1 .. n |-> f[k]] \in Seq(S)
  OBVIOUS
<1>2. f = [k \in 1 .. n |-> f[k]]
  OBVIOUS
<1>3. f \in Seq(S)
  BY <1>1, <1>2
<1>4. DOMAIN f = 1 .. n /\ DOMAIN f = 1 .. Len(f) /\ Len(f) \in Nat
  BY <1>3, LenProperties
<1>5. QED
  BY <1>3, <1>4

FatWrites(F) == [i \in 1 .. fatSectors |-> FatWrite(i, F)]

\* The writes of a FAT are a sequence of one for each of its sectors.
LEMMA FlushFATWrites ==
  ASSUME NEW F, NEW S, \A i \in 1 .. fatSectors : FatWrite(i, F) \in S
  PROVE  /\ FatWrites(F) \in Seq(S) /\ Len(FatWrites(F)) = fatSectors
         /\ \A i \in 1 .. fatSectors : FatWrites(F)[i] = FatWrite(i, F)
<1> DEFINE w == [i \in 1 .. fatSectors |-> FatWrite(i, F)]
<1>1. FatWrites(F) = w
  BY DEF FatWrites
<1>2. w \in [1 .. fatSectors -> S]
  OBVIOUS
<1>3. \A i \in 1 .. fatSectors : w[i] = FatWrite(i, F)
  OBVIOUS
<1> HIDE DEF w
<1>4. w \in Seq(S) /\ Len(w) = fatSectors
  BY <1>2, Constants, FunctionIsSeq
<1>5. QED
  BY <1>1, <1>3, <1>4

\* The FAT's writes, when there are any.
FatTail(t, F, N) == (t = FatWrites(F) /\ N = fatSectors) \/ (t = <<>> /\ N = 0)

\* A set of writes with those of an entry and of the FAT in it.
HasWrites(S, slot, e, F) == DirWrite(slot, e) \in S /\ \A i \in 1 .. fatSectors : FatWrite(i, F) \in S

\* The writes of FlushFAT, or none, are a sequence.
LEMMA TailType ==
  ASSUME NEW F, NEW t, NEW N, FatTail(t, F, N), NEW S, NEW slot, NEW e, HasWrites(S, slot, e, F)
  PROVE  N \in {0, fatSectors} /\ N \in Nat /\ t \in Seq(S) /\ Len(t) = N /\ \A i \in 1 .. N : t[i] = FatWrite(i, F)
<1>1. CASE t = FatWrites(F) /\ N = fatSectors
  <2>1. \A i \in 1 .. fatSectors : FatWrite(i, F) \in S
    BY DEF HasWrites
  <2>2. QED
    BY <1>1, <2>1, FlushFATWrites, Constants
<1>2. CASE t = <<>> /\ N = 0
  <2>1. <<>> \in Seq(S) /\ Len(<<>>) = 0
    BY EmptySeq
  <2>2. \A i \in 1 .. 0 : FALSE
    OBVIOUS
  <2>3. QED
    BY <1>2, <2>1, <2>2
<1>3. QED
  BY <1>1, <1>2 DEF FatTail

\* A block write that makes b of the disk.
PutsTo(x, b) == Put(disk, x) = b /\ \A d \in Disks : Put(d, x) \in Disks

\* m writes, 0 or 1, that make b of the disk, one of an entry, then N of the FAT.
Shape(w, m, slot, e, N, F) ==
  /\ Len(w) = m + 1 + N
  /\ w[m + 1] = DirWrite(slot, e)
  /\ \A i \in 1 .. N : w[m + 1 + i] = FatWrite(i, F)
Plan(w, m, b, slot, e, N, F) ==
  /\ m \in {0, 1} /\ slot \in 1 .. Slots /\ e \in Entries /\ N \in {0, fatSectors} /\ F \in FATs
  /\ Shape(w, m, slot, e, N, F)
  /\ b \in Disks /\ b.fat = disk.fat /\ b.dir = disk.dir
  /\ m = 0 => b = disk
  /\ m = 1 => PutsTo(w[1], b)

\* How they are put together.
Parts(w, v, d, t, S, slot, e, F, N) ==
  /\ v \in Seq(S) /\ HasWrites(S, slot, e, F) /\ FatTail(t, F, N)
  /\ d = <<DirWrite(slot, e)>> /\ w = (v \o d) \o t

\* A flush, an entry and the FAT, one after the other, have the shape of a
\* plan.
LEMMA ShapeOf ==
  ASSUME NEW w, NEW v, NEW d, NEW t, NEW S, NEW slot, NEW e, NEW F, NEW N, Parts(w, v, d, t, S, slot, e, F, N)
  PROVE  /\ w = v \o (d \o t)
         /\ Shape(w, Len(v), slot, e, N, F)
         /\ \A i \in 1 .. Len(v) : w[i] = v[i]
         /\ w \in Seq(S)
<1> DEFINE x == DirWrite(slot, e)
<1>0. /\ v \in Seq(S) /\ HasWrites(S, slot, e, F) /\ FatTail(t, F, N)
      /\ d = <<x>> /\ w = (v \o d) \o t
  BY DEF Parts
<1>1. d \in Seq(S) /\ Len(d) = 1 /\ d[1] = x
  BY <1>0 DEF HasWrites
<1>2. t \in Seq(S) /\ Len(t) = N /\ N \in Nat /\ \A i \in 1 .. N : t[i] = FatWrite(i, F)
  BY <1>0, TailType
<1>3. N \in Nat /\ Len(v) \in Nat
  BY <1>0, <1>2, LenProperties
<1> HIDE DEF x
<1>4. /\ v \o d \in Seq(S) /\ Len(v \o d) = Len(v) + 1
      /\ \A i \in 1 .. Len(v) + 1 : (v \o d)[i] = IF i <= Len(v) THEN v[i] ELSE d[i - Len(v)]
  <2>1. /\ v \o d \in Seq(S) /\ Len(v \o d) = Len(v) + Len(d)
        /\ \A i \in 1 .. Len(v) + Len(d) : (v \o d)[i] = IF i <= Len(v) THEN v[i] ELSE d[i - Len(v)]
    BY <1>0, <1>1, ConcatProperties
  <2>2. QED
    BY <1>1, <2>1
<1>5. (v \o d) \o t = v \o (d \o t)
  BY <1>0, <1>1, <1>2, ConcatAssociative
<1> DEFINE u == v \o d
<1>6. u \in Seq(S) /\ Len(u) = Len(v) + 1 /\ (\A i \in 1 .. Len(v) : u[i] = v[i]) /\ u[Len(v) + 1] = x
  <2>1. u \in Seq(S) /\ Len(u) = Len(v) + 1
    BY <1>4
  <2>2. ASSUME NEW i \in 1 .. Len(v) PROVE u[i] = v[i]
    BY <1>0, <1>3, <1>4
  <2>3. u[Len(v) + 1] = x
    <3>1. Len(v) + 1 \in 1 .. Len(v) + 1 /\ ~(Len(v) + 1 <= Len(v)) /\ (Len(v) + 1) - Len(v) = 1
      BY <1>3
    <3>2. QED
      BY <1>1, <1>4, <3>1
  <2>4. QED
    BY <2>1, <2>2, <2>3
<1> HIDE DEF u
<1>7. /\ w \in Seq(S) /\ Len(w) = Len(v) + 1 + N
      /\ \A i \in 1 .. (Len(v) + 1) + N : w[i] = IF i <= Len(v) + 1 THEN u[i] ELSE t[i - (Len(v) + 1)]
  <2>1. w = u \o t
    BY <1>0 DEF u
  <2>2. /\ u \o t \in Seq(S) /\ Len(u \o t) = Len(u) + Len(t)
        /\ \A i \in 1 .. Len(u) + Len(t) : (u \o t)[i] = IF i <= Len(u) THEN u[i] ELSE t[i - Len(u)]
    BY <1>2, <1>6, ConcatProperties
  <2>3. QED
    BY <1>2, <1>6, <2>1, <2>2
<1>8. w[Len(v) + 1] = x
  <2>1. Len(v) + 1 \in 1 .. (Len(v) + 1) + N
    BY <1>3
  <2>2. QED
    BY <1>3, <1>6, <1>7, <2>1
<1>9. ASSUME NEW i \in 1 .. N PROVE w[Len(v) + 1 + i] = FatWrite(i, F)
  <2>1. /\ Len(v) + 1 + i \in 1 .. (Len(v) + 1) + N /\ ~(Len(v) + 1 + i <= Len(v) + 1)
        /\ (Len(v) + 1 + i) - (Len(v) + 1) = i
    BY <1>3
  <2>2. QED
    BY <1>2, <1>7, <2>1
<1>10. ASSUME NEW i \in 1 .. Len(v) PROVE w[i] = v[i]
  <2>1. i \in 1 .. (Len(v) + 1) + N /\ i <= Len(v) + 1
    BY <1>3
  <2>2. QED
    BY <1>6, <1>7, <2>1
<1>11. Shape(w, Len(v), slot, e, N, F)
  BY <1>7, <1>8, <1>9 DEF Shape, x
<1>12. QED
  BY <1>0, <1>5, <1>7, <1>10, <1>11

\* The disk when the entry and the first i blocks of the FAT are written.
Entered(d, slot, e, F, i) == [[d EXCEPT !.dir[slot] = e] EXCEPT !.fat = Mix(d.fat, F, i)]

\* The disk with an entry and part of the FAT written is a disk.
LEMMA EnteredType ==
  ASSUME NEW d \in Disks, NEW slot \in 1 .. Slots, NEW e \in Entries, NEW F \in FATs, NEW i
  PROVE  /\ Entered(d, slot, e, F, i) \in Disks
         /\ Entered(d, slot, e, F, i).data = d.data
         /\ Entered(d, slot, e, F, i).fat = Mix(d.fat, F, i)
         /\ \A s \in 1 .. Slots : Entered(d, slot, e, F, i).dir[s] = IF s = slot THEN e ELSE d.dir[s]
         /\ Mix(d.fat, F, i) \in FATs
<1>1. Mix(d.fat, F, i) \in FATs
  BY DEF Mix, FATs, Disks
<1>2. [d.dir EXCEPT ![slot] = e] \in Dirs
  BY DEF Dirs, Disks
<1> DEFINE M == Mix(d.fat, F, i)
<1> HIDE DEF M
<1>3. Entered(d, slot, e, F, i) = [fat |-> M, dir |-> [d.dir EXCEPT ![slot] = e], data |-> d.data]
  <2> DEFINE E == [d.dir EXCEPT ![slot] = e]
             x == [d EXCEPT !.dir[slot] = e]
  <2>1. x = [fat |-> d.fat, dir |-> E, data |-> d.data]
    BY DEF Disks
  <2>2. Entered(d, slot, e, F, i) = [x EXCEPT !.fat = M]
    BY DEF Entered, M
  <2> HIDE DEF E, x
  <2>3. QED
    BY <2>1, <2>2 DEF E
<1>4. \A s \in 1 .. Slots : [d.dir EXCEPT ![slot] = e][s] = IF s = slot THEN e ELSE d.dir[s]
  BY DEF Dirs, Disks
<1> DEFINE D == [d.dir EXCEPT ![slot] = e]
<1>5. D \in Dirs /\ M \in FATs /\ d.data \in Blocks
  BY <1>1, <1>2 DEF Disks, M
<1> HIDE DEF D
<1>6. Entered(d, slot, e, F, i) = [fat |-> M, dir |-> D, data |-> d.data]
  BY <1>3 DEF D
<1>7. Entered(d, slot, e, F, i) \in Disks
  BY <1>5, <1>6 DEF Disks
<1>8. Entered(d, slot, e, F, i).data = d.data /\ Entered(d, slot, e, F, i).fat = M
      /\ Entered(d, slot, e, F, i).dir = D
  BY <1>6
<1>9. QED
  BY <1>1, <1>4, <1>7, <1>8 DEF M, D

\* A write of the FAT keeps the type of the disk.
LEMMA PutFatType ==
  ASSUME NEW d \in Disks, NEW G \in FATs, NEW i
  PROVE  Put(d, FatWrite(i, G)) \in Disks
<1>1. Put(d, FatWrite(i, G)) = [d EXCEPT !.fat = [c \in Clusters |-> IF FatSector(c) = i THEN G[c] ELSE d.fat[c]]]
  BY DEF Put, FatWrite
<1>2. [c \in Clusters |-> IF FatSector(c) = i THEN G[c] ELSE d.fat[c]] \in FATs
  BY DEF FATs, Disks
<1>3. QED
  BY <1>1, <1>2 DEF Disks

\* What the disk is after each of the writes of a plan.
LEMMA ShapeDone ==
  ASSUME disk \in Disks, NEW w, NEW m, NEW b, NEW slot, NEW e, NEW N, NEW F, Plan(w, m, b, slot, e, N, F)
  PROVE  \A k \in 0 .. Len(w) :
           Done(w, k) = IF k = 0 THEN disk ELSE IF k <= m THEN b ELSE Entered(b, slot, e, F, k - (m + 1))
<1> /\ m \in {0, 1} /\ slot \in 1 .. Slots /\ e \in Entries /\ N \in Nat /\ F \in FATs
    /\ b \in Disks /\ b.fat = disk.fat
    /\ m = 0 => b = disk
    /\ m = 1 => PutsTo(w[1], b)
    /\ Shape(w, m, slot, e, N, F)
  BY Constants DEF Plan
<1>1. Len(w) \in Nat /\ Len(w) = m + 1 + N /\ w[m + 1] = DirWrite(slot, e)
  BY DEF Shape
<1>2. \A i \in 1 .. N : w[m + 1 + i] = FatWrite(i, F)
  BY DEF Shape
<1>3. ASSUME NEW n \in 1 .. Len(w), n > m + 1
      PROVE  n - (m + 1) \in 1 .. N /\ w[n] = FatWrite(n - (m + 1), F)
  <2>1. n - (m + 1) \in 1 .. N /\ m + 1 + (n - (m + 1)) = n
    BY <1>1, <1>3
  <2>2. QED
    BY <1>2, <2>1
<1>4. ASSUME NEW n \in 1 .. Len(w), NEW d \in Disks PROVE Put(d, w[n]) \in Disks
  <2>1. CASE n <= m
    <3>1. n = 1 /\ m = 1
      BY <1>1, <2>1
    <3>2. QED
      BY <3>1 DEF PutsTo
  <2>2. CASE n = m + 1
    BY <1>1, <2>2, PutDir
  <2>3. CASE n > m + 1
    BY <1>3, <2>3, PutFatType
  <2>4. QED
    BY <1>1, <2>1, <2>2, <2>3
<1>5. \A k \in 0 .. Len(w) : /\ k = 0 => Done(w, k) = disk
                             /\ k > 0 => Done(w, k) = Put(Done(w, k - 1), w[k])
  <2>1. ASSUME NEW k \in 0 .. Len(w)
        PROVE  /\ k = 0 => Done(w, k) = disk
               /\ k > 0 => Done(w, k) = Put(Done(w, k - 1), w[k])
    <3>1. k \in Nat /\ \A n \in 1 .. k, d \in Disks : Put(d, w[n]) \in Disks
      <4>1. \A n \in 1 .. k : n \in 1 .. Len(w)
        BY <1>1
      <4>2. QED
        BY <1>1, <1>4, <4>1
    <3>2. QED
      BY <1>1, <3>1, DoneStep
  <2>2. QED
    BY <2>1
<1> DEFINE Want(k) == IF k = 0 THEN disk ELSE IF k <= m THEN b ELSE Entered(b, slot, e, F, k - (m + 1))
           S == {k \in Nat : k <= Len(w) => Done(w, k) = Want(k)}
<1>6. 0 \in S
  BY <1>1, <1>5
<1>7. ASSUME NEW k \in S PROVE k + 1 \in S
  <2>1. SUFFICES ASSUME k + 1 <= Len(w) PROVE Done(w, k + 1) = Want(k + 1)
    OBVIOUS
  <2>2. k + 1 \in 0 .. Len(w) /\ k + 1 > 0 /\ (k + 1) - 1 = k /\ k \in Nat /\ k <= Len(w)
    BY <1>1, <2>1
  <2>3. Done(w, k + 1) = Put(Done(w, k), w[k + 1]) /\ Done(w, k) = Want(k)
    BY <1>5, <2>2
  <2>4. CASE k + 1 <= m
    <3>1. k = 0 /\ m = 1
      BY <2>2, <2>4
    <3>2. QED
      BY <2>3, <2>4, <3>1 DEF PutsTo
  <2>5. CASE k + 1 = m + 1
    <3>1. k = m
      BY <2>2, <2>5
    <3>2. Done(w, k) = b
      BY <2>3, <3>1
    <3>3. Done(w, k + 1) = [b EXCEPT !.dir[slot] = e]
      BY <1>1, <2>3, <3>1, <3>2, PutDir
    <3>4. (k + 1) - (m + 1) = 0 /\ k + 1 # 0 /\ ~(k + 1 <= m)
      BY <3>1
    <3>5. Mix(b.fat, F, 0) = b.fat
      BY MixEnds DEF Disks
    <3>6. [[b EXCEPT !.dir[slot] = e] EXCEPT !.fat = b.fat] = [b EXCEPT !.dir[slot] = e]
      BY DEF Disks
    <3>7. Entered(b, slot, e, F, 0) = [b EXCEPT !.dir[slot] = e]
      BY <3>5, <3>6 DEF Entered
    <3>8. Want(k + 1) = Entered(b, slot, e, F, 0)
      BY <3>4
    <3>9. QED
      BY <3>3, <3>7, <3>8
  <2>6. CASE k + 1 > m + 1
    <3> DEFINE i == (k + 1) - (m + 1)
               a == [b EXCEPT !.dir[slot] = e]
    <3>1. i \in 1 .. N /\ w[k + 1] = FatWrite(i, F)
      BY <1>3, <2>2, <2>6
    <3>2. k # 0 /\ ~(k <= m) /\ k - (m + 1) = i - 1 /\ i \in Nat /\ i > 0 /\ k + 1 # 0 /\ ~(k + 1 <= m)
      BY <2>2, <2>6
    <3>3. Done(w, k) = Entered(b, slot, e, F, i - 1)
      BY <2>3, <3>2
    <3>4. Want(k + 1) = Entered(b, slot, e, F, i)
      BY <3>2
    <3>5. a \in Disks /\ a.fat = b.fat
      BY PutDir DEF Disks
    <3>6. Entered(b, slot, e, F, i - 1) = [a EXCEPT !.fat = Mix(a.fat, F, i - 1)]
          /\ Entered(b, slot, e, F, i) = [a EXCEPT !.fat = Mix(a.fat, F, i)]
      BY <3>5 DEF Entered
    <3>7. Entered(b, slot, e, F, i - 1) \in Disks
      BY EnteredType
    <3> HIDE DEF i, a
    <3>8. Put(Entered(b, slot, e, F, i - 1), FatWrite(i, F)) = [a EXCEPT !.fat = Mix(a.fat, F, i)]
      BY <3>2, <3>5, <3>6, <3>7, PutFat
    <3>9. QED
      BY <2>3, <3>1, <3>3, <3>4, <3>6, <3>8
  <2>7. QED
    BY <2>2, <2>4, <2>5, <2>6
<1>8. \A k \in Nat : k \in S
  <2>1. S \in SUBSET Nat
    OBVIOUS
  <2> HIDE DEF S
  <2>2. QED
    BY <1>6, <1>7, <2>1, Induction
<1>9. QED
  BY <1>1, <1>8

\* The disk with the buffer of f written to it.
FlushedTo(f) ==
  IF f.bufDirty /\ f.bufCluster \in Clusters
  THEN [disk EXCEPT !.data[<<f.bufCluster, f.bufSecOfs>>] = f.buf] ELSE disk

\* The fields of a File object, one fact each.
LEMMA FileFields ==
  ASSUME NEW f \in FileRecs
  PROVE  /\ f.bufCluster \in Clusters \/ f.bufCluster = -1
         /\ f.bufCluster \in Clusters <=> f.bufCluster # -1
         /\ f.bufCluster \in Clusters <=> f.bufCluster >= 2
         /\ f.bufSecOfs \in Secs /\ f.buf \in Sectors /\ f.bufDirty \in BOOLEAN
         /\ f.startCluster \in ClusterRefs
         /\ f.startCluster \in Clusters \/ f.startCluster = 0
         /\ f.startCluster \in Clusters <=> f.startCluster >= 2
         /\ f.len \in Nat /\ f.name \in Names /\ f.dirEntry \in 0 .. Slots
<1>1. f.bufCluster \in Clusters \cup {-1} /\ f.startCluster \in Clusters \cup {0}
  BY DEF FileRecs
<1>2. f.bufSecOfs \in Secs /\ f.buf \in Sectors /\ f.bufDirty \in BOOLEAN
  BY DEF FileRecs
<1>3. f.len \in Nat /\ f.name \in Names /\ f.dirEntry \in 0 .. Slots
  BY DEF FileRecs
<1>4. \A c \in Clusters : c \in Nat /\ c >= 2 /\ c \in ClusterRefs
  BY References
<1>5. 0 \notin Clusters /\ 0 \in ClusterRefs /\ -1 \notin Clusters /\ ~(-1 >= 2) /\ ~(0 >= 2)
  BY <1>4, References
<1>6. QED
  BY <1>1, <1>2, <1>3, <1>4, <1>5

\* FlushFile writes the block of the buffer, if it is dirty, and nothing else.
LEMMA FlushOf ==
  ASSUME disk \in Disks, NEW f \in FileRecs, NEW S,
         f.bufCluster \in Clusters => DataWrite(f.bufCluster, f.bufSecOfs, f.buf) \in S
  PROVE  /\ FlushFile(f) \in Seq(S) /\ Len(FlushFile(f)) \in {0, 1}
         /\ Len(FlushFile(f)) = 0 => FlushedTo(f) = disk
         /\ Len(FlushFile(f)) = 1 => PutsTo(FlushFile(f)[1], FlushedTo(f))
         /\ FlushedTo(f) \in Disks /\ FlushedTo(f).fat = disk.fat /\ FlushedTo(f).dir = disk.dir
<1> DEFINE x == DataWrite(f.bufCluster, f.bufSecOfs, f.buf)
<1>1. CASE f.bufDirty /\ f.bufCluster \in Clusters
  <2>1. FlushFile(f) = <<x>>
    BY <1>1, FileFields DEF FlushFile
  <2>2. <<x>> \in Seq(S) /\ Len(<<x>>) = 1 /\ <<x>>[1] = x
    BY <1>1
  <2>3. f.bufSecOfs \in Secs /\ f.buf \in Sectors
    BY FileFields
  <2>4. FlushedTo(f) = [disk EXCEPT !.data[<<f.bufCluster, f.bufSecOfs>>] = f.buf]
    BY <1>1 DEF FlushedTo
  <2>5. \A d \in Disks : Put(d, x) \in Disks
    BY <1>1, <2>3, PutData
  <2>6. Put(disk, x) = FlushedTo(f)
    BY <1>1, <2>3, <2>4, PutData
  <2>7. FlushedTo(f) \in Disks /\ FlushedTo(f).fat = disk.fat /\ FlushedTo(f).dir = disk.dir
    BY <2>4, <2>5, <2>6 DEF Disks
  <2> HIDE DEF x
  <2>8. QED
    BY <2>1, <2>2, <2>5, <2>6, <2>7 DEF PutsTo
<1>2. CASE ~(f.bufDirty /\ f.bufCluster \in Clusters)
  <2>1. FlushFile(f) = <<>> /\ FlushedTo(f) = disk
    BY <1>2, FileFields DEF FlushFile, FlushedTo
  <2>2. <<>> \in Seq(S) /\ Len(<<>>) = 0
    BY EmptySeq
  <2>3. QED
    BY <2>1, <2>2
<1>3. QED
  BY <1>1, <1>2

\* What a prefix of the writes may leave, and what all of them do.
Between(w, b, slot, e, F) ==
  \A k \in 0 .. Len(w) :
    /\ Done(w, k) \in Disks
    /\ \A at \in Clusters \X Secs : Done(w, k).data[at] = disk.data[at] \/ Done(w, k).data[at] = b.data[at]
    /\ \A s \in 1 .. Slots : /\ s # slot => Done(w, k).dir[s] = disk.dir[s]
                             /\ s = slot => Done(w, k).dir[s] = disk.dir[s] \/ Done(w, k).dir[s] = e
    /\ \A c \in Clusters : Done(w, k).fat[c] = disk.fat[c] \/ Done(w, k).fat[c] = F[c]

AtLast(w, b, slot, e, F, N) ==
  /\ After(w) \in Disks
  /\ After(w).data = b.data
  /\ \A s \in 1 .. Slots : After(w).dir[s] = IF s = slot THEN e ELSE disk.dir[s]
  /\ After(w).fat = IF N > 0 THEN F ELSE disk.fat

\* What the disk can be between the writes of a plan, and what it is after the
\* last.
LEMMA ShapeEnds ==
  ASSUME disk \in Disks, NEW w, NEW m, NEW b, NEW slot, NEW e, NEW N, NEW F, Plan(w, m, b, slot, e, N, F)
  PROVE  /\ Len(w) \in Nat
         /\ Between(w, b, slot, e, F)
         /\ AtLast(w, b, slot, e, F, N)
         /\ Done(w, 0) = disk
         /\ \A k \in 1 .. Len(w) : m = 0 => Done(w, k).dir[slot] = e
<1> /\ m \in {0, 1} /\ slot \in 1 .. Slots /\ e \in Entries /\ N \in {0, fatSectors} /\ F \in FATs
    /\ b \in Disks /\ b.fat = disk.fat /\ b.dir = disk.dir
    /\ m = 0 => b = disk
    /\ m = 1 => PutsTo(w[1], b)
    /\ Shape(w, m, slot, e, N, F)
  BY DEF Plan
<1>0. N \in Nat /\ (N = 0 \/ (N = fatSectors /\ N > 0))
  BY Constants
<1>2. Len(w) = m + 1 + N /\ Len(w) \in Nat
  BY <1>0 DEF Shape
<1>3. \A k \in 0 .. Len(w) :
           Done(w, k) = IF k = 0 THEN disk ELSE IF k <= m THEN b ELSE Entered(b, slot, e, F, k - (m + 1))
  BY <1>0, ShapeDone
<1>4. Between(w, b, slot, e, F)
  <2>1. ASSUME NEW k \in 0 .. Len(w)
        PROVE  /\ Done(w, k) \in Disks
               /\ \A at \in Clusters \X Secs : Done(w, k).data[at] = disk.data[at] \/ Done(w, k).data[at] = b.data[at]
               /\ \A s \in 1 .. Slots : /\ s # slot => Done(w, k).dir[s] = disk.dir[s]
                                        /\ s = slot => Done(w, k).dir[s] = disk.dir[s] \/ Done(w, k).dir[s] = e
               /\ \A c \in Clusters : Done(w, k).fat[c] = disk.fat[c] \/ Done(w, k).fat[c] = F[c]
    <3>1. CASE k = 0
      BY <1>3, <3>1
    <3>2. CASE k # 0 /\ k <= m
      BY <1>3, <3>2
    <3>3. CASE k # 0 /\ ~(k <= m)
      <4> DEFINE i == k - (m + 1)
                 D == Entered(b, slot, e, F, i)
      <4>1. Done(w, k) = D
        BY <1>3, <3>3
      <4>2. /\ D \in Disks /\ D.data = b.data /\ D.fat = Mix(b.fat, F, i)
            /\ \A s \in 1 .. Slots : D.dir[s] = IF s = slot THEN e ELSE b.dir[s]
        BY EnteredType
      <4> HIDE DEF D, i
      <4>3. \A c \in Clusters : D.fat[c] = disk.fat[c] \/ D.fat[c] = F[c]
        BY <4>2 DEF Mix
      <4>4. QED
        BY <4>1, <4>2, <4>3
    <3>4. QED
      BY <3>1, <3>2, <3>3
  <2>2. QED
    BY <2>1 DEF Between
<1>5. AtLast(w, b, slot, e, F, N)
  <2>1. Len(w) \in 0 .. Len(w) /\ Len(w) # 0 /\ ~(Len(w) <= m) /\ Len(w) - (m + 1) = N
    BY <1>0, <1>2
  <2>2. After(w) = Entered(b, slot, e, F, N)
    BY <1>3, <2>1 DEF After
  <2> DEFINE D == Entered(b, slot, e, F, N)
  <2>3. /\ D \in Disks /\ D.data = b.data /\ D.fat = Mix(b.fat, F, N)
        /\ \A s \in 1 .. Slots : D.dir[s] = IF s = slot THEN e ELSE b.dir[s]
    BY EnteredType
  <2> HIDE DEF D
  <2>4. D.fat = IF N > 0 THEN F ELSE disk.fat
    <3>1. Mix(b.fat, F, 0) = b.fat /\ Mix(b.fat, F, fatSectors) = F
      BY MixEnds DEF Disks
    <3>2. QED
      BY <1>0, <2>3, <3>1
  <2>5. QED
    BY <2>2, <2>3, <2>4 DEF AtLast, D
<1>6. Done(w, 0) = disk
  BY <1>2, <1>3
<1>7. ASSUME m = 0, NEW k \in 1 .. Len(w) PROVE Done(w, k).dir[slot] = e
  <2>1. k \in 0 .. Len(w) /\ k # 0 /\ ~(k <= m)
    BY <1>2, <1>7
  <2>2. Done(w, k) = Entered(b, slot, e, F, k - (m + 1))
    BY <1>3, <2>1
  <2>3. QED
    BY <2>2, EnteredType
<1>8. QED
  BY <1>2, <1>4, <1>5, <1>6, <1>7

EntryWrites(v, slot, e, t) == (v \o <<DirWrite(slot, e)>>) \o t
OnlyEntry(slot, e, t)      == <<DirWrite(slot, e)>> \o t

\* The writes of Register and of a Close that saves.
LEMMA FlushAndEnter ==
  ASSUME disk \in Disks, NEW f \in FileRecs, NEW slot \in 1 .. Slots, NEW e \in Entries, NEW F \in FATs,
         NEW t, NEW N, FatTail(t, F, N),
         NEW w, w = EntryWrites(FlushFile(f), slot, e, t)
  PROVE  /\ w = FlushFile(f) \o OnlyEntry(slot, e, t)
         /\ Len(w) \in Nat
         /\ Between(w, FlushedTo(f), slot, e, F)
         /\ AtLast(w, FlushedTo(f), slot, e, F, N)
<1> DEFINE S == {DataWrite(f.bufCluster, f.bufSecOfs, f.buf), DirWrite(slot, e)}
                  \cup {FatWrite(i, F) : i \in 1 .. fatSectors}
           v == FlushFile(f)
           m == Len(v)
           b == FlushedTo(f)
           d == <<DirWrite(slot, e)>>
<1>1. /\ v \in Seq(S) /\ m \in {0, 1}
      /\ m = 0 => b = disk
      /\ m = 1 => PutsTo(v[1], b)
      /\ b \in Disks /\ b.fat = disk.fat /\ b.dir = disk.dir
  <2>1. f.bufCluster \in Clusters => DataWrite(f.bufCluster, f.bufSecOfs, f.buf) \in S
    OBVIOUS
  <2> HIDE DEF S
  <2>2. QED
    BY <2>1, FlushOf
<1>2. HasWrites(S, slot, e, F)
  BY DEF HasWrites
<1> HIDE DEF S, b
<1>3. N \in {0, fatSectors} /\ N \in Nat /\ t \in Seq(S) /\ Len(t) = N /\ \A i \in 1 .. N : t[i] = FatWrite(i, F)
  BY <1>2, TailType
<1>4. w = (v \o d) \o t /\ d = <<DirWrite(slot, e)>>
  BY DEF EntryWrites
<1> HIDE DEF v, d
<1>5. /\ w = v \o (d \o t)
      /\ Shape(w, Len(v), slot, e, N, F)
      /\ \A i \in 1 .. Len(v) : w[i] = v[i]
  <2>1. Parts(w, v, d, t, S, slot, e, F, N)
    BY <1>1, <1>2, <1>4 DEF Parts
  <2>2. QED
    BY <2>1, ShapeOf
<1>6. m = 1 => w[1] = v[1]
  <2>1. 1 \in 1 .. 1
    OBVIOUS
  <2>2. QED
    BY <1>5, <2>1
<1>7. Shape(w, m, slot, e, N, F)
  BY <1>5
<1> HIDE DEF m
<1>8. Len(w) \in Nat /\ Between(w, b, slot, e, F) /\ AtLast(w, b, slot, e, F, N)
  <2>1. Plan(w, m, b, slot, e, N, F)
    BY <1>1, <1>3, <1>6, <1>7 DEF Plan
  <2>2. QED
    BY <2>1, ShapeEnds
<1>9. QED
  BY <1>5, <1>8 DEF v, b, d, OnlyEntry

\* The writes of Delete.
LEMMA EnterOnly ==
  ASSUME disk \in Disks, NEW slot \in 1 .. Slots, NEW e \in Entries, NEW F \in FATs,
         NEW t, NEW N, FatTail(t, F, N), NEW w, w = OnlyEntry(slot, e, t)
  PROVE  /\ Len(w) \in Nat
         /\ Between(w, disk, slot, e, F)
         /\ AtLast(w, disk, slot, e, F, N)
         /\ Done(w, 0) = disk
         /\ \A k \in 1 .. Len(w) : Done(w, k).dir[slot] = e
<1> DEFINE S == {DirWrite(slot, e)} \cup {FatWrite(i, F) : i \in 1 .. fatSectors}
           x == <<DirWrite(slot, e)>>
<1>1. HasWrites(S, slot, e, F)
  BY DEF HasWrites
<1>2. x \in Seq(S)
  OBVIOUS
<1> HIDE DEF S
<1>3. <<>> \in Seq(S) /\ Len(<<>>) = 0
  BY EmptySeq
<1>4. w = (<<>> \o x) \o t /\ x = <<DirWrite(slot, e)>>
  <2>1. <<>> \o x = x
    BY <1>2, ConcatEmptySeq
  <2>2. QED
    BY <2>1 DEF OnlyEntry
<1> HIDE DEF x
<1>5. N \in {0, fatSectors} /\ N \in Nat /\ t \in Seq(S) /\ Len(t) = N /\ \A i \in 1 .. N : t[i] = FatWrite(i, F)
  BY <1>1, TailType
<1>6. Shape(w, 0, slot, e, N, F)
  <2>1. Shape(w, Len(<<>>), slot, e, N, F)
    <3>1. Parts(w, <<>>, x, t, S, slot, e, F, N)
      BY <1>1, <1>3, <1>4 DEF Parts
    <3>2. QED
      BY <3>1, ShapeOf
  <2>2. QED
    BY <1>3, <2>1
<1>7. 0 \in {0, 1} /\ ~(0 = 1)
  OBVIOUS
<1>8. Plan(w, 0, disk, slot, e, N, F)
  BY <1>5, <1>6, <1>7 DEF Plan
<1>9. \A k \in 1 .. Len(w) : 0 = 0 => Done(w, k).dir[slot] = e
  BY <1>8, ShapeEnds
<1>10. Len(w) \in Nat /\ Between(w, disk, slot, e, F) /\ AtLast(w, disk, slot, e, F, N) /\ Done(w, 0) = disk
  BY <1>8, ShapeEnds
<1>11. QED
  BY <1>9, <1>10

\* The writes of a Close that does not save, and of EnsureSector.
LEMMA FlushOnly ==
  ASSUME disk \in Disks, NEW f \in FileRecs
  PROVE  /\ FlushFile(f) \o <<>> = FlushFile(f)
         /\ After(FlushFile(f)) = FlushedTo(f)
         /\ \A k \in 0 .. Len(FlushFile(f)) : Done(FlushFile(f), k) = disk \/ Done(FlushFile(f), k) = FlushedTo(f)
<1> DEFINE S == {DataWrite(f.bufCluster, f.bufSecOfs, f.buf)}
           v == FlushFile(f)
           b == FlushedTo(f)
<1>1. /\ v \in Seq(S) /\ Len(v) \in {0, 1}
      /\ Len(v) = 0 => b = disk
      /\ Len(v) = 1 => PutsTo(v[1], b)
  <2>1. f.bufCluster \in Clusters => DataWrite(f.bufCluster, f.bufSecOfs, f.buf) \in S
    OBVIOUS
  <2> HIDE DEF S
  <2>2. QED
    BY <2>1, FlushOf
<1> HIDE DEF S, v, b
<1>2. v \o <<>> = v
  BY <1>1, ConcatEmptySeq
<1>3. ASSUME NEW k \in 0 .. Len(v)
      PROVE  Done(v, k) = (IF k = 0 THEN disk ELSE b)
  <2>1. k \in Nat /\ Len(v) \in Nat /\ (k = 0 \/ (k = 1 /\ Len(v) = 1))
    BY <1>1
  <2>2. \A n \in 1 .. k, d \in Disks : Put(d, v[n]) \in Disks
    BY <1>1, <2>1 DEF PutsTo
  <2>3. Done(v, 0) = disk
    <3>1. 0 \in Nat /\ \A n \in 1 .. 0 : FALSE
      OBVIOUS
    <3>2. QED
      BY <2>1, <3>1, DoneStep
  <2>4. CASE k = 1
    <3>1. k > 0 /\ k - 1 = 0
      BY <2>4
    <3>2. Done(v, k) = Put(Done(v, k - 1), v[k])
      BY <2>1, <2>2, <3>1, DoneStep
    <3>3. QED
      BY <1>1, <2>1, <2>3, <2>4, <3>1, <3>2 DEF PutsTo
  <2>5. QED
    BY <2>1, <2>3, <2>4
<1>4. After(v) = b
  <2>1. Len(v) \in 0 .. Len(v)
    BY <1>1
  <2>2. QED
    BY <1>1, <1>3, <2>1 DEF After
<1>5. QED
  BY <1>2, <1>3, <1>4 DEF v, b

\* A call that writes nothing leaves the disk.
LEMMA NoWrites ==
  ASSUME disk \in Disks
  PROVE  After(<<>>) = disk /\ Len(<<>>) = 0 /\ \A k \in 0 .. Len(<<>>) : Done(<<>>, k) = disk
<1>1. Len(<<>>) = 0
  BY EmptySeq
<1>2. Done(<<>>, 0) = disk
  <2>1. 0 \in Nat /\ \A n \in 1 .. 0 : FALSE
    OBVIOUS
  <2>2. Len(<<>>) \in Nat
    BY <1>1
  <2>3. QED
    BY <2>1, <2>2, DoneStep
<1>3. \A k \in 0 .. Len(<<>>) : k = 0
  BY <1>1
<1>4. QED
  BY <1>1, <1>2, <1>3 DEF After

TwoWrites(s, d, t, e) == <<DirWrite(s, d), DirWrite(t, e)>>

\* The writes of Rename, of which the first may be done and the second not.
LEMMA TwoEntries ==
  ASSUME disk \in Disks, NEW s \in 1 .. Slots, NEW t \in 1 .. Slots, NEW d \in Entries, NEW e \in Entries,
         NEW w, w = TwoWrites(s, d, t, e)
  PROVE  /\ Len(w) = 2
         /\ Done(w, 0) = disk
         /\ Done(w, 1) \in Disks /\ After(w) \in Disks
         /\ Done(w, 1).data = disk.data /\ Done(w, 1).fat = disk.fat
         /\ \A x \in 1 .. Slots : Done(w, 1).dir[x] = IF x = s THEN d ELSE disk.dir[x]
         /\ After(w).data = disk.data /\ After(w).fat = disk.fat
         /\ \A x \in 1 .. Slots : After(w).dir[x] = IF x = t THEN e ELSE Done(w, 1).dir[x]
<1>1. Len(w) = 2 /\ w[1] = DirWrite(s, d) /\ w[2] = DirWrite(t, e)
  BY DEF TwoWrites
<1>2. Len(w) \in Nat /\ 0 \in Nat /\ 1 \in Nat /\ 2 \in Nat
  BY <1>1
<1>3. \A n \in 1 .. 2, x \in Disks : Put(x, w[n]) \in Disks
  BY <1>1, PutDir
<1>4. Done(w, 0) = disk
  BY <1>2, DoneStep
<1>5. \A n \in 1 .. 1 : n \in 1 .. 2
  OBVIOUS
<1>6. Done(w, 1) = Put(Done(w, 0), w[1]) /\ Done(w, 1) \in Disks
  <2>1. 1 > 0 /\ 1 - 1 = 0
    OBVIOUS
  <2>2. QED
    BY <1>2, <1>3, <1>5, <2>1, DoneStep
<1>7. Done(w, 2) = Put(Done(w, 1), w[2]) /\ Done(w, 2) \in Disks
  <2>1. 2 > 0 /\ 2 - 1 = 1
    OBVIOUS
  <2>2. QED
    BY <1>2, <1>3, <2>1, DoneStep
<1>8. After(w) = Done(w, 2)
  BY <1>1 DEF After
<1>9. Put(disk, w[1]) = [disk EXCEPT !.dir[s] = d]
  BY <1>1, PutDir
<1>10. Put(Done(w, 1), w[2]) = [Done(w, 1) EXCEPT !.dir[t] = e]
  <2> DEFINE x == Done(w, 1)
  <2>1. x \in Disks
    BY <1>6
  <2> HIDE DEF x
  <2>2. Put(x, w[2]) = [x EXCEPT !.dir[t] = e]
    BY <1>1, <2>1, PutDir
  <2>3. QED
    BY <2>2 DEF x
<1>11. /\ Done(w, 1).data = disk.data /\ Done(w, 1).fat = disk.fat
       /\ \A x \in 1 .. Slots : Done(w, 1).dir[x] = IF x = s THEN d ELSE disk.dir[x]
  <2>1. Done(w, 1) = [disk EXCEPT !.dir[s] = d]
    BY <1>4, <1>6, <1>9
  <2>2. QED
    BY <2>1 DEF Disks, Dirs
<1>12. /\ After(w).data = disk.data /\ After(w).fat = disk.fat
       /\ \A x \in 1 .. Slots : After(w).dir[x] = IF x = t THEN e ELSE Done(w, 1).dir[x]
  <2> DEFINE y == Done(w, 1)
  <2>1. y \in Disks /\ y.data = disk.data /\ y.fat = disk.fat
    BY <1>6, <1>11
  <2>2. After(w) = [y EXCEPT !.dir[t] = e]
    BY <1>7, <1>8, <1>10
  <2> HIDE DEF y
  <2>3. /\ After(w).data = disk.data /\ After(w).fat = disk.fat
        /\ \A x \in 1 .. Slots : After(w).dir[x] = IF x = t THEN e ELSE y.dir[x]
    BY <2>1, <2>2 DEF Disks, Dirs
  <2>4. QED
    BY <2>3 DEF y
<1>13. QED
  BY <1>1, <1>4, <1>6, <1>7, <1>8, <1>11, <1>12

-----------------------------------------------------------------------------
(* What the invariant says of the disk. *)

\* The blocks of the clusters in R are the same in both.
SameBlocks(data, other, R) == \A c \in R, s \in Secs : other[<<c, s>>] = data[<<c, s>>]

\* GoodFrame for a file of any number of clusters.
LEMMA Framed ==
  ASSUME NEW F \in FATs, NEW G \in FATs, NEW data, NEW other, NEW start \in ClusterRefs, NEW t \in Texts,
         Good(F, data, start, t), Agree(F, G, start), SameBlocks(data, other, Reach(F, start))
  PROVE  Good(G, other, start, t)
<1>1. PICK n \in Nat : GoodIn(F, data, start, t, n)
  BY DEF Good
<1>2. \A c \in Reach(F, start), s \in Secs : other[<<c, s>>] = data[<<c, s>>]
  BY DEF SameBlocks
<1>3. GoodIn(G, other, start, t, n)
  BY <1>1, <1>2, GoodFrame
<1>4. QED
  BY <1>3 DEF Good

\* A FAT that agrees on a chain has the chain.
LEMMA SameReach ==
  ASSUME NEW F \in FATs, NEW G \in FATs, NEW start \in ClusterRefs, Agree(F, G, start)
  PROVE  /\ Reach(G, start) = Reach(F, start)
         /\ \A k \in Nat : FollowChain(G, start, k) = FollowChain(F, start, k)
BY SameChain DEF Agree

\* The types of the variables, one fact each.
LEMMA TypeFacts ==
  ASSUME Types
  PROVE  /\ fat \in FATs /\ disk \in Disks /\ disk.fat \in FATs /\ disk.data \in Blocks
         /\ \A h \in DOMAIN file : file[h] \in FileRecs /\ text[h] \in Texts
         /\ \A s \in 1 .. Slots : saved[s] \in Texts /\ disk.dir[s] \in Entries
         /\ \A r \in DOMAIN rider : rider[r] \in RiderRecs
<1>1. disk \in Disks /\ fat \in FATs
  BY DEF Types
<1>2. disk.fat \in FATs /\ disk.data \in Blocks /\ disk.dir \in Dirs
  BY <1>1 DEF Disks
<1>3. \A s \in 1 .. Slots : disk.dir[s] \in Entries
  BY <1>2 DEF Dirs
<1>4. \A h \in DOMAIN file : file[h] \in FileRecs /\ text[h] \in Texts
  BY DEF Types
<1>5. \A s \in 1 .. Slots : saved[s] \in Texts
  BY DEF Types
<1>6. \A r \in DOMAIN rider : rider[r] \in RiderRecs
  BY DEF Types
<1>7. QED
  BY <1>1, <1>2, <1>3, <1>4, <1>5, <1>6

\* The fields of directory entries.
LEMMA EntryFields ==
  ASSUME NEW e \in Entries
  PROVE  e.cluster \in ClusterRefs /\ e.len \in Nat /\ (e.cluster \in Clusters \/ e.cluster = 0)
         /\ (e.cluster \in Clusters <=> e.cluster >= 2)
<1>1. e.cluster \in Clusters \cup {0} /\ e.len \in Nat
  BY DEF Entries
<1>2. QED
  BY <1>1, References

\* Where open files and entries start.
LEMMA RecordFields ==
  ASSUME Types
  PROVE  /\ \A h \in DOMAIN file : file[h].startCluster \in ClusterRefs /\ file[h].dirEntry \in 0 .. Slots
         /\ \A s \in 1 .. Slots : disk.dir[s].cluster \in ClusterRefs
<1>1. ASSUME NEW h \in DOMAIN file PROVE file[h].startCluster \in ClusterRefs /\ file[h].dirEntry \in 0 .. Slots
  <2>1. file[h] \in FileRecs
    BY TypeFacts
  <2>2. QED
    BY <2>1, FileFields
<1>2. ASSUME NEW s \in 1 .. Slots PROVE disk.dir[s].cluster \in ClusterRefs
  <2>1. disk.dir[s] \in Entries
    BY TypeFacts
  <2>2. QED
    BY <2>1, EntryFields
<1>3. QED
  BY <1>1, <1>2

\* The entries that a reset would find whole.
Kept == {s \in (1 .. Slots) \ (torn \cup Unsaved) : disk.dir[s] # NoEntry}

FilesOK == Types /\ OpenFiles /\ IdleEntries /\ NoSharing

\* An open file that is neither unsaved nor unregistered.
LEMMA SavedOpen ==
  ASSUME FilesOK, NEW h \in DOMAIN file, file[h].dirEntry \in Kept
  PROVE  /\ file[h].registered /\ ~file[h].bufDirty /\ text[h] = saved[file[h].dirEntry]
         /\ disk.dir[file[h].dirEntry].cluster = file[h].startCluster
         /\ disk.dir[file[h].dirEntry].len = file[h].len
         /\ Agree(fat, disk.fat, file[h].startCluster)
<1> DEFINE s == file[h].dirEntry
<1>1. s \in 1 .. Slots /\ s \notin Unsaved
  BY DEF Kept
<1>2. s # 0
  BY <1>1
<1>3. file[h].registered
  BY <1>2 DEF FilesOK, OpenFiles
<1>4. ~(file[h].bufDirty \/ text[h] # saved[s])
  BY <1>1, <1>3 DEF Unsaved
<1>5. Linked(h)
  BY DEF FilesOK, OpenFiles
<1>6. ~file[h].modified
  BY <1>3, <1>4, <1>5 DEF Linked
<1>7. QED
  BY <1>3, <1>4, <1>5, <1>6 DEF Linked

\* An entry whose file is saved is good by the FAT in memory and by that on
\* disk.
LEMMA KeptEntries ==
  ASSUME FilesOK, NEW s \in Kept
  PROVE  /\ Agree(fat, disk.fat, disk.dir[s].cluster)
         /\ disk.dir[s].len = Len(saved[s])
         /\ Good(fat, disk.data, disk.dir[s].cluster, saved[s])
         /\ s \in Idle \/ \E h \in DOMAIN file : file[h].dirEntry = s
<1>1. CASE \E h \in DOMAIN file : file[h].dirEntry = s
  <2>1. PICK h \in DOMAIN file : file[h].dirEntry = s
    BY <1>1
  <2>2. /\ file[h].registered /\ ~file[h].bufDirty /\ text[h] = saved[s]
        /\ disk.dir[s].cluster = file[h].startCluster
        /\ disk.dir[s].len = file[h].len
        /\ Agree(fat, disk.fat, file[h].startCluster)
    BY <2>1, SavedOpen
  <2>3. FileOK(fat, disk.data, file[h], text[h])
    BY DEF FilesOK, OpenFiles
  <2>4. file[h] \in FileRecs /\ disk.data \in Blocks
    BY TypeFacts DEF FilesOK
  <2>5. Seen(disk.data, file[h]) = disk.data
    <3>1. BufferOK(fat, disk.data, file[h])
      BY <2>3 DEF FileOK
    <3>2. CASE file[h].bufCluster \in Clusters
      <4>1. file[h].buf = disk.data[<<file[h].bufCluster, file[h].bufSecOfs>>]
        BY <2>2, <2>4, <3>1, <3>2, FileFields DEF BufferOK
      <4>2. [disk.data EXCEPT ![<<file[h].bufCluster, file[h].bufSecOfs>>]
               = disk.data[<<file[h].bufCluster, file[h].bufSecOfs>>]] = disk.data
        BY <2>4 DEF Blocks
      <4>3. QED
        BY <3>2, <4>1, <4>2 DEF Seen
    <3>3. QED
      BY <3>2 DEF Seen
  <2>6. QED
    BY <1>1, <2>2, <2>3, <2>5 DEF FileOK
<1>2. CASE ~\E h \in DOMAIN file : file[h].dirEntry = s
  <2>1. s \in Idle
    BY <1>2 DEF Kept, Idle, InUse
  <2>2. QED
    BY <2>1 DEF FilesOK, IdleEntries, EntryOK
<1>3. QED
  BY <1>1, <1>2

\* A kept entry's clusters are apart from every other file's.
LEMMA KeptApart ==
  ASSUME FilesOK, NEW s \in Kept
  PROVE  /\ \A h \in DOMAIN file : file[h].dirEntry # s => Apart(fat, disk.dir[s].cluster, file[h].startCluster)
         /\ \A u \in Idle : u # s => Apart(fat, disk.dir[s].cluster, disk.dir[u].cluster)
         /\ \A u \in Kept : u # s => Apart(fat, disk.dir[s].cluster, disk.dir[u].cluster)
<1>1. \A a, b : Apart(fat, a, b) => Apart(fat, b, a)
  BY DEF Apart
<1>2. NoSharing
  BY DEF FilesOK
<1>3. ASSUME NEW h \in DOMAIN file, file[h].dirEntry # s
      PROVE  Apart(fat, disk.dir[s].cluster, file[h].startCluster)
  <2>1. CASE s \in Idle
    BY <1>1, <1>2, <2>1 DEF NoSharing
  <2>2. CASE \E g \in DOMAIN file : file[g].dirEntry = s
    <3>1. PICK g \in DOMAIN file : file[g].dirEntry = s
      BY <2>2
    <3>2. disk.dir[s].cluster = file[g].startCluster
      BY <3>1, SavedOpen
    <3>3. g # h
      BY <1>3, <3>1
    <3>4. QED
      BY <1>2, <3>2, <3>3 DEF NoSharing
  <2>3. QED
    BY <2>1, <2>2, KeptEntries
<1>4. ASSUME NEW u \in Idle, u # s
      PROVE  Apart(fat, disk.dir[s].cluster, disk.dir[u].cluster)
  <2>1. CASE s \in Idle
    BY <1>2, <1>4, <2>1 DEF NoSharing
  <2>2. CASE \E g \in DOMAIN file : file[g].dirEntry = s
    <3>1. PICK g \in DOMAIN file : file[g].dirEntry = s
      BY <2>2
    <3>2. disk.dir[s].cluster = file[g].startCluster
      BY <3>1, SavedOpen
    <3>3. QED
      BY <1>2, <3>2 DEF NoSharing
  <2>3. QED
    BY <2>1, <2>2, KeptEntries
<1>5. ASSUME NEW u \in Kept, u # s
      PROVE  Apart(fat, disk.dir[s].cluster, disk.dir[u].cluster)
  <2>1. CASE u \in Idle
    BY <1>4, <1>5, <2>1
  <2>2. CASE \E g \in DOMAIN file : file[g].dirEntry = u
    <3>1. PICK g \in DOMAIN file : file[g].dirEntry = u
      BY <2>2
    <3>2. disk.dir[u].cluster = file[g].startCluster
      BY <3>1, SavedOpen
    <3>3. file[g].dirEntry # s
      BY <1>5, <3>1
    <3>4. QED
      BY <1>3, <3>2, <3>3
  <2>3. QED
    BY <2>1, <2>2, KeptEntries
<1>6. QED
  BY <1>3, <1>4, <1>5

\* What a reset keeps of the entries that it finds whole.
LEMMA KeepDisk ==
  ASSUME FilesOK, NEW D \in Disks, NEW tn, NEW sv,
         \A s \in (1 .. Slots) \ tn :
           D.dir[s] # NoEntry =>
             /\ s \in Kept /\ D.dir[s] = disk.dir[s] /\ sv[s] = saved[s]
             /\ Agree(fat, D.fat, disk.dir[s].cluster)
             /\ SameBlocks(disk.data, D.data, Reach(fat, disk.dir[s].cluster))
  PROVE  DiskOK(D, tn, sv)
<1>1. fat \in FATs /\ D.fat \in FATs
  BY TypeFacts DEF FilesOK, Disks
<1>2. ASSUME NEW s \in (1 .. Slots) \ tn, D.dir[s] # NoEntry
      PROVE  /\ s \in Kept /\ D.dir[s] = disk.dir[s]
             /\ D.dir[s].len = Len(sv[s]) /\ Good(D.fat, D.data, D.dir[s].cluster, sv[s])
             /\ Reach(D.fat, D.dir[s].cluster) = Reach(fat, disk.dir[s].cluster)
  <2> DEFINE c == disk.dir[s].cluster
  <2>1. /\ s \in Kept /\ D.dir[s] = disk.dir[s] /\ sv[s] = saved[s]
        /\ Agree(fat, D.fat, c) /\ SameBlocks(disk.data, D.data, Reach(fat, c))
    BY <1>2
  <2>2. c \in ClusterRefs /\ saved[s] \in Texts
    BY RecordFields, TypeFacts DEF FilesOK
  <2>3. disk.dir[s].len = Len(saved[s]) /\ Good(fat, disk.data, c, saved[s])
    BY <2>1, KeptEntries
  <2> HIDE DEF c
  <2>4. Good(D.fat, D.data, c, saved[s])
    BY <1>1, <2>1, <2>2, <2>3, Framed
  <2>5. Reach(D.fat, c) = Reach(fat, c)
    BY <1>1, <2>1, <2>2, SameReach
  <2>6. QED
    BY <2>1, <2>3, <2>4, <2>5 DEF c
<1>3. ASSUME NEW s \in (1 .. Slots) \ tn, D.dir[s] # NoEntry, NEW u \in (1 .. Slots) \ tn, D.dir[u] # NoEntry, u # s
      PROVE  Apart(D.fat, D.dir[s].cluster, D.dir[u].cluster)
  <2>1. Apart(fat, disk.dir[s].cluster, disk.dir[u].cluster)
    BY <1>2, <1>3, KeptApart
  <2>2. QED
    BY <1>2, <1>3, <2>1 DEF Apart
<1>4. QED
  BY <1>2, <1>3 DEF DiskOK, EntryOK

\* No files, no riders, no texts.
LEMMA EmptyFunction == ASSUME NEW S PROVE DOMAIN <<>> = {} /\ <<>> \in [DOMAIN <<>> -> S]
<1>1. <<>> \in Seq(S) /\ Len(<<>>) = 0
  BY EmptySeq
<1>2. <<>> \in [1 .. Len(<<>>) -> S] /\ DOMAIN <<>> = 1 .. Len(<<>>)
  BY <1>1, LenProperties
<1>3. 1 .. 0 = {}
  OBVIOUS
<1>4. QED
  BY <1>1, <1>2, <1>3

\* A disk that is whole is mounted with the invariant.
LEMMA Remount ==
  ASSUME disk' \in Disks, saved' \in [1 .. Slots -> Texts],
         torn' \subseteq {s \in 1 .. Slots : disk'.dir[s] # NoEntry},
         DiskOK(disk', torn', saved'),
         Memory(disk'.fat, FALSE, <<>>, <<>>, <<>>), ~misread', ~wild'
  PROVE  IInv'
<1>1. fat' = disk'.fat /\ fatDirty' = FALSE /\ file' = <<>> /\ rider' = <<>> /\ text' = <<>>
  BY DEF Memory
<1>2. DOMAIN file' = {} /\ DOMAIN rider' = {} /\ DOMAIN text' = {}
  BY <1>1, EmptyFunction
<1>3. /\ file' \in [DOMAIN file' -> FileRecs] /\ text' \in [DOMAIN file' -> Texts]
      /\ rider' \in [DOMAIN rider' -> RiderRecs]
  BY <1>1, EmptyFunction
<1>4. fat' \in FATs /\ disk'.fat = fat'
  BY <1>1 DEF Disks
<1>5. Types'
  BY <1>1, <1>2, <1>3, <1>4 DEF Types
<1>6. OpenFiles'
  BY <1>2 DEF OpenFiles
<1>7. RidersInStep'
  BY <1>2 DEF RidersInStep
<1>8. IdleEntries'
  <2>1. ASSUME NEW s \in Idle'
        PROVE  EntryOK(fat', disk', s, saved'[s]) /\ Agree(fat', disk'.fat, disk'.dir[s].cluster)
    <3>1. s \in (1 .. Slots) \ torn' /\ disk'.dir[s] # NoEntry
      BY DEF Idle
    <3>2. EntryOK(disk'.fat, disk', s, saved'[s])
      BY <3>1 DEF DiskOK
    <3>3. QED
      BY <1>1, <3>2 DEF Agree
  <2>2. QED
    BY <2>1 DEF IdleEntries
<1>9. NoSharing'
  <2>1. ASSUME NEW s \in Idle', NEW u \in Idle', s # u
        PROVE  Apart(fat', disk'.dir[s].cluster, disk'.dir[u].cluster)
    <3>1. s \in (1 .. Slots) \ torn' /\ disk'.dir[s] # NoEntry /\ u \in (1 .. Slots) \ torn' /\ disk'.dir[u] # NoEntry
      BY DEF Idle
    <3>2. QED
      BY <1>1, <2>1, <3>1 DEF DiskOK
  <2>2. QED
    BY <1>2, <2>1 DEF NoSharing
<1>10. QED
  BY <1>5, <1>6, <1>7, <1>8, <1>9 DEF IInv

-----------------------------------------------------------------------------
(* Resets. *)

\* The second way a call can end.
ResetDuring(writes, own, nowSaved) ==
  /\ \E k \in 0 .. Len(writes) :
       /\ disk' = Done(writes, k)
       /\ torn' = {s \in torn \cup Unsaved \cup (IF k < Len(writes) THEN own ELSE {}) :
                     disk'.dir[s] # NoEntry}
  /\ saved' = [s \in 1 .. Slots |->
                 IF disk'.dir[s] = After(writes).dir[s] THEN nowSaved[s] ELSE saved[s]]
  /\ Memory(disk'.fat, FALSE, <<>>, <<>>, <<>>) /\ stale' = {}

ResetTorn(w, own, k)   == torn \cup Unsaved \cup (IF k < Len(w) THEN own ELSE {})
ResetSaved(w, D, nowSaved) == [s \in 1 .. Slots |-> IF D.dir[s] = After(w).dir[s] THEN nowSaved[s] ELSE saved[s]]

\* Wherever the writes are cut, what is on the disk is whole.
Whole(w, own, nowSaved) ==
  \A k \in 0 .. Len(w) :
    /\ Done(w, k) \in Disks
    /\ DiskOK(Done(w, k), ResetTorn(w, own, k), ResetSaved(w, Done(w, k), nowSaved))

\* Unsaved and torn entries are entries.
LEMMA UnsavedSlots == ASSUME FilesOK PROVE Unsaved \subseteq 1 .. Slots /\ torn \subseteq 1 .. Slots
<1>1. torn \subseteq 1 .. Slots
  BY DEF FilesOK, Types
<1>2. ASSUME NEW h \in DOMAIN file, file[h].registered PROVE file[h].dirEntry \in 1 .. Slots
  <2>1. file[h].dirEntry \in 0 .. Slots /\ file[h].dirEntry # 0
    BY <1>2, RecordFields DEF FilesOK, OpenFiles
  <2>2. QED
    BY <2>1, Constants
<1>3. QED
  BY <1>1, <1>2 DEF Unsaved

\* A reset leaves the invariant when the disk is whole wherever the writes are
\* cut.
LEMMA AfterReset ==
  ASSUME FilesOK, ~misread', ~wild', NEW w, NEW own \in SUBSET (1 .. Slots),
         NEW nowSaved \in [1 .. Slots -> Texts], Whole(w, own, nowSaved), ResetDuring(w, own, nowSaved)
  PROVE  IInv'
<1>1. PICK k \in 0 .. Len(w) :
        /\ disk' = Done(w, k)
        /\ torn' = {s \in torn \cup Unsaved \cup (IF k < Len(w) THEN own ELSE {}) : disk'.dir[s] # NoEntry}
  BY DEF ResetDuring
<1>2. torn' = {s \in ResetTorn(w, own, k) : disk'.dir[s] # NoEntry}
  BY <1>1 DEF ResetTorn
<1>3. saved' = ResetSaved(w, disk', nowSaved) /\ Memory(disk'.fat, FALSE, <<>>, <<>>, <<>>)
  BY DEF ResetDuring, ResetSaved
<1>4. disk' \in Disks /\ DiskOK(disk', ResetTorn(w, own, k), saved')
  BY <1>1, <1>3 DEF Whole
<1>5. saved' \in [1 .. Slots -> Texts]
  <2>1. \A s \in 1 .. Slots : nowSaved[s] \in Texts /\ saved[s] \in Texts
    BY TypeFacts DEF FilesOK
  <2>2. QED
    BY <1>3, <2>1 DEF ResetSaved
<1>6. torn' \subseteq {s \in 1 .. Slots : disk'.dir[s] # NoEntry}
  <2>1. ResetTorn(w, own, k) \subseteq 1 .. Slots
    BY UnsavedSlots DEF ResetTorn
  <2>2. QED
    BY <1>2, <2>1
<1>7. DiskOK(disk', torn', saved')
  BY <1>2, <1>4 DEF DiskOK
<1>8. QED
  BY <1>3, <1>4, <1>5, <1>6, <1>7, Remount

-----------------------------------------------------------------------------
(* The buffer and its block. *)

\* The blocks as an open file sees them are blocks.
LEMMA SeenType ==
  ASSUME NEW data \in Blocks, NEW f \in FileRecs
  PROVE  Seen(data, f) \in Blocks
BY FileFields DEF Seen, Blocks

\* Flushing a buffer leaves the blocks as its file sees them.
LEMMA FlushedBlocks ==
  ASSUME disk \in Disks, NEW F, NEW f \in FileRecs, BufferOK(F, disk.data, f)
  PROVE  /\ FlushedTo(f) \in Disks /\ FlushedTo(f).fat = disk.fat /\ FlushedTo(f).dir = disk.dir
         /\ FlushedTo(f).data = Seen(disk.data, f)
         /\ f.bufDirty \/ FlushedTo(f) = disk
         /\ \A R : f.bufCluster \notin R => SameBlocks(disk.data, FlushedTo(f).data, R \cap Clusters)
<1>1. FlushedTo(f) \in Disks /\ FlushedTo(f).fat = disk.fat /\ FlushedTo(f).dir = disk.dir
  <2> DEFINE S == {DataWrite(f.bufCluster, f.bufSecOfs, f.buf)}
  <2>1. f.bufCluster \in Clusters => DataWrite(f.bufCluster, f.bufSecOfs, f.buf) \in S
    OBVIOUS
  <2> HIDE DEF S
  <2>2. QED
    BY <2>1, FlushOf
<1>2. disk.data \in Blocks
  BY DEF Disks
<1>3. f.bufDirty => f.bufCluster \in Clusters
  BY FileFields DEF BufferOK
<1>4. FlushedTo(f).data = Seen(disk.data, f)
  <2>1. CASE f.bufDirty
    BY <1>3, <2>1 DEF FlushedTo, Seen, Disks
  <2>2. CASE ~f.bufDirty /\ f.bufCluster \in Clusters
    <3>1. f.buf = disk.data[<<f.bufCluster, f.bufSecOfs>>]
      BY <2>2, FileFields DEF BufferOK
    <3>2. [disk.data EXCEPT ![<<f.bufCluster, f.bufSecOfs>>]
             = disk.data[<<f.bufCluster, f.bufSecOfs>>]] = disk.data
      BY <1>2 DEF Blocks
    <3>3. QED
      BY <2>2, <3>1, <3>2 DEF FlushedTo, Seen
  <2>3. CASE ~f.bufDirty /\ f.bufCluster \notin Clusters
    BY <2>3 DEF FlushedTo, Seen
  <2>4. QED
    BY <2>1, <2>2, <2>3
<1>5. f.bufDirty \/ FlushedTo(f) = disk
  BY DEF FlushedTo
<1>6. ASSUME NEW R, f.bufCluster \notin R PROVE SameBlocks(disk.data, FlushedTo(f).data, R \cap Clusters)
  <2>1. ASSUME NEW c \in R \cap Clusters, NEW s \in Secs PROVE FlushedTo(f).data[<<c, s>>] = disk.data[<<c, s>>]
    BY <1>2, <1>4, <1>6, <2>1 DEF Seen, Blocks
  <2>2. QED
    BY <2>1 DEF SameBlocks
<1>7. QED
  BY <1>1, <1>4, <1>5, <1>6

\* It touches no other file's blocks and none of a kept entry's.
LEMMA FlushApart ==
  ASSUME FilesOK, NEW h \in DOMAIN file
  PROVE  /\ \A c \in ClusterRefs : Apart(fat, file[h].startCluster, c) =>
              SameBlocks(disk.data, FlushedTo(file[h]).data, Reach(fat, c))
         /\ \A s \in Kept : SameBlocks(disk.data, FlushedTo(file[h]).data, Reach(fat, disk.dir[s].cluster))
<1> DEFINE f == file[h]
<1>1. f \in FileRecs /\ disk \in Disks /\ BufferOK(fat, disk.data, f)
  BY TypeFacts DEF FilesOK, OpenFiles, FileOK
<1>2. \A c : Reach(fat, c) \cap Clusters = Reach(fat, c)
  BY DEF Reach
<1>3. \A R : f.bufCluster \notin R => SameBlocks(disk.data, FlushedTo(f).data, R \cap Clusters)
  BY <1>1, FlushedBlocks
<1>4. f.bufCluster \in Clusters => f.bufCluster \in Reach(fat, f.startCluster)
  BY <1>1, FileFields DEF BufferOK
<1> HIDE DEF f
<1>5. ASSUME NEW c \in ClusterRefs, Apart(fat, f.startCluster, c)
      PROVE  SameBlocks(disk.data, FlushedTo(f).data, Reach(fat, c))
  <2>1. f.bufCluster \notin Reach(fat, c)
    BY <1>4, <1>5 DEF Apart, Reach
  <2>2. QED
    BY <1>2, <1>3, <2>1
<1>6. ASSUME NEW s \in Kept PROVE SameBlocks(disk.data, FlushedTo(f).data, Reach(fat, disk.dir[s].cluster))
  <2>1. CASE f.dirEntry # s
    <3>1. Apart(fat, disk.dir[s].cluster, f.startCluster)
      BY <2>1, KeptApart DEF f
    <3>2. Apart(fat, f.startCluster, disk.dir[s].cluster) /\ disk.dir[s].cluster \in ClusterRefs
      BY <3>1, RecordFields DEF Apart, FilesOK, Kept
    <3>3. QED
      BY <1>5, <3>2
  <2>2. CASE f.dirEntry = s
    <3>1. ~f.bufDirty
      BY <2>2, SavedOpen DEF f
    <3>2. FlushedTo(f) = disk
      BY <3>1 DEF FlushedTo
    <3>3. QED
      BY <3>2 DEF SameBlocks
  <2>3. QED
    BY <2>1, <2>2
<1>7. QED
  BY <1>5, <1>6 DEF f

\* A call that writes no more than a buffer.
LEMMA WholeFlush ==
  ASSUME FilesOK, NEW w, NEW own, NEW nowSaved, \A s \in Kept : nowSaved[s] = saved[s],
         w = <<>> \/ \E h \in DOMAIN file : w = FlushFile(file[h])
  PROVE  Whole(w, own, nowSaved)
<1>1. ASSUME NEW k \in 0 .. Len(w), NEW D, D = Done(w, k)
      PROVE  /\ D \in Disks /\ D.fat = disk.fat /\ D.dir = disk.dir
             /\ \A s \in Kept : SameBlocks(disk.data, D.data, Reach(fat, disk.dir[s].cluster))
  <2>1. disk \in Disks
    BY TypeFacts DEF FilesOK
  <2>2. CASE D = disk
    BY <2>1, <2>2 DEF SameBlocks
  <2>3. CASE \E h \in DOMAIN file : D = FlushedTo(file[h])
    <3>1. PICK h \in DOMAIN file : D = FlushedTo(file[h])
      BY <2>3
    <3>2. file[h] \in FileRecs /\ BufferOK(fat, disk.data, file[h])
      BY TypeFacts DEF FilesOK, OpenFiles, FileOK
    <3>3. D \in Disks /\ D.fat = disk.fat /\ D.dir = disk.dir
      BY <2>1, <3>1, <3>2, FlushedBlocks
    <3>4. QED
      BY <3>1, <3>3, FlushApart
  <2>4. D = disk \/ \E h \in DOMAIN file : D = FlushedTo(file[h])
    <3>1. CASE w = <<>>
      BY <1>1, <2>1, <3>1, NoWrites
    <3>2. CASE \E h \in DOMAIN file : w = FlushFile(file[h])
      <4>1. PICK h \in DOMAIN file : w = FlushFile(file[h])
        BY <3>2
      <4>2. file[h] \in FileRecs
        BY TypeFacts DEF FilesOK
      <4>3. QED
        BY <1>1, <2>1, <4>1, <4>2, FlushOnly
    <3>3. QED
      BY <3>1, <3>2
  <2>5. QED
    BY <2>2, <2>3, <2>4
<1>2. ASSUME NEW k \in 0 .. Len(w)
      PROVE  /\ Done(w, k) \in Disks
             /\ DiskOK(Done(w, k), ResetTorn(w, own, k), ResetSaved(w, Done(w, k), nowSaved))
  <2> DEFINE D == Done(w, k)
             tn == ResetTorn(w, own, k)
             sv == ResetSaved(w, D, nowSaved)
  <2>1. /\ D \in Disks /\ D.fat = disk.fat /\ D.dir = disk.dir
        /\ \A s \in Kept : SameBlocks(disk.data, D.data, Reach(fat, disk.dir[s].cluster))
    BY <1>1
  <2>2. \A s \in Kept : sv[s] = saved[s]
    BY DEF ResetSaved, Kept
  <2>3. torn \cup Unsaved \subseteq tn
    BY DEF ResetTorn
  <2> HIDE DEF D, tn, sv
  <2>4. ASSUME NEW s \in (1 .. Slots) \ tn, D.dir[s] # NoEntry
        PROVE  /\ s \in Kept /\ D.dir[s] = disk.dir[s] /\ sv[s] = saved[s]
               /\ Agree(fat, D.fat, disk.dir[s].cluster)
               /\ SameBlocks(disk.data, D.data, Reach(fat, disk.dir[s].cluster))
    <3>1. s \in Kept
      BY <2>1, <2>3, <2>4 DEF Kept
    <3>2. QED
      BY <2>1, <2>2, <3>1, KeptEntries
  <2>5. DiskOK(D, tn, sv)
    BY <2>1, <2>4, KeepDisk
  <2>6. QED
    BY <2>1, <2>5 DEF D, tn, sv
<1>3. QED
  BY <1>2 DEF Whole

\* A call that writes one entry and the FAT as well, cut short.
CutShort(D, slot, F, tn, sv) ==
  /\ D \in Disks
  /\ torn \cup Unsaved \subseteq tn
  /\ \A s \in 1 .. Slots : s # slot => D.dir[s] = disk.dir[s] /\ sv[s] = saved[s]
  /\ slot \in tn \/ D.dir[slot] = NoEntry
  /\ \A c \in Clusters : D.fat[c] = disk.fat[c] \/ D.fat[c] = F[c]
  /\ \A s \in Kept \ {slot} : /\ Agree(fat, F, disk.dir[s].cluster)
                              /\ SameBlocks(disk.data, D.data, Reach(fat, disk.dir[s].cluster))

\* Saved files stay whole on a disk that changes one entry and free or own
\* clusters only.
LEMMA KeepOthers ==
  ASSUME FilesOK, NEW D, NEW slot, NEW F, NEW tn, NEW sv, CutShort(D, slot, F, tn, sv)
  PROVE  DiskOK(D, tn, sv)
<1> /\ D \in Disks
    /\ torn \cup Unsaved \subseteq tn
    /\ \A s \in 1 .. Slots : s # slot => D.dir[s] = disk.dir[s] /\ sv[s] = saved[s]
    /\ slot \in tn \/ D.dir[slot] = NoEntry
    /\ \A c \in Clusters : D.fat[c] = disk.fat[c] \/ D.fat[c] = F[c]
    /\ \A s \in Kept \ {slot} : /\ Agree(fat, F, disk.dir[s].cluster)
                                /\ SameBlocks(disk.data, D.data, Reach(fat, disk.dir[s].cluster))
  BY DEF CutShort
<1>1. ASSUME NEW s \in (1 .. Slots) \ tn, D.dir[s] # NoEntry
      PROVE  /\ s \in Kept /\ D.dir[s] = disk.dir[s] /\ sv[s] = saved[s]
             /\ Agree(fat, D.fat, disk.dir[s].cluster)
             /\ SameBlocks(disk.data, D.data, Reach(fat, disk.dir[s].cluster))
  <2>1. s # slot
    BY <1>1
  <2>2. s \in Kept /\ D.dir[s] = disk.dir[s] /\ sv[s] = saved[s]
    BY <1>1, <2>1 DEF Kept
  <2>3. Agree(fat, F, disk.dir[s].cluster) /\ Agree(fat, disk.fat, disk.dir[s].cluster)
    BY <2>1, <2>2, KeptEntries
  <2>4. Agree(fat, D.fat, disk.dir[s].cluster)
    BY <2>3 DEF Agree, Reach
  <2>5. QED
    BY <2>1, <2>2, <2>4
<1>2. QED
  BY <1>1, KeepDisk

\* A call that flushes a file, writes its entry and then the FAT.
Saving(slot, h) == [saved EXCEPT ![slot] = text[h]]

EntryCall(w, h, slot, t, N) ==
  /\ h \in DOMAIN file /\ slot \in 1 .. Slots /\ file[h].dirEntry \in {0, slot}
  /\ FatTail(t, fat, N)
  /\ N = 0 => disk.fat = fat
  /\ w = EntryWrites(FlushFile(file[h]), slot, EntryOf(file[h]), t)

\* Register and Close: the disk is whole between the buffer, the entry and the
\* FAT.
LEMMA WholeEntry ==
  ASSUME FilesOK, NEW w, NEW h, NEW slot, NEW t, NEW N, EntryCall(w, h, slot, t, N)
  PROVE  /\ Whole(w, {slot}, Saving(slot, h))
         /\ After(w) \in Disks
         /\ After(w).data = Seen(disk.data, file[h]) /\ After(w).fat = fat
         /\ After(w).dir[slot] = EntryOf(file[h])
         /\ \A s \in 1 .. Slots : s # slot => After(w).dir[s] = disk.dir[s]
<1> /\ h \in DOMAIN file /\ slot \in 1 .. Slots /\ file[h].dirEntry \in {0, slot}
    /\ FatTail(t, fat, N)
    /\ N = 0 => disk.fat = fat
    /\ w = EntryWrites(FlushFile(file[h]), slot, EntryOf(file[h]), t)
  BY DEF EntryCall
<1> DEFINE f == file[h]
           e == EntryOf(f)
           b == FlushedTo(f)
           now == [saved EXCEPT ![slot] = text[h]]
<1>1. /\ f \in FileRecs /\ text[h] \in Texts /\ disk \in Disks /\ fat \in FATs /\ disk.data \in Blocks
      /\ saved \in [1 .. Slots -> Texts]
  BY TypeFacts DEF FilesOK, Types
<1>2. FileOK(fat, disk.data, f, text[h])
  BY DEF FilesOK, OpenFiles
<1>3. e \in Entries
  BY <1>1, FileFields DEF EntryOf, Entries, FileRecs
<1>4. b \in Disks /\ b.fat = disk.fat /\ b.dir = disk.dir /\ b.data = Seen(disk.data, f)
  BY <1>1, <1>2, FlushedBlocks DEF FileOK
<1>5. /\ Len(w) \in Nat
      /\ Between(w, b, slot, e, fat)
      /\ AtLast(w, b, slot, e, fat, N)
  <2> HIDE DEF f, e, b
  <2>1. w = EntryWrites(FlushFile(f), slot, e, t)
    BY DEF f, e
  <2>2. QED
    BY <1>1, <1>3, <2>1, FlushAndEnter DEF b
<1>6. \A s \in 1 .. Slots : now[s] \in Texts /\ now[s] = IF s = slot THEN text[h] ELSE saved[s]
  BY <1>1
<1>7. \A s \in Kept : SameBlocks(disk.data, b.data, Reach(fat, disk.dir[s].cluster))
  BY FlushApart
<1>8. e.cluster = f.startCluster /\ e.len = f.len
  BY DEF EntryOf
<1>9. \A c \in Reach(fat, f.startCluster) : fat[c] = fat[c]
  OBVIOUS
<1>10. /\ After(w) \in Disks /\ After(w).data = Seen(disk.data, f) /\ After(w).fat = fat
       /\ \A s \in 1 .. Slots : After(w).dir[s] = IF s = slot THEN e ELSE disk.dir[s]
  <2>1. N > 0 \/ N = 0
    BY Constants DEF FatTail
  <2> HIDE DEF b, e, f
  <2>2. QED
    BY <1>4, <1>5, <2>1 DEF AtLast
<1> HIDE DEF e, b, now
<1>11. ASSUME NEW k \in 0 .. Len(w), NEW D, D = Done(w, k), NEW tn, tn = ResetTorn(w, {slot}, k),
              NEW sv, sv = ResetSaved(w, D, now)
       PROVE  D \in Disks /\ DiskOK(D, tn, sv)
  <2>1. /\ D \in Disks
        /\ \A at \in Clusters \X Secs : D.data[at] = disk.data[at] \/ D.data[at] = b.data[at]
        /\ \A s \in 1 .. Slots : s # slot => D.dir[s] = disk.dir[s]
        /\ \A c \in Clusters : D.fat[c] = disk.fat[c] \/ D.fat[c] = fat[c]
    BY <1>5, <1>11 DEF Between
  <2>2. torn \cup Unsaved \subseteq tn
    BY <1>11 DEF ResetTorn
  <2>3. \A s \in 1 .. Slots : s # slot => sv[s] = saved[s]
    BY <1>6, <1>11 DEF ResetSaved
  <2>4. \A s \in Kept : SameBlocks(disk.data, D.data, Reach(fat, disk.dir[s].cluster))
    BY <1>7, <2>1 DEF SameBlocks, Reach
  <2>5. CASE k < Len(w)
    <3>1. slot \in tn
      BY <1>11, <2>5 DEF ResetTorn
    <3>2. \A s \in Kept \ {slot} : Agree(fat, fat, disk.dir[s].cluster)
      BY DEF Agree
    <3>3. DiskOK(D, tn, sv)
      <4>1. CutShort(D, slot, fat, tn, sv)
        BY <2>1, <2>2, <2>3, <2>4, <3>1, <3>2 DEF CutShort
      <4>2. QED
        BY <4>1, KeepOthers
    <3>4. QED
      BY <2>1, <3>3
  <2>6. CASE k = Len(w)
    <3>1. D = After(w)
      BY <1>11, <2>6 DEF After
    <3>2. D.fat = fat /\ D.data = Seen(disk.data, f) /\ D.dir[slot] = e
      BY <1>10, <3>1
    <3>3. sv[slot] = text[h]
      BY <1>6, <1>11, <3>1 DEF ResetSaved
    <3>4. ASSUME NEW s \in (1 .. Slots) \ tn, D.dir[s] # NoEntry, s # slot
          PROVE  s \in Kept /\ D.dir[s] = disk.dir[s] /\ EntryOK(fat, D, s, sv[s])
      <4>1. s \in Kept /\ D.dir[s] = disk.dir[s] /\ sv[s] = saved[s]
        BY <2>1, <2>2, <2>3, <3>4 DEF Kept
      <4>2. D.dir[s].len = Len(saved[s]) /\ Good(fat, disk.data, disk.dir[s].cluster, saved[s])
        BY <4>1, KeptEntries
      <4>3. disk.dir[s].cluster \in ClusterRefs /\ saved[s] \in Texts
        BY <1>1, RecordFields DEF FilesOK
      <4>4. Agree(fat, fat, disk.dir[s].cluster)
        BY DEF Agree
      <4>5. Good(fat, D.data, disk.dir[s].cluster, saved[s])
        BY <1>1, <2>4, <4>1, <4>2, <4>3, <4>4, Framed
      <4>6. QED
        BY <4>1, <4>2, <4>5 DEF EntryOK
    <3>5. EntryOK(fat, D, slot, sv[slot])
      BY <1>2, <1>8, <3>2, <3>3 DEF EntryOK, FileOK
    <3>6. ASSUME NEW s \in Kept, s # slot PROVE Apart(fat, disk.dir[s].cluster, e.cluster)
      <4>1. s # 0 /\ f.dirEntry # s
        BY <3>6 DEF Kept
      <4>2. QED
        BY <1>8, <3>6, <4>1, KeptApart
    <3>7. ASSUME NEW s \in (1 .. Slots) \ tn, D.dir[s] # NoEntry,
                 NEW u \in (1 .. Slots) \ tn, D.dir[u] # NoEntry, u # s
          PROVE  Apart(fat, D.dir[s].cluster, D.dir[u].cluster)
      <4>1. CASE s = slot
        <5>1. u \in Kept /\ u # slot /\ D.dir[u] = disk.dir[u]
          BY <3>4, <3>7, <4>1
        <5>2. QED
          BY <3>2, <3>6, <4>1, <5>1 DEF Apart
      <4>2. CASE u = slot
        <5>1. s \in Kept /\ s # slot /\ D.dir[s] = disk.dir[s]
          BY <3>4, <3>7, <4>2
        <5>2. QED
          BY <3>2, <3>6, <4>2, <5>1
      <4>3. CASE s # slot /\ u # slot
        <5>1. s \in Kept /\ D.dir[s] = disk.dir[s] /\ u \in Kept /\ D.dir[u] = disk.dir[u]
          BY <3>4, <3>7, <4>3
        <5>2. QED
          BY <3>7, <5>1, KeptApart
      <4>4. QED
        BY <4>1, <4>2, <4>3
    <3>8. DiskOK(D, tn, sv)
      BY <3>2, <3>4, <3>5, <3>7 DEF DiskOK
    <3>9. QED
      BY <2>1, <3>8
  <2>7. QED
    BY <1>5, <2>5, <2>6
<1>12. Whole(w, {slot}, now)
  BY <1>11 DEF Whole
<1>13. QED
  BY <1>10, <1>12 DEF e, now, Saving

\* An entry nobody holds is a saved file.
LEMMA IdleIsKept ==
  ASSUME FilesOK, NEW s \in Idle
  PROVE  /\ s \in 1 .. Slots /\ s \in Kept /\ s \notin torn /\ disk.dir[s] # NoEntry
         /\ \A h \in DOMAIN file : file[h].dirEntry # s
         /\ disk.dir[s] \in Entries /\ disk.dir[s].cluster \in ClusterRefs /\ saved[s] \in Texts
<1>1. s \in 1 .. Slots /\ s \notin torn /\ disk.dir[s] # NoEntry /\ \A h \in DOMAIN file : file[h].dirEntry # s
  BY DEF Idle, InUse
<1>2. s \notin Unsaved
  BY <1>1 DEF Unsaved
<1>3. disk.dir[s] \in Entries /\ disk.dir[s].cluster \in ClusterRefs /\ saved[s] \in Texts
  BY <1>1, TypeFacts, RecordFields DEF FilesOK
<1>4. QED
  BY <1>1, <1>2, <1>3 DEF Kept

\* No entry and an empty text, and what tells an entry from none.
LEMMA EmptyEntry ==
  /\ NoEntry \in Entries /\ NoEntry.name = "" /\ <<>> \in Texts
  /\ \A e \in Entries : e.name \in Names => e # NoEntry
<1>1. NoEntry = [name |-> "", cluster |-> 0, len |-> 0]
  BY DEF NoEntry
<1>2. NoEntry \in Entries
  BY <1>1 DEF Entries
<1>3. NoEntry.name = ""
  BY <1>1
<1>4. "" \notin Names
  BY FilesConstants
<1>5. <<>> \in Texts
  BY EmptySeq DEF Texts
<1> HIDE DEF NoEntry
<1>6. \A e \in Entries : e.name \in Names => e # NoEntry
  BY <1>3, <1>4
<1>7. QED
  BY <1>2, <1>3, <1>5, <1>6

\* Freeing an idle entry's chain.
LEMMA FreedChain ==
  ASSUME FilesOK, NEW s \in Idle, NEW F, F = FreeChain(fat, disk.dir[s].cluster)
  PROVE  /\ F \in FATs
         /\ \A c \in Clusters : F[c] = IF c \in Reach(fat, disk.dir[s].cluster) THEN FATFree ELSE fat[c]
         /\ \A a : Apart(fat, a, disk.dir[s].cluster) => Agree(fat, F, a)
         /\ disk.dir[s].cluster < 2 => F = fat
<1> DEFINE c == disk.dir[s].cluster
<1>1. c \in ClusterRefs /\ saved[s] \in Texts /\ fat \in FATs /\ disk.dir[s] \in Entries
  BY IdleIsKept, TypeFacts DEF FilesOK
<1>2. PICK n \in Nat : GoodIn(fat, disk.data, c, saved[s], n)
  BY DEF FilesOK, IdleEntries, EntryOK, Good
<1>3. Ends(fat, c, n)
  BY <1>2, GoodEnds
<1>4. Chain(fat, c) = Reach(fat, c)
  BY <1>1, <1>3, HopsAndChain
<1>5. F = [d \in Clusters |-> IF d \in Reach(fat, c) THEN FATFree ELSE fat[d]]
  BY <1>4 DEF FreeChain
<1>6. FATFree \in ClusterRefs
  BY DEF ClusterRefs
<1>7. F \in FATs /\ \A d \in Clusters : F[d] = IF d \in Reach(fat, c) THEN FATFree ELSE fat[d]
  BY <1>1, <1>5, <1>6 DEF FATs
<1>8. ASSUME c < 2 PROVE F = fat
  <2>1. c = 0
    <3>1. c \in Clusters \/ c = 0
      BY <1>1, EntryFields
    <3>2. c \notin Clusters
      BY <1>8 DEF Clusters
    <3>3. QED
      BY <3>1, <3>2
  <2>2. Reach(fat, c) = {}
    BY <1>1, <2>1, NoChain
  <2>3. QED
    BY <1>1, <1>5, <2>2 DEF FATs
<1>9. ASSUME NEW a, Apart(fat, a, c) PROVE Agree(fat, F, a)
  BY <1>7, <1>9 DEF Agree, Apart, Reach
<1>10. QED
  BY <1>7, <1>8, <1>9

DeleteCall(w, slot, F, t, N) ==
  /\ slot \in Idle /\ F = FreeChain(fat, disk.dir[slot].cluster)
  /\ FatTail(t, F, N) /\ w = OnlyEntry(slot, NoEntry, t)

Dropping(slot) == [saved EXCEPT ![slot] = <<>>]

\* Delete: the entry goes first, so that a chain half freed belongs to nobody.
LEMMA WholeDelete ==
  ASSUME FilesOK, NEW w, NEW slot, NEW F, NEW t, NEW N, DeleteCall(w, slot, F, t, N)
  PROVE  /\ Whole(w, {}, Dropping(slot))
         /\ After(w) \in Disks /\ After(w).data = disk.data
         /\ N > 0 => After(w).fat = F
         /\ ~(N > 0) => After(w).fat = disk.fat
         /\ After(w).dir[slot] = NoEntry
         /\ \A s \in 1 .. Slots : s # slot => After(w).dir[s] = disk.dir[s]
<1> /\ slot \in Idle /\ F = FreeChain(fat, disk.dir[slot].cluster)
    /\ FatTail(t, F, N) /\ w = OnlyEntry(slot, NoEntry, t)
  BY DEF DeleteCall
<1> DEFINE now == [saved EXCEPT ![slot] = <<>>]
<1>1. /\ disk \in Disks /\ slot \in 1 .. Slots /\ slot \in Kept /\ disk.dir[slot] # NoEntry
      /\ saved \in [1 .. Slots -> Texts]
  BY IdleIsKept, TypeFacts DEF FilesOK, Types
<1>2. F \in FATs /\ NoEntry \in Entries
  BY FreedChain, EmptyEntry
<1>3. /\ Len(w) \in Nat
      /\ Between(w, disk, slot, NoEntry, F)
      /\ AtLast(w, disk, slot, NoEntry, F, N)
      /\ Done(w, 0) = disk
      /\ \A k \in 1 .. Len(w) : Done(w, k).dir[slot] = NoEntry
  BY <1>1, <1>2, EnterOnly
<1>4. /\ After(w) \in Disks /\ After(w).data = disk.data
      /\ After(w).fat = IF N > 0 THEN F ELSE disk.fat
      /\ \A s \in 1 .. Slots : After(w).dir[s] = IF s = slot THEN NoEntry ELSE disk.dir[s]
  BY <1>3 DEF AtLast
<1>5. \A s \in 1 .. Slots : s # slot => now[s] = saved[s]
  BY <1>1
<1> HIDE DEF now
<1>6. ASSUME NEW k \in 0 .. Len(w), NEW D, D = Done(w, k), NEW tn, tn = ResetTorn(w, {}, k),
             NEW sv, sv = ResetSaved(w, D, now)
      PROVE  D \in Disks /\ DiskOK(D, tn, sv)
  <2>1. /\ D \in Disks
        /\ \A at \in Clusters \X Secs : D.data[at] = disk.data[at]
        /\ \A s \in 1 .. Slots : s # slot => D.dir[s] = disk.dir[s]
        /\ \A c \in Clusters : D.fat[c] = disk.fat[c] \/ D.fat[c] = F[c]
    BY <1>3, <1>6 DEF Between
  <2>2. torn \cup Unsaved \subseteq tn
    BY <1>6 DEF ResetTorn
  <2>3. \A s \in 1 .. Slots : s # slot => sv[s] = saved[s]
    BY <1>5, <1>6 DEF ResetSaved
  <2>4. \A s \in Kept : SameBlocks(disk.data, D.data, Reach(fat, disk.dir[s].cluster))
    BY <2>1 DEF SameBlocks, Reach
  <2>5. CASE k = 0
    <3>1. D = disk
      BY <1>3, <1>6, <2>5
    <3>2. sv[slot] = saved[slot]
      BY <1>1, <1>4, <1>6, <3>1 DEF ResetSaved
    <3>3. ASSUME NEW s \in (1 .. Slots) \ tn, D.dir[s] # NoEntry
          PROVE  /\ s \in Kept /\ D.dir[s] = disk.dir[s] /\ sv[s] = saved[s]
                 /\ Agree(fat, D.fat, disk.dir[s].cluster)
                 /\ SameBlocks(disk.data, D.data, Reach(fat, disk.dir[s].cluster))
      <4>1. s \in Kept /\ D.dir[s] = disk.dir[s] /\ sv[s] = saved[s]
        BY <2>2, <2>3, <3>1, <3>2, <3>3 DEF Kept
      <4>2. QED
        BY <2>4, <3>1, <4>1, KeptEntries
    <3>4. QED
      BY <2>1, <3>3, KeepDisk
  <2>6. CASE k # 0
    <3>1. D.dir[slot] = NoEntry
      BY <1>3, <1>6, <2>6
    <3>2. ASSUME NEW s \in Kept \ {slot} PROVE Agree(fat, F, disk.dir[s].cluster)
      <4>1. Apart(fat, disk.dir[s].cluster, disk.dir[slot].cluster)
        BY <3>2, KeptApart
      <4>2. QED
        BY <4>1, FreedChain
    <3>3. \A s \in Kept \ {slot} : /\ Agree(fat, F, disk.dir[s].cluster)
                                   /\ SameBlocks(disk.data, D.data, Reach(fat, disk.dir[s].cluster))
      BY <2>4, <3>2
    <3>4. DiskOK(D, tn, sv)
      <4>1. CutShort(D, slot, F, tn, sv)
        BY <2>1, <2>2, <2>3, <3>1, <3>3 DEF CutShort
      <4>2. QED
        BY <4>1, KeepOthers
    <3>5. QED
      BY <2>1, <3>4
  <2>7. QED
    BY <2>5, <2>6
<1>7. Whole(w, {}, now)
  BY <1>6 DEF Whole
<1>8. QED
  BY <1>1, <1>4, <1>7 DEF now, Dropping

\* An entry under another name, in a slot that is free.
LEMMA Renamed ==
  ASSUME NEW d \in Entries, NEW new \in Names, NEW e, e = [d EXCEPT !.name = new]
  PROVE  e \in Entries /\ e # NoEntry /\ e.cluster = d.cluster /\ e.len = d.len
<1>1. e \in Entries /\ e.cluster = d.cluster /\ e.len = d.len /\ e.name = new
  BY DEF Entries
<1>2. QED
  BY <1>1, EmptyEntry

RenameCall(w, slot, to, e) ==
  /\ slot \in Idle /\ to \in 1 .. Slots /\ (to = slot \/ disk.dir[to] = NoEntry)
  /\ e \in Entries /\ e # NoEntry /\ e.cluster = disk.dir[slot].cluster /\ e.len = disk.dir[slot].len
  /\ w = TwoWrites(slot, NoEntry, to, e)

Moving(slot, to) == [[saved EXCEPT ![slot] = <<>>] EXCEPT ![to] = saved[slot]]

\* Rename: between its two writes the file has no entry, and the others are
\* whole.
LEMMA WholeRename ==
  ASSUME FilesOK, NEW w, NEW slot, NEW to, NEW e, RenameCall(w, slot, to, e)
  PROVE  /\ Whole(w, {}, Moving(slot, to))
         /\ After(w) \in Disks /\ After(w).data = disk.data /\ After(w).fat = disk.fat
         /\ After(w).dir[to] = e
         /\ slot # to => After(w).dir[slot] = NoEntry
         /\ \A s \in 1 .. Slots : s # to /\ s # slot => After(w).dir[s] = disk.dir[s]
<1> /\ slot \in Idle /\ to \in 1 .. Slots /\ (to = slot \/ disk.dir[to] = NoEntry)
    /\ e \in Entries /\ e # NoEntry /\ e.cluster = disk.dir[slot].cluster /\ e.len = disk.dir[slot].len
    /\ w = TwoWrites(slot, NoEntry, to, e)
  BY DEF RenameCall
<1> DEFINE now == [[saved EXCEPT ![slot] = <<>>] EXCEPT ![to] = saved[slot]]
<1>1. /\ disk \in Disks /\ slot \in 1 .. Slots /\ slot \in Kept /\ disk.dir[slot] # NoEntry
      /\ saved \in [1 .. Slots -> Texts] /\ disk.dir[slot] \in Entries /\ disk.dir \in Dirs
  BY IdleIsKept, TypeFacts DEF FilesOK, Types, Disks
<1>2. e \in Entries /\ e # NoEntry /\ e.cluster = disk.dir[slot].cluster /\ e.len = disk.dir[slot].len
  OBVIOUS
<1>3. /\ Len(w) = 2 /\ Done(w, 0) = disk
      /\ Done(w, 1) \in Disks /\ After(w) \in Disks
      /\ Done(w, 1).data = disk.data /\ Done(w, 1).fat = disk.fat
      /\ \A s \in 1 .. Slots : Done(w, 1).dir[s] = IF s = slot THEN NoEntry ELSE disk.dir[s]
      /\ After(w).data = disk.data /\ After(w).fat = disk.fat
      /\ \A s \in 1 .. Slots : After(w).dir[s] = IF s = to THEN e ELSE Done(w, 1).dir[s]
  <2>1. NoEntry \in Entries
    BY EmptyEntry
  <2> HIDE DEF NoEntry
  <2>2. QED
    BY <1>1, <1>2, <2>1, TwoEntries
<1>4. /\ After(w).data = disk.data /\ After(w).fat = disk.fat
      /\ \A s \in 1 .. Slots : After(w).dir[s] = IF s = to THEN e ELSE IF s = slot THEN NoEntry ELSE disk.dir[s]
  BY <1>3
<1>5. \A s \in 1 .. Slots : now[s] = IF s = to THEN saved[slot] ELSE IF s = slot THEN <<>> ELSE saved[s]
  BY <1>1
<1>6. 0 \in Nat /\ 1 \in Nat /\ 2 \in Nat /\ 0 .. 2 = {0, 1, 2}
  OBVIOUS
<1> HIDE DEF now
<1>7. ASSUME NEW k \in 0 .. Len(w), NEW D, D = Done(w, k), NEW tn, tn = ResetTorn(w, {}, k),
             NEW sv, sv = ResetSaved(w, D, now)
      PROVE  D \in Disks /\ DiskOK(D, tn, sv)
  <2>1. torn \cup Unsaved = tn
    BY <1>7 DEF ResetTorn
  <2>2. \A s \in 1 .. Slots : sv[s] = IF D.dir[s] = After(w).dir[s] THEN now[s] ELSE saved[s]
    BY <1>7 DEF ResetSaved
  <2>3. CASE k = 0
    <3>1. D = disk
      BY <1>3, <1>7, <2>3
    <3>2. ASSUME NEW s \in (1 .. Slots) \ tn, D.dir[s] # NoEntry
          PROVE  /\ s \in Kept /\ D.dir[s] = disk.dir[s] /\ sv[s] = saved[s]
                 /\ Agree(fat, D.fat, disk.dir[s].cluster)
                 /\ SameBlocks(disk.data, D.data, Reach(fat, disk.dir[s].cluster))
      <4>1. s \in Kept /\ D.dir[s] = disk.dir[s]
        BY <2>1, <3>1, <3>2 DEF Kept
      <4>2. CASE s = slot
        BY <1>1, <1>4, <1>5, <2>2, <3>1, <4>1, <4>2, KeptEntries DEF SameBlocks
      <4>3. CASE s # slot
        <5>1. s # to
          BY <3>1, <3>2, <4>3
        <5>2. sv[s] = saved[s]
          BY <1>5, <2>2, <4>3, <5>1
        <5>3. QED
          BY <3>1, <4>1, <5>2, KeptEntries DEF SameBlocks
      <4>4. QED
        BY <4>2, <4>3
    <3>3. QED
      BY <1>1, <3>1, <3>2, KeepDisk
  <2>4. CASE k = 1
    <3>1. D \in Disks
      BY <1>3, <1>7, <2>4
    <3>2. /\ D.data = disk.data /\ D.fat = disk.fat
          /\ \A s \in 1 .. Slots : D.dir[s] = IF s = slot THEN NoEntry ELSE disk.dir[s]
      BY <1>3, <1>7, <2>4
    <3>3. ASSUME NEW s \in 1 .. Slots, s # slot PROVE D.dir[s] = disk.dir[s] /\ sv[s] = saved[s]
      <4>1. s = to => D.dir[s] # After(w).dir[s]
        BY <1>2, <1>4, <3>2, <3>3
      <4>2. QED
        BY <1>5, <2>2, <3>2, <3>3, <4>1
    <3>4. \A s \in Kept \ {slot} : /\ Agree(fat, fat, disk.dir[s].cluster)
                                   /\ SameBlocks(disk.data, D.data, Reach(fat, disk.dir[s].cluster))
      BY <3>2 DEF Agree, SameBlocks
    <3>5. CutShort(D, slot, fat, tn, sv)
      BY <1>1, <2>1, <3>1, <3>2, <3>3, <3>4 DEF CutShort
    <3>6. QED
      BY <3>1, <3>5, KeepOthers
  <2>5. CASE k = 2
    <3>1. D = After(w)
      BY <1>3, <1>7, <2>5 DEF After
    <3>2. \A s \in 1 .. Slots : sv[s] = now[s]
      BY <2>2, <3>1
    <3> DEFINE src(s) == IF s = to THEN slot ELSE s
    <3>3. ASSUME NEW s \in (1 .. Slots) \ tn, D.dir[s] # NoEntry
          PROVE  /\ src(s) \in Kept /\ D.dir[s].cluster = disk.dir[src(s)].cluster
                 /\ EntryOK(D.fat, D, s, sv[s])
      <4>1. /\ src(s) \in Kept /\ D.dir[s].cluster = disk.dir[src(s)].cluster
            /\ D.dir[s].len = disk.dir[src(s)].len /\ sv[s] = saved[src(s)]
        <5>1. CASE s = to
          BY <1>1, <1>2, <1>4, <1>5, <3>1, <3>2, <5>1
        <5>2. CASE s # to
          <6>1. s # slot
            BY <1>1, <1>4, <3>1, <3>3, <5>2
          <6>2. D.dir[s] = disk.dir[s] /\ sv[s] = saved[s] /\ src(s) = s
            BY <1>4, <1>5, <3>1, <3>2, <5>2, <6>1
          <6>3. s \in Kept
            BY <2>1, <3>3, <6>2 DEF Kept
          <6>4. QED
            BY <6>2, <6>3
        <5>3. QED
          BY <5>1, <5>2
      <4> DEFINE u == src(s)
      <4>2. u \in Kept /\ u \in 1 .. Slots
        BY <4>1 DEF Kept
      <4> HIDE DEF src, u
      <4>3. Agree(fat, disk.fat, disk.dir[u].cluster) /\ disk.dir[u].len = Len(saved[u])
            /\ Good(fat, disk.data, disk.dir[u].cluster, saved[u])
        BY <4>2, KeptEntries
      <4>4. /\ disk.dir[u].cluster \in ClusterRefs /\ saved[u] \in Texts
            /\ fat \in FATs /\ disk.fat \in FATs
        BY <4>2, RecordFields, TypeFacts DEF FilesOK
      <4>5. SameBlocks(disk.data, disk.data, Reach(fat, disk.dir[u].cluster))
        BY DEF SameBlocks
      <4>6. Good(disk.fat, disk.data, disk.dir[u].cluster, saved[u])
        BY <4>3, <4>4, <4>5, Framed
      <4>7. QED
        BY <1>4, <3>1, <4>1, <4>3, <4>6 DEF u, EntryOK
    <3>4. ASSUME NEW s \in (1 .. Slots) \ tn, D.dir[s] # NoEntry,
                 NEW u \in (1 .. Slots) \ tn, D.dir[u] # NoEntry, u # s
          PROVE  Apart(D.fat, D.dir[s].cluster, D.dir[u].cluster)
      <4>1. src(s) # src(u)
        BY <1>4, <3>1, <3>4
      <4>2. /\ src(s) \in Kept /\ D.dir[s].cluster = disk.dir[src(s)].cluster
            /\ src(u) \in Kept /\ D.dir[u].cluster = disk.dir[src(u)].cluster
        BY <3>3, <3>4
      <4> DEFINE x == src(s)
                 y == src(u)
      <4> HIDE DEF src
      <4>3. x \in Kept /\ y \in Kept /\ y # x /\ x \in 1 .. Slots /\ y \in 1 .. Slots
        BY <4>1, <4>2 DEF Kept
      <4> HIDE DEF x, y
      <4>4. Apart(fat, disk.dir[x].cluster, disk.dir[y].cluster)
        BY <4>3, KeptApart
      <4>5. /\ Agree(fat, disk.fat, disk.dir[x].cluster) /\ Agree(fat, disk.fat, disk.dir[y].cluster)
            /\ disk.dir[x].cluster \in ClusterRefs /\ disk.dir[y].cluster \in ClusterRefs
            /\ fat \in FATs /\ disk.fat \in FATs
        BY <4>3, KeptEntries, RecordFields, TypeFacts DEF FilesOK
      <4>6. Reach(disk.fat, disk.dir[x].cluster) = Reach(fat, disk.dir[x].cluster)
        BY <4>5, SameReach
      <4>7. Reach(disk.fat, disk.dir[y].cluster) = Reach(fat, disk.dir[y].cluster)
        BY <4>5, SameReach
      <4>8. Apart(disk.fat, disk.dir[x].cluster, disk.dir[y].cluster)
        BY <4>4, <4>6, <4>7 DEF Apart
      <4>9. QED
        BY <1>4, <3>1, <4>2, <4>8 DEF x, y
    <3>5. DiskOK(D, tn, sv)
      BY <3>3, <3>4 DEF DiskOK
    <3>6. QED
      BY <1>3, <3>1, <3>5
  <2>6. QED
    BY <1>3, <1>6, <1>7, <2>3, <2>4, <2>5
<1>8. Whole(w, {}, now)
  BY <1>7 DEF Whole
<1>9. QED
  BY <1>1, <1>3, <1>4, <1>8 DEF now, Moving

-----------------------------------------------------------------------------
(* A call that returns changes at most the open file in H or the entry in E: *)
(* the other files carry over when their clusters do.                        *)

Carried(H, E) ==
  /\ \A g \in DOMAIN file' \ H :
       /\ g \in DOMAIN file /\ file'[g] = file[g] /\ text'[g] = text[g]
       /\ file[g].registered =>
            /\ disk'.dir[file[g].dirEntry] = disk.dir[file[g].dirEntry]
            /\ saved'[file[g].dirEntry] = saved[file[g].dirEntry]
            /\ file[g].dirEntry \notin torn'
  /\ \A s \in Idle' \ E : s \in Idle /\ disk'.dir[s] = disk.dir[s] /\ saved'[s] = saved[s]

\* Where the other files start.
Others(H, E) == {file'[g].startCluster : g \in DOMAIN file' \ H} \cup {disk'.dir[s].cluster : s \in Idle' \ E}

Framing(H, E) ==
  \A c \in Others(H, E) :
    /\ Agree(fat, fat', c)
    /\ SameBlocks(disk.data, disk'.data, Reach(fat, c))
    /\ Agree(fat, disk.fat, c) => Agree(fat', disk'.fat, c)

ApartFromOthers(start, H, E) == \A c \in Others(H, E) : Reach(fat', start) \cap Reach(fat, c) = {}

Changed(H, E) ==
  /\ \A g, k \in H : g = k
  /\ \A s, u \in E : s = u
  /\ H \cap DOMAIN file' = {} \/ E \cap Idle' = {}
  /\ \A g \in H \cap DOMAIN file' :
       /\ FileOK(fat', disk'.data, file'[g], text'[g])
       /\ file'[g].registered <=> file'[g].dirEntry # 0
       /\ Linked(g)'
       /\ ApartFromOthers(file'[g].startCluster, H, E)
       /\ \A k \in DOMAIN file' \ H : file'[g].dirEntry = 0 \/ file'[g].dirEntry # file[k].dirEntry
  /\ \A s \in E \cap Idle' :
       /\ EntryOK(fat', disk', s, saved'[s])
       /\ Agree(fat', disk'.fat, disk'.dir[s].cluster)
       /\ ApartFromOthers(disk'.dir[s].cluster, H, E)

\* The files stay good and apart over a call that changes one of them, if the
\* others carry over.
LEMMA FilesStep ==
  ASSUME FilesOK, Types', NEW H, NEW E, Carried(H, E), Framing(H, E), Changed(H, E)
  PROVE  FilesOK'
<1>1. /\ fat \in FATs /\ disk \in Disks /\ disk.fat \in FATs /\ disk.data \in Blocks
      /\ \A h \in DOMAIN file : file[h] \in FileRecs /\ text[h] \in Texts
      /\ \A s \in 1 .. Slots : saved[s] \in Texts
      /\ \A h \in DOMAIN file : file[h].startCluster \in ClusterRefs
      /\ \A s \in 1 .. Slots : disk.dir[s].cluster \in ClusterRefs
  BY TypeFacts, RecordFields DEF FilesOK
<1>2. fat' \in FATs
  BY DEF Types
<1>3. \A g \in DOMAIN file' \ H : file'[g].startCluster \in Others(H, E)
  BY DEF Others
<1>4. \A s \in Idle' \ E : disk'.dir[s].cluster \in Others(H, E)
  BY DEF Others
<1>5. \A c \in Others(H, E) : c \in ClusterRefs
  <2>1. \A g \in DOMAIN file' \ H : file'[g].startCluster \in ClusterRefs
    BY <1>1 DEF Carried
  <2>2. \A s \in Idle' \ E : disk'.dir[s].cluster \in ClusterRefs
    BY <1>1 DEF Carried, Idle
  <2>3. QED
    BY <2>1, <2>2 DEF Others
<1>6. ASSUME NEW c \in Others(H, E)
      PROVE  /\ Agree(fat, fat', c) /\ SameBlocks(disk.data, disk'.data, Reach(fat, c))
             /\ Agree(fat, disk.fat, c) => Agree(fat', disk'.fat, c)
             /\ Reach(fat', c) = Reach(fat, c)
  <2>1. /\ Agree(fat, fat', c) /\ SameBlocks(disk.data, disk'.data, Reach(fat, c))
        /\ Agree(fat, disk.fat, c) => Agree(fat', disk'.fat, c)
    BY DEF Framing
  <2>2. QED
    BY <1>1, <1>2, <1>5, <2>1, SameReach
<1>7. ASSUME NEW g \in DOMAIN file' \ H
      PROVE  /\ FileOK(fat', disk'.data, file'[g], text'[g])
             /\ file'[g].registered <=> file'[g].dirEntry # 0
             /\ Linked(g)'
  <2> DEFINE f == file[g]
             c == f.startCluster
  <2>1. g \in DOMAIN file /\ file'[g] = f /\ text'[g] = text[g]
    BY DEF Carried
  <2>2. c \in Others(H, E) /\ f \in FileRecs /\ text[g] \in Texts /\ c \in ClusterRefs
    BY <1>1, <1>3, <2>1
  <2>3. FileOK(fat, disk.data, f, text[g]) /\ (f.registered <=> f.dirEntry # 0) /\ Linked(g)
    BY <2>1 DEF FilesOK, OpenFiles
  <2> HIDE DEF c
  <2>4. /\ Agree(fat, fat', c) /\ SameBlocks(disk.data, disk'.data, Reach(fat, c))
        /\ Agree(fat, disk.fat, c) => Agree(fat', disk'.fat, c)
        /\ Reach(fat', c) = Reach(fat, c)
    BY <1>6, <2>2
  <2>5. BufferOK(fat, disk.data, f) /\ f.len = Len(text[g]) /\ Good(fat, Seen(disk.data, f), c, text[g])
    BY <2>3 DEF FileOK, c
  <2>6. BufferOK(fat', disk'.data, f)
    <3>1. f.bufCluster # -1 => f.bufCluster \in Reach(fat, c)
      BY <2>5 DEF BufferOK, c
    <3>2. f.bufSecOfs \in Secs
      BY <2>2, FileFields
    <3>3. f.bufCluster # -1 => disk'.data[<<f.bufCluster, f.bufSecOfs>>] = disk.data[<<f.bufCluster, f.bufSecOfs>>]
      BY <2>4, <3>1, <3>2 DEF SameBlocks
    <3>4. QED
      BY <2>4, <2>5, <3>1, <3>3 DEF BufferOK, c
  <2>7. SameBlocks(Seen(disk.data, f), Seen(disk'.data, f), Reach(fat, c))
    <3>1. ASSUME NEW d \in Reach(fat, c), NEW s \in Secs
          PROVE  Seen(disk'.data, f)[<<d, s>>] = Seen(disk.data, f)[<<d, s>>]
      <4>1. d \in Clusters /\ disk'.data[<<d, s>>] = disk.data[<<d, s>>]
        BY <2>4, <3>1 DEF SameBlocks, Reach
      <4>2. disk.data \in Blocks /\ disk'.data \in Blocks
        BY <1>1 DEF Types, Disks
      <4>3. QED
        BY <4>1, <4>2 DEF Seen, Blocks
    <3>2. QED
      BY <3>1 DEF SameBlocks
  <2>8. Good(fat', Seen(disk'.data, f), c, text[g])
    BY <1>1, <1>2, <2>2, <2>4, <2>5, <2>7, Framed
  <2>9. FileOK(fat', disk'.data, f, text[g])
    BY <2>5, <2>6, <2>8 DEF FileOK, c
  <2>10. Linked(g)'
    <3>1. f.registered => /\ disk'.dir[f.dirEntry] = disk.dir[f.dirEntry]
                          /\ saved'[f.dirEntry] = saved[f.dirEntry]
                          /\ f.dirEntry \notin torn'
      BY DEF Carried
    <3>2. QED
      BY <2>1, <2>3, <2>4, <3>1 DEF Linked, c
  <2>11. QED
    BY <2>1, <2>3, <2>9, <2>10
<1>8. OpenFiles'
  <2>1. ASSUME NEW g \in DOMAIN file'
        PROVE  /\ FileOK(fat', disk'.data, file'[g], text'[g])
               /\ file'[g].registered <=> file'[g].dirEntry # 0
               /\ Linked(g)'
    <3>1. CASE g \in H
      BY <3>1 DEF Changed
    <3>2. CASE g \notin H
      BY <1>7, <3>2
    <3>3. QED
      BY <3>1, <3>2
  <2>2. QED
    BY <2>1 DEF OpenFiles
<1>9. ASSUME NEW s \in Idle' \ E
      PROVE  EntryOK(fat', disk', s, saved'[s]) /\ Agree(fat', disk'.fat, disk'.dir[s].cluster)
  <2> DEFINE c == disk.dir[s].cluster
  <2>1. s \in Idle /\ disk'.dir[s] = disk.dir[s] /\ saved'[s] = saved[s]
    BY DEF Carried
  <2>2. c \in Others(H, E) /\ saved[s] \in Texts /\ c \in ClusterRefs
    BY <1>1, <1>4, <2>1 DEF Idle
  <2>3. disk.dir[s].len = Len(saved[s]) /\ Good(fat, disk.data, c, saved[s]) /\ Agree(fat, disk.fat, c)
    BY <2>1 DEF FilesOK, IdleEntries, EntryOK
  <2> HIDE DEF c
  <2>4. /\ Agree(fat, fat', c) /\ SameBlocks(disk.data, disk'.data, Reach(fat, c))
        /\ Agree(fat', disk'.fat, c)
    BY <1>6, <2>2, <2>3
  <2>5. Good(fat', disk'.data, c, saved[s])
    BY <1>1, <1>2, <2>2, <2>3, <2>4, Framed
  <2>6. QED
    BY <2>1, <2>3, <2>4, <2>5 DEF EntryOK, c
<1>10. IdleEntries'
  <2>1. ASSUME NEW s \in Idle'
        PROVE  EntryOK(fat', disk', s, saved'[s]) /\ Agree(fat', disk'.fat, disk'.dir[s].cluster)
    BY <1>9 DEF Changed
  <2>2. QED
    BY <2>1 DEF IdleEntries
<1>11. ASSUME NEW a, ApartFromOthers(a, H, E), NEW c \in Others(H, E)
       PROVE  Apart(fat', a, c) /\ Apart(fat', c, a)
  BY <1>6, <1>11 DEF ApartFromOthers, Apart
<1>12. ASSUME NEW a, NEW b \in ClusterRefs, a \in Others(H, E), b \in Others(H, E), Apart(fat, a, b)
       PROVE  Apart(fat', a, b)
  BY <1>6, <1>12 DEF Apart
<1>13. ASSUME NEW g \in DOMAIN file', NEW h \in DOMAIN file', g # h
       PROVE  /\ Apart(fat', file'[g].startCluster, file'[h].startCluster)
              /\ file'[g].registered => file'[g].dirEntry # file'[h].dirEntry
  <2>1. CASE g \in H /\ h \notin H
    <3>1. ApartFromOthers(file'[g].startCluster, H, E) /\ file'[h].startCluster \in Others(H, E)
      BY <1>3, <2>1 DEF Changed
    <3>2. Apart(fat', file'[g].startCluster, file'[h].startCluster)
      BY <1>11, <3>1
    <3>3. file'[g].registered <=> file'[g].dirEntry # 0
      BY <2>1 DEF Changed
    <3>4. file'[g].dirEntry = 0 \/ file'[g].dirEntry # file[h].dirEntry
      BY <2>1 DEF Changed
    <3>5. file'[h] = file[h]
      BY <2>1 DEF Carried
    <3>6. QED
      BY <3>2, <3>3, <3>4, <3>5
  <2>2. CASE h \in H /\ g \notin H
    <3>1. ApartFromOthers(file'[h].startCluster, H, E) /\ file'[g].startCluster \in Others(H, E)
      BY <1>3, <2>2 DEF Changed
    <3>2. Apart(fat', file'[g].startCluster, file'[h].startCluster)
      BY <1>11, <3>1
    <3>3. file'[g].registered <=> file'[g].dirEntry # 0
      BY <1>7, <2>2
    <3>4. file'[h].dirEntry = 0 \/ file'[h].dirEntry # file[g].dirEntry
      BY <2>2 DEF Changed
    <3>5. file'[g] = file[g]
      BY <2>2 DEF Carried
    <3>6. QED
      BY <3>2, <3>3, <3>4, <3>5
  <2>3. CASE g \notin H /\ h \notin H
    <3>1. g \in DOMAIN file /\ h \in DOMAIN file /\ file'[g] = file[g] /\ file'[h] = file[h]
      BY <2>3 DEF Carried
    <3>2. /\ Apart(fat, file[g].startCluster, file[h].startCluster)
          /\ file[g].registered => file[g].dirEntry # file[h].dirEntry
      BY <1>13, <3>1 DEF FilesOK, NoSharing
    <3>3. file[g].startCluster \in Others(H, E) /\ file[h].startCluster \in Others(H, E)
      BY <1>3, <2>3, <3>1
    <3>4. QED
      BY <1>5, <1>12, <3>1, <3>2, <3>3
  <2>4. ~(g \in H /\ h \in H)
    BY <1>13 DEF Changed
  <2>5. QED
    BY <2>1, <2>2, <2>3, <2>4
<1>14. ASSUME NEW h \in DOMAIN file', NEW s \in Idle'
       PROVE  Apart(fat', file'[h].startCluster, disk'.dir[s].cluster)
  <2>1. CASE h \in H /\ s \notin E
    <3>1. ApartFromOthers(file'[h].startCluster, H, E) /\ disk'.dir[s].cluster \in Others(H, E)
      BY <1>4, <2>1 DEF Changed
    <3>2. QED
      BY <1>11, <3>1
  <2>2. CASE h \notin H /\ s \in E
    <3>1. ApartFromOthers(disk'.dir[s].cluster, H, E) /\ file'[h].startCluster \in Others(H, E)
      BY <1>3, <2>2 DEF Changed
    <3>2. QED
      BY <1>11, <3>1
  <2>3. CASE h \notin H /\ s \notin E
    <3>1. h \in DOMAIN file /\ s \in Idle /\ file'[h] = file[h] /\ disk'.dir[s] = disk.dir[s]
      BY <2>3 DEF Carried
    <3>2. Apart(fat, file[h].startCluster, disk.dir[s].cluster)
      BY <3>1 DEF FilesOK, NoSharing
    <3>3. file[h].startCluster \in Others(H, E) /\ disk.dir[s].cluster \in Others(H, E)
      BY <1>3, <1>4, <2>3, <3>1
    <3>4. QED
      BY <1>5, <1>12, <3>1, <3>2, <3>3
  <2>4. ~(h \in H /\ s \in E)
    BY DEF Changed
  <2>5. QED
    BY <2>1, <2>2, <2>3, <2>4
<1>15. ASSUME NEW s \in Idle', NEW u \in Idle', s # u
       PROVE  Apart(fat', disk'.dir[s].cluster, disk'.dir[u].cluster)
  <2>1. CASE s \in E /\ u \notin E
    <3>1. ApartFromOthers(disk'.dir[s].cluster, H, E) /\ disk'.dir[u].cluster \in Others(H, E)
      BY <1>4, <2>1 DEF Changed
    <3>2. QED
      BY <1>11, <3>1
  <2>2. CASE u \in E /\ s \notin E
    <3>1. ApartFromOthers(disk'.dir[u].cluster, H, E) /\ disk'.dir[s].cluster \in Others(H, E)
      BY <1>4, <2>2 DEF Changed
    <3>2. QED
      BY <1>11, <3>1
  <2>3. CASE s \notin E /\ u \notin E
    <3>1. s \in Idle /\ u \in Idle /\ disk'.dir[s] = disk.dir[s] /\ disk'.dir[u] = disk.dir[u]
      BY <2>3 DEF Carried
    <3>2. Apart(fat, disk.dir[s].cluster, disk.dir[u].cluster)
      BY <1>15, <3>1 DEF FilesOK, NoSharing
    <3>3. disk.dir[s].cluster \in Others(H, E) /\ disk.dir[u].cluster \in Others(H, E)
      BY <1>4, <2>3, <3>1
    <3>4. QED
      BY <1>5, <1>12, <3>1, <3>2, <3>3
  <2>4. ~(s \in E /\ u \in E)
    BY <1>15 DEF Changed
  <2>5. QED
    BY <2>1, <2>2, <2>3, <2>4
<1>16. NoSharing'
  BY <1>13, <1>14, <1>15 DEF NoSharing
<1>17. QED
  BY <1>8, <1>10, <1>16 DEF FilesOK

-----------------------------------------------------------------------------
(* The parts of a step. *)

\* The way a call ends that returns.
Returned(w, nowSaved) ==
  /\ disk' = After(w) /\ saved' = nowSaved
  /\ torn' = {s \in torn : disk'.dir[s] # NoEntry}

\* A call without writes that returns leaves disk, saved and torn.
LEMMA NothingWritten ==
  ASSUME FilesOK, Returned(<<>>, saved)
  PROVE  disk' = disk /\ saved' = saved /\ torn' = torn
<1>1. disk' = disk /\ saved' = saved
  BY TypeFacts, NoWrites DEF FilesOK, Returned
<1>2. \A s \in torn : disk.dir[s] # NoEntry
  BY DEF FilesOK, Types
<1>3. QED
  BY <1>1, <1>2 DEF Returned

\* Riders of the files that carry over are in step with them.
LEMMA OthersFollow ==
  ASSUME FilesOK, Types', NEW H, NEW E, Carried(H, E), Framing(H, E), NEW g \in DOMAIN file' \ H, NEW k \in Nat
  PROVE  /\ file'[g] = file[g]
         /\ FollowChain(fat', file'[g].startCluster, k) = FollowChain(fat, file[g].startCluster, k)
<1>1. g \in DOMAIN file /\ file'[g] = file[g]
  BY DEF Carried
<1>2. fat \in FATs /\ fat' \in FATs /\ file[g].startCluster \in ClusterRefs
  BY <1>1, TypeFacts, RecordFields DEF FilesOK, Types
<1>3. file'[g].startCluster \in Others(H, E)
  BY DEF Others
<1>4. Agree(fat, fat', file[g].startCluster)
  BY <1>1, <1>3 DEF Framing
<1>5. QED
  BY <1>1, <1>2, <1>4, SameReach

\* SyncRider puts a rider on the cluster of its position.
LEMMA SyncedRider ==
  ASSUME NEW F \in FATs, NEW f \in FileRecs, NEW r \in RiderRecs,
         r.cluster = FollowChain(F, f.startCluster, r.clusterIdx), NEW at, at = SyncRider(F, f, r)
  PROVE  /\ at \in RiderRecs /\ at.file = r.file /\ at.pos = r.pos
         /\ at.clusterIdx = r.pos \div ClusterBytes
         /\ at.cluster = FollowChain(F, f.startCluster, r.pos \div ClusterBytes)
         /\ at.secOfs = (r.pos % ClusterBytes) \div SectorSize
<1> DEFINE target == r.pos \div ClusterBytes
           sec    == (r.pos % ClusterBytes) \div SectorSize
<1>1. r.pos \in Nat /\ r.clusterIdx \in Nat /\ r.file \in Handles
  BY DEF RiderRecs
<1>2. target \in Nat /\ sec \in Secs
  BY <1>1, Geometry
<1>3. f.startCluster \in ClusterRefs
  BY FileFields
<1> HIDE DEF target, sec
<1>4. FollowChain(F, f.startCluster, target) \in ClusterRefs
  BY <1>2, <1>3, ChainStep
<1>5. CASE target < r.clusterIdx
  <2>1. at = [r EXCEPT !.cluster = FollowChain(F, f.startCluster, target), !.clusterIdx = target, !.secOfs = sec]
    BY <1>5 DEF SyncRider, target, sec
  <2>2. QED
    BY <1>2, <1>4, <2>1 DEF RiderRecs, target, sec
<1>6. CASE ~(target < r.clusterIdx)
  <2>1. target - r.clusterIdx \in Nat /\ r.clusterIdx + (target - r.clusterIdx) = target
    BY <1>1, <1>2, <1>6
  <2>2. FollowChain(F, r.cluster, target - r.clusterIdx) = FollowChain(F, f.startCluster, target)
    BY <1>1, <1>3, <2>1, FollowAdd
  <2>3. at = [r EXCEPT !.cluster = FollowChain(F, f.startCluster, target), !.clusterIdx = target, !.secOfs = sec]
    BY <1>6, <2>2 DEF SyncRider, target, sec
  <2>4. QED
    BY <1>2, <1>4, <2>3 DEF RiderRecs, target, sec
<1>7. QED
  BY <1>5, <1>6

\* How a call ends, whatever it writes.
LEMMA CallOrReset ==
  ASSUME IInv, misread' = misread, wild' = wild, NEW w, NEW own \in SUBSET (1 .. Slots),
         NEW nowSaved \in [1 .. Slots -> Texts], Whole(w, own, nowSaved), ResetDuring(w, own, nowSaved)
  PROVE  IInv'
<1>1. FilesOK /\ ~misread' /\ ~wild'
  BY DEF IInv, FilesOK
<1>2. QED
  BY <1>1, AfterReset

\* A call that writes nothing.
LEMMA QuietReset ==
  ASSUME IInv, misread' = misread, wild' = wild, ResetDuring(<<>>, {}, saved)
  PROVE  IInv'
<1>1. FilesOK /\ saved \in [1 .. Slots -> Texts] /\ {} \in SUBSET (1 .. Slots)
  BY DEF IInv, FilesOK, Types
<1>2. Whole(<<>>, {}, saved)
  BY <1>1, WholeFlush
<1>3. QED
  BY <1>1, <1>2, CallOrReset

\* Only riders move.
LEMMA RidersOnly ==
  ASSUME IInv, Returned(<<>>, saved), fat' = fat, fatDirty' = fatDirty, file' = file, text' = text,
         misread' = misread, wild' = wild,
         rider' \in [DOMAIN rider' -> RiderRecs], RidersInStep'
  PROVE  IInv'
<1>1. FilesOK /\ ~misread' /\ ~wild'
  BY DEF IInv, FilesOK
<1>2. disk' = disk /\ saved' = saved /\ torn' = torn
  BY <1>1, NothingWritten
<1>3. Types'
  BY <1>1, <1>2 DEF FilesOK, Types
<1>4. Idle' = Idle
  BY <1>2 DEF Idle, InUse
<1>5. OpenFiles'
  BY <1>1, <1>2 DEF FilesOK, OpenFiles, Linked
<1>6. IdleEntries'
  BY <1>1, <1>2, <1>4 DEF FilesOK, IdleEntries
<1>7. NoSharing'
  BY <1>1, <1>2, <1>4 DEF FilesOK, NoSharing
<1>8. QED
  BY <1>1, <1>3, <1>5, <1>6, <1>7 DEF IInv

\* Set keeps the invariant.
LEMMA SetStep ==
  ASSUME IInv, NEW r \in Riders, NEW h \in Handles, NEW pos \in 0 .. MaxLen, Set(r, h, pos)
  PROVE  IInv'
<1> DEFINE f == file[h]
           start == [file |-> h, pos |-> pos, cluster |-> f.startCluster, clusterIdx |-> 0, secOfs |-> 0]
           at == SyncRider(fat, f, start)
<1>1. h \in DOMAIN file /\ pos <= f.len
  BY DEF Set
<1>2. misread' = misread /\ wild' = wild
  BY DEF Set, Writes
<1>3. \/ /\ Returned(<<>>, saved)
         /\ Memory(fat, fatDirty, file, With(rider, r, at), text)
         /\ stale' = stale \ {r}
      \/ ResetDuring(<<>>, {}, saved)
  BY DEF Set, Writes, Returned, ResetDuring
<1>4. /\ FilesOK /\ fat \in FATs /\ f \in FileRecs /\ f.startCluster \in ClusterRefs
      /\ rider \in [DOMAIN rider -> RiderRecs]
  BY <1>1, TypeFacts, RecordFields DEF IInv, FilesOK, Types
<1>5. /\ at \in RiderRecs /\ at.file = h /\ at.pos = pos /\ at.clusterIdx = pos \div ClusterBytes
      /\ at.cluster = FollowChain(fat, f.startCluster, pos \div ClusterBytes)
  <2>1. pos \in Nat /\ 0 \in Nat /\ 0 \in Secs
    BY Constants DEF Secs
  <2>2. start \in RiderRecs
    BY <1>4, <2>1 DEF RiderRecs
  <2>3. start.cluster = FollowChain(fat, f.startCluster, start.clusterIdx)
    BY <1>4, ChainStep
  <2>4. start.file = h /\ start.pos = pos
    OBVIOUS
  <2> HIDE DEF start, f
  <2>5. QED
    BY <1>4, <2>2, <2>3, <2>4, SyncedRider
<1> HIDE DEF at
<1>6. ASSUME Returned(<<>>, saved), Memory(fat, fatDirty, file, With(rider, r, at), text), stale' = stale \ {r}
      PROVE  IInv'
  <2>1. fat' = fat /\ fatDirty' = fatDirty /\ file' = file /\ text' = text /\ rider' = With(rider, r, at)
    BY <1>6 DEF Memory
  <2>2. /\ rider' \in [DOMAIN rider' -> RiderRecs] /\ DOMAIN rider' = DOMAIN rider \cup {r}
        /\ \A q \in DOMAIN rider \cup {r} : rider'[q] = IF q = r THEN at ELSE rider[q]
    BY <1>4, <1>5, <2>1 DEF With
  <2>3. RidersInStep'
    <3>1. ASSUME NEW q \in DOMAIN rider'
          PROVE  /\ rider'[q].file \in DOMAIN file
                 /\ rider'[q].pos <= file[rider'[q].file].len
                 /\ q \notin stale' =>
                      rider'[q].cluster = FollowChain(fat, file[rider'[q].file].startCluster, rider'[q].clusterIdx)
      <4>1. CASE q = r
        BY <1>1, <1>5, <2>2, <4>1
      <4>2. CASE q # r
        BY <1>6, <2>2, <4>2 DEF IInv, RidersInStep
      <4>3. QED
        BY <4>1, <4>2
    <3>2. QED
      BY <2>1, <3>1 DEF RidersInStep
  <2>4. QED
    BY <1>2, <1>6, <2>1, <2>2, <2>3, RidersOnly
<1>7. QED
  BY <1>2, <1>3, <1>6, QuietReset

\* All other files carry over when neither the FAT in memory nor a block
\* changes.
LEMMA SameFrame ==
  ASSUME NEW H, NEW E, fat' = fat, disk'.data = disk.data, disk'.fat = disk.fat \/ disk'.fat = fat
  PROVE  Framing(H, E)
BY DEF Framing, Agree, SameBlocks

\* Open files' entries stay out of torn.
LEMMA RegisteredSlots ==
  ASSUME FilesOK, NEW g \in DOMAIN file, file[g].registered
  PROVE  file[g].dirEntry \in 1 .. Slots /\ file[g].dirEntry \notin torn /\ disk.dir[file[g].dirEntry] # NoEntry
<1>1. file[g].dirEntry \in 0 .. Slots /\ file[g].dirEntry # 0
  BY RecordFields DEF FilesOK, OpenFiles
<1>2. file[g].dirEntry \in 1 .. Slots
  BY <1>1, Constants
<1>3. Linked(g)
  BY DEF FilesOK, OpenFiles
<1>4. QED
  BY <1>2, <1>3 DEF Linked

\* A file is opened: f, which holds t, nowhere yet or at an idle entry.
Opened(h, f, t) ==
  /\ h \in Handles /\ h \notin DOMAIN file /\ f \in FileRecs /\ t \in Texts
  /\ f.bufCluster = -1 /\ ~f.bufDirty /\ ~f.modified
  /\ f.len = Len(t) /\ Good(fat, disk.data, f.startCluster, t)
  /\ f.registered <=> f.dirEntry # 0
  /\ \/ f.dirEntry = 0 /\ f.startCluster = 0
     \/ /\ f.dirEntry \in Idle /\ t = saved[f.dirEntry]
        /\ f.startCluster = disk.dir[f.dirEntry].cluster /\ f.len = disk.dir[f.dirEntry].len
  /\ Memory(fat, fatDirty, With(file, h, f), rider, With(text, h, t)) /\ stale' = stale

\* A file that is opened, empty or at an idle entry, keeps the invariant.
LEMMA OpenedStep ==
  ASSUME IInv, Returned(<<>>, saved), misread' = misread, wild' = wild, NEW h, NEW f, NEW t, Opened(h, f, t)
  PROVE  IInv'
<1> DEFINE H == {h}
           E == {}
<1>1. FilesOK /\ ~misread' /\ ~wild' /\ fat \in FATs
  BY TypeFacts DEF IInv, FilesOK
<1>2. disk' = disk /\ saved' = saved /\ torn' = torn
  BY <1>1, NothingWritten
<1>3. /\ h \in Handles /\ h \notin DOMAIN file /\ f \in FileRecs /\ t \in Texts
      /\ f.bufCluster = -1 /\ ~f.bufDirty /\ ~f.modified
      /\ f.len = Len(t) /\ Good(fat, disk.data, f.startCluster, t)
      /\ f.registered <=> f.dirEntry # 0
  BY DEF Opened
<1>4. \/ f.dirEntry = 0 /\ f.startCluster = 0
      \/ /\ f.dirEntry \in Idle /\ t = saved[f.dirEntry]
         /\ f.startCluster = disk.dir[f.dirEntry].cluster /\ f.len = disk.dir[f.dirEntry].len
  BY DEF Opened
<1>5. /\ fat' = fat /\ fatDirty' = fatDirty /\ rider' = rider /\ stale' = stale
      /\ file' = With(file, h, f) /\ text' = With(text, h, t)
  BY DEF Opened, Memory
<1>6. /\ DOMAIN file' = DOMAIN file \cup {h} /\ DOMAIN text' = DOMAIN file \cup {h}
      /\ file' \in [DOMAIN file' -> FileRecs] /\ text' \in [DOMAIN file' -> Texts]
      /\ file'[h] = f /\ text'[h] = t
      /\ \A g \in DOMAIN file : file'[g] = file[g] /\ text'[g] = text[g]
  BY <1>1, <1>3, <1>5 DEF With, FilesOK, Types
<1>7. Types'
  BY <1>1, <1>2, <1>3, <1>5, <1>6 DEF FilesOK, Types
<1>8. Idle' = Idle \ {f.dirEntry}
  <2>1. \A s : InUse(s)' <=> InUse(s) \/ s = f.dirEntry
    BY <1>3, <1>6 DEF InUse
  <2>2. QED
    BY <1>2, <2>1 DEF Idle
<1>9. Carried(H, E)
  <2>1. ASSUME NEW g \in DOMAIN file' \ H
        PROVE  /\ g \in DOMAIN file /\ file'[g] = file[g] /\ text'[g] = text[g]
               /\ file[g].registered => file[g].dirEntry \notin torn'
    BY <1>1, <1>2, <1>6, RegisteredSlots
  <2>2. QED
    BY <1>2, <1>8, <2>1 DEF Carried
<1>10. Framing(H, E)
  BY <1>2, <1>5, SameFrame
<1>11. FileOK(fat', disk'.data, file'[h], text'[h])
  <2>1. BufferOK(fat, disk.data, f)
    BY <1>3 DEF BufferOK
  <2>2. Seen(disk.data, f) = disk.data
    BY <1>3, FileFields DEF Seen
  <2>3. QED
    BY <1>2, <1>3, <1>5, <1>6, <2>1, <2>2 DEF FileOK
<1>12. Linked(h)'
  <2>1. CASE f.dirEntry = 0
    BY <1>3, <1>6, <2>1 DEF Linked
  <2>2. CASE f.dirEntry \in Idle /\ t = saved[f.dirEntry]
             /\ f.startCluster = disk.dir[f.dirEntry].cluster /\ f.len = disk.dir[f.dirEntry].len
    <3>1. f.dirEntry \notin torn /\ disk.dir[f.dirEntry] # NoEntry
      BY <1>1, <2>2, IdleIsKept
    <3>2. Agree(fat, disk.fat, f.startCluster)
      BY <1>1, <2>2 DEF FilesOK, IdleEntries
    <3>3. Len(saved[f.dirEntry]) <= Len(t)
      <4>1. Len(t) \in Nat
        BY <1>3, LenProperties DEF Texts
      <4>2. QED
        BY <2>2, <4>1
    <3>4. QED
      BY <1>2, <1>3, <1>5, <1>6, <2>2, <3>1, <3>2, <3>3 DEF Linked
  <2>3. QED
    BY <1>4, <2>1, <2>2
<1>13. ApartFromOthers(file'[h].startCluster, H, E)
  <2>1. Others(H, E) \subseteq {file[g].startCluster : g \in DOMAIN file} \cup {disk.dir[s].cluster : s \in Idle \ {f.dirEntry}}
    BY <1>2, <1>6, <1>8 DEF Others
  <2>2. ASSUME NEW c \in Others(H, E) PROVE Reach(fat, f.startCluster) \cap Reach(fat, c) = {}
    <3>1. CASE f.startCluster = 0
      <4>1. Reach(fat, f.startCluster) = {}
        BY <1>1, <3>1, NoChain
      <4>2. QED
        BY <4>1
    <3>2. CASE f.dirEntry \in Idle /\ f.startCluster = disk.dir[f.dirEntry].cluster
      <4>1. CASE \E g \in DOMAIN file : c = file[g].startCluster
        BY <1>1, <3>2, <4>1 DEF FilesOK, NoSharing, Apart
      <4>2. CASE \E s \in Idle \ {f.dirEntry} : c = disk.dir[s].cluster
        BY <1>1, <3>2, <4>2 DEF FilesOK, NoSharing, Apart
      <4>3. QED
        BY <2>1, <2>2, <4>1, <4>2
    <3>3. QED
      BY <1>4, <3>1, <3>2
  <2>3. QED
    BY <1>5, <1>6, <2>2 DEF ApartFromOthers
<1>14. \A k \in DOMAIN file : f.dirEntry = 0 \/ f.dirEntry # file[k].dirEntry
  BY <1>1, <1>4, IdleIsKept
<1>15. Changed(H, E)
  BY <1>3, <1>6, <1>11, <1>12, <1>13, <1>14 DEF Changed
<1>16. FilesOK'
  BY <1>1, <1>7, <1>9, <1>10, <1>15, FilesStep
<1>17. RidersInStep'
  BY <1>5, <1>6 DEF IInv, RidersInStep
<1>18. QED
  BY <1>1, <1>16, <1>17 DEF IInv, FilesOK

-----------------------------------------------------------------------------
(* The first of the entries. *)

\* The first of some numbers is one of them.
LEMMA Least == ASSUME NEW S \in SUBSET Nat, S # {} PROVE Min(S) \in S
BY LeastElement DEF Min

\* A name that an entry has, and an entry that nobody has.
LEMMA FoundSlot ==
  ASSUME Types, NEW name \in Names, Find(disk, name) # {}, NEW slot, slot = Min(Find(disk, name)),
         slot \notin torn, ~InUse(slot)
  PROVE  slot \in Idle
<1>1. Find(disk, name) \in SUBSET Nat
  BY Constants DEF Find
<1>2. slot \in Find(disk, name)
  BY <1>1, Least
<1>3. slot \in 1 .. Slots /\ disk.dir[slot].name = name
  BY <1>2 DEF Find
<1>4. disk.dir[slot] # NoEntry
  BY <1>3, TypeFacts, EmptyEntry
<1>5. QED
  BY <1>3, <1>4 DEF Idle

\* The first free entry is an entry and is free.
LEMMA FreeSlot ==
  ASSUME FreeEntries(disk) # {}, NEW slot, slot = Min(FreeEntries(disk))
  PROVE  slot \in 1 .. Slots /\ disk.dir[slot] = NoEntry
<1>1. FreeEntries(disk) \in SUBSET Nat
  BY Constants DEF FreeEntries
<1>2. slot \in FreeEntries(disk)
  BY <1>1, Least
<1>3. QED
  BY <1>2 DEF FreeEntries

\* What Old and New make is a File object with an empty buffer.
LEMMA NewFileType ==
  ASSUME NEW name \in Names, NEW slot \in 0 .. Slots, NEW start \in Clusters \cup {0}, NEW len \in Nat,
         NEW f, f = NewFile(name, slot, start, len)
  PROVE  /\ f \in FileRecs /\ f.bufCluster = -1 /\ ~f.bufDirty /\ ~f.modified /\ f.len = len
         /\ f.startCluster = start /\ f.dirEntry = slot
         /\ f.registered <=> f.dirEntry # 0
<1>1. ZeroSector \in Sectors
  BY DEF ZeroSector, Sectors
<1>2. 0 \in Secs
  BY Constants DEF Secs
<1>3. (slot # 0) \in BOOLEAN
  OBVIOUS
<1> HIDE DEF ZeroSector
<1>4. /\ f = [name |-> name, len |-> len, startCluster |-> start, dirEntry |-> slot,
              registered |-> slot # 0, modified |-> FALSE,
              buf |-> ZeroSector, bufCluster |-> -1, bufSecOfs |-> 0, bufDirty |-> FALSE]
  BY DEF NewFile
<1>5. f \in FileRecs
  BY <1>1, <1>2, <1>3, <1>4 DEF FileRecs
<1>6. f.bufCluster = -1 /\ ~f.bufDirty /\ ~f.modified /\ f.len = len /\ f.startCluster = start /\ f.dirEntry = slot
  BY <1>4
<1>7. f.registered <=> slot # 0
  <2> DEFINE b == slot # 0
  <2>1. f.registered = b
    <3> HIDE DEF b
    <3>1. f = [name |-> name, len |-> len, startCluster |-> start, dirEntry |-> slot,
               registered |-> b, modified |-> FALSE,
               buf |-> ZeroSector, bufCluster |-> -1, bufSecOfs |-> 0, bufDirty |-> FALSE]
      BY <1>4 DEF b
    <3>2. QED
      BY <3>1
  <2>2. QED
    BY <2>1, Zenon
<1>8. QED
  BY <1>5, <1>6, <1>7

\* Old keeps the invariant.
LEMMA OldStep ==
  ASSUME IInv, NEW h \in Handles, NEW name \in Names, Old(h, name)
  PROVE  IInv'
<1> DEFINE slot == Min(Find(disk, name))
           e == disk.dir[slot]
           f == NewFile(name, slot, e.cluster, e.len)
<1>1. misread' = misread /\ wild' = wild /\ h \notin DOMAIN file /\ Find(disk, name) # {} /\ slot \notin torn /\ ~InUse(slot)
  BY DEF Old, Writes
<1>2. \/ /\ Returned(<<>>, saved)
         /\ Memory(fat, fatDirty, With(file, h, f), rider, With(text, h, saved[slot])) /\ stale' = stale
      \/ ResetDuring(<<>>, {}, saved)
  BY DEF Old, Writes, Returned, ResetDuring
<1>3. FilesOK /\ Types
  BY DEF IInv, FilesOK
<1>4. slot \in Idle
  BY <1>1, <1>3, FoundSlot
<1> HIDE DEF slot
<1>5. /\ slot \in 1 .. Slots /\ e \in Entries /\ saved[slot] \in Texts
      /\ e.len = Len(saved[slot]) /\ Good(fat, disk.data, e.cluster, saved[slot])
  BY <1>3, <1>4, IdleIsKept, KeptEntries
<1>6. e.cluster \in Clusters \cup {0} /\ e.len \in Nat /\ slot \in 0 .. Slots
  BY <1>5, EntryFields
<1> HIDE DEF e
<1>7. /\ f \in FileRecs /\ f.bufCluster = -1 /\ ~f.bufDirty /\ ~f.modified /\ f.len = e.len
      /\ f.startCluster = e.cluster /\ f.dirEntry = slot
  BY <1>6, NewFileType
<1>8. f.registered <=> f.dirEntry # 0
  BY <1>6, NewFileType
<1> HIDE DEF f
<1>9. ASSUME Returned(<<>>, saved), Memory(fat, fatDirty, With(file, h, f), rider, With(text, h, saved[slot])), stale' = stale
      PROVE  IInv'
  <2>1. Opened(h, f, saved[slot])
    BY <1>1, <1>4, <1>5, <1>7, <1>8, <1>9 DEF Opened, e
  <2>2. QED
    BY <1>1, <1>9, <2>1, OpenedStep
<1>10. QED
  BY <1>1, <1>2, <1>9, QuietReset

\* New keeps the invariant.
LEMMA NewStep ==
  ASSUME IInv, NEW h \in Handles, NEW name \in Names, New(h, name)
  PROVE  IInv'
<1> DEFINE f == NewFile(name, 0, 0, 0)
           t == <<>>
<1>1. misread' = misread /\ wild' = wild /\ h \notin DOMAIN file
  BY DEF New, Writes
<1>2. \/ /\ Returned(<<>>, saved)
         /\ Memory(fat, fatDirty, With(file, h, f), rider, With(text, h, t)) /\ stale' = stale
      \/ ResetDuring(<<>>, {}, saved)
  BY DEF New, Writes, Returned, ResetDuring
<1>3. FilesOK /\ fat \in FATs
  BY TypeFacts DEF IInv, FilesOK
<1>4. 0 \in 0 .. Slots /\ 0 \in Clusters \cup {0} /\ 0 \in Nat
  BY Constants
<1>5. /\ f \in FileRecs /\ f.bufCluster = -1 /\ ~f.bufDirty /\ ~f.modified /\ f.len = 0
      /\ f.startCluster = 0 /\ f.dirEntry = 0
  BY <1>4, NewFileType
<1>6. f.registered <=> f.dirEntry # 0
  BY <1>4, NewFileType
<1>7. t \in Texts /\ Len(t) = 0
  BY EmptySeq DEF Texts
<1>8. Good(fat, disk.data, 0, t)
  <2>1. GoodIn(fat, disk.data, 0, <<>>, 0)
    BY <1>3, GoodNone
  <2>2. QED
    BY <2>1 DEF Good
<1> HIDE DEF f, t
<1>9. ASSUME Returned(<<>>, saved), Memory(fat, fatDirty, With(file, h, f), rider, With(text, h, t)), stale' = stale
      PROVE  IInv'
  <2>1. Opened(h, f, t)
    BY <1>1, <1>5, <1>6, <1>7, <1>8, <1>9 DEF Opened
  <2>2. QED
    BY <1>1, <1>9, <2>1, OpenedStep
<1>10. QED
  BY <1>1, <1>2, <1>9, QuietReset

-----------------------------------------------------------------------------
(* Register and Close. *)

\* The files that carry over share nothing with the one that does not.
LEMMA OthersApart ==
  ASSUME FilesOK, NEW h \in DOMAIN file, NEW E, Carried({h}, E), NEW c \in Others({h}, E)
  PROVE  c \in ClusterRefs /\ Apart(fat, file[h].startCluster, c)
<1>1. CASE \E g \in DOMAIN file' \ {h} : c = file'[g].startCluster
  <2>1. PICK g \in DOMAIN file' \ {h} : c = file'[g].startCluster
    BY <1>1
  <2>2. g \in DOMAIN file /\ file'[g] = file[g]
    BY <2>1 DEF Carried
  <2>3. c = file[g].startCluster /\ g # h
    BY <2>1, <2>2
  <2>4. QED
    BY <2>2, <2>3, RecordFields DEF FilesOK, NoSharing
<1>2. CASE \E s \in Idle' \ E : c = disk'.dir[s].cluster
  <2>1. PICK s \in Idle' \ E : c = disk'.dir[s].cluster
    BY <1>2
  <2>2. s \in Idle /\ disk'.dir[s] = disk.dir[s]
    BY <2>1 DEF Carried
  <2>3. c = disk.dir[s].cluster
    BY <2>1, <2>2
  <2>4. QED
    BY <2>2, <2>3, IdleIsKept DEF FilesOK, NoSharing
<1>3. QED
  BY <1>1, <1>2 DEF Others

\* What FlushFile leaves of a file.
CleanCopy(f, g) ==
  /\ g \in FileRecs /\ g.startCluster = f.startCluster /\ g.len = f.len
  /\ g.buf = f.buf /\ g.bufCluster = f.bufCluster /\ g.bufSecOfs = f.bufSecOfs /\ ~g.bufDirty

\* A file whose buffer has been written out holds what it held.
LEMMA CleanFile ==
  ASSUME FilesOK, NEW h \in DOMAIN file, NEW g, CleanCopy(file[h], g),
         NEW data, data = Seen(disk.data, file[h])
  PROVE  FileOK(fat, data, g, text[h]) /\ Good(fat, data, file[h].startCluster, text[h])
<1> DEFINE f == file[h]
<1>1. f \in FileRecs /\ disk.data \in Blocks /\ FileOK(fat, disk.data, f, text[h])
  BY TypeFacts DEF FilesOK, OpenFiles
<1> HIDE DEF f
<1>2. data = Seen(disk.data, f) /\ CleanCopy(f, g)
  BY DEF f
<1>3. f.bufCluster \in Clusters => data[<<f.bufCluster, f.bufSecOfs>>] = f.buf
  BY <1>1, <1>2, FileFields DEF Seen, Blocks
<1>4. Seen(data, g) = data
  <2>1. CASE f.bufCluster \in Clusters
    <3>1. data \in Blocks
      BY <1>1, <1>2, SeenType
    <3>2. f.bufSecOfs \in Secs
      BY <1>1, FileFields
    <3>3. [data EXCEPT ![<<f.bufCluster, f.bufSecOfs>>] = f.buf] = data
      BY <1>3, <2>1, <3>1, <3>2 DEF Blocks
    <3>4. QED
      BY <1>2, <2>1, <3>3 DEF Seen, CleanCopy
  <2>2. CASE f.bufCluster \notin Clusters
    BY <1>2, <2>2 DEF Seen, CleanCopy
  <2>3. QED
    BY <2>1, <2>2
<1>5. BufferOK(fat, data, g)
  BY <1>1, <1>2, <1>3, FileFields DEF FileOK, BufferOK, CleanCopy
<1>6. QED
  BY <1>1, <1>2, <1>4, <1>5 DEF FileOK, CleanCopy, f

\* Flushed is such a file.
LEMMA FlushedIsClean ==
  ASSUME FilesOK, NEW h \in DOMAIN file
  PROVE  /\ CleanCopy(file[h], Flushed(file[h]))
         /\ Flushed(file[h]).dirEntry = file[h].dirEntry
         /\ Flushed(file[h]).registered <=> file[h].registered
         /\ Flushed(file[h]).modified <=> file[h].modified
<1> DEFINE f == file[h]
<1>1. f \in FileRecs /\ BufferOK(fat, disk.data, f)
  BY TypeFacts DEF FilesOK, OpenFiles, FileOK
<1> HIDE DEF f
<1>2. ~(f.bufDirty /\ f.bufCluster < 2)
  <2>1. f.bufDirty => f.bufCluster \in Clusters
    BY <1>1, FileFields DEF BufferOK
  <2>2. \A c \in Clusters : ~(c < 2)
    BY DEF Clusters
  <2>3. QED
    BY <2>1, <2>2
<1>3. Flushed(f) = [f EXCEPT !.bufDirty = FALSE]
  BY <1>1, <1>2 DEF Flushed, FileRecs
<1>4. QED
  BY <1>1, <1>3 DEF CleanCopy, FileRecs, f

\* An open file is flushed, its clusters and everybody's stay where they are.
LEMMA FlushFrame ==
  ASSUME FilesOK, NEW h \in DOMAIN file, NEW E, Carried({h}, E), fat' = fat,
         disk'.data = Seen(disk.data, file[h]), disk'.fat = disk.fat \/ disk'.fat = fat
  PROVE  Framing({h}, E) /\ ApartFromOthers(file[h].startCluster, {h}, E)
<1>1. ASSUME NEW c \in Others({h}, E)
      PROVE  /\ SameBlocks(disk.data, disk'.data, Reach(fat, c))
             /\ Apart(fat, file[h].startCluster, c)
  <2>1. c \in ClusterRefs /\ Apart(fat, file[h].startCluster, c)
    BY OthersApart
  <2>2. FlushedTo(file[h]).data = Seen(disk.data, file[h])
    <3>1. file[h] \in FileRecs /\ BufferOK(fat, disk.data, file[h]) /\ disk \in Disks
      BY TypeFacts DEF FilesOK, OpenFiles, FileOK
    <3>2. QED
      BY <3>1, FlushedBlocks
  <2>3. SameBlocks(disk.data, FlushedTo(file[h]).data, Reach(fat, c))
    BY <2>1, FlushApart
  <2>4. QED
    BY <2>1, <2>2, <2>3
<1>2. ApartFromOthers(file[h].startCluster, {h}, E)
  BY <1>1 DEF ApartFromOthers, Apart
<1>3. \A c : Agree(fat, fat, c)
  BY DEF Agree
<1>4. Framing({h}, E)
  BY <1>1, <1>3 DEF Framing
<1>5. QED
  BY <1>2, <1>4

\* Register found a free slot.
Registered(h, slot) ==
  LET f == file[h]
  IN  /\ disk' \in Disks /\ disk'.data = Seen(disk.data, f) /\ disk'.fat = fat
      /\ \A s \in 1 .. Slots : disk'.dir[s] = IF s = slot THEN EntryOf(f) ELSE disk.dir[s]
      /\ saved' = [saved EXCEPT ![slot] = text[h]]
      /\ torn' = {s \in torn : disk'.dir[s] # NoEntry}
      /\ Memory(fat, FALSE,
                [file EXCEPT ![h] = [Flushed(f) EXCEPT !.dirEntry = slot,
                                       !.registered = TRUE, !.modified = FALSE]],
                rider, text)
      /\ stale' = stale

\* A file that gets an entry keeps the invariant.
LEMMA RegisteredStep ==
  ASSUME IInv, misread' = misread, wild' = wild, NEW h \in DOMAIN file, ~file[h].registered,
         NEW slot \in 1 .. Slots, disk.dir[slot] = NoEntry, Registered(h, slot)
  PROVE  IInv'
<1> DEFINE f == file[h]
           g == [Flushed(f) EXCEPT !.dirEntry = slot, !.registered = TRUE, !.modified = FALSE]
           H == {h}
           E == {}
<1>1. FilesOK /\ ~misread' /\ ~wild' /\ fat \in FATs /\ f \in FileRecs /\ text[h] \in Texts /\ FileOK(fat, disk.data, f, text[h])
  BY TypeFacts DEF IInv, FilesOK, OpenFiles
<1>2. /\ CleanCopy(f, g) /\ g.dirEntry = slot /\ g.registered = TRUE /\ g.modified = FALSE
  <2> DEFINE m == Flushed(f)
  <2>1. CleanCopy(f, m)
    BY <1>1, FlushedIsClean
  <2>2. slot \in 0 .. Slots
    BY Constants
  <2> HIDE DEF m
  <2>3. g = [m EXCEPT !.dirEntry = slot, !.registered = TRUE, !.modified = FALSE]
    BY DEF m
  <2> HIDE DEF g, f
  <2>4. QED
    BY <2>1, <2>2, <2>3 DEF CleanCopy, FileRecs
<1> HIDE DEF g
<1>3. /\ disk' \in Disks /\ disk'.data = Seen(disk.data, f) /\ disk'.fat = fat
      /\ \A s \in 1 .. Slots : disk'.dir[s] = IF s = slot THEN EntryOf(f) ELSE disk.dir[s]
      /\ saved' = [saved EXCEPT ![slot] = text[h]]
      /\ torn' = {s \in torn : disk'.dir[s] # NoEntry}
  BY DEF Registered
<1>4. /\ fat' = fat /\ fatDirty' = FALSE /\ file' = [file EXCEPT ![h] = g] /\ rider' = rider
      /\ text' = text /\ stale' = stale
  BY DEF Registered, Memory, g
<1>5. /\ DOMAIN file' = DOMAIN file /\ file'[h] = g
      /\ \A k \in DOMAIN file \ {h} : file'[k] = file[k]
      /\ file' \in [DOMAIN file' -> FileRecs]
  BY <1>1, <1>2, <1>4 DEF FilesOK, Types, CleanCopy
<1>6. /\ saved' \in [1 .. Slots -> Texts] /\ saved'[slot] = text[h]
      /\ \A s \in 1 .. Slots : s # slot => saved'[s] = saved[s]
  BY <1>1, <1>3 DEF FilesOK, Types
<1>7. torn' \subseteq {s \in 1 .. Slots : disk'.dir[s] # NoEntry} /\ torn' \subseteq torn /\ slot \notin torn
  BY <1>1, <1>3 DEF FilesOK, Types
<1>8. Types'
  BY <1>1, <1>3, <1>4, <1>5, <1>6, <1>7 DEF FilesOK, Types
<1>9. file[h].dirEntry = 0
  BY <1>1 DEF FilesOK, OpenFiles
<1>10. ASSUME NEW s \in Idle'
       PROVE  s \in Idle /\ s # slot /\ disk'.dir[s] = disk.dir[s]
  <2>1. s \in 1 .. Slots /\ s \notin torn' /\ disk'.dir[s] # NoEntry /\ \A k \in DOMAIN file : file'[k].dirEntry # s
    BY <1>5 DEF Idle, InUse
  <2>2. s # slot
    BY <1>2, <1>5, <2>1
  <2>3. disk'.dir[s] = disk.dir[s] /\ s \notin torn
    BY <1>3, <2>1, <2>2
  <2>4. \A k \in DOMAIN file : file[k].dirEntry # s
    BY <1>5, <1>9, <2>1
  <2>5. QED
    BY <2>1, <2>2, <2>3, <2>4 DEF Idle, InUse
<1>11. ASSUME NEW k \in DOMAIN file, file[k].registered
       PROVE  /\ file[k].dirEntry \in 1 .. Slots /\ file[k].dirEntry # slot /\ file[k].dirEntry \notin torn'
  BY <1>1, <1>7, <1>11, RegisteredSlots
<1>12. Carried(H, E)
  <2>1. \A s \in Idle' : s \in 1 .. Slots
    BY DEF Idle
  <2>2. QED
    BY <1>3, <1>4, <1>5, <1>6, <1>10, <1>11, <2>1 DEF Carried
<1>13. Framing(H, E) /\ ApartFromOthers(f.startCluster, H, E)
  BY <1>1, <1>3, <1>4, <1>12, FlushFrame
<1>14. FileOK(fat', disk'.data, file'[h], text'[h])
  BY <1>1, <1>2, <1>3, <1>4, <1>5, CleanFile
<1>15. Linked(h)'
  <2>1. EntryOf(f) # NoEntry /\ EntryOf(f).cluster = f.startCluster /\ EntryOf(f).len = f.len
    <3>1. f.name \in Names
      BY <1>1, FileFields
    <3>2. EntryOf(f).name = f.name /\ EntryOf(f).cluster = f.startCluster /\ EntryOf(f).len = f.len
      BY DEF EntryOf
    <3>3. NoEntry.name \notin Names
      BY EmptyEntry, FilesConstants
    <3>4. QED
      BY <3>1, <3>2, <3>3
  <2>2. Agree(fat', disk'.fat, f.startCluster)
    BY <1>3, <1>4 DEF Agree
  <2>3. Len(text[h]) \in Nat
    BY <1>1, LenProperties DEF Texts
  <2>4. QED
    BY <1>2, <1>3, <1>4, <1>5, <1>6, <1>7, <2>1, <2>2, <2>3 DEF Linked, CleanCopy
<1>16. \A k \in DOMAIN file' \ H : file'[h].dirEntry # file[k].dirEntry
  <2>1. ASSUME NEW k \in DOMAIN file PROVE file[k].dirEntry # slot
    <3>1. CASE file[k].registered
      BY <1>11, <3>1
    <3>2. CASE ~file[k].registered
      BY <1>1, <3>2 DEF FilesOK, OpenFiles
    <3>3. QED
      BY <3>1, <3>2
  <2>2. QED
    BY <1>2, <1>5, <2>1
<1>17. Changed(H, E)
  <2>1. file'[h].startCluster = f.startCluster /\ (file'[h].registered <=> file'[h].dirEntry # 0)
    BY <1>2, <1>5 DEF CleanCopy
  <2>2. ApartFromOthers(file'[h].startCluster, H, E)
    BY <1>13, <2>1
  <2>3. QED
    BY <1>14, <1>15, <1>16, <2>1, <2>2 DEF Changed
<1>18. FilesOK'
  BY <1>1, <1>8, <1>12, <1>13, <1>17, FilesStep
<1>19. RidersInStep'
  <2>1. g.len = f.len /\ g.startCluster = f.startCluster
    BY <1>2 DEF CleanCopy
  <2>2. \A k \in DOMAIN file : file'[k].len = file[k].len /\ file'[k].startCluster = file[k].startCluster
    BY <1>5, <2>1
  <2>3. QED
    BY <1>4, <1>5, <2>2 DEF IInv, RidersInStep
<1>20. QED
  BY <1>1, <1>18, <1>19 DEF IInv, FilesOK

\* Only the buffer of a file changes, and the block that it is flushed to.
SameFile(f, g) ==
  /\ g \in FileRecs /\ g.startCluster = f.startCluster /\ g.len = f.len /\ g.dirEntry = f.dirEntry
  /\ g.registered <=> f.registered
  /\ g.modified <=> f.modified

Rebuffered(h, g) ==
  /\ disk' \in Disks /\ disk'.dir = disk.dir /\ disk'.fat = disk.fat
  /\ disk'.data = Seen(disk.data, file[h]) \/ disk'.data = disk.data
  /\ saved' = saved /\ torn' = torn
  /\ fat' = fat /\ fatDirty' = fatDirty /\ text' = text /\ file' = [file EXCEPT ![h] = g]
  /\ SameFile(file[h], g)
  /\ FileOK(fat, disk'.data, g, text[h])

\* The files stay good and apart when a buffer changes.
LEMMA RebufferedStep ==
  ASSUME IInv, NEW h \in DOMAIN file, NEW g, Rebuffered(h, g), rider' \in [DOMAIN rider' -> RiderRecs]
  PROVE  FilesOK'
<1> DEFINE f == file[h]
           H == {h}
           E == {}
<1>1. FilesOK /\ fat \in FATs /\ f \in FileRecs /\ text[h] \in Texts
  BY TypeFacts DEF IInv, FilesOK, OpenFiles
<1>2. /\ disk' \in Disks /\ disk'.dir = disk.dir /\ disk'.fat = disk.fat
      /\ disk'.data = Seen(disk.data, f) \/ disk'.data = disk.data
      /\ saved' = saved /\ torn' = torn
      /\ fat' = fat /\ fatDirty' = fatDirty /\ text' = text /\ file' = [file EXCEPT ![h] = g]
      /\ SameFile(f, g) /\ FileOK(fat, disk'.data, g, text[h])
  BY DEF Rebuffered
<1>3. /\ DOMAIN file' = DOMAIN file /\ file'[h] = g
      /\ \A k \in DOMAIN file \ {h} : file'[k] = file[k]
      /\ file' \in [DOMAIN file' -> FileRecs]
  BY <1>1, <1>2 DEF FilesOK, Types, SameFile
<1>4. Types'
  BY <1>1, <1>2, <1>3 DEF FilesOK, Types
<1>5. \A k \in DOMAIN file : file'[k].dirEntry = file[k].dirEntry
  BY <1>2, <1>3 DEF SameFile
<1>6. Idle' = Idle
  BY <1>2, <1>3, <1>5 DEF Idle, InUse
<1>7. Carried(H, E)
  <2>1. ASSUME NEW k \in DOMAIN file, file[k].registered PROVE file[k].dirEntry \notin torn'
    BY <1>1, <1>2, <2>1, RegisteredSlots
  <2>2. QED
    BY <1>2, <1>3, <1>6, <2>1 DEF Carried
<1>8. Framing(H, E) /\ ApartFromOthers(f.startCluster, H, E)
  <2>1. CASE disk'.data = Seen(disk.data, f)
    BY <1>1, <1>2, <1>7, <2>1, FlushFrame
  <2>2. CASE disk'.data = disk.data
    <3>1. Framing(H, E)
      BY <1>2, <2>2, SameFrame
    <3>2. ApartFromOthers(f.startCluster, H, E)
      BY <1>1, <1>2, <1>7, OthersApart DEF ApartFromOthers, Apart
    <3>3. QED
      BY <3>1, <3>2
  <2>3. QED
    BY <1>2, <2>1, <2>2
<1>9. Linked(h)'
  <2>1. Linked(h)
    BY <1>1 DEF FilesOK, OpenFiles
  <2>2. g.dirEntry = f.dirEntry /\ (g.registered <=> f.registered) /\ (g.modified <=> f.modified)
        /\ g.startCluster = f.startCluster /\ g.len = f.len
    BY <1>2 DEF SameFile
  <2>3. QED
    BY <1>2, <1>3, <2>1, <2>2 DEF Linked
<1>10. \A k \in DOMAIN file' \ H : file'[h].dirEntry = 0 \/ file'[h].dirEntry # file[k].dirEntry
  BY <1>1, <1>3, <1>5 DEF FilesOK, NoSharing, OpenFiles
<1>11. Changed(H, E)
  <2>1. file'[h].startCluster = f.startCluster /\ (file'[h].registered <=> file'[h].dirEntry # 0)
    BY <1>1, <1>2, <1>3 DEF SameFile, FilesOK, OpenFiles
  <2>2. ApartFromOthers(file'[h].startCluster, H, E)
    BY <1>8, <2>1
  <2>3. FileOK(fat', disk'.data, file'[h], text'[h])
    BY <1>2, <1>3
  <2>4. QED
    BY <1>9, <1>10, <2>1, <2>2, <2>3 DEF Changed
<1>12. QED
  BY <1>1, <1>4, <1>7, <1>8, <1>11, FilesStep

\* The riders of a file that is rebuffered stay where they are.
LEMMA RebufferedRiders ==
  ASSUME IInv, NEW h \in DOMAIN file, NEW g, Rebuffered(h, g), NEW q \in DOMAIN rider
  PROVE  /\ rider[q].file \in DOMAIN file'
         /\ rider[q].pos <= file'[rider[q].file].len
         /\ q \notin stale =>
              rider[q].cluster = FollowChain(fat', file'[rider[q].file].startCluster, rider[q].clusterIdx)
<1>1. fat' = fat /\ file' = [file EXCEPT ![h] = g] /\ g.len = file[h].len /\ g.startCluster = file[h].startCluster
  BY DEF Rebuffered, SameFile
<1>2. DOMAIN file' = DOMAIN file
  BY <1>1
<1>3. \A k \in DOMAIN file : file'[k].len = file[k].len /\ file'[k].startCluster = file[k].startCluster
  BY <1>1
<1>4. QED
  BY <1>1, <1>2, <1>3 DEF IInv, RidersInStep

\* Register keeps the invariant.
LEMMA RegisterStep ==
  ASSUME IInv, NEW h \in Handles, Register(h)
  PROVE  IInv'
<1> DEFINE f == file[h]
<1>1. misread' = misread /\ wild' = wild /\ h \in DOMAIN file /\ ~f.registered
  BY DEF Register, Writes
<1>2. /\ FilesOK /\ ~misread' /\ ~wild' /\ f \in FileRecs /\ text[h] \in Texts /\ disk \in Disks
      /\ saved \in [1 .. Slots -> Texts] /\ fatDirty \in BOOLEAN
      /\ f.dirEntry = 0 /\ BufferOK(fat, disk.data, f)
  BY <1>1, TypeFacts DEF IInv, FilesOK, Types, OpenFiles, FileOK
<1>3. CASE FreeEntries(disk) # {}
  <2> DEFINE slot == Min(FreeEntries(disk))
             t    == FlushFAT(fat, fatDirty)
             v    == FlushFile(f) \o <<DirWrite(slot, EntryOf(f))>> \o t
             w    == EntryWrites(FlushFile(f), slot, EntryOf(f), t)
             N    == IF fatDirty THEN fatSectors ELSE 0
             now  == Saving(slot, h)
             g    == [Flushed(f) EXCEPT !.dirEntry = slot, !.registered = TRUE, !.modified = FALSE]
  <2>1. slot \in 1 .. Slots /\ disk.dir[slot] = NoEntry
    BY <1>3, FreeSlot
  <2>2. v = w
    BY DEF EntryWrites
  <2>3. \/ /\ Returned(v, now)
           /\ Memory(fat, FALSE, [file EXCEPT ![h] = g], rider, text) /\ stale' = stale
        \/ ResetDuring(v, {slot}, now)
    BY <1>3 DEF Register, Writes, Returned, ResetDuring, Saving
  <2>4. FatTail(t, fat, N) /\ (N = 0 => disk.fat = fat)
    <3>1. CASE fatDirty
      BY <3>1, Constants DEF FlushFAT, FatTail, FatWrites
    <3>2. CASE ~fatDirty
      BY <1>2, <3>2 DEF FlushFAT, FatTail, FilesOK, Types
    <3>3. QED
      BY <3>1, <3>2
  <2> HIDE DEF slot, t, N, v, g
  <2>5. /\ Whole(w, {slot}, now)
        /\ After(w) \in Disks
        /\ After(w).data = Seen(disk.data, f) /\ After(w).fat = fat
        /\ After(w).dir[slot] = EntryOf(f)
        /\ \A s \in 1 .. Slots : s # slot => After(w).dir[s] = disk.dir[s]
    <3>1. f.dirEntry \in {0, slot}
      BY <1>2
    <3>2. EntryCall(w, h, slot, t, N)
      BY <1>1, <2>1, <2>4, <3>1 DEF EntryCall
    <3> HIDE DEF w
    <3>3. QED
      BY <1>2, <3>2, WholeEntry
  <2> HIDE DEF w
  <2>6. CASE ResetDuring(v, {slot}, now)
    <3>1. now \in [1 .. Slots -> Texts]
      BY <1>2 DEF Saving
    <3>2. {slot} \in SUBSET (1 .. Slots) /\ ResetDuring(w, {slot}, now)
      BY <2>1, <2>2, <2>6
    <3> HIDE DEF now
    <3>3. QED
      BY <1>1, <2>5, <3>1, <3>2, CallOrReset
  <2>7. CASE Returned(v, now) /\ Memory(fat, FALSE, [file EXCEPT ![h] = g], rider, text) /\ stale' = stale
    <3>1. disk' = After(w) /\ saved' = now /\ torn' = {s \in torn : disk'.dir[s] # NoEntry}
      BY <2>2, <2>7 DEF Returned
    <3>2. Registered(h, slot)
      BY <2>5, <2>7, <3>1 DEF Registered, g, Saving
    <3>3. QED
      BY <1>1, <2>1, <3>2, RegisteredStep
  <2>8. QED
    BY <2>3, <2>6, <2>7
<1>4. CASE FreeEntries(disk) = {}
  <2> DEFINE w == FlushFile(f)
             g == Flushed(f)
  <2>1. \/ /\ Returned(w, saved)
           /\ Memory(fat, fatDirty, [file EXCEPT ![h] = g], rider, text) /\ stale' = stale
        \/ ResetDuring(w, {}, saved)
    BY <1>4 DEF Register, Writes, Returned, ResetDuring
  <2>2. Whole(w, {}, saved)
    BY <1>1, <1>2, WholeFlush
  <2>3. After(w) = FlushedTo(f)
    BY <1>2, FlushOnly
  <2>4. FlushedTo(f) \in Disks /\ FlushedTo(f).fat = disk.fat /\ FlushedTo(f).dir = disk.dir
        /\ FlushedTo(f).data = Seen(disk.data, f)
    BY <1>2, FlushedBlocks
  <2>5. /\ CleanCopy(f, g) /\ g.dirEntry = f.dirEntry
        /\ g.registered <=> f.registered
        /\ g.modified <=> f.modified
    BY <1>1, <1>2, FlushedIsClean
  <2>6. FileOK(fat, Seen(disk.data, f), g, text[h])
    BY <1>1, <1>2, <2>5, CleanFile
  <2> HIDE DEF g, w
  <2>7. CASE ResetDuring(w, {}, saved)
    BY <1>1, <1>2, <2>2, <2>7, CallOrReset
  <2>8. CASE Returned(w, saved) /\ Memory(fat, fatDirty, [file EXCEPT ![h] = g], rider, text) /\ stale' = stale
    <3>1. disk' = FlushedTo(f) /\ saved' = saved /\ torn' = {s \in torn : disk'.dir[s] # NoEntry}
      BY <2>3, <2>8 DEF Returned
    <3>2. torn' = torn
      <4>1. \A s \in torn : disk.dir[s] # NoEntry
        BY <1>2 DEF FilesOK, Types
      <4>2. QED
        BY <2>4, <3>1, <4>1
    <3>3. SameFile(f, g)
      BY <2>5 DEF SameFile, CleanCopy
    <3>4. /\ fat' = fat /\ fatDirty' = fatDirty /\ text' = text /\ file' = [file EXCEPT ![h] = g]
          /\ rider' = rider /\ stale' = stale
      BY <2>8 DEF Memory
    <3>5. Rebuffered(h, g)
      BY <2>4, <2>6, <3>1, <3>2, <3>3, <3>4 DEF Rebuffered
    <3>6. rider' \in [DOMAIN rider' -> RiderRecs]
      BY <1>2, <3>4 DEF FilesOK, Types
    <3>7. FilesOK'
      BY <1>1, <3>5, <3>6, RebufferedStep
    <3>8. RidersInStep'
      BY <1>1, <3>4, <3>5, RebufferedRiders DEF RidersInStep
    <3>9. QED
      BY <1>2, <3>7, <3>8 DEF IInv, FilesOK
  <2>9. QED
    BY <2>1, <2>7, <2>8
<1>5. QED
  BY <1>3, <1>4

Closed(h) ==
  LET f == file[h]
  IN  /\ disk' \in Disks /\ disk'.data = Seen(disk.data, f)
      /\ disk'.fat = disk.fat \/ disk'.fat = fat
      /\ \A s \in 1 .. Slots : s # f.dirEntry => disk'.dir[s] = disk.dir[s] /\ saved'[s] = saved[s]
      /\ f.registered => /\ disk'.dir[f.dirEntry].cluster = f.startCluster
                         /\ disk'.dir[f.dirEntry].len = f.len
                         /\ Agree(fat, disk'.fat, f.startCluster)
                         /\ saved'[f.dirEntry] = text[h]
      /\ saved' \in [1 .. Slots -> Texts]
      /\ torn' = {s \in torn : disk'.dir[s] # NoEntry}
      /\ fat' = fat /\ fatDirty' \in BOOLEAN
      /\ ~fatDirty' => disk'.fat = fat
      /\ file' = Without(file, {h}) /\ text' = Without(text, {h})
      /\ rider' = Without(rider, {r \in DOMAIN rider : rider[r].file = h})
      /\ stale' = stale \ {r \in DOMAIN rider : rider[r].file = h}

\* A file that is closed keeps the invariant, saved or left to nobody.
LEMMA ClosedStep ==
  ASSUME IInv, misread' = misread, wild' = wild, NEW h \in DOMAIN file, Closed(h)
  PROVE  IInv'
<1> DEFINE f == file[h]
           H == {h}
           E == {f.dirEntry}
           gone == {r \in DOMAIN rider : rider[r].file = h}
<1>1. FilesOK /\ ~misread' /\ ~wild' /\ fat \in FATs /\ f \in FileRecs /\ text[h] \in Texts /\ FileOK(fat, disk.data, f, text[h])
  BY TypeFacts DEF IInv, FilesOK, OpenFiles
<1>2. /\ disk' \in Disks /\ disk'.data = Seen(disk.data, f)
      /\ disk'.fat = disk.fat \/ disk'.fat = fat
      /\ \A s \in 1 .. Slots : s # f.dirEntry => disk'.dir[s] = disk.dir[s] /\ saved'[s] = saved[s]
      /\ f.registered => /\ disk'.dir[f.dirEntry].cluster = f.startCluster
                         /\ disk'.dir[f.dirEntry].len = f.len
                         /\ Agree(fat, disk'.fat, f.startCluster)
                         /\ saved'[f.dirEntry] = text[h]
      /\ saved' \in [1 .. Slots -> Texts]
  BY DEF Closed
<1>3. /\ torn' = {s \in torn : disk'.dir[s] # NoEntry}
      /\ fat' = fat /\ fatDirty' \in BOOLEAN
      /\ ~fatDirty' => disk'.fat = fat
      /\ file' = Without(file, {h}) /\ text' = Without(text, {h})
      /\ rider' = Without(rider, gone) /\ stale' = stale \ gone
  BY DEF Closed
<1>4. /\ DOMAIN file' = DOMAIN file \ {h} /\ DOMAIN text' = DOMAIN file \ {h}
      /\ file' \in [DOMAIN file' -> FileRecs] /\ text' \in [DOMAIN file' -> Texts]
      /\ \A g \in DOMAIN file \ {h} : file'[g] = file[g] /\ text'[g] = text[g]
  BY <1>1, <1>3 DEF FilesOK, Types, Without, Restrict
<1>5. /\ DOMAIN rider' = DOMAIN rider \ gone /\ rider' \in [DOMAIN rider' -> RiderRecs]
      /\ \A r \in DOMAIN rider \ gone : rider'[r] = rider[r]
  BY <1>1, <1>3 DEF FilesOK, Types, Without, Restrict
<1>6. torn' \subseteq {s \in 1 .. Slots : disk'.dir[s] # NoEntry} /\ torn' \subseteq torn
  BY <1>1, <1>3 DEF FilesOK, Types
<1>7. Types'
  BY <1>1, <1>2, <1>3, <1>4, <1>5, <1>6 DEF FilesOK, Types
<1>8. ASSUME NEW s \in Idle', s # f.dirEntry
      PROVE  s \in Idle /\ disk'.dir[s] = disk.dir[s] /\ saved'[s] = saved[s]
  <2>1. s \in 1 .. Slots /\ s \notin torn' /\ disk'.dir[s] # NoEntry /\ \A k \in DOMAIN file \ {h} : file'[k].dirEntry # s
    BY <1>4 DEF Idle, InUse
  <2>2. disk'.dir[s] = disk.dir[s] /\ saved'[s] = saved[s] /\ s \notin torn
    BY <1>2, <1>3, <1>8, <2>1
  <2>3. \A k \in DOMAIN file : file[k].dirEntry # s
    BY <1>4, <1>8, <2>1
  <2>4. QED
    BY <2>1, <2>2, <2>3 DEF Idle, InUse
<1>9. Carried(H, E)
  <2>1. ASSUME NEW k \in DOMAIN file' \ H
        PROVE  /\ k \in DOMAIN file /\ file'[k] = file[k] /\ text'[k] = text[k]
               /\ file[k].registered =>
                    /\ disk'.dir[file[k].dirEntry] = disk.dir[file[k].dirEntry]
                    /\ saved'[file[k].dirEntry] = saved[file[k].dirEntry]
                    /\ file[k].dirEntry \notin torn'
    <3>1. k \in DOMAIN file /\ k # h /\ file'[k] = file[k] /\ text'[k] = text[k]
      BY <1>4
    <3>2. ASSUME file[k].registered
          PROVE  file[k].dirEntry \in 1 .. Slots /\ file[k].dirEntry # f.dirEntry /\ file[k].dirEntry \notin torn'
      BY <1>1, <1>6, <3>1, <3>2, RegisteredSlots DEF FilesOK, NoSharing
    <3>3. QED
      BY <1>2, <3>1, <3>2
  <2>2. QED
    BY <1>8, <2>1 DEF Carried
<1>10. Framing(H, E) /\ ApartFromOthers(f.startCluster, H, E)
  BY <1>1, <1>2, <1>3, <1>9, FlushFrame
<1>11. Good(fat, disk'.data, f.startCluster, text[h])
  BY <1>1, <1>2, CleanFile, FlushedIsClean
<1>12. ASSUME f.dirEntry \in Idle'
       PROVE  /\ EntryOK(fat', disk', f.dirEntry, saved'[f.dirEntry])
              /\ Agree(fat', disk'.fat, disk'.dir[f.dirEntry].cluster)
              /\ ApartFromOthers(disk'.dir[f.dirEntry].cluster, H, E)
  <2>1. f.registered
    <3>1. f.dirEntry # 0
      BY <1>12 DEF Idle
    <3>2. QED
      BY <1>1, <3>1 DEF FilesOK, OpenFiles
  <2>2. f.len = Len(text[h])
    BY <1>1 DEF FileOK
  <2>3. QED
    BY <1>2, <1>3, <1>10, <1>11, <2>1, <2>2 DEF EntryOK
<1>13. Changed(H, E)
  BY <1>4, <1>12 DEF Changed
<1>14. FilesOK'
  BY <1>1, <1>7, <1>9, <1>10, <1>13, FilesStep
<1>15. RidersInStep'
  <2>1. ASSUME NEW r \in DOMAIN rider'
        PROVE  r \in DOMAIN rider /\ rider'[r] = rider[r] /\ rider[r].file \in DOMAIN file' /\ (r \notin stale' => r \notin stale)
    BY <1>3, <1>4, <1>5 DEF IInv, RidersInStep
  <2>2. ASSUME NEW r \in DOMAIN rider
        PROVE  /\ rider[r].pos <= file[rider[r].file].len
               /\ r \notin stale =>
                    rider[r].cluster = FollowChain(fat, file[rider[r].file].startCluster, rider[r].clusterIdx)
    BY <2>2 DEF IInv, RidersInStep
  <2>3. \A g \in DOMAIN file' : file'[g] = file[g]
    BY <1>4
  <2> HIDE DEF gone
  <2>4. ASSUME NEW r \in DOMAIN rider'
        PROVE  /\ rider'[r].file \in DOMAIN file'
               /\ rider'[r].pos <= file'[rider'[r].file].len
               /\ r \notin stale' =>
                    rider'[r].cluster = FollowChain(fat', file'[rider'[r].file].startCluster, rider'[r].clusterIdx)
    BY <1>3, <2>1, <2>2, <2>3
  <2>5. QED
    BY <2>4 DEF RidersInStep
<1>16. QED
  BY <1>1, <1>14, <1>15 DEF IInv, FilesOK

\* Close keeps the invariant.
LEMMA CloseStep ==
  ASSUME IInv, NEW h \in Handles, Close(h)
  PROVE  IInv'
<1> DEFINE f     == file[h]
           slot  == f.dirEntry
           grown == f.registered /\ f.modified
           gone  == {r \in DOMAIN rider : rider[r].file = h}
           t     == FlushFAT(fat, fatDirty)
           Quits == /\ Memory(fat, fatDirty /\ ~grown, Without(file, {h}), Without(rider, gone), Without(text, {h}))
                    /\ stale' = stale \ gone
<1>1. misread' = misread /\ wild' = wild /\ h \in DOMAIN file
  BY DEF Close, Writes
<1>2. /\ FilesOK /\ f \in FileRecs /\ text[h] \in Texts /\ disk \in Disks
      /\ saved \in [1 .. Slots -> Texts] /\ fatDirty \in BOOLEAN
      /\ FileOK(fat, disk.data, f, text[h]) /\ Linked(h)
  BY <1>1, TypeFacts DEF IInv, FilesOK, Types, OpenFiles
<1>3. f.registered => slot \in 1 .. Slots
  BY <1>1, <1>2, RegisteredSlots
<1>4. Quits => /\ fat' = fat /\ (fatDirty' <=> fatDirty /\ ~grown)
               /\ fatDirty' \in BOOLEAN
               /\ file' = Without(file, {h}) /\ rider' = Without(rider, gone) /\ text' = Without(text, {h})
               /\ stale' = stale \ gone
  BY DEF Memory
<1>5. CASE grown
  <2> DEFINE w   == EntryWrites(FlushFile(f), slot, EntryOf(f), t)
             v   == FlushFile(f) \o (<<DirWrite(slot, EntryOf(f))>> \o t)
             now == Saving(slot, h)
             N   == IF fatDirty THEN fatSectors ELSE 0
  <2>1. \/ Returned(v, now) /\ Quits
        \/ ResetDuring(v, {slot}, now)
    BY <1>5 DEF Close, Writes, Returned, ResetDuring, Saving
  <2>2. FatTail(t, fat, N) /\ (N = 0 => disk.fat = fat)
    <3>1. CASE fatDirty
      BY <3>1, Constants DEF FlushFAT, FatTail, FatWrites
    <3>2. CASE ~fatDirty
      BY <1>2, <3>2 DEF FlushFAT, FatTail, FilesOK, Types
    <3>3. QED
      BY <3>1, <3>2
  <2> HIDE DEF t, N
  <2>3. v = w
    <3>1. EntryOf(f) \in Entries
      BY <1>2, FileFields DEF EntryOf, Entries, FileRecs
    <3>2. slot \in 1 .. Slots /\ fat \in FATs
      BY <1>2, <1>3, <1>5, TypeFacts DEF FilesOK
    <3> DEFINE e == EntryOf(f)
    <3> HIDE DEF e, slot, f, w
    <3>3. w = EntryWrites(FlushFile(f), slot, e, t)
      BY DEF w, e
    <3>4. w = FlushFile(f) \o OnlyEntry(slot, e, t)
      BY <1>2, <2>2, <3>1, <3>2, <3>3, FlushAndEnter DEF e
    <3>5. QED
      BY <3>4 DEF OnlyEntry, e
  <2> HIDE DEF v
  <2>4. /\ Whole(w, {slot}, now)
        /\ After(w) \in Disks
        /\ After(w).data = Seen(disk.data, f) /\ After(w).fat = fat
        /\ After(w).dir[slot] = EntryOf(f)
        /\ \A s \in 1 .. Slots : s # slot => After(w).dir[s] = disk.dir[s]
    <3>1. EntryCall(w, h, slot, t, N)
      BY <1>1, <1>3, <1>5, <2>2 DEF EntryCall
    <3> HIDE DEF w, now, slot
    <3>2. /\ Whole(w, {slot}, Saving(slot, h))
          /\ After(w) \in Disks
          /\ After(w).data = Seen(disk.data, file[h]) /\ After(w).fat = fat
          /\ After(w).dir[slot] = EntryOf(file[h])
          /\ \A s \in 1 .. Slots : s # slot => After(w).dir[s] = disk.dir[s]
      BY <1>2, <3>1, WholeEntry
    <3>3. QED
      BY <3>2 DEF now
  <2> HIDE DEF w
  <2>5. now \in [1 .. Slots -> Texts] /\ now[slot] = text[h] /\ \A s \in 1 .. Slots : s # slot => now[s] = saved[s]
    BY <1>2, <1>3, <1>5 DEF Saving
  <2> HIDE DEF now
  <2>6. CASE ResetDuring(v, {slot}, now)
    <3>1. {slot} \in SUBSET (1 .. Slots) /\ ResetDuring(w, {slot}, now)
      BY <1>3, <1>5, <2>3, <2>6
    <3>2. QED
      BY <1>1, <2>4, <2>5, <3>1, CallOrReset
  <2>7. CASE Returned(v, now) /\ Quits
    <3>1. disk' = After(w) /\ saved' = now /\ torn' = {s \in torn : disk'.dir[s] # NoEntry}
      BY <2>3, <2>7 DEF Returned
    <3>2. EntryOf(f).cluster = f.startCluster /\ EntryOf(f).len = f.len
      BY DEF EntryOf
    <3>3. Agree(fat, fat, f.startCluster)
      BY DEF Agree
    <3>4. Closed(h)
      BY <1>4, <2>4, <2>5, <2>7, <3>1, <3>2, <3>3 DEF Closed
    <3>5. QED
      BY <1>1, <3>4, ClosedStep
  <2>8. QED
    BY <2>1, <2>6, <2>7
<1>6. CASE ~grown
  <2> DEFINE v   == FlushFile(f) \o <<>>
             w   == FlushFile(f)
             now == IF f.registered THEN Saving(slot, h) ELSE saved
  <2>1. \/ Returned(v, now) /\ Quits
        \/ ResetDuring(v, {}, now)
    BY <1>6 DEF Close, Writes, Returned, ResetDuring, Saving
  <2>2. v = w /\ After(w) = FlushedTo(f)
    BY <1>2, FlushOnly
  <2>3. FlushedTo(f) \in Disks /\ FlushedTo(f).fat = disk.fat /\ FlushedTo(f).dir = disk.dir
        /\ FlushedTo(f).data = Seen(disk.data, f)
    BY <1>2, FlushedBlocks DEF FileOK
  <2>4. /\ now \in [1 .. Slots -> Texts]
        /\ f.registered => now[slot] = text[h]
        /\ \A s \in 1 .. Slots : s # slot => now[s] = saved[s]
    BY <1>2, <1>3 DEF Saving
  <2> HIDE DEF v, now
  <2>5. Whole(w, {}, now)
    <3>1. \A s \in Kept : now[s] = saved[s]
      <4>1. ASSUME NEW s \in Kept, s = slot PROVE text[h] = saved[s] /\ f.registered
        BY <1>1, <1>2, <4>1, SavedOpen
      <4>2. \A s \in Kept : s \in 1 .. Slots
        BY DEF Kept
      <4>3. QED
        BY <2>4, <4>1, <4>2
    <3>2. QED
      BY <1>1, <1>2, <3>1, WholeFlush
  <2> HIDE DEF w
  <2>6. CASE ResetDuring(v, {}, now)
    <3>1. {} \in SUBSET (1 .. Slots) /\ ResetDuring(w, {}, now)
      BY <2>2, <2>6
    <3>2. QED
      BY <1>1, <2>4, <2>5, <3>1, CallOrReset
  <2>7. CASE Returned(v, now) /\ Quits
    <3>1. disk' = FlushedTo(f) /\ saved' = now /\ torn' = {s \in torn : disk'.dir[s] # NoEntry}
      BY <2>2, <2>7 DEF Returned
    <3>2. f.registered => disk.dir[slot].cluster = f.startCluster /\ disk.dir[slot].len = f.len
                          /\ Agree(fat, disk.fat, f.startCluster)
      BY <1>2, <1>6 DEF Linked
    <3>3. ~fatDirty' => disk'.fat = fat
      <4>1. ~fatDirty => disk.fat = fat
        BY <1>2 DEF FilesOK, Types
      <4>2. QED
        BY <1>4, <1>6, <2>3, <2>7, <3>1, <4>1
    <3>4. Closed(h)
      BY <1>4, <2>3, <2>4, <2>7, <3>1, <3>2, <3>3 DEF Closed
    <3>5. QED
      BY <1>1, <3>4, ClosedStep
  <2>8. QED
    BY <2>1, <2>6, <2>7
<1>7. QED
  BY <1>5, <1>6

-----------------------------------------------------------------------------
(* Delete and Rename. *)

\* The directory and the FAT change, and no open file.
FilesHeld ==
  /\ disk' \in Disks /\ disk'.data = disk.data
  /\ torn' = {s \in torn : disk'.dir[s] # NoEntry}
  /\ saved' \in [1 .. Slots -> Texts]
  /\ fat' \in FATs /\ fatDirty' \in BOOLEAN
  /\ ~fatDirty' => disk'.fat = fat'
  /\ file' = file /\ rider' = rider /\ text' = text /\ stale' = stale

\* The directory and the FAT may change under open files that carry over.
LEMMA HeldStep ==
  ASSUME IInv, misread' = misread, wild' = wild, FilesHeld,
         NEW E, Carried({}, E), Framing({}, E), Changed({}, E)
  PROVE  IInv'
<1>1. FilesOK /\ ~misread' /\ ~wild'
  BY DEF IInv, FilesOK
<1>2. file' = file /\ rider' = rider /\ text' = text /\ stale' = stale
  BY DEF FilesHeld
<1>3. Types'
  <2>1. torn' \subseteq {s \in 1 .. Slots : disk'.dir[s] # NoEntry}
    BY <1>1 DEF FilesOK, Types, FilesHeld
  <2>2. QED
    BY <1>1, <1>2, <2>1 DEF FilesOK, Types, FilesHeld
<1>4. FilesOK'
  BY <1>1, <1>3, FilesStep
<1>5. RidersInStep'
  <2>1. \A g \in DOMAIN file, k \in Nat : FollowChain(fat', file[g].startCluster, k) = FollowChain(fat, file[g].startCluster, k)
    <3>1. ASSUME NEW g \in DOMAIN file, NEW k \in Nat
          PROVE  FollowChain(fat', file[g].startCluster, k) = FollowChain(fat, file[g].startCluster, k)
      <4>1. g \in DOMAIN file' \ {}
        BY <1>2
      <4>2. FollowChain(fat', file'[g].startCluster, k) = FollowChain(fat, file[g].startCluster, k)
        BY <1>1, <1>3, <4>1, OthersFollow
      <4>3. QED
        BY <1>2, <4>2
    <3>2. QED
      BY <3>1
  <2>2. \A r \in DOMAIN rider : rider[r].clusterIdx \in Nat
    BY <1>1, TypeFacts DEF FilesOK, RiderRecs
  <2>3. QED
    BY <1>2, <2>1, <2>2 DEF IInv, RidersInStep
<1>6. QED
  BY <1>1, <1>4, <1>5 DEF IInv, FilesOK

\* A chain freed and its entry gone keep the invariant.
LEMMA DeletedStep ==
  ASSUME IInv, misread' = misread, wild' = wild, FilesHeld, NEW slot \in Idle,
         fat' = FreeChain(fat, disk.dir[slot].cluster), disk'.fat = fat' \/ (fat' = fat /\ disk'.fat = disk.fat),
         disk'.dir[slot] = NoEntry,
         \A s \in 1 .. Slots : s # slot => disk'.dir[s] = disk.dir[s] /\ saved'[s] = saved[s]
  PROVE  IInv'
<1> DEFINE H == {}
           E == {}
<1>1. FilesOK
  BY DEF IInv, FilesOK
<1>2. torn' \subseteq torn /\ (\A s \in torn : s = slot \/ s \in torn') /\ file' = file /\ text' = text /\ disk'.data = disk.data
  <2>1. \A s \in torn : s \in 1 .. Slots /\ disk.dir[s] # NoEntry
    BY <1>1 DEF FilesOK, Types
  <2>2. QED
    BY <2>1 DEF FilesHeld
<1>3. ASSUME NEW s \in Idle'
      PROVE  s \in Idle /\ s # slot /\ disk'.dir[s] = disk.dir[s] /\ saved'[s] = saved[s]
  BY <1>2 DEF Idle, InUse
<1>4. ASSUME NEW g \in DOMAIN file, file[g].registered
      PROVE  file[g].dirEntry \in 1 .. Slots /\ file[g].dirEntry # slot /\ file[g].dirEntry \notin torn'
  BY <1>1, <1>2, <1>4, RegisteredSlots, IdleIsKept
<1>5. Carried(H, E)
  BY <1>2, <1>3, <1>4 DEF Carried
<1>6. ASSUME NEW c \in Others(H, E) PROVE Apart(fat, c, disk.dir[slot].cluster)
  <2>1. CASE \E g \in DOMAIN file : c = file[g].startCluster
    BY <1>1, <2>1 DEF FilesOK, NoSharing
  <2>2. CASE \E s \in Idle' : c = disk'.dir[s].cluster
    BY <1>1, <1>3, <2>2 DEF FilesOK, NoSharing
  <2>3. QED
    BY <1>2, <1>6, <2>1, <2>2 DEF Others
<1>7. ASSUME NEW c \in Others(H, E)
      PROVE  Agree(fat, fat', c) /\ (Agree(fat, disk.fat, c) => Agree(fat', disk'.fat, c))
  <2>1. Agree(fat, fat', c)
    BY <1>1, <1>6, FreedChain
  <2>2. disk'.fat = fat' => Agree(fat', disk'.fat, c)
    BY DEF Agree
  <2>3. QED
    BY <2>1, <2>2
<1>8. Framing(H, E)
  BY <1>2, <1>7 DEF Framing, SameBlocks
<1>9. Changed(H, E)
  BY DEF Changed
<1>10. QED
  BY <1>5, <1>8, <1>9, HeldStep

\* Delete keeps the invariant.
LEMMA DeleteStep ==
  ASSUME IInv, NEW name \in Names, Delete(name)
  PROVE  IInv'
<1> DEFINE slot == Min(Find(disk, name))
           c    == disk.dir[slot].cluster
           F    == FreeChain(fat, c)
           t    == IF c >= 2 THEN FlushFAT(F, TRUE) ELSE <<>>
           N    == IF c >= 2 THEN fatSectors ELSE 0
           w    == OnlyEntry(slot, NoEntry, t)
           now  == Dropping(slot)
<1>1. misread' = misread /\ wild' = wild /\ Find(disk, name) # {} /\ slot \notin torn /\ ~InUse(slot)
  BY DEF Delete, Writes
<1>2. \/ Returned(w, now) /\ Memory(F, fatDirty /\ c < 2, file, rider, text) /\ stale' = stale
      \/ ResetDuring(w, {}, now)
  BY DEF Delete, Writes, Returned, ResetDuring, OnlyEntry, Dropping
<1>3. FilesOK /\ Types /\ saved \in [1 .. Slots -> Texts] /\ fatDirty \in BOOLEAN /\ (~fatDirty => disk.fat = fat)
  BY DEF IInv, FilesOK, Types
<1>4. slot \in Idle
  BY <1>1, <1>3, FoundSlot
<1> HIDE DEF slot
<1>5. /\ slot \in 1 .. Slots /\ disk.dir[slot] \in Entries /\ (c < 2 => F = fat) /\ F \in FATs
      /\ c \in Clusters \/ c = 0
  BY <1>3, <1>4, IdleIsKept, FreedChain, EntryFields
<1>6. c \in Nat
  BY <1>5 DEF Clusters
<1> HIDE DEF c
<1>7. FatTail(t, F, N)
  BY DEF FlushFAT, FatTail, FatWrites
<1>8. N > 0 <=> c >= 2
  BY Constants
<1>9. now \in [1 .. Slots -> Texts] /\ \A s \in 1 .. Slots : s # slot => now[s] = saved[s]
  BY <1>3, <1>5, EmptyEntry DEF Dropping
<1> HIDE DEF t, N, F
<1>10. /\ Whole(w, {}, now)
       /\ After(w) \in Disks /\ After(w).data = disk.data
       /\ N > 0 => After(w).fat = F
       /\ ~(N > 0) => After(w).fat = disk.fat
       /\ After(w).dir[slot] = NoEntry
       /\ \A s \in 1 .. Slots : s # slot => After(w).dir[s] = disk.dir[s]
  <2>1. DeleteCall(w, slot, F, t, N)
    BY <1>4, <1>7 DEF DeleteCall, F, c
  <2> HIDE DEF w
  <2>2. QED
    BY <1>3, <2>1, WholeDelete
<1> HIDE DEF w, now
<1>11. CASE ResetDuring(w, {}, now)
  <2>1. {} \in SUBSET (1 .. Slots)
    OBVIOUS
  <2>2. QED
    BY <1>1, <1>9, <1>10, <1>11, <2>1, CallOrReset
<1>12. CASE Returned(w, now) /\ Memory(F, fatDirty /\ c < 2, file, rider, text) /\ stale' = stale
  <2>1. disk' = After(w) /\ saved' = now /\ torn' = {s \in torn : disk'.dir[s] # NoEntry}
    BY <1>12 DEF Returned
  <2>2. fat' = F /\ (fatDirty' <=> fatDirty /\ c < 2) /\ fatDirty' \in BOOLEAN /\ file' = file /\ rider' = rider
        /\ text' = text /\ stale' = stale
    BY <1>12 DEF Memory
  <2>3. disk'.fat = fat' \/ (fat' = fat /\ disk'.fat = disk.fat)
    BY <1>5, <1>6, <1>8, <1>10, <2>1, <2>2
  <2>4. ~fatDirty' => disk'.fat = fat'
    BY <1>3, <1>5, <1>6, <1>8, <1>10, <2>1, <2>2
  <2>5. FilesHeld
    BY <1>5, <1>9, <1>10, <2>1, <2>2, <2>4 DEF FilesHeld
  <2>6. /\ disk'.dir[slot] = NoEntry
        /\ \A s \in 1 .. Slots : s # slot => disk'.dir[s] = disk.dir[s] /\ saved'[s] = saved[s]
    BY <1>5, <1>9, <1>10, <2>1
  <2>7. fat' = FreeChain(fat, disk.dir[slot].cluster)
    BY <2>2 DEF F, c
  <2>8. QED
    BY <1>1, <1>4, <2>3, <2>5, <2>6, <2>7, DeletedStep
<1>13. QED
  BY <1>2, <1>11, <1>12

\* The file at slot is at to, under another name.
Moved(slot, to) ==
  /\ slot \in Idle /\ to \in 1 .. Slots /\ (to = slot \/ disk.dir[to] = NoEntry)
  /\ fat' = fat /\ disk'.fat = disk.fat
  /\ disk'.dir[to].cluster = disk.dir[slot].cluster /\ disk'.dir[to].len = disk.dir[slot].len
  /\ saved'[to] = saved[slot]
  /\ slot # to => disk'.dir[slot] = NoEntry
  /\ \A s \in 1 .. Slots : s # slot /\ s # to => disk'.dir[s] = disk.dir[s] /\ saved'[s] = saved[s]

\* An entry moved keeps the invariant.
LEMMA MovedStep ==
  ASSUME IInv, misread' = misread, wild' = wild, FilesHeld, NEW slot, NEW to, Moved(slot, to)
  PROVE  IInv'
<1> DEFINE H == {}
           E == {to}
<1>1. FilesOK
  BY DEF IInv, FilesOK
<1>2. torn' \subseteq torn /\ file' = file /\ text' = text /\ disk'.data = disk.data /\ torn \subseteq 1 .. Slots
  BY <1>1 DEF FilesHeld, FilesOK, Types
<1>3. slot \in Idle /\ to \in 1 .. Slots /\ (to = slot \/ disk.dir[to] = NoEntry)
  BY DEF Moved
<1>4. slot \in 1 .. Slots /\ slot \notin torn /\ ~InUse(slot) /\ disk.dir[slot] # NoEntry
  BY <1>3 DEF Idle
<1>5. to \notin torn /\ ~InUse(to)
  <2>1. CASE to = slot
    BY <1>4, <2>1
  <2>2. CASE disk.dir[to] = NoEntry
    <3>1. to \notin torn
      BY <1>1, <2>2 DEF FilesOK, Types
    <3>2. ASSUME NEW h \in DOMAIN file PROVE file[h].dirEntry # to
      <4>1. CASE file[h].registered
        BY <1>1, <2>2, <4>1, RegisteredSlots
      <4>2. CASE ~file[h].registered
        BY <1>1, <1>3, <4>2, Constants DEF FilesOK, OpenFiles
      <4>3. QED
        BY <4>1, <4>2
    <3>3. QED
      BY <3>1, <3>2 DEF InUse
  <2>3. QED
    BY <1>3, <2>1, <2>2
<1>6. ASSUME NEW s \in Idle' \ E
      PROVE  s \in Idle /\ s # slot /\ disk'.dir[s] = disk.dir[s] /\ saved'[s] = saved[s]
  <2>1. s \in 1 .. Slots /\ s \notin torn' /\ disk'.dir[s] # NoEntry /\ ~InUse(s) /\ s # to
    BY <1>2, <1>6 DEF Idle, InUse
  <2>2. s # slot
    BY <2>1 DEF Moved
  <2>3. disk'.dir[s] = disk.dir[s] /\ saved'[s] = saved[s]
    BY <2>1, <2>2 DEF Moved
  <2>4. s \notin torn
    BY <2>1 DEF FilesHeld
  <2>5. QED
    BY <2>1, <2>2, <2>3, <2>4 DEF Idle
<1>7. ASSUME NEW g \in DOMAIN file, file[g].registered
      PROVE  /\ file[g].dirEntry \in 1 .. Slots /\ file[g].dirEntry \notin torn'
             /\ disk'.dir[file[g].dirEntry] = disk.dir[file[g].dirEntry]
             /\ saved'[file[g].dirEntry] = saved[file[g].dirEntry]
  <2>1. file[g].dirEntry \in 1 .. Slots /\ file[g].dirEntry \notin torn
    BY <1>1, <1>7, RegisteredSlots
  <2>2. file[g].dirEntry # slot /\ file[g].dirEntry # to
    BY <1>4, <1>5 DEF InUse
  <2>3. QED
    BY <1>2, <2>1, <2>2 DEF Moved
<1>8. Carried(H, E)
  BY <1>2, <1>6, <1>7 DEF Carried
<1>9. fat' = fat /\ disk'.fat = disk.fat
  BY DEF Moved
<1>10. Framing(H, E)
  BY <1>2, <1>9, SameFrame
<1>11. ASSUME NEW c \in Others(H, E) PROVE Apart(fat, disk.dir[slot].cluster, c)
  <2>1. CASE \E g \in DOMAIN file : c = file[g].startCluster
    BY <1>1, <1>3, <2>1 DEF FilesOK, NoSharing, Apart
  <2>2. CASE \E s \in Idle' \ E : c = disk'.dir[s].cluster
    BY <1>1, <1>3, <1>6, <2>2 DEF FilesOK, NoSharing
  <2>3. QED
    BY <1>2, <1>11, <2>1, <2>2 DEF Others
<1>12. ApartFromOthers(disk'.dir[to].cluster, H, E)
  <2>1. disk'.dir[to].cluster = disk.dir[slot].cluster
    BY DEF Moved
  <2>2. QED
    BY <1>9, <1>11, <2>1 DEF ApartFromOthers, Apart
<1>13. EntryOK(fat', disk', to, saved'[to]) /\ Agree(fat', disk'.fat, disk'.dir[to].cluster)
  <2>1. EntryOK(fat, disk, slot, saved[slot]) /\ Agree(fat, disk.fat, disk.dir[slot].cluster)
    BY <1>1, <1>3 DEF FilesOK, IdleEntries
  <2>2. /\ disk'.dir[to].cluster = disk.dir[slot].cluster /\ disk'.dir[to].len = disk.dir[slot].len
        /\ saved'[to] = saved[slot]
    BY DEF Moved
  <2>3. QED
    BY <1>2, <1>9, <2>1, <2>2 DEF EntryOK
<1>14. Changed(H, E)
  BY <1>12, <1>13 DEF Changed
<1>15. QED
  BY <1>8, <1>10, <1>14, HeldStep

\* Rename keeps the invariant.
LEMMA RenameStep ==
  ASSUME IInv, NEW old \in Names, NEW new \in Names, Rename(old, new)
  PROVE  IInv'
<1> DEFINE slot == Min(Find(disk, old))
           to   == Min(FreeEntries(disk) \cup {slot})
           e    == [disk.dir[slot] EXCEPT !.name = new]
           w    == TwoWrites(slot, NoEntry, to, e)
           now  == Moving(slot, to)
<1>1. misread' = misread /\ wild' = wild /\ Find(disk, old) # {} /\ slot \notin torn /\ ~InUse(slot)
  BY DEF Rename, Writes
<1>2. \/ Returned(w, now) /\ Memory(fat, fatDirty, file, rider, text) /\ stale' = stale
      \/ ResetDuring(w, {}, now)
  BY DEF Rename, Writes, Returned, ResetDuring, TwoWrites, Moving
<1>3. FilesOK /\ Types /\ saved \in [1 .. Slots -> Texts]
  BY DEF IInv, FilesOK, Types
<1>4. slot \in Idle
  BY <1>1, <1>3, FoundSlot
<1>5. to \in 1 .. Slots /\ (to = slot \/ disk.dir[to] = NoEntry)
  <2> HIDE DEF slot
  <2>1. slot \in 1 .. Slots
    BY <1>4 DEF Idle
  <2>2. FreeEntries(disk) \cup {slot} \in SUBSET Nat
    BY <2>1, Constants DEF FreeEntries
  <2>3. to \in FreeEntries(disk) \cup {slot}
    BY <2>2, Least
  <2>4. QED
    BY <2>1, <2>3 DEF FreeEntries
<1> HIDE DEF slot, to
<1>6. /\ slot \in 1 .. Slots /\ disk.dir[slot] \in Entries
  BY <1>3, <1>4, IdleIsKept
<1>7. e \in Entries /\ e # NoEntry /\ e.cluster = disk.dir[slot].cluster /\ e.len = disk.dir[slot].len
  BY <1>6, Renamed
<1> HIDE DEF e
<1>8. /\ Whole(w, {}, now)
      /\ After(w) \in Disks /\ After(w).data = disk.data /\ After(w).fat = disk.fat
      /\ After(w).dir[to] = e
      /\ slot # to => After(w).dir[slot] = NoEntry
      /\ \A s \in 1 .. Slots : s # to /\ s # slot => After(w).dir[s] = disk.dir[s]
  <2>1. RenameCall(w, slot, to, e)
    BY <1>4, <1>5, <1>7 DEF RenameCall
  <2> HIDE DEF w
  <2>2. QED
    BY <1>3, <2>1, WholeRename
<1>9. /\ now \in [1 .. Slots -> Texts] /\ now[to] = saved[slot]
      /\ \A s \in 1 .. Slots : s # slot /\ s # to => now[s] = saved[s]
  BY <1>3, <1>5, <1>6, EmptyEntry DEF Moving
<1> HIDE DEF w, now
<1>10. CASE ResetDuring(w, {}, now)
  <2>1. {} \in SUBSET (1 .. Slots)
    OBVIOUS
  <2>2. QED
    BY <1>1, <1>8, <1>9, <1>10, <2>1, CallOrReset
<1>11. CASE Returned(w, now) /\ Memory(fat, fatDirty, file, rider, text) /\ stale' = stale
  <2>1. disk' = After(w) /\ saved' = now /\ torn' = {s \in torn : disk'.dir[s] # NoEntry}
    BY <1>11 DEF Returned
  <2>2. fat' = fat /\ fatDirty' = fatDirty /\ file' = file /\ rider' = rider /\ text' = text /\ stale' = stale
    BY <1>11 DEF Memory
  <2>3. FilesHeld
    BY <1>3, <1>8, <1>9, <2>1, <2>2 DEF FilesHeld, Types
  <2>4. Moved(slot, to)
    BY <1>4, <1>5, <1>7, <1>8, <1>9, <2>1, <2>2 DEF Moved
  <2>5. QED
    BY <1>1, <2>3, <2>4, MovedStep
<1>12. QED
  BY <1>2, <1>10, <1>11

-----------------------------------------------------------------------------
(* Read. *)

\* The same file with a buffer of sector <<c, s>>.
Loaded(f, g, c, s) ==
  /\ g \in FileRecs /\ g.bufCluster = c /\ g.bufSecOfs = s
  /\ g.startCluster = f.startCluster /\ g.len = f.len /\ g.dirEntry = f.dirEntry /\ g.name = f.name
  /\ g.registered <=> f.registered
  /\ g.modified <=> f.modified

\* EnsureSector brings the sector into the buffer, and what the file holds is
\* the same through the new buffer as through the old one.
LEMMA EnsuredSector ==
  ASSUME disk \in Disks, NEW F, NEW f \in FileRecs, BufferOK(F, disk.data, f),
         NEW c \in Clusters, NEW s \in Secs, NEW e, e = EnsureSector(f, c, s)
  PROVE  /\ e.ok /\ Loaded(f, e.f, c, s)
         /\ e.writes = <<>> \/ e.writes = FlushFile(f)
         /\ After(e.writes) \in Disks /\ After(e.writes).fat = disk.fat /\ After(e.writes).dir = disk.dir
         /\ After(e.writes).data = Seen(disk.data, f) \/ After(e.writes).data = disk.data
         /\ Seen(After(e.writes).data, e.f) = Seen(disk.data, f)
         /\ ~e.f.bufDirty => e.f.buf = After(e.writes).data[<<c, s>>]
         /\ e.f.buf = Seen(disk.data, f)[<<c, s>>]
<1> DEFINE here == c = f.bufCluster /\ s = f.bufSecOfs
           g    == [Flushed(f) EXCEPT !.buf = disk.data[<<c, s>>], !.bufCluster = c, !.bufSecOfs = s]
           was  == <<f.bufCluster, f.bufSecOfs>>
           data == disk.data
<1>1. data \in Blocks /\ <<c, s>> \in Clusters \X Secs /\ data[<<c, s>>] \in Sectors
  BY DEF Disks, Blocks
<1>2. /\ f.bufCluster \in Clusters \/ f.bufCluster = -1
      /\ f.bufCluster \in Clusters <=> f.bufCluster # -1
      /\ f.bufSecOfs \in Secs /\ f.buf \in Sectors /\ f.bufDirty \in BOOLEAN
  BY FileFields
<1>3. CASE here
  <2>1. e = [ok |-> TRUE, f |-> f, writes |-> <<>>]
    BY <1>3 DEF EnsureSector
  <2>2. After(e.writes) = disk
    BY <2>1, NoWrites
  <2>3. Loaded(f, e.f, c, s)
    BY <1>3, <2>1 DEF Loaded
  <2>4. ~f.bufDirty => f.buf = data[<<c, s>>]
    BY <1>2, <1>3 DEF BufferOK
  <2>5. Seen(data, f)[<<c, s>>] = f.buf
    BY <1>1, <1>3 DEF Seen, Blocks
  <2>6. disk.fat = disk.fat /\ disk.dir = disk.dir
    OBVIOUS
  <2>7. QED
    BY <2>1, <2>2, <2>3, <2>4, <2>5
<1>4. CASE ~here
  <2>1. c <= maxCluster
    BY Constants DEF Clusters
  <2>2. e = [ok |-> TRUE, writes |-> FlushFile(f), f |-> g]
    BY <1>4, <2>1 DEF EnsureSector
  <2>3. After(e.writes) = FlushedTo(f)
    BY <2>2, FlushOnly
  <2>4. FlushedTo(f) \in Disks /\ FlushedTo(f).fat = disk.fat /\ FlushedTo(f).dir = disk.dir
        /\ FlushedTo(f).data = Seen(data, f)
    BY FlushedBlocks
  <2>5. /\ g \in FileRecs /\ g.bufCluster = c /\ g.bufSecOfs = s /\ g.buf = data[<<c, s>>]
        /\ g.startCluster = f.startCluster /\ g.len = f.len /\ g.dirEntry = f.dirEntry /\ g.name = f.name
        /\ g.registered <=> f.registered
        /\ g.modified <=> f.modified
    <3>1. f.bufDirty /\ f.bufCluster < 2 <=> FALSE
      BY <1>2 DEF BufferOK, Clusters
    <3>2. Flushed(f) = [f EXCEPT !.bufDirty = FALSE]
      BY <3>1 DEF Flushed
    <3>3. [f EXCEPT !.bufDirty = FALSE] \in FileRecs
      BY DEF FileRecs
    <3>4. QED
      BY <1>1, <3>2, <3>3 DEF FileRecs
  <2>6. Loaded(f, g, c, s)
    BY <2>5 DEF Loaded
  <2>7. Seen(data, f)[<<c, s>>] = data[<<c, s>>]
    <3>1. <<c, s>> # was
      BY <1>4
    <3>2. QED
      BY <1>1, <3>1 DEF Seen, Blocks
  <2>8. Seen(Seen(data, f), g) = Seen(data, f)
    <3>1. Seen(data, f) \in [Clusters \X Secs -> Sectors]
      BY <1>1, SeenType DEF Blocks
    <3>2. Seen(Seen(data, f), g) = [Seen(data, f) EXCEPT ![<<c, s>>] = data[<<c, s>>]]
      BY <2>5 DEF Seen
    <3>3. QED
      BY <2>7, <3>1, <3>2
  <2> HIDE DEF g
  <2>9. QED
    BY <2>2, <2>3, <2>4, <2>5, <2>6, <2>7, <2>8
<1>5. QED
  BY <1>3, <1>4

\* A rider before the end of its file stands on a sector of it, and the byte
\* at its index in the sector is the one at its position.
LEMMA ByteAtRider ==
  ASSUME IInv, NEW r \in DOMAIN rider \ stale, rider[r].pos < file[rider[r].file].len,
         NEW h, h = rider[r].file, NEW at, at = SyncRider(fat, file[h], rider[r])
  PROVE  /\ h \in DOMAIN file /\ at \in RiderRecs /\ at.file = h /\ at.pos = rider[r].pos
         /\ at.cluster = FollowChain(fat, file[h].startCluster, at.clusterIdx)
         /\ at.cluster \in Clusters /\ at.secOfs \in Secs
         /\ at.cluster \in Reach(fat, file[h].startCluster)
         /\ BufIdx(at) \in 0 .. (SectorSize - 1)
         /\ Seen(disk.data, file[h])[<<at.cluster, at.secOfs>>][BufIdx(at)] = text[h][at.pos + 1]
<1> DEFINE f == file[h]
           t == text[h]
           data == Seen(disk.data, f)
           pos == rider[r].pos
<1>1. h \in DOMAIN file /\ rider[r].cluster = FollowChain(fat, f.startCluster, rider[r].clusterIdx)
  BY DEF IInv, RidersInStep
<1>2. /\ fat \in FATs /\ f \in FileRecs /\ t \in Texts /\ rider[r] \in RiderRecs
      /\ f.startCluster \in ClusterRefs /\ FilesOK
  BY <1>1, TypeFacts, RecordFields DEF IInv, FilesOK
<1>3. /\ at \in RiderRecs /\ at.file = h /\ at.pos = pos
      /\ at.clusterIdx = pos \div ClusterBytes
      /\ at.cluster = FollowChain(fat, f.startCluster, pos \div ClusterBytes)
      /\ at.secOfs = (pos % ClusterBytes) \div SectorSize
  BY <1>1, <1>2, SyncedRider
<1>4. FileOK(fat, disk.data, f, t)
  BY <1>1, <1>2 DEF FilesOK, OpenFiles
<1>5. f.len = Len(t) /\ Len(t) \in Nat /\ pos \in Nat
  BY <1>2, <1>4, LenProperties DEF FileOK, RiderRecs, Texts
<1>6. PICK n \in Nat : GoodIn(fat, data, f.startCluster, t, n)
  BY <1>4 DEF FileOK, Good
<1>7. Ends(fat, f.startCluster, n) /\ Len(t) <= n * ClusterBytes
  BY <1>6, GoodEnds
<1>8. pos \in 0 .. (Len(t) - 1)
  BY <1>5
<1>9. pos < n * ClusterBytes
  BY <1>2, <1>7, <1>8, Position
<1>10. /\ SectorAt(fat, f.startCluster, pos) \in Clusters \X Secs
       /\ SectorAt(fat, f.startCluster, pos)[1] \in Reach(fat, f.startCluster)
  BY <1>2, <1>5, <1>7, <1>9, BlockOfPosition
<1>11. SectorAt(fat, f.startCluster, pos) = <<at.cluster, at.secOfs>>
  BY <1>3 DEF SectorAt
<1>12. at.cluster \in Clusters /\ at.secOfs \in Secs /\ at.cluster \in Reach(fat, f.startCluster)
  BY <1>10, <1>11
<1>13. BufIdx(at) = pos % SectorSize /\ pos % SectorSize \in 0 .. (SectorSize - 1)
  BY <1>3, <1>5, Geometry DEF BufIdx
<1>14. data[SectorAt(fat, f.startCluster, pos)][pos % SectorSize] = t[pos + 1]
  BY <1>6, <1>8 DEF GoodIn
<1>15. data[<<at.cluster, at.secOfs>>][BufIdx(at)] = t[at.pos + 1]
  BY <1>3, <1>11, <1>13, <1>14
<1>16. QED
  BY <1>1, <1>3, <1>12, <1>13, <1>15

\* Read keeps the invariant, and so returns the right byte.
LEMMA ReadStep ==
  ASSUME IInv, NEW r \in Riders, Read(r)
  PROVE  IInv'
<1> DEFINE h  == rider[r].file
           f  == file[h]
           at == SyncRider(fat, f, rider[r])
           e  == EnsureSector(f, at.cluster, at.secOfs)
           moved == IF e.ok THEN [at EXCEPT !.pos = @ + 1] ELSE at
<1>1. r \in DOMAIN rider \ stale /\ rider[r].pos < f.len
  BY DEF Read
<1>2. /\ disk' = After(e.writes) /\ file' = [file EXCEPT ![h] = e.f]
      /\ rider' = [rider EXCEPT ![r] = moved]
      /\ misread' = (misread \/ ~e.ok \/ ~InBuffer(at) \/ e.f.buf[BufIdx(at)] # text[h][at.pos + 1])
      /\ fat' = fat /\ fatDirty' = fatDirty /\ text' = text /\ stale' = stale /\ saved' = saved
      /\ torn' = torn /\ wild' = wild
  BY DEF Read
<1>3. /\ h \in DOMAIN file /\ at \in RiderRecs /\ at.file = h /\ at.pos = rider[r].pos
      /\ at.cluster = FollowChain(fat, f.startCluster, at.clusterIdx)
      /\ at.cluster \in Clusters /\ at.secOfs \in Secs
      /\ at.cluster \in Reach(fat, f.startCluster)
      /\ BufIdx(at) \in 0 .. (SectorSize - 1)
      /\ Seen(disk.data, f)[<<at.cluster, at.secOfs>>][BufIdx(at)] = text[h][at.pos + 1]
  BY <1>1, ByteAtRider
<1> HIDE DEF h, at
<1>4. /\ disk \in Disks /\ f \in FileRecs /\ FilesOK /\ f.len \in Nat
      /\ rider \in [DOMAIN rider -> RiderRecs]
      /\ ~misread /\ ~wild
  BY <1>3, TypeFacts, FileFields DEF IInv, FilesOK, Types
<1>5. FileOK(fat, disk.data, f, text[h])
  BY <1>3, <1>4 DEF FilesOK, OpenFiles
<1>6. BufferOK(fat, disk.data, f)
  BY <1>5 DEF FileOK
<1> HIDE DEF f
<1>7. /\ e.ok /\ Loaded(f, e.f, at.cluster, at.secOfs)
      /\ After(e.writes) \in Disks /\ After(e.writes).fat = disk.fat /\ After(e.writes).dir = disk.dir
      /\ After(e.writes).data = Seen(disk.data, f) \/ After(e.writes).data = disk.data
      /\ Seen(After(e.writes).data, e.f) = Seen(disk.data, f)
      /\ ~e.f.bufDirty => e.f.buf = After(e.writes).data[<<at.cluster, at.secOfs>>]
      /\ e.f.buf = Seen(disk.data, f)[<<at.cluster, at.secOfs>>]
  BY <1>3, <1>4, <1>6, EnsuredSector
<1> HIDE DEF e
<1>8. ~misread'
  BY <1>2, <1>3, <1>4, <1>7 DEF InBuffer
<1>9. /\ moved \in RiderRecs /\ moved.file = h /\ moved.pos = rider[r].pos + 1 /\ moved.cluster = at.cluster
      /\ moved.clusterIdx = at.clusterIdx /\ rider[r].pos \in Nat
  <2>1. moved = [at EXCEPT !.pos = @ + 1] /\ at.pos \in Nat
    BY <1>3, <1>7 DEF RiderRecs
  <2>2. QED
    BY <1>3, <2>1 DEF RiderRecs
<1> HIDE DEF moved
<1>10. /\ e.f \in FileRecs /\ e.f.bufCluster = at.cluster /\ e.f.bufSecOfs = at.secOfs
       /\ e.f.startCluster = f.startCluster /\ e.f.len = f.len /\ SameFile(f, e.f)
  BY <1>7 DEF Loaded, SameFile
<1>11. FileOK(fat, disk'.data, e.f, text[h])
  <2>1. BufferOK(fat, disk'.data, e.f)
    BY <1>2, <1>3, <1>7, <1>10, FileFields DEF BufferOK
  <2>2. Good(fat, Seen(disk'.data, e.f), e.f.startCluster, text[h])
    BY <1>2, <1>5, <1>7, <1>10 DEF FileOK
  <2>3. QED
    BY <1>5, <1>10, <2>1, <2>2 DEF FileOK
<1>12. Rebuffered(h, e.f)
  BY <1>2, <1>7, <1>10, <1>11 DEF Rebuffered, f
<1>13. rider' \in [DOMAIN rider' -> RiderRecs] /\ DOMAIN rider' = DOMAIN rider /\ rider'[r] = moved
       /\ \A q \in DOMAIN rider : q # r => rider'[q] = rider[q]
  BY <1>1, <1>2, <1>4, <1>9
<1>14. FilesOK'
  BY <1>3, <1>12, <1>13, RebufferedStep
<1>15. RidersInStep'
  <2>1. ASSUME NEW q \in DOMAIN rider'
        PROVE  /\ rider'[q].file \in DOMAIN file'
               /\ rider'[q].pos <= file'[rider'[q].file].len
               /\ q \notin stale =>
                    rider'[q].cluster = FollowChain(fat', file'[rider'[q].file].startCluster, rider'[q].clusterIdx)
    <3>1. CASE q = r
      <4>1. file'[h] = e.f /\ h \in DOMAIN file'
        BY <1>2, <1>3
      <4>2. rider'[q] = moved
        BY <1>13, <3>1
      <4>3. rider[r].pos + 1 <= e.f.len
        BY <1>1, <1>4, <1>9, <1>10
      <4>4. QED
        BY <1>2, <1>3, <1>9, <1>10, <4>1, <4>2, <4>3
    <3>2. CASE q # r
      BY <1>3, <1>12, <1>13, <3>2, RebufferedRiders
    <3>3. QED
      BY <3>1, <3>2
  <2>2. QED
    BY <1>2, <2>1 DEF RidersInStep
<1>16. QED
  BY <1>2, <1>4, <1>8, <1>14, <1>15 DEF IInv, FilesOK

-----------------------------------------------------------------------------
(* Write. *)

\* g, by the FAT F, is f with clusters added to its chain that were free.
Grown(f, F, g) ==
  /\ F \in FATs /\ g \in FileRecs
  /\ g.len = f.len /\ g.dirEntry = f.dirEntry /\ g.name = f.name
  /\ g.registered <=> f.registered
  /\ g.modified <=> f.modified
  /\ g.buf = f.buf /\ g.bufCluster = f.bufCluster /\ g.bufSecOfs = f.bufSecOfs
  /\ g.bufDirty <=> f.bufDirty
  /\ Reach(fat, f.startCluster) \subseteq Reach(F, g.startCluster)
  /\ \A d \in Reach(F, g.startCluster) : d \in Reach(fat, f.startCluster) \/ fat[d] = FATFree
  /\ \A d \in Clusters : d \notin Reach(F, g.startCluster) => F[d] = fat[d]
  /\ \A k \in Nat : FollowChain(fat, f.startCluster, k) \in Clusters =>
       FollowChain(F, g.startCluster, k) = FollowChain(fat, f.startCluster, k)

\* The rider p stands on the n-th cluster of the file.
OnCluster(F, g, p, n, r) ==
  /\ p \in RiderRecs /\ p.file = r.file /\ p.pos = r.pos
  /\ p.cluster = FollowChain(F, g.startCluster, n) /\ p.cluster \in Clusters
  /\ p.clusterIdx = n /\ p.secOfs = 0

\* The first cluster of a file that has none, and one more at the end of its
\* chain for a file that has some.
LEMMA FirstCluster ==
  ASSUME fat \in FATs, NEW f \in FileRecs, NEW t \in Texts, NEW data, NEW n,
         GoodIn(fat, data, f.startCluster, t, n), FreeClusters(fat) # {}, f.startCluster < 2,
         NEW r \in RiderRecs, NEW to, to = Extend(f, r)
  PROVE  /\ n = 0 /\ Grown(f, to.F, to.f)
         /\ GoodIn(to.F, data, to.f.startCluster, t, 1)
         /\ OnCluster(to.F, to.f, to.r, 0, r)
<1> DEFINE c == AllocCluster(fat)
           F == [fat EXCEPT ![c] = EOC]
           g == [f EXCEPT !.startCluster = c]
           p == [r EXCEPT !.cluster = c, !.clusterIdx = 0, !.secOfs = 0]
<1>1. c \in Clusters /\ fat[c] = FATFree
  <2>1. FreeClusters(fat) \in SUBSET Nat
    BY Constants DEF FreeClusters, Clusters
  <2>2. c \in FreeClusters(fat)
    BY <2>1, Least DEF AllocCluster
  <2>3. QED
    BY <2>2 DEF FreeClusters
<1>2. f.startCluster = 0
  <2>1. f.startCluster \in Clusters \/ f.startCluster = 0
    BY FileFields
  <2>2. QED
    BY <2>1 DEF Clusters
<1>3. n = 0
  <2>1. Ends(fat, 0, n)
    BY <1>2, GoodEnds
  <2>2. Ends(fat, 0, 0) /\ 0 \in ClusterRefs
    BY NoChain, References
  <2>3. QED
    BY <2>1, <2>2, OneEnd
<1>4. to.F = F /\ to.f = g /\ to.r = p
  BY DEF Extend
<1> HIDE DEF c
<1>5. F \in FATs /\ F[c] = EOC /\ \A d \in Clusters : d # c => F[d] = fat[d]
  BY <1>1, References DEF FATs
<1>6. g \in FileRecs /\ g.startCluster = c
  BY <1>1 DEF FileRecs
<1>7. p \in RiderRecs /\ p.file = r.file /\ p.pos = r.pos /\ p.cluster = c /\ p.clusterIdx = 0 /\ p.secOfs = 0
  <2>1. c \in ClusterRefs /\ 0 \in Nat /\ 0 \in Secs
    BY <1>1, Constants, References DEF Secs
  <2>2. QED
    BY <2>1 DEF RiderRecs
<1>8. /\ g.len = f.len /\ g.dirEntry = f.dirEntry /\ g.name = f.name
      /\ g.registered <=> f.registered
      /\ g.modified <=> f.modified
      /\ g.buf = f.buf /\ g.bufCluster = f.bufCluster /\ g.bufSecOfs = f.bufSecOfs
      /\ g.bufDirty <=> f.bufDirty
  BY DEF FileRecs
<1> HIDE DEF F, g, p
<1>9. FollowChain(F, c, 0) = c /\ Reach(F, c) = {c}
  BY <1>1, <1>5, FreshChain
<1>10. Reach(fat, 0) = {} /\ \A k \in Nat : FollowChain(fat, 0, k) = 0
  BY NoChain
<1>11. 0 \notin Clusters
  BY DEF Clusters
<1>12. Grown(f, F, g)
  BY <1>1, <1>2, <1>5, <1>6, <1>8, <1>9, <1>10, <1>11 DEF Grown
<1>13. GoodIn(F, data, c, t, 1)
  BY <1>1, <1>2, <1>3, <1>5, GoodFirst
<1>14. OnCluster(F, g, p, 0, r)
  BY <1>1, <1>6, <1>7, <1>9 DEF OnCluster
<1>15. QED
  BY <1>3, <1>4, <1>6, <1>12, <1>13, <1>14

\* The same for a file that has clusters.
LEMMA OneMoreCluster ==
  ASSUME fat \in FATs, NEW f \in FileRecs, NEW t \in Texts, NEW data, NEW n,
         GoodIn(fat, data, f.startCluster, t, n), FreeClusters(fat) # {}, ~(f.startCluster < 2),
         NEW r \in RiderRecs, NEW to, to = Extend(f, r)
  PROVE  /\ n \in Nat /\ Grown(f, to.F, to.f)
         /\ GoodIn(to.F, data, to.f.startCluster, t, n + 1)
         /\ OnCluster(to.F, to.f, to.r, n, r)
<1> DEFINE c == AllocCluster(fat)
           start == f.startCluster
           F == [fat EXCEPT ![c] = EOC, ![FollowChain(fat, start, Hops(fat, start))] = c]
           p == [r EXCEPT !.cluster = c, !.clusterIdx = Hops(fat, start) + 1, !.secOfs = 0]
<1>1. c \in Clusters /\ fat[c] = FATFree
  <2>1. FreeClusters(fat) \in SUBSET Nat
    BY Constants DEF FreeClusters, Clusters
  <2>2. c \in FreeClusters(fat)
    BY <2>1, Least DEF AllocCluster
  <2>3. QED
    BY <2>2 DEF FreeClusters
<1>2. start \in Clusters /\ start \in ClusterRefs
  BY FileFields
<1>3. Ends(fat, start, n) /\ n \in Nat /\ (n > 0 => FollowChain(fat, start, n) = EOC)
  BY GoodEnds
<1>4. n > 0 /\ Hops(fat, start) = n - 1 /\ Hops(fat, start) + 1 = n
  BY <1>2, <1>3, HopsAndChain
<1>5. to.F = F /\ to.f = f /\ to.r = p
  BY DEF Extend
<1>6. Lengthened(fat, start, n, c, F)
  BY <1>4 DEF Lengthened
<1>7. p \in RiderRecs /\ p.file = r.file /\ p.pos = r.pos /\ p.cluster = c /\ p.clusterIdx = n /\ p.secOfs = 0
  <2>1. c \in ClusterRefs /\ 0 \in Secs
    BY <1>1, Constants, References DEF Secs
  <2>2. p = [r EXCEPT !.cluster = c, !.clusterIdx = n, !.secOfs = 0]
    BY <1>4
  <2>3. QED
    BY <1>3, <2>1, <2>2 DEF RiderRecs
<1> HIDE DEF F, p, c
<1>8. /\ F \in FATs
      /\ \A k \in 0 .. (n - 1) : FollowChain(F, start, k) = FollowChain(fat, start, k)
      /\ FollowChain(F, start, n) = c
      /\ Reach(F, start) = Reach(fat, start) \cup {c}
      /\ \A d \in Clusters : d # c /\ d \notin Reach(fat, start) => F[d] = fat[d]
  BY <1>1, <1>2, <1>3, <1>4, <1>6, LongerChain
<1>9. ASSUME NEW k \in Nat, FollowChain(fat, start, k) \in Clusters
      PROVE  FollowChain(F, start, k) = FollowChain(fat, start, k)
  <2>1. k < n
    BY <1>2, <1>3, <1>9, EndStays
  <2>2. k \in 0 .. (n - 1)
    BY <1>3, <2>1
  <2>3. QED
    BY <1>8, <2>2
<1>10. Grown(f, F, f)
  BY <1>1, <1>8, <1>9 DEF Grown
<1>11. GoodIn(F, data, start, t, n + 1)
  BY <1>1, <1>2, <1>4, <1>6, GoodLonger
<1>12. OnCluster(F, f, p, n, r)
  BY <1>1, <1>7, <1>8 DEF OnCluster
<1>13. QED
  BY <1>3, <1>5, <1>10, <1>11, <1>12

\* The rider of a Write, whether it adds a cluster, and what it then has.
Standing(r) ==
  IF file[rider[r].file].startCluster < 2 THEN rider[r] ELSE SyncRider(fat, file[rider[r].file], rider[r])
Extends(r) == file[rider[r].file].startCluster < 2 \/ Standing(r).cluster \notin Clusters
Target(r) ==
  IF Extends(r) THEN Extend(file[rider[r].file], Standing(r))
  ELSE [f |-> file[rider[r].file], F |-> fat, r |-> Standing(r)]

\* The byte has its place: f with F has m clusters, p stands on the sector of
\* the position, and nothing the file held is lost.
Placed(r, h, F, g, p, m) ==
  /\ Grown(file[h], F, g)
  /\ m \in Nat /\ GoodIn(F, Seen(disk.data, file[h]), g.startCluster, text[h], m)
  /\ p \in RiderRecs /\ p.file = h /\ p.pos = rider[r].pos
  /\ p.pos < m * ClusterBytes /\ p.pos <= Len(text[h])
  /\ p.cluster = FollowChain(F, g.startCluster, p.clusterIdx)
  /\ SectorAt(F, g.startCluster, p.pos) = <<p.cluster, p.secOfs>>
  /\ p.cluster \in Clusters /\ p.cluster \in Reach(F, g.startCluster)
  /\ BufIdx(p) = p.pos % SectorSize
  /\ Extends(r) => p.pos = Len(text[h])
  /\ ~Extends(r) => F = fat /\ g = file[h]

\* The rider that Write starts from is in step with its file.
LEMMA StandingRider ==
  ASSUME IInv, NEW r \in DOMAIN rider \ stale, NEW h, h = rider[r].file, NEW at, at = Standing(r)
  PROVE  /\ h \in DOMAIN file /\ at \in RiderRecs /\ at.file = h /\ at.pos = rider[r].pos
         /\ at.pos <= Len(text[h])
         /\ at.cluster = FollowChain(fat, file[h].startCluster, at.clusterIdx)
         /\ file[h].startCluster \in Clusters =>
              /\ at.clusterIdx = at.pos \div ClusterBytes
              /\ at.cluster = FollowChain(fat, file[h].startCluster, at.pos \div ClusterBytes)
              /\ at.secOfs = (at.pos % ClusterBytes) \div SectorSize
<1> DEFINE f == file[h]
<1>1. /\ h \in DOMAIN file /\ rider[r].cluster = FollowChain(fat, f.startCluster, rider[r].clusterIdx)
      /\ rider[r].pos <= f.len
  BY DEF IInv, RidersInStep
<1>2. /\ fat \in FATs /\ f \in FileRecs /\ rider[r] \in RiderRecs /\ FilesOK
  BY <1>1, TypeFacts DEF IInv, FilesOK
<1>3. f.len = Len(text[h])
  BY <1>1, <1>2 DEF FilesOK, OpenFiles, FileOK
<1>4. CASE f.startCluster < 2
  <2>1. at = rider[r]
    BY <1>4 DEF Standing
  <2>2. f.startCluster \notin Clusters
    BY <1>4 DEF Clusters
  <2>3. QED
    BY <1>1, <1>2, <1>3, <2>1, <2>2
<1>5. CASE ~(f.startCluster < 2)
  <2>1. at = SyncRider(fat, f, rider[r])
    BY <1>5 DEF Standing
  <2>2. /\ at \in RiderRecs /\ at.file = h /\ at.pos = rider[r].pos
        /\ at.clusterIdx = at.pos \div ClusterBytes
        /\ at.cluster = FollowChain(fat, f.startCluster, at.pos \div ClusterBytes)
        /\ at.secOfs = (at.pos % ClusterBytes) \div SectorSize
    BY <1>1, <1>2, <2>1, SyncedRider
  <2>3. QED
    BY <1>1, <1>3, <2>2
<1>6. QED
  BY <1>4, <1>5

\* A position a whole number of clusters into a file is at the start of one.
LEMMA ClusterStart ==
  ASSUME NEW n \in Nat, NEW pos, pos = n * ClusterBytes
  PROVE  pos \in Nat /\ pos \div ClusterBytes = n /\ (pos % ClusterBytes) \div SectorSize = 0
<1>1. pos \in Nat /\ pos \div ClusterBytes = n
  BY ClusterOf, Geometry
<1>2. ClusterBytes \in Nat /\ ClusterBytes > 0
  BY Geometry
<1>3. pos = (pos \div ClusterBytes) * ClusterBytes + (pos % ClusterBytes) /\ pos % ClusterBytes \in Nat
  BY <1>1, <1>2, Division
<1>4. pos % ClusterBytes = 0
  BY <1>1, <1>2, <1>3
<1>5. 0 \div SectorSize = 0
  BY Constants
<1>6. QED
  BY <1>1, <1>4, <1>5

\* A rider on the sector of its position.
LEMMA RiderOnSector ==
  ASSUME NEW F \in FATs, NEW start \in ClusterRefs, NEW m, Ends(F, start, m), NEW p \in RiderRecs,
         p.pos < m * ClusterBytes, p.clusterIdx = p.pos \div ClusterBytes,
         p.cluster = FollowChain(F, start, p.clusterIdx),
         p.secOfs = (p.pos % ClusterBytes) \div SectorSize
  PROVE  /\ SectorAt(F, start, p.pos) = <<p.cluster, p.secOfs>>
         /\ p.cluster \in Clusters /\ p.cluster \in Reach(F, start)
         /\ BufIdx(p) = p.pos % SectorSize
<1>1. p.pos \in Nat
  BY DEF RiderRecs
<1>2. SectorAt(F, start, p.pos) = <<p.cluster, p.secOfs>>
  BY DEF SectorAt
<1>3. /\ SectorAt(F, start, p.pos) \in Clusters \X Secs
      /\ SectorAt(F, start, p.pos)[1] \in Reach(F, start)
  BY <1>1, BlockOfPosition
<1>4. BufIdx(p) = p.pos % SectorSize
  BY <1>1, Geometry DEF BufIdx
<1>5. QED
  BY <1>2, <1>3, <1>4

\* A cluster that was added is the place of a byte at the end of the file.
LEMMA AddedPlace ==
  ASSUME NEW r, NEW h, NEW F, NEW g, NEW p, NEW k \in Nat, NEW at \in RiderRecs, NEW start, start = g.startCluster,
         Grown(file[h], F, g), GoodIn(F, Seen(disk.data, file[h]), start, text[h], k + 1),
         OnCluster(F, g, p, k, at), at.file = h, at.pos = rider[r].pos,
         at.pos = k * ClusterBytes, at.pos = Len(text[h]), Extends(r)
  PROVE  Placed(r, h, F, g, p, k + 1)
<1>1. /\ p \in RiderRecs /\ p.file = h /\ p.pos = at.pos /\ p.cluster = FollowChain(F, start, k)
      /\ p.clusterIdx = k /\ p.secOfs = 0
  BY DEF OnCluster
<1>2. at.pos \in Nat /\ at.pos \div ClusterBytes = k /\ (at.pos % ClusterBytes) \div SectorSize = 0
  BY ClusterStart
<1>3. k + 1 \in Nat /\ k < k + 1
  OBVIOUS
<1>4. at.pos < (k + 1) * ClusterBytes
  BY <1>2, <1>3, ClusterOf
<1>5. F \in FATs /\ g \in FileRecs /\ start \in ClusterRefs
  BY FileFields DEF Grown
<1>6. Ends(F, start, k + 1)
  BY GoodEnds
<1>7. /\ SectorAt(F, start, p.pos) = <<p.cluster, p.secOfs>>
      /\ p.cluster \in Clusters /\ p.cluster \in Reach(F, start)
      /\ BufIdx(p) = p.pos % SectorSize
  BY <1>1, <1>2, <1>4, <1>5, <1>6, RiderOnSector
<1>8. p.pos = rider[r].pos /\ p.pos <= Len(text[h]) /\ p.cluster = FollowChain(F, start, p.clusterIdx)
      /\ p.pos < (k + 1) * ClusterBytes /\ p.pos = Len(text[h])
  BY <1>1, <1>2, <1>4
<1>9. QED
  BY <1>1, <1>3, <1>7, <1>8 DEF Placed

\* Write finds or makes a place for its byte whenever the disk is not full.
LEMMA PlaceOfByte ==
  ASSUME IInv, NEW r \in DOMAIN rider \ stale, NEW h, h = rider[r].file, ~Extends(r) \/ FreeClusters(fat) # {},
         NEW to, to = Target(r)
  PROVE  \E m : Placed(r, h, to.F, to.f, to.r, m)
<1> DEFINE f == file[h]
           t == text[h]
           data == Seen(disk.data, f)
           at == Standing(r)
<1>1. /\ h \in DOMAIN file /\ at \in RiderRecs /\ at.file = h /\ at.pos = rider[r].pos
      /\ at.pos <= Len(t)
      /\ at.cluster = FollowChain(fat, f.startCluster, at.clusterIdx)
      /\ f.startCluster \in Clusters =>
           /\ at.clusterIdx = at.pos \div ClusterBytes
           /\ at.cluster = FollowChain(fat, f.startCluster, at.pos \div ClusterBytes)
           /\ at.secOfs = (at.pos % ClusterBytes) \div SectorSize
  BY StandingRider
<1>2. /\ fat \in FATs /\ f \in FileRecs /\ t \in Texts /\ f.startCluster \in ClusterRefs /\ FilesOK
      /\ Len(t) \in Nat /\ at.pos \in Nat
  BY <1>1, TypeFacts, RecordFields, LenProperties DEF IInv, FilesOK, RiderRecs, Texts
<1>3. PICK n \in Nat : GoodIn(fat, data, f.startCluster, t, n)
  BY <1>1, <1>2 DEF FilesOK, OpenFiles, FileOK, Good
<1>4. Ends(fat, f.startCluster, n) /\ Len(t) <= n * ClusterBytes
  BY <1>3, GoodEnds
<1>5. f.startCluster \in Clusters <=> f.startCluster >= 2
  BY <1>2, FileFields
<1>6. f.startCluster \in Nat
  BY <1>2, References
<1> HIDE DEF at
<1>7. CASE ~Extends(r)
  <2>1. f.startCluster \in Clusters /\ at.cluster \in Clusters
    BY <1>5, <1>6, <1>7 DEF Extends, at
  <2>2. to = [f |-> f, F |-> fat, r |-> at]
    BY <1>7 DEF Target, at
  <2>3. at.pos \div ClusterBytes \in Nat
    BY <1>2, Geometry
  <2>4. at.pos \div ClusterBytes < n
    BY <1>1, <1>2, <1>4, <2>1, <2>3, EndStays
  <2>5. at.pos < n * ClusterBytes
    BY <1>2, <1>3, <2>4, ClusterOf
  <2>6. /\ SectorAt(fat, f.startCluster, at.pos) = <<at.cluster, at.secOfs>>
        /\ at.cluster \in Reach(fat, f.startCluster)
        /\ BufIdx(at) = at.pos % SectorSize
    BY <1>1, <1>2, <1>4, <2>1, <2>5, RiderOnSector
  <2>7. Grown(f, fat, f)
    BY <1>2 DEF Grown
  <2>8. Placed(r, h, fat, f, at, n)
    BY <1>1, <1>3, <1>7, <2>1, <2>5, <2>6, <2>7 DEF Placed
  <2>9. QED
    BY <2>2, <2>8
<1>8. CASE Extends(r) /\ f.startCluster < 2
  <2>1. to = Extend(f, at)
    BY <1>8 DEF Target, at
  <2> HIDE DEF f, t, data
  <2>2. /\ n = 0 /\ Grown(f, to.F, to.f)
        /\ GoodIn(to.F, data, to.f.startCluster, t, 1)
        /\ OnCluster(to.F, to.f, to.r, 0, at)
    BY <1>1, <1>2, <1>3, <1>8, <2>1, FirstCluster
  <2>3. 0 * ClusterBytes = 0 /\ 0 + 1 = 1 /\ 0 \in Nat
    BY Geometry
  <2>4. at.pos = 0 * ClusterBytes /\ at.pos = Len(t)
    BY <1>1, <1>2, <1>4, <2>2, <2>3
  <2>5. Placed(r, h, to.F, to.f, to.r, 0 + 1)
    BY <1>1, <1>8, <2>2, <2>3, <2>4, AddedPlace DEF f, t, data
  <2>6. QED
    BY <2>5
<1>9. CASE Extends(r) /\ ~(f.startCluster < 2)
  <2>1. to = Extend(f, at) /\ at.cluster \notin Clusters
    BY <1>9 DEF Target, Extends, at
  <2>2. f.startCluster \in Clusters
    BY <1>5, <1>6, <1>9
  <2>3. at.pos = n * ClusterBytes /\ at.pos = Len(t)
    <3>1. at.pos \div ClusterBytes \in Nat
      BY <1>2, Geometry
    <3>2. ~(at.pos \div ClusterBytes < n)
      BY <1>1, <1>2, <1>4, <2>1, <2>2, <3>1, EndStays
    <3>3. ~(at.pos < n * ClusterBytes) /\ n * ClusterBytes \in Nat
      BY <1>2, <1>3, <3>2, ClusterOf
    <3>4. QED
      BY <1>1, <1>2, <1>4, <3>3
  <2> HIDE DEF f, t, data
  <2>4. /\ n \in Nat /\ Grown(f, to.F, to.f)
        /\ GoodIn(to.F, data, to.f.startCluster, t, n + 1)
        /\ OnCluster(to.F, to.f, to.r, n, at)
    BY <1>1, <1>2, <1>3, <1>9, <2>1, OneMoreCluster
  <2>5. Placed(r, h, to.F, to.f, to.r, n + 1)
    BY <1>1, <1>9, <2>3, <2>4, AddedPlace DEF f, t, data
  <2>6. QED
    BY <2>5
<1>10. QED
  BY <1>7, <1>8, <1>9

\* A file that has grown has the buffer it had.
LEMMA GrownBuffer ==
  ASSUME NEW f \in FileRecs, NEW F, NEW g, Grown(f, F, g), BufferOK(fat, disk.data, f)
  PROVE  /\ BufferOK(F, disk.data, g)
         /\ Seen(disk.data, g) = Seen(disk.data, f)
         /\ FlushFile(g) = FlushFile(f)
<1>1. /\ g.buf = f.buf /\ g.bufCluster = f.bufCluster /\ g.bufSecOfs = f.bufSecOfs
      /\ g.bufDirty <=> f.bufDirty
      /\ Reach(fat, f.startCluster) \subseteq Reach(F, g.startCluster)
  BY DEF Grown
<1>2. BufferOK(F, disk.data, g)
  BY <1>1 DEF BufferOK
<1>3. Seen(disk.data, g) = Seen(disk.data, f)
  BY <1>1 DEF Seen
<1>4. FlushFile(g) = FlushFile(f)
  BY <1>1 DEF FlushFile
<1>5. QED
  BY <1>2, <1>3, <1>4

\* The buffer with the byte x in it, and the length and mark of its file.
Filled(g, p, x, len, new) ==
  new = [g EXCEPT !.buf[BufIdx(p)] = x, !.bufDirty = TRUE,
                  !.len = IF p.pos + 1 > len THEN p.pos + 1 ELSE len,
                  !.modified = @ \/ p.pos + 1 > len]

\* The fields of the file when the byte is in its buffer.
LEMMA FilledFile ==
  ASSUME NEW g \in FileRecs, NEW p \in RiderRecs, BufIdx(p) \in 0 .. (SectorSize - 1), NEW x \in Bytes,
         NEW len \in Nat, NEW new, Filled(g, p, x, len, new)
  PROVE  /\ new \in FileRecs /\ new.buf = [g.buf EXCEPT ![BufIdx(p)] = x] /\ new.bufDirty
         /\ new.bufCluster = g.bufCluster /\ new.bufSecOfs = g.bufSecOfs
         /\ new.startCluster = g.startCluster /\ new.dirEntry = g.dirEntry
         /\ new.registered <=> g.registered
         /\ new.modified <=> g.modified \/ p.pos + 1 > len
         /\ p.pos + 1 > len => new.len = p.pos + 1
         /\ ~(p.pos + 1 > len) => new.len = len
<1>1. p.pos \in Nat
  BY DEF RiderRecs
<1> DEFINE b == [g.buf EXCEPT ![BufIdx(p)] = x]
           l == IF p.pos + 1 > len THEN p.pos + 1 ELSE len
           m == g.modified \/ p.pos + 1 > len
<1>2. b \in Sectors
  <2>1. g.buf \in Sectors
    BY FileFields
  <2>2. QED
    BY <2>1 DEF Sectors
<1>3. l \in Nat
  BY <1>1
<1>4. m \in BOOLEAN
  OBVIOUS
<1>5. new = [g EXCEPT !.buf = b, !.bufDirty = TRUE, !.len = l, !.modified = m]
  BY DEF Filled, FileRecs
<1> HIDE DEF b, l, m
<1>6. /\ new \in FileRecs /\ new.buf = b /\ new.bufDirty = TRUE
      /\ new.bufCluster = g.bufCluster /\ new.bufSecOfs = g.bufSecOfs
      /\ new.startCluster = g.startCluster /\ new.dirEntry = g.dirEntry
      /\ new.registered = g.registered /\ new.modified = m /\ new.len = l
  BY <1>2, <1>3, <1>4, <1>5 DEF FileRecs
<1>7. (p.pos + 1 > len => l = p.pos + 1) /\ (~(p.pos + 1 > len) => l = len)
  BY DEF l
<1>8. m <=> g.modified \/ p.pos + 1 > len
  BY DEF m
<1>9. QED
  BY <1>6, <1>7, <1>8 DEF b

\* What the disk and the file are when the byte is in its place.
Stored(h, F, g, p, x, D, new) ==
  /\ D \in Disks /\ D.fat = disk.fat /\ D.dir = disk.dir
  /\ D.data = Seen(disk.data, file[h]) \/ D.data = disk.data
  /\ new \in FileRecs /\ new.startCluster = g.startCluster /\ new.dirEntry = file[h].dirEntry
  /\ new.registered <=> file[h].registered
  /\ new.modified <=> file[h].modified \/ p.pos + 1 > file[h].len
  /\ p.pos + 1 > file[h].len => new.len = p.pos + 1
  /\ ~(p.pos + 1 > file[h].len) => new.len = file[h].len
  /\ Overwrite(text[h], p.pos, x) \in Texts
  /\ FileOK(F, D.data, new, Overwrite(text[h], p.pos, x))

\* With the byte in the buffer the file holds its text and that byte.
LEMMA ByteStored ==
  ASSUME IInv, NEW r, NEW h \in DOMAIN file, NEW F, NEW g, NEW p, NEW m, Placed(r, h, F, g, p, m), NEW x \in Bytes,
         NEW e, e = EnsureSector(g, p.cluster, p.secOfs), NEW new, Filled(e.f, p, x, file[h].len, new)
  PROVE  /\ Stored(h, F, g, p, x, After(e.writes), new) /\ BufIdx(p) \in 0 .. (SectorSize - 1)
         /\ e.writes = <<>> \/ e.writes = FlushFile(file[h])
<1> DEFINE f == file[h]
           t == text[h]
           s == g.startCluster
           data == Seen(disk.data, f)
           D == After(e.writes)
           at == <<p.cluster, p.secOfs>>
           idx == BufIdx(p)
           u == Overwrite(t, p.pos, x)
           put == [data EXCEPT ![at] = [@ EXCEPT ![idx] = x]]
<1>1. /\ Grown(f, F, g) /\ m \in Nat /\ GoodIn(F, data, s, t, m)
      /\ p \in RiderRecs /\ p.pos < m * ClusterBytes /\ p.pos <= Len(t)
      /\ SectorAt(F, s, p.pos) = at
      /\ p.cluster \in Clusters /\ p.cluster \in Reach(F, s)
      /\ idx = p.pos % SectorSize
  BY DEF Placed
<1>2. /\ F \in FATs /\ g \in FileRecs /\ g.len = f.len /\ g.dirEntry = f.dirEntry
      /\ g.registered <=> f.registered
      /\ g.modified <=> f.modified
  BY <1>1 DEF Grown
<1>3. /\ disk \in Disks /\ disk.data \in Blocks /\ f \in FileRecs /\ t \in Texts /\ f.len \in Nat
      /\ FileOK(fat, disk.data, f, t) /\ s \in ClusterRefs
  <2>1. disk \in Disks /\ disk.data \in Blocks /\ f \in FileRecs /\ t \in Texts /\ FileOK(fat, disk.data, f, t)
    BY TypeFacts DEF IInv, OpenFiles
  <2>2. f.len \in Nat
    BY <2>1, FileFields
  <2>3. s \in ClusterRefs
    BY <1>2, FileFields
  <2>4. QED
    BY <2>1, <2>2, <2>3
<1>4. f.len = Len(t) /\ BufferOK(fat, disk.data, f)
  BY <1>3 DEF FileOK
<1> HIDE DEF f, t
<1>5. BufferOK(F, disk.data, g) /\ Seen(disk.data, g) = data /\ FlushFile(g) = FlushFile(f)
  BY <1>1, <1>3, <1>4, GrownBuffer
<1>6. p.pos \in Nat /\ p.secOfs \in Secs
  BY <1>1 DEF RiderRecs
<1>7. /\ Loaded(g, e.f, p.cluster, p.secOfs)
      /\ e.writes = <<>> \/ e.writes = FlushFile(g)
      /\ D \in Disks /\ D.fat = disk.fat /\ D.dir = disk.dir
      /\ D.data = Seen(disk.data, g) \/ D.data = disk.data
      /\ Seen(D.data, e.f) = Seen(disk.data, g)
      /\ e.f.buf = Seen(disk.data, g)[at]
  BY <1>1, <1>2, <1>3, <1>5, <1>6, EnsuredSector
<1>8. idx \in 0 .. (SectorSize - 1)
  BY <1>1, <1>6, Geometry
<1> HIDE DEF s, data, idx
<1>9. /\ e.f \in FileRecs /\ e.f.bufCluster = p.cluster /\ e.f.bufSecOfs = p.secOfs
      /\ e.f.startCluster = s /\ e.f.dirEntry = f.dirEntry
      /\ e.f.registered <=> f.registered
      /\ e.f.modified <=> f.modified
  BY <1>2, <1>7 DEF Loaded, s
<1>10. /\ new \in FileRecs /\ new.buf = [e.f.buf EXCEPT ![idx] = x] /\ new.bufDirty
       /\ new.bufCluster = e.f.bufCluster /\ new.bufSecOfs = e.f.bufSecOfs
       /\ new.startCluster = e.f.startCluster /\ new.dirEntry = e.f.dirEntry
       /\ new.registered <=> e.f.registered
       /\ new.modified <=> e.f.modified \/ p.pos + 1 > f.len
       /\ p.pos + 1 > f.len => new.len = p.pos + 1
       /\ ~(p.pos + 1 > f.len) => new.len = f.len
  BY <1>1, <1>3, <1>8, <1>9, FilledFile DEF f, idx
<1> HIDE DEF D
<1>11. Seen(D.data, new) = put
  <2>1. data \in Blocks /\ D.data \in Blocks /\ at \in Clusters \X Secs
    BY <1>1, <1>3, <1>6, <1>7, SeenType DEF Disks, data
  <2>2. e.f.buf = data[at]
    BY <1>5, <1>7
  <2>3. data = [D.data EXCEPT ![at] = e.f.buf]
    BY <1>1, <1>5, <1>7, <1>9 DEF Seen
  <2>4. Seen(D.data, new) = [D.data EXCEPT ![at] = new.buf]
    BY <1>1, <1>9, <1>10 DEF Seen
  <2>5. put = [data EXCEPT ![at] = new.buf]
    BY <1>10, <2>2
  <2>6. QED
    BY <2>1, <2>3, <2>4, <2>5 DEF Blocks
<1>12. /\ u \in Texts /\ GoodIn(F, put, s, u, m)
       /\ p.pos + 1 > Len(t) => Len(u) = p.pos + 1
       /\ ~(p.pos + 1 > Len(t)) => Len(u) = Len(t)
  <2>1. BytePut(F, data, s, p.pos, x, put)
    BY <1>1 DEF s, idx, BytePut
  <2>2. data \in Blocks
    BY <1>3, SeenType DEF data
  <2>3. GoodIn(F, data, s, t, m)
    BY <1>1 DEF s, data
  <2> HIDE DEF put
  <2>4. QED
    BY <1>1, <1>2, <1>3, <1>6, <2>1, <2>2, <2>3, GoodOverwrite
<1> HIDE DEF put, u
<1>13. FileOK(F, D.data, new, u)
  <2>1. new.len = Len(u)
    BY <1>3, <1>4, <1>6, <1>10, <1>12
  <2>2. BufferOK(F, D.data, new)
    <3>1. new.bufCluster = p.cluster /\ new.startCluster = s /\ p.cluster \in Reach(F, s)
      BY <1>1, <1>9, <1>10 DEF s
    <3>2. new.bufCluster # -1
      BY <1>1, <3>1 DEF Clusters
    <3>3. QED
      BY <1>10, <3>1, <3>2 DEF BufferOK
  <2>3. Good(F, Seen(D.data, new), new.startCluster, u)
    BY <1>1, <1>9, <1>10, <1>11, <1>12 DEF Good
  <2>4. QED
    BY <2>1, <2>2, <2>3 DEF FileOK
<1>14. Stored(h, F, g, p, x, D, new)
  BY <1>5, <1>7, <1>9, <1>10, <1>12, <1>13 DEF Stored, f, t, u, s, data
<1>15. QED
  BY <1>5, <1>7, <1>8, <1>14 DEF D, f, idx

\* The byte is written and the call returns.
ByteWritten(r, h, F, p, x, new) ==
  /\ h = rider[r].file /\ saved' = saved /\ torn' = {s \in torn : disk'.dir[s] # NoEntry}
  /\ misread' = misread /\ wild' = wild
  /\ fat' = F /\ fatDirty' = (fatDirty \/ Extends(r))
  /\ file' = [file EXCEPT ![h] = new]
  /\ rider' = [rider EXCEPT ![r] = [p EXCEPT !.pos = p.pos + 1]]
  /\ text' = [text EXCEPT ![h] = Overwrite(@, p.pos, x)]
  /\ stale' = IF Extends(r) THEN stale \cup (PastTheEnd(h) \ {r}) ELSE stale

\* The clusters of the other files are taken, so that none is added to h.
LEMMA OthersTaken ==
  ASSUME FilesOK, NEW h \in DOMAIN file, NEW E, Carried({h}, E), NEW c \in Others({h}, E)
  PROVE  \A d \in Reach(fat, c) : fat[d] # FATFree
<1>1. fat \in FATs /\ c \in ClusterRefs
  BY TypeFacts, OthersApart DEF FilesOK
<1>2. \E data, t, n : GoodIn(fat, data, c, t, n)
  <2>1. CASE \E g \in DOMAIN file' \ {h} : c = file'[g].startCluster
    <3>1. PICK g \in DOMAIN file' \ {h} : c = file'[g].startCluster
      BY <2>1
    <3>2. g \in DOMAIN file /\ c = file[g].startCluster
      BY <3>1 DEF Carried
    <3>3. FileOK(fat, disk.data, file[g], text[g])
      BY <3>2 DEF FilesOK, OpenFiles
    <3>4. QED
      BY <3>2, <3>3 DEF FileOK, Good
  <2>2. CASE \E s \in Idle' \ E : c = disk'.dir[s].cluster
    <3>1. PICK s \in Idle' \ E : c = disk'.dir[s].cluster
      BY <2>2
    <3>2. s \in Idle /\ c = disk.dir[s].cluster
      BY <3>1 DEF Carried
    <3>3. EntryOK(fat, disk, s, saved[s])
      BY <3>2 DEF FilesOK, IdleEntries
    <3>4. QED
      BY <3>2, <3>3 DEF EntryOK, Good
  <2>3. QED
    BY <2>1, <2>2 DEF Others
<1>3. PICK data, t, n : GoodIn(fat, data, c, t, n)
  BY <1>2
<1>4. Ends(fat, c, n) /\ (n > 0 => FollowChain(fat, c, n) = EOC)
  BY <1>3, GoodEnds
<1>5. QED
  BY <1>1, <1>4, ChainTaken

\* The other files carry over when a file grows: only free clusters are added.
LEMMA GrownFrame ==
  ASSUME FilesOK, NEW h \in DOMAIN file, NEW g, Grown(file[h], fat', g), Carried({h}, {}),
         disk'.fat = disk.fat, disk'.data = Seen(disk.data, file[h]) \/ disk'.data = disk.data
  PROVE  Framing({h}, {}) /\ ApartFromOthers(g.startCluster, {h}, {})
<1> DEFINE f == file[h]
<1>1. /\ fat \in FATs /\ fat' \in FATs /\ f \in FileRecs /\ FileOK(fat, disk.data, f, text[h])
      /\ \A d \in Reach(fat', g.startCluster) : d \in Reach(fat, f.startCluster) \/ fat[d] = FATFree
      /\ \A d \in Clusters : d \notin Reach(fat', g.startCluster) => fat'[d] = fat[d]
  BY TypeFacts DEF FilesOK, Grown, OpenFiles
<1>2. ASSUME NEW c \in Others({h}, {})
      PROVE  /\ Agree(fat, fat', c) /\ SameBlocks(disk.data, disk'.data, Reach(fat, c))
             /\ Agree(fat, disk.fat, c) => Agree(fat', disk'.fat, c)
             /\ Reach(fat', g.startCluster) \cap Reach(fat, c) = {}
  <2>1. c \in ClusterRefs /\ Apart(fat, f.startCluster, c)
    BY OthersApart
  <2>2. \A d \in Reach(fat, c) : fat[d] # FATFree
    BY OthersTaken
  <2>3. Reach(fat', g.startCluster) \cap Reach(fat, c) = {}
    BY <1>1, <2>1, <2>2 DEF Apart
  <2>4. Reach(fat, c) \subseteq Clusters
    BY DEF Reach
  <2>5. Agree(fat, fat', c)
    BY <1>1, <2>3, <2>4 DEF Agree
  <2>6. Reach(fat', c) = Reach(fat, c)
    BY <1>1, <2>1, <2>5, SameReach
  <2>7. Agree(fat, disk.fat, c) => Agree(fat', disk'.fat, c)
    BY <2>5, <2>6 DEF Agree
  <2>8. SameBlocks(disk.data, disk'.data, Reach(fat, c))
    <3>1. CASE disk'.data = disk.data
      BY <3>1 DEF SameBlocks
    <3>2. CASE disk'.data = Seen(disk.data, f)
      <4>1. FlushedTo(f).data = Seen(disk.data, f)
        BY <1>1, TypeFacts, FlushedBlocks DEF FilesOK, FileOK
      <4>2. QED
        BY <2>1, <3>2, <4>1, FlushApart
    <3>3. QED
      BY <3>1, <3>2
  <2>9. QED
    BY <2>3, <2>5, <2>7, <2>8
<1>3. QED
  BY <1>2 DEF Framing, ApartFromOthers

\* A byte written keeps the invariant; riders that its cluster overtakes are
\* stale.
LEMMA WrittenStep ==
  ASSUME IInv, NEW r \in DOMAIN rider \ stale, NEW h, NEW F, NEW g, NEW p, NEW m, Placed(r, h, F, g, p, m),
         NEW x \in Bytes, NEW new, Stored(h, F, g, p, x, disk', new), ByteWritten(r, h, F, p, x, new)
  PROVE  IInv'
<1> DEFINE f == file[h]
           t == text[h]
           u == Overwrite(t, p.pos, x)
           q0 == [p EXCEPT !.pos = p.pos + 1]
           H == {h}
           E == {}
<1>1. /\ h \in DOMAIN file /\ FilesOK /\ fat \in FATs /\ f \in FileRecs /\ t \in Texts
      /\ rider \in [DOMAIN rider -> RiderRecs] /\ f.len \in Nat /\ f.len = Len(t)
      /\ ~misread' /\ ~wild'
  <2>1. h \in DOMAIN file
    BY DEF ByteWritten, IInv, RidersInStep
  <2>2. FilesOK /\ ~misread' /\ ~wild'
    BY DEF IInv, FilesOK, ByteWritten
  <2>3. fat \in FATs /\ f \in FileRecs /\ t \in Texts /\ rider \in [DOMAIN rider -> RiderRecs]
    BY <2>1, <2>2, TypeFacts DEF FilesOK, Types
  <2>4. f.len = Len(t)
    BY <2>1, <2>2 DEF FilesOK, OpenFiles, FileOK
  <2>5. f.len \in Nat
    BY <2>3, FileFields
  <2>6. QED
    BY <2>1, <2>2, <2>3, <2>4, <2>5
<1>2. /\ disk' \in Disks /\ disk'.fat = disk.fat /\ disk'.dir = disk.dir
      /\ disk'.data = Seen(disk.data, f) \/ disk'.data = disk.data
      /\ new \in FileRecs /\ new.startCluster = g.startCluster /\ new.dirEntry = f.dirEntry
      /\ new.registered <=> f.registered
      /\ new.modified <=> f.modified \/ p.pos + 1 > f.len
      /\ p.pos + 1 > f.len => new.len = p.pos + 1
      /\ ~(p.pos + 1 > f.len) => new.len = f.len
      /\ u \in Texts
      /\ FileOK(F, disk'.data, new, u)
  BY DEF Stored
<1>3. /\ Grown(f, F, g) /\ p \in RiderRecs /\ p.file = h /\ p.pos = rider[r].pos
      /\ p.cluster = FollowChain(F, g.startCluster, p.clusterIdx)
      /\ p.pos <= Len(t)
      /\ Extends(r) => p.pos = Len(t)
      /\ ~Extends(r) => F = fat /\ g = f
  BY DEF Placed
<1>4. /\ saved' = saved /\ torn' = torn /\ fat' = F
      /\ fatDirty' <=> fatDirty \/ Extends(r)
      /\ fatDirty' \in BOOLEAN
      /\ file' = [file EXCEPT ![h] = new]
      /\ rider' = [rider EXCEPT ![r] = q0]
      /\ text' = [text EXCEPT ![h] = u]
  <2>1. \A s \in torn : disk.dir[s] # NoEntry
    BY <1>1 DEF FilesOK, Types
  <2>2. torn' = torn
    BY <1>2, <2>1 DEF ByteWritten
  <2>3. fatDirty' = (fatDirty \/ Extends(r))
    BY DEF ByteWritten
  <2>4. QED
    BY <2>2, <2>3 DEF ByteWritten
<1>5. F \in FATs /\ g \in FileRecs
  BY <1>3 DEF Grown
<1>6. q0 \in RiderRecs /\ q0.file = h /\ q0.pos = p.pos + 1 /\ q0.cluster = p.cluster /\ q0.clusterIdx = p.clusterIdx
      /\ p.pos \in Nat
  <2>1. p.pos \in Nat
    BY <1>3 DEF RiderRecs
  <2>2. QED
    BY <1>3, <2>1 DEF RiderRecs
<1> HIDE DEF f, t, u, q0
<1>7. /\ DOMAIN file' = DOMAIN file /\ file'[h] = new
      /\ \A k \in DOMAIN file \ {h} : file'[k] = file[k]
      /\ file' \in [DOMAIN file' -> FileRecs]
  BY <1>1, <1>2, <1>4 DEF FilesOK, Types
<1>8. /\ DOMAIN text' = DOMAIN file /\ text'[h] = u
      /\ \A k \in DOMAIN file \ {h} : text'[k] = text[k]
      /\ text' \in [DOMAIN file -> Texts]
  BY <1>1, <1>2, <1>4 DEF FilesOK, Types
<1>9. /\ DOMAIN rider' = DOMAIN rider /\ rider'[r] = q0
      /\ \A q \in DOMAIN rider \ {r} : rider'[q] = rider[q]
      /\ rider' \in [DOMAIN rider' -> RiderRecs]
  BY <1>1, <1>4, <1>6
<1>10. Types'
  <2>1. disk' \in Disks /\ fat' \in FATs /\ fatDirty' \in BOOLEAN
    BY <1>2, <1>4, <1>5
  <2>2. saved' \in [1 .. Slots -> Texts] /\ torn' \subseteq {s \in 1 .. Slots : disk'.dir[s] # NoEntry}
    BY <1>1, <1>2, <1>4 DEF FilesOK, Types
  <2>3. ~fatDirty' => disk'.fat = fat'
    BY <1>1, <1>2, <1>3, <1>4 DEF FilesOK, Types
  <2>4. DOMAIN file' \subseteq Handles
    BY <1>1, <1>7 DEF FilesOK, Types
  <2>5. QED
    BY <1>7, <1>8, <1>9, <2>1, <2>2, <2>3, <2>4 DEF Types
<1>11. \A k \in DOMAIN file : file'[k].dirEntry = file[k].dirEntry
  BY <1>2, <1>7 DEF f
<1>12. Idle' = Idle
  BY <1>2, <1>4, <1>7, <1>11 DEF Idle, InUse
<1>13. Carried(H, E)
  <2>1. ASSUME NEW k \in DOMAIN file, file[k].registered PROVE file[k].dirEntry \notin torn'
    BY <1>1, <1>4, <2>1, RegisteredSlots
  <2>2. QED
    BY <1>2, <1>4, <1>7, <1>8, <1>12, <2>1 DEF Carried
<1>14. Framing(H, E) /\ ApartFromOthers(g.startCluster, H, E)
  BY <1>1, <1>2, <1>3, <1>4, <1>13, GrownFrame DEF f
<1>15. Linked(h)'
  <2>1. Linked(h)
    BY <1>1 DEF FilesOK, OpenFiles
  <2>2. Len(u) \in Nat /\ new.len = Len(u) /\ Len(t) \in Nat
    BY <1>1, <1>2, LenProperties DEF FileOK, Texts
  <2>3. ASSUME f.registered PROVE Len(saved[f.dirEntry]) \in Nat /\ f.dirEntry \in 1 .. Slots
    <3>1. f.dirEntry \in 1 .. Slots
      BY <1>1, <2>3, RegisteredSlots DEF f
    <3>2. saved[f.dirEntry] \in Texts
      BY <1>1, <3>1, TypeFacts DEF FilesOK
    <3>3. QED
      BY <3>1, <3>2, LenProperties DEF Texts
  <2>4. ASSUME f.registered
        PROVE  /\ f.dirEntry \notin torn' /\ disk'.dir[f.dirEntry] # NoEntry
               /\ Len(saved'[f.dirEntry]) <= Len(u)
               /\ new.modified => Len(saved'[f.dirEntry]) # Len(u)
               /\ ~new.modified => /\ disk'.dir[f.dirEntry].cluster = new.startCluster
                                   /\ disk'.dir[f.dirEntry].len = new.len
                                   /\ Agree(fat', disk'.fat, new.startCluster)
    <3>1. /\ f.dirEntry \notin torn /\ disk.dir[f.dirEntry] # NoEntry
          /\ Len(saved[f.dirEntry]) <= Len(t)
          /\ f.modified => Len(saved[f.dirEntry]) # Len(t)
          /\ ~f.modified => /\ disk.dir[f.dirEntry].cluster = f.startCluster /\ disk.dir[f.dirEntry].len = f.len
                            /\ Agree(fat, disk.fat, f.startCluster)
      BY <2>1, <2>4 DEF Linked, f, t
    <3>2. CASE p.pos + 1 > f.len
      BY <1>1, <1>2, <1>4, <1>6, <2>2, <2>3, <2>4, <3>1, <3>2
    <3>3. CASE ~(p.pos + 1 > f.len)
      <4>1. ~Extends(r)
        BY <1>1, <1>3, <1>6, <3>3
      <4>2. F = fat /\ new.startCluster = f.startCluster /\ new.len = f.len /\ (new.modified <=> f.modified)
        BY <1>2, <1>3, <3>3, <4>1
      <4>3. QED
        BY <1>1, <1>2, <1>4, <2>2, <3>1, <4>2
    <3>4. QED
      BY <3>2, <3>3
  <2>5. QED
    BY <1>2, <1>7, <1>8, <2>4 DEF Linked
<1>16. Changed(H, E)
  <2>1. new.registered <=> new.dirEntry # 0
    BY <1>1, <1>2 DEF FilesOK, OpenFiles, f
  <2>2. \A k \in DOMAIN file' \ H : file'[h].dirEntry = 0 \/ file'[h].dirEntry # file[k].dirEntry
    BY <1>1, <1>7, <1>11 DEF FilesOK, NoSharing, OpenFiles
  <2>3. ApartFromOthers(file'[h].startCluster, H, E)
    BY <1>2, <1>7, <1>14
  <2>4. FileOK(fat', disk'.data, file'[h], text'[h])
    BY <1>2, <1>4, <1>7, <1>8
  <2>5. QED
    BY <1>7, <1>15, <2>1, <2>2, <2>3, <2>4 DEF Changed
<1>17. FilesOK'
  BY <1>1, <1>10, <1>13, <1>14, <1>16, FilesStep
<1>18. RidersInStep'
  <2>1. ASSUME NEW q \in DOMAIN rider'
        PROVE  /\ rider'[q].file \in DOMAIN file'
               /\ rider'[q].pos <= file'[rider'[q].file].len
               /\ q \notin stale' =>
                    rider'[q].cluster = FollowChain(fat', file'[rider'[q].file].startCluster, rider'[q].clusterIdx)
    <3>1. CASE q = r
      <4>1. rider'[q] = q0 /\ file'[h] = new /\ h \in DOMAIN file' /\ new.startCluster = g.startCluster
        BY <1>1, <1>2, <1>7, <1>9, <3>1
      <4>2. p.pos + 1 <= new.len
        BY <1>1, <1>2, <1>6
      <4>3. QED
        BY <1>3, <1>4, <1>6, <4>1, <4>2
    <3>2. CASE q # r /\ rider[q].file = h
      <4>1. rider'[q] = rider[q] /\ rider[q] \in RiderRecs /\ q \in DOMAIN rider
        BY <1>1, <1>9, <3>2
      <4>2. file'[h] = new /\ h \in DOMAIN file'
        BY <1>1, <1>7
      <4>3. ASSUME q \notin stale'
            PROVE  /\ q \notin stale
                   /\ Extends(r) => rider[q].cluster \in Clusters
        BY <3>2, <4>1, <4>3 DEF ByteWritten, PastTheEnd
      <4>4. ASSUME q \notin stale'
            PROVE  rider[q].cluster = FollowChain(fat, f.startCluster, rider[q].clusterIdx)
        BY <3>2, <4>1, <4>3, <4>4 DEF IInv, RidersInStep, f
      <4>5. rider[q].clusterIdx \in Nat /\ rider[q].pos \in Nat
        BY <4>1 DEF RiderRecs
      <4>6. f.len <= new.len
        BY <1>1, <1>2, <1>6
      <4>7. ASSUME q \notin stale'
            PROVE  FollowChain(F, new.startCluster, rider[q].clusterIdx) = rider[q].cluster
        <5>1. CASE Extends(r)
          <6>1. FollowChain(fat, f.startCluster, rider[q].clusterIdx) \in Clusters
            BY <4>3, <4>4, <4>7, <5>1
          <6>2. FollowChain(F, g.startCluster, rider[q].clusterIdx) = FollowChain(fat, f.startCluster, rider[q].clusterIdx)
            BY <1>3, <4>5, <6>1 DEF Grown
          <6>3. QED
            BY <1>2, <4>4, <4>7, <6>2
        <5>2. CASE ~Extends(r)
          BY <1>2, <1>3, <4>4, <4>7, <5>2
        <5>3. QED
          BY <5>1, <5>2
      <4>8. rider[q].pos <= new.len
        <5>1. new.len \in Nat /\ rider[q].pos <= f.len
          BY <1>2, <3>2, <4>1, FileFields DEF IInv, RidersInStep, f
        <5>2. QED
          BY <1>1, <4>5, <4>6, <5>1
      <4>9. QED
        BY <1>4, <3>2, <4>1, <4>2, <4>7, <4>8
    <3>3. CASE q # r /\ rider[q].file # h
      <4>1. rider'[q] = rider[q] /\ rider[q] \in RiderRecs /\ q \in DOMAIN rider
        BY <1>1, <1>9, <3>3
      <4>2. rider[q].file \in DOMAIN file /\ rider[q].clusterIdx \in Nat
        BY <4>1 DEF IInv, RidersInStep, RiderRecs
      <4>3. rider[q].file \in DOMAIN file' \ H
        BY <1>7, <3>3, <4>2
      <4>4. /\ file'[rider[q].file] = file[rider[q].file]
            /\ FollowChain(fat', file'[rider[q].file].startCluster, rider[q].clusterIdx)
                 = FollowChain(fat, file[rider[q].file].startCluster, rider[q].clusterIdx)
        BY <1>1, <1>10, <1>13, <1>14, <4>2, <4>3, OthersFollow
      <4>5. q \notin stale' => q \notin stale
        BY DEF ByteWritten
      <4>6. QED
        BY <4>1, <4>3, <4>4, <4>5 DEF IInv, RidersInStep
    <3>4. QED
      BY <3>1, <3>2, <3>3
  <2>2. QED
    BY <2>1 DEF RidersInStep
<1>19. QED
  BY <1>1, <1>17, <1>18 DEF IInv, FilesOK

\* The three ways of a Write: the disk is full, the byte goes to the buffer,
\* or it would go past it.
FullDisk(r) ==
  /\ Extends(r)
  /\ Writes(<<>>, {}, saved,
       /\ Memory(fat, fatDirty, file, [rider EXCEPT ![r] = Standing(r)], text)
       /\ UNCHANGED stale)

StoresByte(r, h, to, e, x) ==
  /\ ~Extends(r) \/ FreeClusters(fat) # {}
  /\ InBuffer(to.r)
  /\ Writes(e.writes, {}, saved,
       /\ Memory(to.F, fatDirty \/ Extends(r),
            [file EXCEPT ![h] =
               [e.f EXCEPT !.buf[BufIdx(to.r)] = x, !.bufDirty = TRUE,
                           !.len = IF to.r.pos + 1 > file[h].len THEN to.r.pos + 1 ELSE file[h].len,
                           !.modified = @ \/ to.r.pos + 1 > file[h].len]],
            [rider EXCEPT ![r] = [to.r EXCEPT !.pos = to.r.pos + 1]],
            [text EXCEPT ![h] = Overwrite(@, to.r.pos, x)])
       /\ stale' = IF Extends(r) THEN stale \cup (PastTheEnd(h) \ {r}) ELSE stale)

\* A Write is one of the three.
LEMMA WriteCases ==
  ASSUME NEW r \in Riders, NEW x \in Bytes, Write(r, x)
  PROVE  /\ r \in DOMAIN rider \ stale
         /\ \/ FullDisk(r)
            \/ StoresByte(r, rider[r].file, Target(r),
                 EnsureSector(Target(r).f, Target(r).r.cluster, Target(r).r.secOfs), x)
            \/ (~Extends(r) \/ FreeClusters(fat) # {}) /\ ~InBuffer(Target(r).r)
<1>1. r \in DOMAIN rider \ stale
  BY Zenon DEF Write
<1>2. \/ FullDisk(r)
      \/ StoresByte(r, rider[r].file, Target(r),
           EnsureSector(Target(r).f, Target(r).r.cluster, Target(r).r.secOfs), x)
      \/ (~Extends(r) \/ FreeClusters(fat) # {}) /\ ~InBuffer(Target(r).r)
  BY Zenon DEF Write, FullDisk, StoresByte, Extends, Standing, Target
<1>3. QED
  BY <1>1, <1>2

\* A Write on a full disk keeps the invariant.
LEMMA FullDiskStep ==
  ASSUME IInv, NEW r \in DOMAIN rider \ stale, FullDisk(r)
  PROVE  IInv'
<1> DEFINE h  == rider[r].file
           at == Standing(r)
<1>1. misread' = misread /\ wild' = wild
  BY DEF FullDisk, Writes
<1>2. \/ /\ Returned(<<>>, saved)
         /\ Memory(fat, fatDirty, file, [rider EXCEPT ![r] = at], text) /\ stale' = stale
      \/ ResetDuring(<<>>, {}, saved)
  BY DEF FullDisk, Writes, Returned, ResetDuring
<1>3. /\ h \in DOMAIN file /\ at \in RiderRecs /\ at.file = h /\ at.pos = rider[r].pos
      /\ at.cluster = FollowChain(fat, file[h].startCluster, at.clusterIdx)
  BY StandingRider
<1>4. rider \in [DOMAIN rider -> RiderRecs]
  BY DEF IInv, Types
<1> HIDE DEF at
<1>5. ASSUME Returned(<<>>, saved),
             Memory(fat, fatDirty, file, [rider EXCEPT ![r] = at], text), stale' = stale
      PROVE  IInv'
  <2>1. fat' = fat /\ fatDirty' = fatDirty /\ file' = file /\ text' = text /\ rider' = [rider EXCEPT ![r] = at]
    BY <1>5 DEF Memory
  <2>2. /\ rider' \in [DOMAIN rider' -> RiderRecs] /\ DOMAIN rider' = DOMAIN rider /\ rider'[r] = at
        /\ \A q \in DOMAIN rider : q # r => rider'[q] = rider[q]
    BY <1>3, <1>4, <2>1
  <2>3. RidersInStep'
    <3>1. ASSUME NEW q \in DOMAIN rider'
          PROVE  /\ rider'[q].file \in DOMAIN file
                 /\ rider'[q].pos <= file[rider'[q].file].len
                 /\ q \notin stale =>
                      rider'[q].cluster = FollowChain(fat, file[rider'[q].file].startCluster, rider'[q].clusterIdx)
      <4>1. CASE q = r
        <5>1. rider[r].pos <= file[h].len
          BY DEF IInv, RidersInStep
        <5>2. QED
          BY <1>3, <2>2, <4>1, <5>1
      <4>2. CASE q # r
        BY <2>2, <4>2 DEF IInv, RidersInStep
      <4>3. QED
        BY <4>1, <4>2
    <3>2. QED
      BY <1>5, <2>1, <3>1 DEF RidersInStep
  <2>4. QED
    BY <1>1, <1>5, <2>1, <2>2, <2>3, RidersOnly
<1>6. QED
  BY <1>1, <1>2, <1>5, QuietReset

\* Write keeps the invariant, and its index is never outside the buffer.
LEMMA WriteStep ==
  ASSUME IInv, NEW r \in Riders, NEW x \in Bytes, Write(r, x)
  PROVE  IInv'
<1> DEFINE h   == rider[r].file
           to  == Target(r)
           F   == to.F
           g   == to.f
           p   == to.r
           e   == EnsureSector(g, p.cluster, p.secOfs)
           new == [e.f EXCEPT !.buf[BufIdx(p)] = x, !.bufDirty = TRUE,
                              !.len = IF p.pos + 1 > file[h].len THEN p.pos + 1 ELSE file[h].len,
                              !.modified = @ \/ p.pos + 1 > file[h].len]
<1>1. /\ r \in DOMAIN rider \ stale
      /\ \/ FullDisk(r)
         \/ StoresByte(r, h, to, e, x)
         \/ (~Extends(r) \/ FreeClusters(fat) # {}) /\ ~InBuffer(to.r)
  BY WriteCases
<1>2. h \in DOMAIN file /\ FilesOK /\ saved \in [1 .. Slots -> Texts] /\ {} \in SUBSET (1 .. Slots)
  BY <1>1 DEF IInv, RidersInStep, FilesOK, Types
<1>3. ASSUME ~Extends(r) \/ FreeClusters(fat) # {}
      PROVE  \E m : /\ Placed(r, h, F, g, p, m)
                    /\ Stored(h, F, g, p, x, After(e.writes), new) /\ BufIdx(p) \in 0 .. (SectorSize - 1)
                    /\ e.writes = <<>> \/ e.writes = FlushFile(file[h])
  <2>1. PICK m : Placed(r, h, F, g, p, m)
    BY <1>1, <1>3, PlaceOfByte
  <2>2. Filled(e.f, p, x, file[h].len, new)
    BY DEF Filled
  <2> HIDE DEF F, g, p, new, to, h
  <2>3. /\ Stored(h, F, g, p, x, After(e.writes), new) /\ BufIdx(p) \in 0 .. (SectorSize - 1)
        /\ e.writes = <<>> \/ e.writes = FlushFile(file[h])
    BY <1>2, <2>1, <2>2, ByteStored
  <2>4. QED
    BY <2>1, <2>3
<1>4. CASE FullDisk(r)
  BY <1>1, <1>4, FullDiskStep
<1>5. CASE (~Extends(r) \/ FreeClusters(fat) # {}) /\ ~InBuffer(to.r)
  BY <1>3, <1>5 DEF InBuffer
<1>6. CASE StoresByte(r, h, to, e, x)
  <2>1. PICK m : /\ Placed(r, h, F, g, p, m)
                 /\ Stored(h, F, g, p, x, After(e.writes), new)
                 /\ e.writes = <<>> \/ e.writes = FlushFile(file[h])
    BY <1>3, <1>6 DEF StoresByte
  <2>2. misread' = misread /\ wild' = wild
    BY <1>6 DEF StoresByte, Writes
  <2>3. \/ /\ disk' = After(e.writes)
           /\ ByteWritten(r, h, F, p, x, new)
        \/ ResetDuring(e.writes, {}, saved)
    BY <1>6 DEF StoresByte, Writes, Memory, ByteWritten, ResetDuring
  <2>4. Whole(e.writes, {}, saved)
    <3> HIDE DEF e
    <3>1. QED
      BY <1>2, <2>1, WholeFlush
  <2> HIDE DEF e, F, g, p, new, to, h
  <2>5. CASE ResetDuring(e.writes, {}, saved)
    BY <1>2, <2>2, <2>4, <2>5, CallOrReset
  <2>6. CASE disk' = After(e.writes) /\ ByteWritten(r, h, F, p, x, new)
    <3>1. Stored(h, F, g, p, x, disk', new)
      BY <2>1, <2>6
    <3>2. QED
      BY <1>1, <2>1, <2>6, <3>1, WrittenStep
  <2>7. QED
    BY <2>3, <2>5, <2>6
<1>7. QED
  BY <1>1, <1>4, <1>5, <1>6

-----------------------------------------------------------------------------
(* The invariant of every run. *)

\* A formatted disk is a disk without entries.
LEMMA FormattedDisk == ASSUME Init PROVE disk \in Disks /\ \A s \in 1 .. Slots : disk.dir[s] = NoEntry
<1> DEFINE F == [c \in Clusters |-> FATFree]
           D == [s \in 1 .. Slots |-> NoEntry]
           B == [at \in Clusters \X Secs |-> ZeroSector]
<1>1. disk = [fat |-> F, dir |-> D, data |-> B]
  BY DEF Init
<1>2. F \in FATs
  BY References DEF FATs
<1>3. D \in Dirs
  <2>1. NoEntry \in Entries
    BY EmptyEntry
  <2> HIDE DEF NoEntry
  <2>2. QED
    BY <2>1 DEF Dirs
<1>4. B \in Blocks
  <2>1. ZeroSector \in Sectors
    BY DEF ZeroSector, Sectors
  <2>2. QED
    BY <2>1 DEF Blocks
<1>5. \A s \in 1 .. Slots : D[s] = NoEntry
  OBVIOUS
<1> HIDE DEF F, D, B
<1>6. QED
  BY <1>1, <1>2, <1>3, <1>4, <1>5 DEF Disks

\* A formatted disk, mounted, has the invariant.
LEMMA InitHolds == ASSUME Init PROVE IInv
<1>1. disk \in Disks /\ \A s \in 1 .. Slots : disk.dir[s] = NoEntry
  BY FormattedDisk
<1>2. /\ fat = disk.fat /\ fatDirty = FALSE /\ file = <<>> /\ rider = <<>> /\ text = <<>>
      /\ saved = [s \in 1 .. Slots |-> <<>>] /\ torn = {} /\ ~misread /\ ~wild
  BY DEF Init
<1>3. DOMAIN file = {} /\ DOMAIN rider = {} /\ DOMAIN text = {}
  BY <1>2, EmptyFunction
<1>4. /\ file \in [DOMAIN file -> FileRecs] /\ text \in [DOMAIN file -> Texts]
      /\ rider \in [DOMAIN rider -> RiderRecs]
  BY <1>2, EmptyFunction
<1>5. saved \in [1 .. Slots -> Texts]
  BY <1>2, EmptyEntry
<1>6. fat \in FATs
  BY <1>1, <1>2 DEF Disks
<1>7. Types
  BY <1>1, <1>2, <1>3, <1>4, <1>5, <1>6 DEF Types
<1>8. Idle = {}
  BY <1>1 DEF Idle
<1>9. OpenFiles /\ IdleEntries /\ NoSharing /\ RidersInStep
  BY <1>3, <1>8 DEF OpenFiles, IdleEntries, NoSharing, RidersInStep
<1>10. QED
  BY <1>2, <1>7, <1>9 DEF IInv

\* A step that changes nothing keeps the invariant.
LEMMA StutterHolds == ASSUME IInv, UNCHANGED vars PROVE IInv'
<1>1. /\ disk' = disk /\ fat' = fat /\ fatDirty' = fatDirty /\ file' = file /\ rider' = rider /\ text' = text
      /\ stale' = stale /\ saved' = saved /\ torn' = torn /\ misread' = misread /\ wild' = wild
  BY DEF vars, memVars
<1>2. Idle' = Idle
  BY <1>1 DEF Idle, InUse
<1>3. Types'
  BY <1>1 DEF IInv, Types
<1>4. OpenFiles' /\ IdleEntries'
  BY <1>1, <1>2 DEF IInv, OpenFiles, IdleEntries, Linked
<1>5. NoSharing' /\ RidersInStep'
  BY <1>1, <1>2 DEF IInv, NoSharing, RidersInStep
<1>6. QED
  BY <1>1, <1>3, <1>4, <1>5 DEF IInv

\* Every call keeps the invariant.
LEMMA NextHolds == ASSUME IInv, Next PROVE IInv'
<1>1. ASSUME NEW h \in Handles, NEW name \in Names, Old(h, name) PROVE IInv'
  BY <1>1, OldStep
<1>2. ASSUME NEW h \in Handles, NEW name \in Names, New(h, name) PROVE IInv'
  BY <1>2, NewStep
<1>3. ASSUME NEW h \in Handles, Register(h) PROVE IInv'
  BY <1>3, RegisterStep
<1>4. ASSUME NEW h \in Handles, Close(h) PROVE IInv'
  BY <1>4, CloseStep
<1>5. ASSUME NEW name \in Names, Delete(name) PROVE IInv'
  BY <1>5, DeleteStep
<1>6. ASSUME NEW old \in Names, NEW new \in Names, Rename(old, new) PROVE IInv'
  BY <1>6, RenameStep
<1>7. ASSUME NEW r \in Riders, NEW h \in Handles, NEW pos \in 0 .. MaxLen, Set(r, h, pos) PROVE IInv'
  BY <1>7, SetStep
<1>8. ASSUME NEW r \in Riders, Read(r) PROVE IInv'
  BY <1>8, ReadStep
<1>9. ASSUME NEW r \in Riders, NEW x \in Bytes, Write(r, x) PROVE IInv'
  BY <1>9, WriteStep
<1>10. QED
  BY <1>1, <1>2, <1>3, <1>4, <1>5, <1>6, <1>7, <1>8, <1>9 DEF Next

\* Through every call, cut short by a reset or not, each open file and each
\* entry that was not being written is a chain of its own that holds its text.
THEOREM FilesInvariance == Spec => []IInv
<1>1. IInv /\ [Next]_vars => IInv'
  BY NextHolds, StutterHolds
<1>2. QED
  BY <1>1, InitHolds, PTL DEF Spec

-----------------------------------------------------------------------------
(* What the invariant says. *)

\* A file that is a good one has clusters for its length in a chain that ends.
LEMMA GoodChain ==
  ASSUME NEW F \in FATs, NEW data, NEW start \in ClusterRefs, NEW t \in Texts, Good(F, data, start, t)
  PROVE  /\ Chain(F, start) = Reach(F, start)
         /\ Len(t) <= Cardinality(Chain(F, start)) * ClusterBytes
         /\ Chain(F, start) # {} => \E c \in Chain(F, start) : F[c] = EOC
<1>1. PICK n \in Nat : GoodIn(F, data, start, t, n)
  BY DEF Good
<1>2. Ends(F, start, n) /\ (n > 0 => FollowChain(F, start, n) = EOC) /\ Len(t) <= n * ClusterBytes
  BY <1>1, GoodEnds
<1>3. Chain(F, start) = Reach(F, start) /\ Cardinality(Reach(F, start)) = n
  BY <1>2, HopsAndChain, ChainSize
<1>4. ASSUME NEW d \in Reach(F, start) PROVE \E c \in Reach(F, start) : F[c] = EOC
  <2>1. PICK k \in 0 .. (n - 1) : d = FollowChain(F, start, k)
    BY <1>2, <1>4, ChainSize
  <2>2. n > 0 /\ n - 1 \in Nat /\ (n - 1) + 1 = n
    BY <1>1, <2>1
  <2> DEFINE c == FollowChain(F, start, n - 1)
  <2>3. c \in Clusters
    BY <1>2, <2>2 DEF Ends
  <2>4. FollowChain(F, start, n) = Followed(F, c)
    BY <2>2, ChainStep
  <2>5. F[c] = EOC
    BY <1>2, <2>2, <2>3, <2>4 DEF Followed
  <2>6. c \in Reach(F, start)
    BY <2>2, <2>3 DEF Reach
  <2>7. QED
    BY <2>5, <2>6
<1>5. QED
  BY <1>2, <1>3, <1>4

OwnsClusters(a) ==
  LET chain == Chain(fat, a.start)
  IN  /\ chain = Reach(fat, a.start)
      /\ a.len <= Cardinality(chain) * ClusterBytes
      /\ chain # {} => \E c \in chain : fat[c] = EOC

\* An open file has clusters for its length.
LEMMA OpenOwn ==
  ASSUME IInv, NEW h \in DOMAIN file, NEW a, a.start = file[h].startCluster, a.len = file[h].len
  PROVE  OwnsClusters(a)
<1>1. fat \in FATs /\ file[h].startCluster \in ClusterRefs /\ text[h] \in Texts
  BY TypeFacts, RecordFields DEF IInv
<1>2. FileOK(fat, disk.data, file[h], text[h])
  BY DEF IInv, OpenFiles
<1>3. file[h].len = Len(text[h]) /\ Good(fat, Seen(disk.data, file[h]), file[h].startCluster, text[h])
  BY <1>2 DEF FileOK
<1>4. QED
  BY <1>1, <1>3, GoodChain DEF OwnsClusters

\* So has an entry nobody holds.
LEMMA IdleOwn ==
  ASSUME IInv, NEW s \in Idle, NEW a, a.start = disk.dir[s].cluster, a.len = disk.dir[s].len
  PROVE  OwnsClusters(a)
<1>1. fat \in FATs /\ disk.dir[s].cluster \in ClusterRefs /\ saved[s] \in Texts
  BY TypeFacts, RecordFields DEF IInv, Idle
<1>2. EntryOK(fat, disk, s, saved[s])
  BY DEF IInv, IdleEntries
<1>3. disk.dir[s].len = Len(saved[s]) /\ Good(fat, disk.data, disk.dir[s].cluster, saved[s])
  BY <1>2 DEF EntryOK
<1>4. QED
  BY <1>1, <1>3, GoodChain DEF OwnsClusters

\* The invariant says that files own their clusters.
LEMMA OwnershipFollows == ASSUME IInv PROVE FilesOwnTheirClusters
<1> DEFINE A == {[who |-> h, start |-> file[h].startCluster, len |-> file[h].len] : h \in DOMAIN file}
           B == {[who |-> s, start |-> disk.dir[s].cluster, len |-> disk.dir[s].len] : s \in Idle}
<1>1. AllFiles = A \cup B
  BY DEF AllFiles, Idle
<1>2. \A a \in AllFiles : OwnsClusters(a)
  <2>1. ASSUME NEW a \in A PROVE OwnsClusters(a)
    <3>1. PICK h \in DOMAIN file : a = [who |-> h, start |-> file[h].startCluster, len |-> file[h].len]
      OBVIOUS
    <3>2. QED
      BY <3>1, OpenOwn
  <2>2. ASSUME NEW a \in B PROVE OwnsClusters(a)
    <3>1. PICK s \in Idle : a = [who |-> s, start |-> disk.dir[s].cluster, len |-> disk.dir[s].len]
      OBVIOUS
    <3>2. QED
      BY <3>1, IdleOwn
  <2>3. QED
    BY <1>1, <2>1, <2>2
<1>3. ASSUME NEW a \in AllFiles, NEW b \in AllFiles, a # b PROVE Apart(fat, a.start, b.start)
  <2>1. NoSharing
    BY DEF IInv
  <2>2. CASE a \in A /\ b \in A
    <3>1. PICK g \in DOMAIN file : a = [who |-> g, start |-> file[g].startCluster, len |-> file[g].len]
      BY <2>2
    <3>2. PICK h \in DOMAIN file : b = [who |-> h, start |-> file[h].startCluster, len |-> file[h].len]
      BY <2>2
    <3>3. g # h
      BY <1>3, <3>1, <3>2
    <3>4. QED
      BY <2>1, <3>1, <3>2, <3>3 DEF NoSharing
  <2>3. CASE a \in A /\ b \in B
    <3>1. PICK g \in DOMAIN file : a = [who |-> g, start |-> file[g].startCluster, len |-> file[g].len]
      BY <2>3
    <3>2. PICK s \in Idle : b = [who |-> s, start |-> disk.dir[s].cluster, len |-> disk.dir[s].len]
      BY <2>3
    <3>3. QED
      BY <2>1, <3>1, <3>2 DEF NoSharing
  <2>4. CASE a \in B /\ b \in A
    <3>1. PICK g \in DOMAIN file : b = [who |-> g, start |-> file[g].startCluster, len |-> file[g].len]
      BY <2>4
    <3>2. PICK s \in Idle : a = [who |-> s, start |-> disk.dir[s].cluster, len |-> disk.dir[s].len]
      BY <2>4
    <3>3. QED
      BY <2>1, <3>1, <3>2 DEF NoSharing, Apart
  <2>5. CASE a \in B /\ b \in B
    <3>1. PICK s \in Idle : a = [who |-> s, start |-> disk.dir[s].cluster, len |-> disk.dir[s].len]
      BY <2>5
    <3>2. PICK u \in Idle : b = [who |-> u, start |-> disk.dir[u].cluster, len |-> disk.dir[u].len]
      BY <2>5
    <3>3. s # u
      BY <1>3, <3>1, <3>2
    <3>4. QED
      BY <2>1, <3>1, <3>2, <3>3 DEF NoSharing
  <2>6. QED
    BY <1>1, <2>2, <2>3, <2>4, <2>5
<1> HIDE DEF A, B
<1>4. QED
  BY <1>2, <1>3 DEF FilesOwnTheirClusters, OwnsClusters, Apart

\* It says that open files hold their text.
LEMMA TextFollows == ASSUME IInv PROVE OpenFilesHoldTheirText
<1>1. ASSUME NEW h \in DOMAIN file
      PROVE  /\ file[h].len = Len(text[h])
             /\ \A pos \in 0 .. (file[h].len - 1) : InFile(file[h], pos) = text[h][pos + 1]
  <2> DEFINE f == file[h]
             t == text[h]
             start == f.startCluster
  <2>1. /\ fat \in FATs /\ f \in FileRecs /\ t \in Texts /\ start \in ClusterRefs /\ disk.data \in Blocks
        /\ FileOK(fat, disk.data, f, t)
    BY TypeFacts, RecordFields DEF IInv, OpenFiles
  <2>2. f.len = Len(t)
    BY <2>1 DEF FileOK
  <2>3. PICK n \in Nat : GoodIn(fat, Seen(disk.data, f), start, t, n)
    BY <2>1 DEF FileOK, Good
  <2>4. Ends(fat, start, n) /\ Len(t) <= n * ClusterBytes
    BY <2>3, GoodEnds
  <2>5. ASSUME NEW pos \in 0 .. (Len(t) - 1) PROVE InFile(f, pos) = t[pos + 1]
    <3> DEFINE at == SectorAt(fat, start, pos)
               mine == <<f.bufCluster, f.bufSecOfs>>
    <3>1. pos \in Nat /\ pos < n * ClusterBytes
      BY <2>1, <2>4, Position
    <3>2. at \in Clusters \X Secs
      BY <2>1, <2>4, <3>1, BlockOfPosition
    <3>3. Seen(disk.data, f)[at][pos % SectorSize] = t[pos + 1]
      BY <2>3 DEF GoodIn
    <3>4. InFile(f, pos) = IF at = mine THEN f.buf[pos % SectorSize] ELSE disk.data[at][pos % SectorSize]
      BY DEF InFile, OnDisk
    <3> HIDE DEF at
    <3>5. CASE at = mine
      <4>1. f.bufCluster \in Clusters
        BY <3>2, <3>5
      <4>2. Seen(disk.data, f)[at] = f.buf
        BY <2>1, <3>2, <3>5, <4>1 DEF Seen, Blocks
      <4>3. QED
        BY <3>3, <3>4, <3>5, <4>2
    <3>6. CASE at # mine
      <4>1. Seen(disk.data, f)[at] = disk.data[at]
        BY <2>1, <3>2, <3>6 DEF Seen, Blocks
      <4>2. QED
        BY <3>3, <3>4, <3>6, <4>1
    <3>7. QED
      BY <3>5, <3>6
  <2>6. QED
    BY <2>2, <2>5
<1>2. QED
  BY <1>1 DEF OpenFilesHoldTheirText

\* It says that saved files are on the disk.
LEMMA SavedFollows == ASSUME IInv PROVE SavedFilesAreOnDisk
<1>1. FilesOK
  BY DEF IInv, FilesOK
<1>2. ASSUME NEW s \in Kept
      PROVE  /\ disk.dir[s].len = Len(saved[s])
             /\ \A pos \in 0 .. (disk.dir[s].len - 1) :
                  /\ SectorAt(disk.fat, disk.dir[s].cluster, pos)[1] \in Clusters
                  /\ disk.fat[SectorAt(disk.fat, disk.dir[s].cluster, pos)[1]] # FATFree
                  /\ OnDisk(disk.fat, disk.dir[s].cluster, pos) = saved[s][pos + 1]
  <2> DEFINE F == disk.fat
             start == disk.dir[s].cluster
             t == saved[s]
  <2>1. s \in 1 .. Slots
    BY DEF Kept
  <2>2. /\ fat \in FATs /\ F \in FATs /\ start \in ClusterRefs /\ t \in Texts
    BY <1>1, <2>1, TypeFacts, RecordFields DEF FilesOK
  <2>3. Agree(fat, F, start) /\ disk.dir[s].len = Len(t) /\ Good(fat, disk.data, start, t)
    BY <1>1, KeptEntries
  <2>4. SameBlocks(disk.data, disk.data, Reach(fat, start))
    BY DEF SameBlocks
  <2> HIDE DEF F, start, t
  <2>5. Good(F, disk.data, start, t)
    BY <2>2, <2>3, <2>4, Framed
  <2>6. PICK n \in Nat : GoodIn(F, disk.data, start, t, n)
    BY <2>5 DEF Good
  <2>7. Ends(F, start, n) /\ (n > 0 => FollowChain(F, start, n) = EOC) /\ Len(t) <= n * ClusterBytes
    BY <2>6, GoodEnds
  <2>8. \A c \in Reach(F, start) : F[c] # FATFree
    BY <2>2, <2>7, ChainTaken
  <2>9. ASSUME NEW pos \in 0 .. (Len(t) - 1)
        PROVE  /\ SectorAt(F, start, pos)[1] \in Clusters
               /\ F[SectorAt(F, start, pos)[1]] # FATFree
               /\ OnDisk(F, start, pos) = t[pos + 1]
    <3>1. pos \in Nat /\ pos < n * ClusterBytes
      BY <2>2, <2>7, Position
    <3>2. SectorAt(F, start, pos)[1] \in Reach(F, start)
      BY <2>2, <2>7, <3>1, BlockOfPosition
    <3>3. SectorAt(F, start, pos)[1] \in Clusters
      BY <3>2 DEF Reach
    <3>4. OnDisk(F, start, pos) = t[pos + 1]
      BY <2>6 DEF GoodIn, OnDisk
    <3>5. QED
      BY <2>8, <3>2, <3>3, <3>4
  <2>10. QED
    BY <2>3, <2>9 DEF F, start, t
<1>3. QED
  BY <1>2 DEF SavedFilesAreOnDisk, Kept

\* It says that variables have their types.
LEMMA TypeFollows == ASSUME IInv PROVE TypeOK
<1>1. Types
  BY DEF IInv
<1>2. fat \in [Clusters -> ClusterRef] /\ disk.fat \in [Clusters -> ClusterRef]
  BY <1>1, TypeFacts DEF FATs, ClusterRefs, ClusterRef
<1>3. fatDirty \in BOOLEAN /\ DOMAIN file \subseteq Handles /\ DOMAIN text = DOMAIN file
  BY <1>1 DEF Types
<1>4. ASSUME NEW h \in DOMAIN file
      PROVE  /\ file[h].startCluster \in Clusters \cup {0}
             /\ file[h].dirEntry \in 0 .. Slots /\ (file[h].registered <=> file[h].dirEntry # 0)
             /\ file[h].bufCluster \in Clusters \cup {-1} /\ file[h].bufSecOfs \in Secs
             /\ DOMAIN file[h].buf = 0 .. (SectorSize - 1)
  <2>1. file[h] \in FileRecs
    BY <1>1, TypeFacts
  <2>2. file[h].registered <=> file[h].dirEntry # 0
    BY DEF IInv, OpenFiles
  <2>3. file[h].buf \in Sectors
    BY <2>1, FileFields
  <2>4. DOMAIN file[h].buf = 0 .. (SectorSize - 1)
    BY <2>3 DEF Sectors
  <2>5. QED
    BY <2>1, <2>2, <2>4, FileFields
<1>5. ASSUME NEW r \in DOMAIN rider
      PROVE  /\ rider[r].file \in DOMAIN file /\ rider[r].pos <= file[rider[r].file].len
             /\ rider[r].cluster \in ClusterRef /\ rider[r].secOfs \in Secs
  <2>1. rider[r] \in RiderRecs
    BY <1>1, TypeFacts
  <2>2. rider[r].cluster \in ClusterRef /\ rider[r].secOfs \in Secs
    BY <2>1 DEF RiderRecs, ClusterRefs, ClusterRef
  <2>3. QED
    BY <2>2 DEF IInv, RidersInStep
<1>6. QED
  BY <1>2, <1>3, <1>4, <1>5 DEF TypeOK

\* Entries of the FAT name clusters, and buffers and riders their sectors: the
\* blocks that procedures read and write are on the disk.
THEOREM FilesTypes == Spec => []TypeOK
  BY FilesInvariance, TypeFollows, PTL

\* Growing, deleting, renaming, a full disk and resets never let two files share
\* a cluster, and a file always has clusters for its length.
THEOREM FilesAlwaysOwnTheirClusters == Spec => []FilesOwnTheirClusters
  BY FilesInvariance, OwnershipFollows, PTL

\* An open file holds what was written to it, in its buffer and its blocks.
THEOREM OpenFilesAlwaysHoldTheirText == Spec => []OpenFilesHoldTheirText
  BY FilesInvariance, TextFollows, PTL

\* After any call, and after a reset in any call, a file that was saved is read
\* back whole from the disk alone.
THEOREM SavedFilesAreAlwaysOnDisk == Spec => []SavedFilesAreOnDisk
  BY FilesInvariance, SavedFollows, PTL

\* Read returns what Write put there last.
THEOREM AlwaysReadsWhatWasWritten == Spec => []ReadsWhatWasWritten
<1>1. IInv => ReadsWhatWasWritten
  BY DEF IInv, ReadsWhatWasWritten
<1>2. QED
  BY <1>1, FilesInvariance, PTL

\* The index that Write does not check is always inside the sector buffer.
THEOREM AlwaysWritesInsideTheBuffer == Spec => []WritesInsideTheBuffer
<1>1. IInv => WritesInsideTheBuffer
  BY DEF IInv, WritesInsideTheBuffer
<1>2. QED
  BY <1>1, FilesInvariance, PTL
=============================================================================
