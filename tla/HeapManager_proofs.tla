------------------------- MODULE HeapManager_proofs -------------------------
(***************************************************************************)
(* The chain of blocks tiles every region, and objects never touch, for    *)
(* all regions, sizes of objects and sequences of calls.                   *)
(***************************************************************************)
EXTENDS HeapManager, WellFoundedInduction, TLAPS

-----------------------------------------------------------------------------
(* Induction over the naturals.                                            *)

Less == {p \in Nat \X Nat : p[1] < p[2]}

\* Every nonempty set of naturals has a least element: the form of induction the
\* loop proofs use, on the set of counterexamples.
LEMMA LeastElement ==
  ASSUME NEW T \in SUBSET Nat, T # {}
  PROVE  \E n \in T : \A m \in T : n <= m
<1>1. IsWellFoundedOn(Less, Nat)
  BY NatLessThanWellFounded DEF OpToRel, Less
<1>2. PICK n \in T : \A m \in T : ~ (<<m, n>> \in Less)
  BY <1>1, WFMin
<1>3. ASSUME NEW m \in T PROVE n <= m
  <2>1. n \in Nat /\ m \in Nat
    OBVIOUS
  <2>2. ~ (m < n)
    BY <1>2, <2>1 DEF Less
  <2>3. QED
    BY <2>1, <2>2
<1>4. QED
  BY <1>3

-----------------------------------------------------------------------------

\* The parts of the invariant, for any chain h, regions g and objects l.
Sized(h) ==
  \A p \in DOMAIN h : /\ p \in Nat
                      /\ h[p] \in [size : Nat, used : BOOLEAN, td : TypeDescs]
                      /\ h[p].size >= HdrSize

After(h, p) == p + h[p].size

InRegion(h, r, p) ==
  /\ r.base <= p /\ After(h, p) <= RegionEnd(r)
  /\ After(h, p) \in DOMAIN h \cup {RegionEnd(r)}
  /\ \A q \in DOMAIN h : ~(p < q /\ q < After(h, p))

Tiles(h, g) ==
  /\ \A r \in g : r.base \in DOMAIN h
  /\ \A p \in DOMAIN h : \E r \in g : InRegion(h, r, p)

\* The objects are the used blocks, one each, large enough for them.
Owned(h, l) ==
  /\ \A o \in l : /\ o \in [addr : Nat, size : PayloadSizes, td : TypeDescs]
                  /\ o.addr - HdrSize \in DOMAIN h
                  /\ h[o.addr - HdrSize].used
                  /\ h[o.addr - HdrSize].td = o.td
                  /\ need(o.size) <= h[o.addr - HdrSize].size
  /\ \A p \in DOMAIN h : h[p].used => \E o \in l : o.addr = p + HdrSize
  /\ \A o, q \in l : o.addr = q.addr => o = q

\* Alloc looks at a region the heap was laid over; before the first, at nothing.
Placed ==
  /\ given \subseteq Regions
  /\ given = {} => base = 0 /\ limit = 0
  /\ given # {} => \E r \in given : base = r.base /\ limit = RegionEnd(r)

IInv == Sized(hdr) /\ Placed /\ Tiles(hdr, given) /\ Owned(hdr, live)

-----------------------------------------------------------------------------
(* Regions and blocks. *)

LEMMA RegionFacts ==
  /\ HdrSize \in Nat \ {0}
  /\ \A r \in Regions : /\ r.base \in Nat \ {0} /\ r.size \in Nat /\ HdrSize <= r.size
                        /\ RegionEnd(r) \in Nat /\ RegionEnd(r) = r.base + r.size
  /\ \A r, s \in Regions : r # s => RegionEnd(r) <= s.base \/ RegionEnd(s) <= r.base
  BY HeapConstants DEF HeapConstants, MinBlock, RegionEnd

\* Blocks have room, and follow one another.
LEMMA BlockFacts ==
  ASSUME NEW h, NEW g, Sized(h), Tiles(h, g)
  PROVE  /\ \A p \in DOMAIN h : /\ p \in Nat /\ After(h, p) \in Nat /\ p < After(h, p)
                                /\ HdrSize <= h[p].size /\ h[p].size \in Nat
         /\ \A p, q \in DOMAIN h : p < q => After(h, p) <= q
<1>1. ASSUME NEW p \in DOMAIN h
      PROVE  /\ p \in Nat /\ After(h, p) \in Nat /\ p < After(h, p)
             /\ HdrSize <= h[p].size /\ h[p].size \in Nat
  <2>1. p \in Nat /\ h[p].size \in Nat /\ HdrSize <= h[p].size
    BY RegionFacts DEF Sized
  <2>2. QED
    BY <2>1, RegionFacts DEF After
<1>2. ASSUME NEW p \in DOMAIN h, NEW q \in DOMAIN h, p < q PROVE After(h, p) <= q
  <2>1. ~(p < q /\ q < After(h, p))
    BY DEF Tiles, InRegion
  <2>2. QED
    BY <1>1, <1>2, <2>1
<1>3. QED
  BY <1>1, <1>2

\* Two regions that hold one block are the same.
LEMMA OneRegion ==
  ASSUME NEW h, NEW g \in SUBSET Regions, Sized(h), Tiles(h, g),
         NEW r \in g, NEW s \in g, NEW p \in DOMAIN h,
         r.base <= p, p < RegionEnd(r), s.base <= p, p < RegionEnd(s)
  PROVE  r = s
<1>1. p \in Nat
  BY DEF Sized
<1>2. r \in Regions /\ s \in Regions
  OBVIOUS
<1>3. QED
  BY <1>1, <1>2, RegionFacts

\* The chain of the active region.
LEMMA ActiveFacts ==
  ASSUME Sized(hdr), Placed, Tiles(hdr, given)
  PROVE  /\ base \in Nat /\ limit \in Nat /\ base <= limit
         /\ \A p \in DOMAIN hdr : Active(p) =>
              /\ next(p) <= limit
              /\ next(p) = limit \/ (next(p) \in DOMAIN hdr /\ Active(next(p)))
         /\ given # {} => base \in DOMAIN hdr /\ base < limit
<1>1. CASE given = {}
  BY <1>1 DEF Placed, Tiles
<1>2. CASE given # {}
  <2>1. PICK a \in given : base = a.base /\ limit = RegionEnd(a)
    BY <1>2 DEF Placed
  <2>2. a \in Regions /\ base \in Nat /\ limit \in Nat /\ base < limit /\ given \subseteq Regions
    BY <2>1, RegionFacts DEF Placed
  <2>3. base \in DOMAIN hdr
    BY <2>1 DEF Tiles
  <2>4. ASSUME NEW p \in DOMAIN hdr, Active(p)
        PROVE  /\ next(p) <= limit
               /\ next(p) = limit \/ (next(p) \in DOMAIN hdr /\ Active(next(p)))
    <3>1. PICK r \in given : InRegion(hdr, r, p)
      BY DEF Tiles
    <3>2. p \in Nat /\ next(p) \in Nat /\ p < next(p) /\ next(p) = After(hdr, p)
      BY BlockFacts DEF next, After
    <3>3. r = a
      <4>1. RegionEnd(r) \in Nat /\ p < RegionEnd(r) /\ r.base <= p
        BY <2>2, <3>1, <3>2, RegionFacts DEF InRegion
      <4>2. a.base <= p /\ p < RegionEnd(a)
        BY <2>1, <2>4 DEF Active
      <4>3. QED
        BY <2>2, <4>1, <4>2, OneRegion
    <3>4. next(p) <= limit /\ next(p) \in DOMAIN hdr \cup {limit}
      BY <2>1, <3>1, <3>2, <3>3 DEF InRegion
    <3>5. QED
      BY <2>2, <2>4, <3>2, <3>4 DEF Active
  <2>5. QED
    BY <2>2, <2>3, <2>4
<1>3. QED
  BY <1>1, <1>2

-----------------------------------------------------------------------------
(* Free runs. *)

Chain   == {a \in DOMAIN hdr : Active(a)} \cup {limit}
Stops(p) == {q \in DOMAIN hdr : p <= q /\ Active(q) /\ hdr[q].used} \cup {limit}
Stop(p) == CHOOSE q \in Stops(p) : \A m \in Stops(p) : q <= m

Walks == Sized(hdr) /\ Placed /\ Tiles(hdr, given)

\* Where the free blocks from p on end: at the first used one, or the limit.
LEMMA StopFacts ==
  ASSUME Walks, NEW p \in Chain
  PROVE  /\ Stop(p) \in Stops(p) /\ \A m \in Stops(p) : Stop(p) <= m
         /\ Stop(p) \in Nat /\ p <= Stop(p) /\ Stop(p) <= limit /\ p \in Nat
<1>1. limit \in Nat /\ \A q \in DOMAIN hdr : q \in Nat
  BY ActiveFacts DEF Walks, Sized
<1>2. Stops(p) \in SUBSET Nat /\ limit \in Stops(p)
  BY <1>1 DEF Stops
<1>3. \E q \in Stops(p) : \A m \in Stops(p) : q <= m
  BY <1>2, LeastElement
<1>4. Stop(p) \in Stops(p) /\ \A m \in Stops(p) : Stop(p) <= m
  BY <1>3 DEF Stop
<1>5. p \in Nat /\ p <= limit
  BY <1>1 DEF Chain, Active
<1>6. QED
  BY <1>1, <1>2, <1>4, <1>5 DEF Stops

\* A used block stops at once, a free one where the next block does.
LEMMA StopStep ==
  ASSUME Walks, NEW p \in Chain
  PROVE  /\ p = limit \/ hdr[p].used => Stop(p) = p
         /\ p # limit /\ ~hdr[p].used =>
              /\ p \in DOMAIN hdr /\ next(p) \in Chain
              /\ Stop(next(p)) = Stop(p) /\ next(p) <= Stop(p)
<1>1. /\ Stop(p) \in Stops(p) /\ \A m \in Stops(p) : Stop(p) <= m
      /\ Stop(p) \in Nat /\ p <= Stop(p) /\ p \in Nat
  BY StopFacts
<1>2. CASE p = limit \/ hdr[p].used
  <2>1. p \in Stops(p)
    BY <1>1, <1>2 DEF Stops, Chain
  <2>2. QED
    BY <1>1, <1>2, <2>1
<1>3. CASE p # limit /\ ~hdr[p].used
  <2>1. p \in DOMAIN hdr /\ Active(p)
    BY <1>3 DEF Chain
  <2>2. next(p) \in Chain /\ next(p) \in Nat /\ p < next(p) /\ next(p) = After(hdr, p)
    BY <2>1, ActiveFacts, BlockFacts DEF Walks, Chain, next, After
  <2>3. /\ Stop(next(p)) \in Stops(next(p)) /\ \A m \in Stops(next(p)) : Stop(next(p)) <= m
        /\ Stop(next(p)) \in Nat /\ next(p) <= Stop(next(p))
    BY <2>2, StopFacts
  <2>4. \A m \in Stops(next(p)) : m \in Stops(p)
    <3>1. \A m \in DOMAIN hdr : m \in Nat
      BY DEF Walks, Sized
    <3>2. QED
      BY <1>1, <2>2, <3>1 DEF Stops
  <2>5. Stop(p) \in Stops(next(p))
    <3>1. CASE Stop(p) = limit
      BY <3>1 DEF Stops
    <3>2. CASE Stop(p) # limit
      <4>1. /\ Stop(p) \in DOMAIN hdr /\ p <= Stop(p)
            /\ Active(Stop(p)) /\ hdr[Stop(p)].used
        BY <1>1, <3>2 DEF Stops
      <4>2. p # Stop(p)
        BY <1>3, <4>1
      <4>3. next(p) <= Stop(p)
        BY <1>1, <2>1, <2>2, <4>1, <4>2, BlockFacts DEF Walks
      <4>4. QED
        BY <4>1, <4>3 DEF Stops
    <3>3. QED
      BY <3>1, <3>2
  <2>6. Stop(next(p)) = Stop(p)
    BY <1>1, <2>3, <2>4, <2>5
  <2>7. QED
    BY <1>3, <2>1, <2>2, <2>3, <2>6
<1>4. QED
  BY <1>2, <1>3

\* The sizes the walk of Alloc adds up reach exactly that far.
LEMMA FreeRunIsGap ==
  ASSUME Walks, NEW p \in Chain
  PROVE  FreeRun(p) = Stop(p) - p
<1> DEFINE body(f) == [q \in Chain |-> IF q = limit \/ hdr[q].used THEN 0
                                       ELSE hdr[q].size + f[next(q)]]
           gap == [q \in Chain |-> Stop(q) - q]
           run == CHOOSE f : f = body(f)
<1>1. gap = body(gap)
  <2>1. ASSUME NEW q \in Chain
        PROVE  gap[q] = IF q = limit \/ hdr[q].used THEN 0 ELSE hdr[q].size + gap[next(q)]
    <3>1. q \in Nat /\ Stop(q) \in Nat
      BY StopFacts
    <3>2. CASE q = limit \/ hdr[q].used
      BY <3>1, <3>2, StopStep
    <3>3. CASE ~(q = limit \/ hdr[q].used)
      <4>1. /\ q \in DOMAIN hdr /\ next(q) \in Chain /\ Stop(next(q)) = Stop(q)
        BY <3>3, StopStep
      <4>2. hdr[q].size \in Nat /\ next(q) = q + hdr[q].size
        BY <4>1 DEF Walks, Sized, next
      <4>3. QED
        BY <3>1, <3>3, <4>1, <4>2
    <3>4. QED
      BY <3>2, <3>3
  <2>2. QED
    BY <2>1
<1> HIDE DEF gap
<1>2. run = body(run)
  BY <1>1, Zenon
<1>3. FreeRun(p) = run[p]
  BY DEF FreeRun, Chain
<1> HIDE DEF run
<1> DEFINE Bad == {n \in Nat : \E q \in Chain : n = limit - q /\ run[q] # Stop(q) - q}
<1>4. Bad = {}
  <2>1. SUFFICES ASSUME Bad # {} PROVE FALSE
    OBVIOUS
  <2>2. Bad \in SUBSET Nat
    OBVIOUS
  <2>3. PICK n \in Bad : \A m \in Bad : n <= m
    BY <2>1, <2>2, LeastElement
  <2>4. PICK q \in Chain : n = limit - q /\ run[q] # Stop(q) - q
    BY <2>3
  <2>5. q \in Nat /\ Stop(q) \in Nat /\ limit \in Nat /\ q <= limit
    BY <2>4, StopFacts, ActiveFacts DEF Walks
  <2>6. run[q] = IF q = limit \/ hdr[q].used THEN 0 ELSE hdr[q].size + run[next(q)]
    BY <1>2
  <2>7. ~(q = limit \/ hdr[q].used)
    <3>1. SUFFICES ASSUME q = limit \/ hdr[q].used PROVE FALSE
      OBVIOUS
    <3>2. Stop(q) = q /\ run[q] = 0
      BY <2>6, <3>1, StopStep
    <3>3. QED
      BY <2>4, <2>5, <3>2
  <2>8. /\ q \in DOMAIN hdr /\ next(q) \in Chain /\ Stop(next(q)) = Stop(q)
    BY <2>7, StopStep
  <2>9. hdr[q].size \in Nat /\ next(q) = q + hdr[q].size /\ q < next(q)
    BY <2>8, BlockFacts DEF Walks, next, After
  <2>10. next(q) \in Nat /\ next(q) <= limit
    BY <2>8, StopFacts, <2>5
  <2>11. run[next(q)] = Stop(next(q)) - next(q)
    <3>1. SUFFICES ASSUME run[next(q)] # Stop(next(q)) - next(q) PROVE FALSE
      OBVIOUS
    <3>2. limit - next(q) \in Nat /\ limit - next(q) < n
      BY <2>4, <2>5, <2>9, <2>10
    <3>3. limit - next(q) \in Bad
      BY <2>8, <3>1, <3>2
    <3>4. n <= limit - next(q) /\ n \in Nat
      BY <2>3, <3>3
    <3>5. QED
      BY <3>2, <3>4, <2>5, <2>10
  <2>12. run[q] = hdr[q].size + run[next(q)]
    BY <2>6, <2>7
  <2>13. run[q] = Stop(q) - q
    BY <2>5, <2>8, <2>9, <2>10, <2>11, <2>12
  <2>14. QED
    BY <2>4, <2>13
<1>5. limit - p \in Nat
  BY StopFacts, ActiveFacts DEF Walks
<1>6. run[p] = Stop(p) - p
  BY <1>4, <1>5
<1>7. QED
  BY <1>3, <1>6

-----------------------------------------------------------------------------
(* Merging. *)

\* A block that is not the first of its region follows another.
LEMMA Predecessor ==
  ASSUME Walks, NEW p \in DOMAIN hdr, Active(p), p # base
  PROVE  \E y \in DOMAIN hdr : Active(y) /\ y < p /\ next(y) = p
<1> DEFINE Before == {y \in DOMAIN hdr : Active(y) /\ y < p}
           Gaps   == {n \in Nat : \E y \in Before : n = p - y}
<1>1. base \in Nat /\ limit \in Nat /\ p \in Nat /\ given # {}
  BY ActiveFacts DEF Walks, Sized, Tiles
<1>2. base \in Before
  BY <1>1, ActiveFacts DEF Walks, Active
<1>3. \A y \in Before : y \in Nat /\ p - y \in Gaps
  BY <1>1 DEF Walks, Sized
<1>4. PICK n \in Gaps : \A m \in Gaps : n <= m
  <2>1. Gaps \in SUBSET Nat /\ Gaps # {}
    BY <1>2, <1>3
  <2> HIDE DEF Gaps
  <2>2. QED
    BY <2>1, LeastElement
<1>5. PICK y \in Before : n = p - y
  BY <1>4
<1>6. y \in Nat /\ next(y) \in Nat /\ y < next(y) /\ next(y) = After(hdr, y)
  BY BlockFacts DEF Walks, next, After
<1>7. next(y) <= p
  BY <1>5, <1>6, BlockFacts DEF Walks
<1>8. next(y) \in DOMAIN hdr /\ Active(next(y))
  BY <1>1, <1>5, <1>6, <1>7, ActiveFacts DEF Walks, Active
<1>9. ~(next(y) < p)
  <2>1. SUFFICES ASSUME next(y) < p PROVE FALSE
    OBVIOUS
  <2>2. p - next(y) \in Gaps /\ p - next(y) < n
    BY <1>1, <1>3, <1>5, <1>6, <1>8, <2>1
  <2>3. QED
    BY <1>1, <1>4, <1>6, <2>2
<1>10. QED
  BY <1>1, <1>5, <1>6, <1>7, <1>9

\* Where Alloc's walk ends: at the end of the run it takes, or of the region.
End(p) == IF p = limit THEN limit ELSE p + FreeRun(p)

LEMMA EndFacts ==
  ASSUME Walks, NEW p \in Heads \cup {limit}
  PROVE  /\ p \in Chain /\ End(p) = Stop(p) /\ End(p) \in Nat /\ p <= End(p) /\ End(p) <= limit
         /\ \A q \in Chain : q < End(p) => End(p) \in Stops(q)
<1>1. p \in Chain
  BY DEF Heads, Chain
<1>2. Stop(p) \in Stops(p) /\ Stop(p) \in Nat /\ p <= Stop(p) /\ Stop(p) <= limit /\ p \in Nat
  BY <1>1, StopFacts
<1>3. End(p) = Stop(p)
  <2>1. CASE p = limit
    BY <1>1, <2>1, StopStep DEF End
  <2>2. CASE p # limit
    BY <1>1, <1>2, <2>2, FreeRunIsGap DEF End
  <2>3. QED
    BY <2>1, <2>2
<1>4. ASSUME NEW q \in Chain, q < End(p) PROVE End(p) \in Stops(q)
  <2>1. q \in Nat
    BY StopFacts
  <2>2. QED
    BY <1>2, <1>3, <1>4, <2>1 DEF Stops
<1>5. QED
  BY <1>1, <1>2, <1>3, <1>4

LEMMA MergedFacts ==
  ASSUME NEW p
  PROVE  /\ DOMAIN Merged(p) = {q \in DOMAIN hdr : Active(q) /\ q < End(p) => hdr[q].used \/ q \in Heads}
         /\ \A q \in DOMAIN Merged(p) :
              Merged(p)[q] = IF q \in Heads /\ q < End(p) THEN FreeHeader(FreeRun(q)) ELSE hdr[q]
  BY DEF Merged, End

\* The block that follows one on the merged chain, free or used, is on it.
LEMMA KeptAfterUsed ==
  ASSUME Walks, NEW e, NEW q \in DOMAIN hdr, Active(q), hdr[q].used, next(q) # limit
  PROVE  next(q) \in DOMAIN hdr /\ (hdr[next(q)].used \/ next(q) \in Heads)
<1>1. next(q) \in DOMAIN hdr /\ Active(next(q)) /\ next(q) \in Nat /\ q \in Nat /\ q < next(q)
  BY ActiveFacts, BlockFacts DEF Walks, next, After
<1>2. ASSUME NEW y \in DOMAIN hdr, Active(y), ~hdr[y].used, next(y) = next(q) PROVE FALSE
  <2>1. y \in Nat /\ y < next(y) /\ y # q
    BY <1>2, BlockFacts DEF Walks, next, After
  <2>2. y < q => next(y) <= q
    BY BlockFacts DEF Walks, next, After
  <2>3. q < y => next(q) <= y
    BY BlockFacts DEF Walks, next, After
  <2>4. QED
    BY <1>1, <1>2, <2>1, <2>2, <2>3
<1>3. QED
  BY <1>1, <1>2 DEF Heads

\* No header of the merged chain lies inside a run that was merged.
LEMMA RunIsSwallowed ==
  ASSUME Walks, NEW p \in Heads \cup {limit}, NEW q \in Heads, q < End(p),
         NEW x \in DOMAIN Merged(p), q < x, x < Stop(q)
  PROVE  FALSE
<1>1. q \in DOMAIN hdr /\ Active(q) /\ q \in Chain /\ q \in Nat
  BY DEF Heads, Chain, Walks, Sized
<1>2. /\ Stop(q) <= End(p) /\ Stop(q) \in Nat /\ Stop(q) <= limit
      /\ \A m \in Stops(q) : Stop(q) <= m
  BY <1>1, EndFacts, StopFacts
<1>3. x \in DOMAIN hdr /\ x \in Nat
  BY MergedFacts DEF Walks, Sized
<1>4. Active(x) /\ x < End(p)
  <2>1. base \in Nat /\ limit \in Nat /\ End(p) \in Nat
    BY ActiveFacts, EndFacts DEF Walks
  <2>2. QED
    BY <1>1, <1>2, <1>3, <2>1 DEF Active
<1>5. \A m \in DOMAIN hdr : Active(m) /\ q <= m /\ m < Stop(q) => ~hdr[m].used
  <2>1. SUFFICES ASSUME NEW m \in DOMAIN hdr, Active(m), q <= m, m < Stop(q), hdr[m].used PROVE FALSE
    OBVIOUS
  <2>2. m \in Stops(q) /\ m \in Nat
    BY <2>1 DEF Stops, Walks, Sized
  <2>3. QED
    BY <1>2, <2>1, <2>2
<1>6. x \in Heads
  <2>1. ~hdr[x].used
    <3>1. q <= x
      BY <1>1, <1>3
    <3>2. QED
      BY <1>3, <1>4, <1>5, <3>1
  <2>2. Active(x) /\ x < End(p) => hdr[x].used \/ x \in Heads
    BY MergedFacts
  <2>3. QED
    BY <1>4, <2>1, <2>2, Zenon
<1>7. PICK y \in DOMAIN hdr : Active(y) /\ y < x /\ next(y) = x
  <2>1. x # base
    BY <1>1, <1>3, ActiveFacts DEF Walks, Active
  <2>2. QED
    BY <1>3, <1>4, <2>1, Predecessor
<1>8. y \in Nat /\ q <= y
  <2>1. y \in Nat /\ (y < q => next(y) <= q)
    BY <1>1, BlockFacts DEF Walks, next, After
  <2>2. QED
    BY <1>1, <1>3, <1>7, <2>1
<1>9. ~hdr[y].used
  BY <1>2, <1>3, <1>5, <1>7, <1>8
<1>10. QED
  BY <1>6, <1>7, <1>9 DEF Heads

\* The merged chain: used blocks are where they were, and it tiles the regions.
LEMMA MergedKeeps ==
  ASSUME IInv, NEW p \in Heads \cup {limit}
  PROVE  /\ Sized(Merged(p)) /\ Tiles(Merged(p), given) /\ Owned(Merged(p), live)
         /\ p \in Heads => /\ p \in DOMAIN Merged(p) /\ ~Merged(p)[p].used
                           /\ Merged(p)[p].size = FreeRun(p)
<1> DEFINE h == Merged(p)
<1>0. Walks
  BY DEF IInv, Walks
<1>1. /\ DOMAIN h = {q \in DOMAIN hdr : Active(q) /\ q < End(p) => hdr[q].used \/ q \in Heads}
      /\ \A q \in DOMAIN h :
           h[q] = IF q \in Heads /\ q < End(p) THEN FreeHeader(FreeRun(q)) ELSE hdr[q]
  BY MergedFacts
<1> HIDE DEF h
<1>2. \A q \in DOMAIN hdr : /\ q \in Nat /\ next(q) \in Nat /\ q < next(q) /\ HdrSize <= hdr[q].size
                            /\ next(q) = q + hdr[q].size /\ hdr[q].size \in Nat
  BY <1>0, BlockFacts DEF Walks, next, After
<1>3. ASSUME NEW q \in Heads
      PROVE  /\ q \in DOMAIN hdr /\ Active(q) /\ ~hdr[q].used /\ q \in Chain
             /\ FreeRun(q) = Stop(q) - q /\ Stop(q) \in Nat /\ next(q) <= Stop(q)
             /\ FreeRun(q) \in Nat /\ HdrSize <= FreeRun(q) /\ Stop(q) \in Stops(q)
  <2>1. q \in DOMAIN hdr /\ Active(q) /\ ~hdr[q].used /\ q \in Chain
    BY DEF Heads, Chain
  <2>2. q # limit
    BY <1>0, <2>1, ActiveFacts DEF Active, Walks, Sized
  <2>3. next(q) <= Stop(q) /\ Stop(q) \in Nat /\ Stop(q) \in Stops(q)
    BY <1>0, <2>1, <2>2, StopStep, StopFacts
  <2>4. FreeRun(q) = Stop(q) - q
    BY <1>0, <2>1, FreeRunIsGap
  <2>5. QED
    BY <1>2, <2>1, <2>3, <2>4, RegionFacts
<1>4. Sized(h)
  <2>1. SUFFICES ASSUME NEW q \in DOMAIN h
                 PROVE  /\ q \in Nat /\ h[q] \in [size : Nat, used : BOOLEAN, td : TypeDescs]
                        /\ h[q].size >= HdrSize
    BY DEF Sized
  <2>2. q \in DOMAIN hdr
    BY <1>1
  <2>3. CASE q \in Heads /\ q < End(p)
    <3>1. h[q] = FreeHeader(FreeRun(q))
      BY <1>1, <2>3
    <3>2. 0 \in TypeDescs
      BY HeapConstants DEF HeapConstants
    <3>3. QED
      BY <1>2, <1>3, <2>2, <2>3, <3>1, <3>2, RegionFacts DEF FreeHeader, Header
  <2>4. CASE ~(q \in Heads /\ q < End(p))
    BY <1>0, <1>1, <2>2, <2>4 DEF Walks, Sized
  <2>5. QED
    BY <2>3, <2>4
<1>5. ASSUME NEW r \in given PROVE r.base \in DOMAIN h
  <2>1. r.base \in DOMAIN hdr
    BY <1>0 DEF Walks, Tiles
  <2>2. CASE ~Active(r.base)
    BY <1>1, <2>1, <2>2
  <2>3. CASE Active(r.base)
    <3>1. PICK a \in given : base = a.base /\ limit = RegionEnd(a)
      BY <1>0 DEF Walks, Placed
    <3>2. a \in Regions /\ r \in Regions
      BY <1>0 DEF Walks, Placed
    <3>3. r.base = base
      <4>1. /\ a.base \in Nat /\ RegionEnd(a) \in Nat /\ r.base \in Nat /\ RegionEnd(r) \in Nat
            /\ r.base < RegionEnd(r) /\ (a # r => RegionEnd(a) <= r.base \/ RegionEnd(r) <= a.base)
        BY <3>2, RegionFacts
      <4>2. QED
        BY <2>3, <3>1, <4>1 DEF Active
    <3>4. ~\E y \in DOMAIN hdr : Active(y) /\ ~hdr[y].used /\ next(y) = r.base
      BY <1>0, <1>2, <3>3, ActiveFacts DEF Walks, Active
    <3>5. QED
      BY <1>1, <2>1, <2>3, <3>4 DEF Heads
  <2>4. QED
    BY <2>2, <2>3
<1>6. ASSUME NEW q \in DOMAIN h PROVE \E r \in given : InRegion(h, r, q)
  <2>1. q \in DOMAIN hdr
    BY <1>1
  <2>2. PICK r \in given : InRegion(hdr, r, q)
    BY <1>0, <2>1 DEF Walks, Tiles
  <2>3. r \in Regions /\ RegionEnd(r) \in Nat /\ r.base \in Nat
    BY <1>0, RegionFacts DEF Walks, Placed
  <2>4. /\ r.base <= q /\ next(q) <= RegionEnd(r)
        /\ next(q) \in DOMAIN hdr \cup {RegionEnd(r)}
        /\ \A x \in DOMAIN hdr : ~(q < x /\ x < next(q))
    BY <2>2 DEF InRegion, After, next
  <2>5. CASE q \in Heads /\ q < End(p)
    <3>1. h[q] = FreeHeader(FreeRun(q)) /\ After(h, q) = Stop(q)
      BY <1>1, <1>2, <1>3, <2>1, <2>5 DEF FreeHeader, Header, After
    <3>2. PICK a \in given : base = a.base /\ limit = RegionEnd(a)
      BY <1>0 DEF Walks, Placed
    <3>3. r = a
      <4>1. a \in Regions /\ RegionEnd(a) \in Nat /\ q < RegionEnd(r) /\ a.base <= q /\ q < RegionEnd(a)
        BY <1>0, <1>2, <1>3, <2>1, <2>3, <2>4, <2>5, <3>2, RegionFacts DEF Active, Walks, Placed
      <4>2. given \in SUBSET Regions
        BY <1>0 DEF Walks, Placed
      <4>3. QED
        BY <1>0, <2>1, <2>4, <4>1, <4>2, OneRegion DEF Walks
    <3>4. Stop(q) <= RegionEnd(r)
      BY <1>0, <1>3, <2>5, <3>2, <3>3, StopFacts
    <3>5. Stop(q) \in DOMAIN h \cup {RegionEnd(r)}
      BY <1>1, <1>3, <2>5, <3>2, <3>3 DEF Stops
    <3>6. \A x \in DOMAIN h : ~(q < x /\ x < Stop(q))
      BY <1>0, <2>5, RunIsSwallowed DEF h
    <3>7. QED
      BY <2>4, <3>1, <3>4, <3>5, <3>6 DEF InRegion
  <2>6. CASE ~(q \in Heads /\ q < End(p))
    <3>1. h[q] = hdr[q] /\ After(h, q) = next(q)
      BY <1>1, <2>6 DEF After, next
    <3>2. next(q) \in DOMAIN h \cup {RegionEnd(r)}
      <4>1. SUFFICES ASSUME next(q) # RegionEnd(r), next(q) \in DOMAIN hdr,
                            Active(next(q)), next(q) < End(p)
                     PROVE  next(q) \in DOMAIN h
        BY <1>1, <2>4
      <4>2. PICK a \in given : base = a.base /\ limit = RegionEnd(a)
        BY <1>0 DEF Walks, Placed
      <4>3. a \in Regions /\ RegionEnd(a) \in Nat /\ a.base \in Nat
        BY <1>0, RegionFacts DEF Walks, Placed
      <4>4. r = a
        <5>1. r.base <= next(q) /\ next(q) < RegionEnd(r) /\ a.base <= next(q) /\ next(q) < RegionEnd(a)
          BY <1>2, <2>1, <2>3, <2>4, <4>1, <4>2, <4>3 DEF Active
        <5>2. given \in SUBSET Regions
          BY <1>0 DEF Walks, Placed
        <5>3. QED
          BY <1>0, <4>1, <5>1, <5>2, OneRegion DEF Walks
      <4>5. Active(q)
        BY <1>2, <2>1, <2>4, <4>1, <4>2, <4>3, <4>4 DEF Active
      <4>6. q < End(p)
        BY <1>0, <1>2, <2>1, <4>1, EndFacts
      <4>7. hdr[q].used
        BY <1>1, <2>6, <4>5, <4>6
      <4>8. next(q) # limit
        BY <4>1, <4>2, <4>4
      <4>9. QED
        BY <1>0, <1>1, <2>1, <4>5, <4>7, <4>8, KeptAfterUsed
    <3>3. \A x \in DOMAIN h : ~(q < x /\ x < next(q))
      BY <1>1, <2>4
    <3>4. QED
      BY <2>4, <3>1, <3>2, <3>3 DEF InRegion
  <2>7. QED
    BY <2>5, <2>6
<1>7. \A q \in DOMAIN hdr : hdr[q].used => q \in DOMAIN h /\ h[q] = hdr[q]
  BY <1>1, <1>3
<1>7a. \A n : ~FreeHeader(n).used /\ FreeHeader(n).size = n
  BY DEF FreeHeader, Header
<1>8. \A q \in DOMAIN h : h[q].used => q \in DOMAIN hdr /\ hdr[q].used
  <2>1. SUFFICES ASSUME NEW q \in DOMAIN h, h[q].used PROVE q \in DOMAIN hdr /\ hdr[q].used
    OBVIOUS
  <2>2. h[q] = hdr[q]
    <3>1. CASE q \in Heads /\ q < End(p)
      <4>1. h[q] = FreeHeader(FreeRun(q))
        BY <1>1, <3>1
      <4>2. ~h[q].used
        BY <1>7a, <4>1, Zenon
      <4>3. QED
        BY <2>1, <4>2, Zenon
    <3>2. CASE ~(q \in Heads /\ q < End(p))
      BY <1>1, <3>2
    <3>3. QED
      BY <3>1, <3>2
  <2>3. QED
    BY <1>1, <2>1, <2>2
<1>9. Owned(h, live)
  BY <1>7, <1>8 DEF IInv, Owned
<1>10. ASSUME p \in Heads PROVE p \in DOMAIN h /\ ~h[p].used /\ h[p].size = FreeRun(p)
  <2>1. p \in DOMAIN h
    BY <1>1, <1>3, <1>10
  <2>2. p < End(p)
    BY <1>0, <1>2, <1>3, <1>10, EndFacts
  <2>3. h[p] = FreeHeader(FreeRun(p))
    BY <1>1, <1>10, <2>1, <2>2
  <2>4. QED
    BY <1>7a, <2>1, <2>3, Zenon
<1>11. QED
  BY <1>4, <1>5, <1>6, <1>9, <1>10 DEF Tiles, h

-----------------------------------------------------------------------------
(* Taking a block. *)

LEMMA NeedFacts ==
  ASSUME NEW n \in PayloadSizes
  PROVE  n \in Nat /\ need(n) \in Nat /\ HdrSize + n <= need(n)
<1>1. n \in Nat
  BY HeapConstants DEF HeapConstants
<1>2. ((n + 1) \div 2) * 2 \in Nat /\ n <= ((n + 1) \div 2) * 2
  BY <1>1
<1>3. QED
  BY <1>1, <1>2, RegionFacts DEF need

HeaderType == [size : Nat, used : BOOLEAN, td : TypeDescs]

LEMMA UsedHeader ==
  ASSUME NEW a \in Nat, NEW d \in TypeDescs
  PROVE  LET x == Header(a, TRUE, d) IN x \in HeaderType /\ x.size = a /\ x.used /\ x.td = d
  BY DEF Header, HeaderType

LEMMA UnusedHeader ==
  ASSUME NEW a \in Nat
  PROVE  LET x == FreeHeader(a) IN x \in HeaderType /\ x.size = a /\ ~x.used
<1>1. 0 \in TypeDescs
  BY HeapConstants DEF HeapConstants
<1>2. QED
  BY <1>1 DEF FreeHeader, Header, HeaderType

\* The headers of the chain when the block p has been given to an object.
LEMMA TakeHeaders ==
  ASSUME NEW h, Sized(h), NEW p \in DOMAIN h, NEW n \in PayloadSizes, need(n) <= h[p].size,
         NEW td \in TypeDescs, \A q \in DOMAIN h : ~(p < q /\ q < After(h, p))
  PROVE  LET t == Take(h, p, n, td)
             z == p + need(n)
         IN  /\ t[p].used /\ t[p].td = td /\ t[p] \in HeaderType /\ p \in DOMAIN t
             /\ \A q \in DOMAIN h : q \in DOMAIN t /\ (q # p => t[q] = h[q])
             /\ \/ DOMAIN t = DOMAIN h /\ t[p].size = h[p].size
                \/ /\ DOMAIN t = DOMAIN h \cup {z} /\ z \notin DOMAIN h
                   /\ p < z /\ z < After(h, p) /\ t[p].size = need(n)
                   /\ t[z].size = h[p].size - need(n) /\ HdrSize <= t[z].size
                   /\ ~t[z].used /\ t[z] \in HeaderType
<1> DEFINE t == Take(h, p, n, td)
           z == p + need(n)
           rest == h[p].size - need(n)
           mine == Header(need(n), TRUE, td)
           whole == Header(h[p].size, TRUE, td)
           free == FreeHeader(rest)
<1>1. /\ p \in Nat /\ h[p].size \in Nat /\ HdrSize \in Nat \ {0}
      /\ need(n) \in Nat /\ HdrSize <= need(n) /\ rest \in Nat
  <2>1. p \in Nat /\ h[p].size \in Nat /\ HdrSize \in Nat \ {0} /\ need(n) \in Nat /\ n \in Nat /\ HdrSize + n <= need(n)
    BY NeedFacts, RegionFacts DEF Sized
  <2>2. QED
    BY <2>1
<1>2. /\ mine \in HeaderType /\ mine.size = need(n) /\ mine.used /\ mine.td = td
      /\ whole \in HeaderType /\ whole.size = h[p].size /\ whole.used /\ whole.td = td
  BY <1>1, UsedHeader
<1>2a. free \in HeaderType /\ free.size = rest /\ ~free.used
  BY <1>1, UnusedHeader
<1>3. CASE rest >= MinBlock
  <2>1. p < z /\ z < After(h, p) /\ HdrSize <= rest
    BY <1>1, <1>3 DEF After, MinBlock
  <2>2. z \notin DOMAIN h /\ z # p
    BY <1>1, <2>1
  <2>3. t = setBlk(setBlk(h, z, free), p, mine)
    BY <1>3 DEF Take
  <2> HIDE DEF t, z, rest, free, mine
  <2>4. /\ DOMAIN t = DOMAIN h \cup {z}
        /\ \A q \in DOMAIN t : t[q] = IF q = p THEN mine ELSE IF q = z THEN free ELSE h[q]
    BY <2>3 DEF setBlk
  <2>5. t[p] = mine /\ t[z] = free /\ p \in DOMAIN t
    BY <2>2, <2>4
  <2>6. \A q \in DOMAIN h : q \in DOMAIN t /\ (q # p => t[q] = h[q])
    BY <2>2, <2>4
  <2>7. t[p].used /\ t[p].td = td /\ t[p] \in HeaderType /\ ~t[z].used /\ t[z] \in HeaderType
    BY <1>2, <1>2a, <2>5, Zenon
  <2>8. t[p].size = need(n) /\ t[z].size = rest
    BY <1>2, <1>2a, <2>5, Zenon
  <2>9. HdrSize <= t[z].size
    BY <2>1, <2>8
  <2>10. QED
    BY <2>1, <2>2, <2>4, <2>6, <2>5, <2>7, <2>8, <2>9 DEF t, z, rest
<1>4. CASE ~(rest >= MinBlock)
  <2>1. t = setBlk(h, p, whole)
    BY <1>4 DEF Take
  <2> HIDE DEF t, whole
  <2>2. /\ DOMAIN t = DOMAIN h
        /\ \A q \in DOMAIN t : t[q] = IF q = p THEN whole ELSE h[q]
    BY <2>1 DEF setBlk
  <2>3. t[p] = whole /\ \A q \in DOMAIN h : q \in DOMAIN t /\ (q # p => t[q] = h[q])
    BY <2>2
  <2>4. t[p].used /\ t[p].td = td /\ t[p] \in HeaderType /\ t[p].size = h[p].size
    BY <1>2, <2>3, Zenon
  <2>5. QED
    BY <2>2, <2>3, <2>4 DEF t
<1>5. QED
  BY <1>3, <1>4

\* Giving a free block that is large enough to an object keeps the chain.
LEMMA TakeKeeps ==
  ASSUME NEW h, NEW g \in SUBSET Regions, NEW l, Sized(h), Tiles(h, g), Owned(h, l),
         NEW p \in DOMAIN h, ~h[p].used, NEW n \in PayloadSizes, need(n) <= h[p].size,
         NEW td \in TypeDescs
  PROVE  LET t == Take(h, p, n, td)
         IN  Sized(t) /\ Tiles(t, g) /\ Owned(t, l \cup {Object(p + HdrSize, n, td)})
<1> DEFINE t == Take(h, p, n, td)
           z == p + need(n)
           o == Object(p + HdrSize, n, td)
           Same  == DOMAIN t = DOMAIN h /\ t[p].size = h[p].size
           Split == /\ DOMAIN t = DOMAIN h \cup {z} /\ z \notin DOMAIN h
                    /\ p < z /\ z < After(h, p) /\ t[p].size = need(n)
                    /\ t[z].size = h[p].size - need(n) /\ HdrSize <= t[z].size
                    /\ ~t[z].used /\ t[z] \in HeaderType
<1>1. /\ p \in Nat /\ h[p].size \in Nat /\ HdrSize \in Nat \ {0} /\ n \in Nat
      /\ need(n) \in Nat /\ HdrSize + n <= need(n) /\ z \in Nat /\ 0 \in TypeDescs
  BY NeedFacts, RegionFacts, HeapConstants DEF Sized, HeapConstants
<1>2. /\ t[p].used /\ t[p].td = td /\ t[p] \in HeaderType /\ p \in DOMAIN t
      /\ \A q \in DOMAIN h : q \in DOMAIN t /\ (q # p => t[q] = h[q])
      /\ Same \/ Split
  <2>1. \A q \in DOMAIN h : ~(p < q /\ q < After(h, p))
    BY DEF Tiles, InRegion
  <2>2. QED
    BY <2>1, TakeHeaders
<1> HIDE DEF t
<1>3. /\ \A q \in DOMAIN h : q \in Nat /\ After(h, q) \in Nat /\ q < After(h, q)
      /\ \A q, x \in DOMAIN h : q < x => After(h, q) <= x
  BY BlockFacts
<1>6. /\ Same => After(t, p) = After(h, p)
      /\ Split => After(t, p) = z /\ After(t, z) = After(h, p)
      /\ \A q \in DOMAIN h : q # p => After(t, q) = After(h, q)
  BY <1>1, <1>2 DEF After
<1>7. Sized(t)
  <2>1. SUFFICES ASSUME NEW q \in DOMAIN t
                 PROVE  /\ q \in Nat /\ t[q] \in [size : Nat, used : BOOLEAN, td : TypeDescs]
                        /\ t[q].size >= HdrSize
    BY DEF Sized
  <2>2. CASE q \in DOMAIN h /\ q # p
    BY <1>2, <2>2 DEF Sized
  <2>3. CASE q = p
    BY <1>1, <1>2, <2>3 DEF HeaderType
  <2>4. CASE Split /\ q = z
    BY <1>1, <2>4 DEF HeaderType
  <2>5. QED
    BY <1>2, <2>2, <2>3, <2>4
<1>8. Tiles(t, g)
  <2>1. \A r \in g : r.base \in DOMAIN t
    BY <1>2 DEF Tiles
  <2>2. ASSUME NEW q \in DOMAIN t PROVE \E r \in g : InRegion(t, r, q)
    <3>1. CASE q \in DOMAIN h /\ q # p
      <4>1. PICK r \in g : InRegion(h, r, q)
        BY <3>1 DEF Tiles
      <4>2. Split => ~(q < z /\ z < After(h, q))
        <5>1. SUFFICES ASSUME Split, q < z, z < After(h, q) PROVE FALSE
          OBVIOUS
        <5>2. q < p \/ p < q
          BY <1>1, <1>3, <3>1
        <5>3. CASE q < p
          BY <1>1, <1>3, <3>1, <5>1, <5>3
        <5>4. CASE p < q
          BY <1>1, <1>3, <3>1, <5>1, <5>4
        <5>5. QED
          BY <5>2, <5>3, <5>4
      <4>3. \A x \in DOMAIN t : x \in DOMAIN h \/ (Split /\ x = z)
        BY <1>2
      <4>4. QED
        BY <1>2, <1>6, <3>1, <4>1, <4>2, <4>3 DEF InRegion
    <3>2. CASE q = p \/ (Split /\ q = z)
      <4>1. PICK r \in g : InRegion(h, r, p)
        BY DEF Tiles
      <4>2. /\ r.base <= p /\ After(h, p) <= RegionEnd(r)
            /\ After(h, p) \in DOMAIN h \cup {RegionEnd(r)}
            /\ \A x \in DOMAIN h : ~(p < x /\ x < After(h, p))
        BY <4>1 DEF InRegion
      <4>3. r.base \in Nat /\ RegionEnd(r) \in Nat
        BY RegionFacts
      <4>4. CASE Same
        <5>1. q = p
          BY <1>2, <2>2, <3>2, <4>4
        <5>2. QED
          BY <1>6, <4>2, <4>4, <5>1 DEF InRegion
      <4>5. CASE Split /\ q = p
        <5>1. After(t, q) = z /\ z <= RegionEnd(r) /\ z \in DOMAIN t
          BY <1>1, <1>3, <1>6, <4>2, <4>3, <4>5
        <5>2. \A x \in DOMAIN t : ~(q < x /\ x < z)
          BY <1>1, <1>3, <4>2, <4>5
        <5>3. QED
          BY <4>2, <4>5, <5>1, <5>2 DEF InRegion
      <4>6. CASE Split /\ q = z
        <5>1. After(t, q) = After(h, p) /\ r.base <= q /\ After(h, p) \in DOMAIN t \cup {RegionEnd(r)}
          BY <1>1, <1>6, <4>2, <4>3, <4>6
        <5>2. \A x \in DOMAIN t : ~(q < x /\ x < After(h, p))
          BY <1>1, <1>3, <4>2, <4>6
        <5>3. QED
          BY <4>2, <5>1, <5>2 DEF InRegion
      <4>7. QED
        BY <1>2, <3>2, <4>4, <4>5, <4>6
    <3>3. QED
      BY <1>2, <2>2, <3>1, <3>2
  <2>3. QED
    BY <2>1, <2>2 DEF Tiles
<1>9. Owned(t, l \cup {o})
  <2>1. /\ o \in [addr : Nat, size : PayloadSizes, td : TypeDescs]
        /\ o.addr = p + HdrSize /\ o.size = n /\ o.td = td /\ o.addr - HdrSize = p
    BY <1>1 DEF Object
  <2> HIDE DEF o
  <2>2. need(n) <= t[p].size
    BY <1>1, <1>2
  <2>3. ASSUME NEW x \in l
        PROVE  /\ x \in [addr : Nat, size : PayloadSizes, td : TypeDescs]
               /\ x.addr - HdrSize \in DOMAIN h /\ x.addr - HdrSize # p /\ x.addr # o.addr
               /\ h[x.addr - HdrSize].used /\ h[x.addr - HdrSize].td = x.td
               /\ need(x.size) <= h[x.addr - HdrSize].size
    <3>1. /\ x \in [addr : Nat, size : PayloadSizes, td : TypeDescs]
          /\ x.addr - HdrSize \in DOMAIN h
          /\ h[x.addr - HdrSize].used /\ h[x.addr - HdrSize].td = x.td
          /\ need(x.size) <= h[x.addr - HdrSize].size
      BY DEF Owned
    <3>2. x.addr - HdrSize # p
      BY <3>1
    <3>3. x.addr # o.addr
      BY <2>1, <3>2
    <3>4. QED
      BY <3>1, <3>2, <3>3
  <2>4. ASSUME NEW x \in l \cup {o}
        PROVE  /\ x \in [addr : Nat, size : PayloadSizes, td : TypeDescs]
               /\ x.addr - HdrSize \in DOMAIN t
               /\ t[x.addr - HdrSize].used /\ t[x.addr - HdrSize].td = x.td
               /\ need(x.size) <= t[x.addr - HdrSize].size
    <3>1. CASE x = o
      BY <1>2, <2>1, <2>2, <3>1
    <3>2. CASE x \in l
      <4>1. x.addr - HdrSize \in DOMAIN t /\ t[x.addr - HdrSize] = h[x.addr - HdrSize]
        BY <1>2, <2>3, <3>2
      <4>2. QED
        BY <2>3, <3>2, <4>1
    <3>3. QED
      BY <3>1, <3>2
  <2>5. ASSUME NEW q \in DOMAIN t, t[q].used PROVE \E x \in l \cup {o} : x.addr = q + HdrSize
    <3>1. CASE q = p
      BY <2>1, <3>1
    <3>2. CASE q # p
      <4>1. ~(Split /\ q = z)
        <5>1. SUFFICES ASSUME Split, q = z PROVE FALSE
          OBVIOUS
        <5>2. ~t[q].used
          BY <5>1, Zenon
        <5>3. QED
          BY <2>5, <5>2, Zenon
      <4>2. q \in DOMAIN h /\ t[q] = h[q]
        BY <1>2, <2>5, <3>2, <4>1
      <4>3. QED
        BY <2>5, <4>2 DEF Owned
    <3>3. QED
      BY <3>1, <3>2
  <2>6. ASSUME NEW x \in l \cup {o}, NEW y \in l \cup {o}, x.addr = y.addr PROVE x = y
    BY <2>3, <2>6 DEF Owned
  <2>7. QED
    BY <2>4, <2>5, <2>6 DEF Owned
<1>10. QED
  BY <1>7, <1>8, <1>9 DEF t

-----------------------------------------------------------------------------
(* The procedures. *)

\* A region that is new meets no block of the others.
LEMMA CreateKeeps ==
  ASSUME IInv, NEW r \in Regions, Create(r)
  PROVE  IInv'
<1> DEFINE f == FreeHeader(r.size)
<1>1. /\ r \notin given /\ base' = r.base /\ limit' = RegionEnd(r)
      /\ hdr' = setBlk(hdr, r.base, f) /\ given' = given \cup {r} /\ live' = live
  BY DEF Create
<1>2. /\ r.base \in Nat /\ r.size \in Nat /\ HdrSize \in Nat \ {0} /\ HdrSize <= r.size
      /\ RegionEnd(r) = r.base + r.size /\ given \subseteq Regions
  BY RegionFacts DEF IInv, Placed
<1>3. f \in HeaderType /\ f.size = r.size /\ ~f.used
  BY <1>2, UnusedHeader
<1> HIDE DEF f
<1>4. ASSUME NEW p \in DOMAIN hdr, NEW s \in given, InRegion(hdr, s, p)
      PROVE  /\ p \in Nat /\ p # r.base /\ p < After(hdr, p) /\ After(hdr, p) \in Nat
             /\ ~(p < r.base /\ r.base < After(hdr, p))
             /\ ~(r.base < p /\ p < RegionEnd(r))
  <2>1. /\ s.base \in Nat /\ RegionEnd(s) \in Nat
        /\ RegionEnd(s) <= r.base \/ RegionEnd(r) <= s.base
    BY <1>1, <1>2, RegionFacts
  <2>2. p \in Nat /\ p < After(hdr, p) /\ After(hdr, p) \in Nat
    BY BlockFacts DEF IInv
  <2>3. s.base <= p /\ After(hdr, p) <= RegionEnd(s)
    BY <1>4 DEF InRegion
  <2>4. QED
    BY <1>2, <2>1, <2>2, <2>3
<1>5. \A p \in DOMAIN hdr : \E s \in given : InRegion(hdr, s, p)
  BY DEF IInv, Tiles
<1>6. /\ DOMAIN hdr' = DOMAIN hdr \cup {r.base} /\ hdr'[r.base] = f
      /\ \A p \in DOMAIN hdr : hdr'[p] = hdr[p] /\ p # r.base
  <2>1. \A p \in DOMAIN hdr : p # r.base
    BY <1>4, <1>5
  <2>2. /\ DOMAIN hdr' = DOMAIN hdr \cup {r.base}
        /\ \A p \in DOMAIN hdr' : hdr'[p] = IF p = r.base THEN f ELSE hdr[p]
    BY <1>1 DEF setBlk
  <2>3. QED
    BY <2>1, <2>2
<1>7. Sized(hdr')
  <2>1. \A p \in DOMAIN hdr : hdr'[p] \in HeaderType /\ hdr'[p].size >= HdrSize /\ p \in Nat
    BY <1>6 DEF IInv, Sized, HeaderType
  <2>2. hdr'[r.base] \in HeaderType /\ hdr'[r.base].size >= HdrSize
    BY <1>2, <1>3, <1>6
  <2>3. QED
    BY <1>2, <1>6, <2>1, <2>2 DEF Sized, HeaderType
<1>8. Placed'
  BY <1>1, <1>2 DEF Placed
<1>9. Tiles(hdr', given')
  <2>1. \A s \in given' : s.base \in DOMAIN hdr'
    BY <1>1, <1>6 DEF IInv, Tiles
  <2>2. ASSUME NEW p \in DOMAIN hdr PROVE \E s \in given' : InRegion(hdr', s, p)
    <3>1. PICK s \in given : InRegion(hdr, s, p)
      BY <1>5
    <3>2. After(hdr', p) = After(hdr, p) /\ ~(p < r.base /\ r.base < After(hdr, p))
      BY <1>4, <1>6, <3>1 DEF After
    <3>3. InRegion(hdr', s, p)
      BY <1>6, <3>1, <3>2 DEF InRegion
    <3>4. QED
      BY <1>1, <3>3
  <2>3. InRegion(hdr', r, r.base)
    <3>1. After(hdr', r.base) = RegionEnd(r)
      BY <1>2, <1>3, <1>6 DEF After
    <3>2. \A p \in DOMAIN hdr' : ~(r.base < p /\ p < RegionEnd(r))
      BY <1>2, <1>4, <1>5, <1>6
    <3>3. QED
      BY <1>2, <3>1, <3>2 DEF InRegion
  <2>4. QED
    BY <1>1, <1>6, <2>1, <2>2, <2>3 DEF Tiles
<1>10. Owned(hdr', live')
  <2>1. ~hdr'[r.base].used
    BY <1>3, <1>6, Zenon
  <2>2. QED
    BY <1>1, <1>6, <2>1 DEF IInv, Owned
<1>11. QED
  BY <1>7, <1>8, <1>9, <1>10 DEF IInv

\* Alloc finds a block and gives it out.
LEMMA GrantKeeps ==
  ASSUME IInv, NEW n \in PayloadSizes, NEW td \in TypeDescs, AllocGrants(n, td)
  PROVE  IInv'
<1> DEFINE fit == {q \in Heads : FreeRun(q) >= need(n)}
           p == Min(fit)
           o == Object(p + HdrSize, n, td)
<1>1. /\ fit # {} /\ hdr' = Take(Merged(p), p, n, td) /\ live' = live \cup {o}
      /\ UNCHANGED <<base, limit, given>>
  BY DEF AllocGrants
<1>2. fit \in SUBSET Nat
  BY DEF Heads, IInv, Sized
<1>3. p \in fit
  <2> HIDE DEF fit
  <2>1. \E x \in fit : \A y \in fit : x <= y
    BY <1>1, <1>2, LeastElement
  <2>2. QED
    BY <2>1 DEF Min
<1> HIDE DEF p
<1>4. p \in Heads /\ FreeRun(p) >= need(n)
  BY <1>3
<1> HIDE DEF fit
<1>5. /\ Sized(Merged(p)) /\ Tiles(Merged(p), given) /\ Owned(Merged(p), live)
      /\ p \in DOMAIN Merged(p) /\ ~Merged(p)[p].used /\ Merged(p)[p].size = FreeRun(p)
  BY <1>4, MergedKeeps
<1>6. need(n) <= Merged(p)[p].size
  <2>1. Merged(p)[p].size \in Nat /\ need(n) \in Nat
    BY <1>5, BlockFacts, NeedFacts
  <2>2. QED
    BY <1>4, <1>5, <2>1
<1>7. given \in SUBSET Regions
  BY DEF IInv, Placed
<1>8. Sized(hdr') /\ Tiles(hdr', given) /\ Owned(hdr', live')
  BY <1>1, <1>5, <1>6, <1>7, TakeKeeps
<1>9. Placed'
  BY <1>1 DEF IInv, Placed
<1>10. QED
  BY <1>1, <1>8, <1>9 DEF IInv

\* Alloc finds none, and has merged all it saw.
LEMMA RefuseKeeps ==
  ASSUME IInv, NEW n, AllocRefuses(n)
  PROVE  IInv'
<1>1. hdr' = Merged(limit) /\ UNCHANGED <<base, limit, live, given>>
  BY DEF AllocRefuses
<1>2. Sized(hdr') /\ Tiles(hdr', given) /\ Owned(hdr', live)
  BY <1>1, MergedKeeps
<1>3. QED
  BY <1>1, <1>2 DEF IInv, Placed

\* Free clears the mark and the tag of an object's block.
LEMMA FreeKeeps ==
  ASSUME IInv, NEW o \in live, FreeObject(o)
  PROVE  IInv'
<1> DEFINE p == o.addr - HdrSize
<1>1. /\ hdr' = [hdr EXCEPT ![p].used = FALSE, ![p].td = 0] /\ live' = live \ {o}
      /\ UNCHANGED <<base, limit, given>>
  BY DEF FreeObject
<1>2. /\ o \in [addr : Nat, size : PayloadSizes, td : TypeDescs] /\ p \in DOMAIN hdr /\ p \in Nat
      /\ hdr[p] \in HeaderType /\ hdr[p].size >= HdrSize /\ HdrSize \in Nat /\ 0 \in TypeDescs
  BY RegionFacts, HeapConstants DEF IInv, Owned, Sized, HeaderType, HeapConstants
<1>3. o.addr = p + HdrSize
  BY <1>2
<1> HIDE DEF p
<1> DEFINE x == [[hdr[p] EXCEPT !.used = FALSE] EXCEPT !.td = 0]
<1>4. /\ DOMAIN hdr' = DOMAIN hdr /\ hdr'[p] = x
      /\ \A q \in DOMAIN hdr : q # p => hdr'[q] = hdr[q]
  <2>1. DOMAIN hdr' = DOMAIN hdr
    BY <1>1
  <2>2. \A q \in DOMAIN hdr : q # p => hdr'[q] = hdr[q]
    BY <1>1
  <2>3. hdr'[p] = x
    BY <1>1, <1>2, Zenon
  <2>4. QED
    BY <2>1, <2>2, <2>3
<1>5. x \in HeaderType /\ x.size = hdr[p].size /\ ~x.used
  BY <1>2 DEF HeaderType
<1> HIDE DEF x
<1>6. \A q \in DOMAIN hdr : hdr'[q].size = hdr[q].size /\ After(hdr', q) = After(hdr, q)
  BY <1>4, <1>5 DEF After
<1>7. Sized(hdr')
  <2>1. \A q \in DOMAIN hdr : q \in Nat /\ hdr'[q] \in HeaderType /\ hdr'[q].size >= HdrSize
    BY <1>2, <1>4, <1>5 DEF IInv, Sized, HeaderType
  <2>2. QED
    BY <1>4, <2>1 DEF Sized, HeaderType
<1>8. Tiles(hdr', given')
  BY <1>1, <1>4, <1>6 DEF IInv, Tiles, InRegion
<1>9. Owned(hdr', live')
  <2>1. ASSUME NEW q \in live \ {o}
        PROVE  /\ q \in [addr : Nat, size : PayloadSizes, td : TypeDescs]
               /\ q.addr - HdrSize \in DOMAIN hdr'
               /\ hdr'[q.addr - HdrSize].used
               /\ hdr'[q.addr - HdrSize].td = q.td
               /\ need(q.size) <= hdr'[q.addr - HdrSize].size
    <3>1. /\ q \in [addr : Nat, size : PayloadSizes, td : TypeDescs]
          /\ q.addr - HdrSize \in DOMAIN hdr
          /\ hdr[q.addr - HdrSize].used
          /\ hdr[q.addr - HdrSize].td = q.td
          /\ need(q.size) <= hdr[q.addr - HdrSize].size
          /\ q.addr # o.addr
      BY DEF IInv, Owned
    <3>2. q.addr - HdrSize # p
      BY <1>2, <1>3, <3>1
    <3>3. QED
      BY <1>4, <3>1, <3>2
  <2>2. ASSUME NEW q \in DOMAIN hdr', hdr'[q].used PROVE \E y \in live \ {o} : y.addr = q + HdrSize
    <3>1. q # p
      <4>1. SUFFICES ASSUME q = p PROVE FALSE
        OBVIOUS
      <4>2. ~hdr'[q].used
        BY <1>4, <1>5, <4>1, Zenon
      <4>3. QED
        BY <2>2, <4>2, Zenon
    <3>2. q \in DOMAIN hdr /\ hdr[q].used /\ q \in Nat
      BY <1>4, <2>2, <3>1 DEF IInv, Sized
    <3>3. PICK y \in live : y.addr = q + HdrSize
      BY <3>2 DEF IInv, Owned
    <3>4. y # o
      BY <1>2, <1>3, <3>1, <3>2, <3>3
    <3>5. QED
      BY <3>3, <3>4
  <2>3. \A q, y \in live \ {o} : q.addr = y.addr => q = y
    BY DEF IInv, Owned
  <2>4. QED
    BY <1>1, <2>1, <2>2, <2>3 DEF Owned
<1>10. Placed'
  BY <1>1 DEF IInv, Placed
<1>11. QED
  BY <1>7, <1>8, <1>9, <1>10 DEF IInv

-----------------------------------------------------------------------------
(* The theorems. *)

\* The invariant of the heap: headers have sizes, the active region is one the
\* heap was laid over, blocks tile every region, objects are the used blocks.
THEOREM HeapInvariance == Spec => []IInv
<1>1. Init => IInv
  <2>1. SUFFICES ASSUME Init PROVE IInv
    OBVIOUS
  <2>2. base = 0 /\ limit = 0 /\ hdr = <<>> /\ live = {} /\ given = {}
    BY <2>1 DEF Init
  <2>3. DOMAIN <<>> = {}
    OBVIOUS
  <2>4. QED
    BY <2>2, <2>3 DEF IInv, Sized, Placed, Tiles, Owned
<1>2. IInv /\ [Next]_vars => IInv'
  <2>1. SUFFICES ASSUME IInv, [Next]_vars PROVE IInv'
    OBVIOUS
  <2>2. CASE \E r \in Regions : Create(r)
    BY <2>1, <2>2, CreateKeeps
  <2>3. CASE \E n \in PayloadSizes : \E td \in TypeDescs : AllocGrants(n, td)
    BY <2>1, <2>3, GrantKeeps
  <2>4. CASE \E n \in PayloadSizes : AllocRefuses(n)
    BY <2>1, <2>4, RefuseKeeps
  <2>5. CASE \E o \in live : FreeObject(o)
    BY <2>1, <2>5, FreeKeeps
  <2>6. CASE UNCHANGED vars
    BY <2>1, <2>6 DEF vars, IInv, Placed
  <2>7. QED
    BY <2>1, <2>2, <2>3, <2>4, <2>5, <2>6 DEF Next
<1>3. QED
  BY <1>1, <1>2, PTL DEF Spec

LEMMA TypeFollows ==
  ASSUME IInv
  PROVE  TypeOK
<1>1. base \in Nat /\ limit \in Nat
  BY ActiveFacts DEF IInv
<1>2. QED
  BY <1>1 DEF IInv, TypeOK, Sized, Owned, Placed

LEMMA ChainFollows ==
  ASSUME IInv
  PROVE  ChainTiles
<1>1. ASSUME NEW p \in DOMAIN hdr
      PROVE  \E r \in given : /\ r.base <= p /\ next(p) <= RegionEnd(r)
                              /\ next(p) \in DOMAIN hdr \cup {RegionEnd(r)}
                              /\ ~\E q \in DOMAIN hdr : p < q /\ q < next(p)
  BY DEF IInv, Tiles, InRegion, next, After
<1>2. \A r \in given : r.base \in DOMAIN hdr
  BY DEF IInv, Tiles
<1>3. QED
  BY <1>1, <1>2 DEF ChainTiles

LEMMA ApartFollows ==
  ASSUME IInv
  PROVE  ObjectsApart
<1>1. /\ HdrSize \in Nat \ {0}
      /\ \A p \in DOMAIN hdr : p \in Nat /\ After(hdr, p) \in Nat /\ HdrSize <= hdr[p].size
                               /\ hdr[p].size \in Nat /\ After(hdr, p) = p + hdr[p].size
      /\ \A p, q \in DOMAIN hdr : p < q => After(hdr, p) <= q
  BY BlockFacts, RegionFacts DEF IInv, After
<1>2. ASSUME NEW o \in live
      PROVE  LET p == o.addr - HdrSize
             IN  /\ p \in DOMAIN hdr /\ hdr[p].used /\ hdr[p].td = o.td
                 /\ o.addr = p + HdrSize /\ o.addr \in Nat /\ o.size \in Nat
                 /\ o.addr + o.size <= After(hdr, p)
  <2> DEFINE p == o.addr - HdrSize
  <2>1. /\ o \in [addr : Nat, size : PayloadSizes, td : TypeDescs] /\ p \in DOMAIN hdr
        /\ hdr[p].used /\ hdr[p].td = o.td /\ need(o.size) <= hdr[p].size
    BY DEF IInv, Owned
  <2>2. o.addr = p + HdrSize
    BY <1>1, <2>1
  <2>3. o.size \in Nat /\ need(o.size) \in Nat /\ HdrSize + o.size <= need(o.size)
    BY <2>1, NeedFacts
  <2> HIDE DEF p
  <2>4. p + HdrSize + o.size <= p + hdr[p].size /\ After(hdr, p) = p + hdr[p].size
    BY <1>1, <2>1, <2>3
  <2>5. QED
    BY <1>1, <2>1, <2>2, <2>3, <2>4 DEF p
<1>3. {o.addr - HdrSize : o \in live} = {p \in DOMAIN hdr : hdr[p].used}
  <2>1. ASSUME NEW p \in DOMAIN hdr, hdr[p].used PROVE \E o \in live : p = o.addr - HdrSize
    <3>1. PICK o \in live : o.addr = p + HdrSize
      BY <2>1 DEF IInv, Owned
    <3>2. p = o.addr - HdrSize
      BY <1>1, <3>1
    <3>3. QED
      BY <3>2
  <2>2. \A o \in live : o.addr - HdrSize \in DOMAIN hdr /\ hdr[o.addr - HdrSize].used
    BY <1>2
  <2>3. QED
    BY <2>1, <2>2
<1>4. ASSUME NEW o \in live, NEW q \in live, o # q PROVE Payload(o) \cap Payload(q) = {}
  <2> DEFINE p == o.addr - HdrSize
             x == q.addr - HdrSize
  <2>1. /\ p \in DOMAIN hdr /\ o.addr = p + HdrSize /\ o.addr \in Nat /\ o.size \in Nat
        /\ o.addr + o.size <= After(hdr, p)
        /\ x \in DOMAIN hdr /\ q.addr = x + HdrSize /\ q.addr \in Nat /\ q.size \in Nat
        /\ q.addr + q.size <= After(hdr, x)
    BY <1>2
  <2>2. o.addr # q.addr
    BY <1>4 DEF IInv, Owned
  <2> HIDE DEF p, x
  <2>3. p < x \/ x < p
    BY <1>1, <2>1, <2>2
  <2>4. After(hdr, p) <= x \/ After(hdr, x) <= p
    BY <1>1, <2>1, <2>3
  <2>5. o.addr + o.size <= q.addr \/ q.addr + q.size <= o.addr
    BY <1>1, <2>1, <2>4
  <2>6. QED
    BY <2>1, <2>5 DEF Payload
<1>5. ASSUME NEW o \in live, NEW y \in DOMAIN hdr PROVE Payload(o) \cap HeaderBytes(y) = {}
  <2> DEFINE p == o.addr - HdrSize
  <2>1. /\ p \in DOMAIN hdr /\ o.addr = p + HdrSize /\ o.addr \in Nat /\ o.size \in Nat
        /\ o.addr + o.size <= After(hdr, p)
    BY <1>2
  <2> HIDE DEF p
  <2>2. y + HdrSize <= o.addr \/ o.addr + o.size <= y
    <3>1. CASE y = p
      BY <1>1, <2>1, <3>1
    <3>2. CASE y < p
      BY <1>1, <2>1, <3>2
    <3>3. CASE p < y
      BY <1>1, <2>1, <3>3
    <3>4. QED
      BY <1>1, <2>1, <3>1, <3>2, <3>3
  <2>3. QED
    BY <1>1, <2>1, <2>2 DEF Payload, HeaderBytes
<1>6. ASSUME NEW o \in live PROVE \E r \in given : Payload(o) \subseteq r.base .. (RegionEnd(r) - 1)
  <2> DEFINE p == o.addr - HdrSize
  <2>1. /\ p \in DOMAIN hdr /\ o.addr = p + HdrSize /\ o.addr \in Nat /\ o.size \in Nat
        /\ o.addr + o.size <= After(hdr, p)
    BY <1>2
  <2> HIDE DEF p
  <2>2. PICK r \in given : InRegion(hdr, r, p)
    BY <2>1 DEF IInv, Tiles
  <2>3. r.base \in Nat /\ RegionEnd(r) \in Nat /\ r.base <= p /\ After(hdr, p) <= RegionEnd(r)
    BY <2>2, RegionFacts DEF IInv, Placed, InRegion
  <2>4. QED
    BY <1>1, <2>1, <2>3 DEF Payload
<1>7. QED
  BY <1>2, <1>3, <1>4, <1>5, <1>6 DEF ObjectsApart

\* A free stretch lies in one run, whose head Alloc reaches.
LEMMA NoFalseRefusalFollows ==
  ASSUME IInv
  PROVE  NoFalseRefusal
<1>1. SUFFICES ASSUME NEW n \in PayloadSizes, NEW a \in DOMAIN hdr, NEW z \in DOMAIN hdr \cup {limit},
                      base <= a, a + need(n) <= z, z <= limit,
                      \A p \in DOMAIN hdr : (a <= p /\ p < z) => ~hdr[p].used
               PROVE  \E p \in Heads : FreeRun(p) >= need(n)
  BY DEF NoFalseRefusal
<1>2. Walks
  BY DEF IInv, Walks
<1>3. /\ n \in Nat /\ need(n) \in Nat /\ 0 < need(n) /\ base \in Nat /\ limit \in Nat
      /\ \A p \in DOMAIN hdr : p \in Nat /\ p < next(p) /\ next(p) \in Nat
      /\ \A p, q \in DOMAIN hdr : p < q => next(p) <= q
  BY NeedFacts, RegionFacts, ActiveFacts, BlockFacts DEF IInv, next, After
<1>4. z \in Nat /\ a \in Nat /\ a < z
  BY <1>1, <1>3
<1> DEFINE Q == {q \in DOMAIN hdr : /\ Active(q) /\ q <= a
                                   /\ \A x \in DOMAIN hdr : q <= x /\ x <= a => ~hdr[x].used}
<1>5. a \in Q
  <2>1. Active(a)
    BY <1>1, <1>3, <1>4 DEF Active
  <2>2. \A x \in DOMAIN hdr : a <= x /\ x <= a => ~hdr[x].used
    BY <1>1, <1>3, <1>4
  <2>3. QED
    BY <1>4, <2>1, <2>2
<1>6. PICK q \in Q : \A m \in Q : q <= m
  <2>1. Q \in SUBSET Nat /\ Q # {}
    BY <1>3, <1>5
  <2> HIDE DEF Q
  <2>2. QED
    BY <2>1, LeastElement
<1>7. q \in Heads
  <2>1. q \in DOMAIN hdr /\ Active(q) /\ q \in Nat /\ q <= a /\ ~hdr[q].used
    BY <1>3, <1>6
  <2>2. ASSUME NEW y \in DOMAIN hdr, Active(y), ~hdr[y].used, next(y) = q PROVE FALSE
    <3>1. y < q /\ y \in Nat
      BY <1>3, <2>2
    <3>2. \A x \in DOMAIN hdr : y <= x /\ x <= a => ~hdr[x].used
      <4>1. SUFFICES ASSUME NEW x \in DOMAIN hdr, y <= x, x <= a PROVE ~hdr[x].used
        OBVIOUS
      <4>2. x = y \/ q <= x
        BY <1>3, <2>2, <4>1
      <4>3. QED
        BY <1>6, <2>2, <4>1, <4>2
    <3>3. y \in Q
      BY <1>4, <2>1, <2>2, <3>1, <3>2
    <3>4. QED
      BY <1>6, <2>1, <3>1, <3>3
  <2>3. QED
    BY <2>1, <2>2 DEF Heads
<1>8. q \in Chain /\ q \in Nat /\ q <= a
  BY <1>3, <1>6 DEF Chain
<1>9. FreeRun(q) = Stop(q) - q /\ Stop(q) \in Stops(q) /\ Stop(q) \in Nat
  BY <1>2, <1>8, FreeRunIsGap, StopFacts
<1>10. z <= Stop(q)
  <2>1. CASE Stop(q) = limit
    BY <1>1, <2>1
  <2>2. CASE Stop(q) # limit
    <3>1. Stop(q) \in DOMAIN hdr /\ hdr[Stop(q)].used /\ q <= Stop(q)
      BY <1>9, <2>2 DEF Stops
    <3>2. ~(Stop(q) <= a)
      BY <1>6, <3>1
    <3>3. ~(a <= Stop(q) /\ Stop(q) < z)
      BY <1>1, <3>1
    <3>4. QED
      BY <1>4, <1>9, <3>2, <3>3
  <2>3. QED
    BY <2>1, <2>2
<1>11. FreeRun(q) >= need(n)
  BY <1>1, <1>3, <1>4, <1>8, <1>9, <1>10
<1>12. QED
  BY <1>7, <1>11

\* Headers and objects have the types that the walks of Alloc and Free rely on.
THEOREM HeapTypes == Spec => []TypeOK
  BY HeapInvariance, TypeFollows, PTL

\* The chain that Alloc walks never leaves its region nor skips a block, however
\* blocks are split, merged and freed.
THEOREM ChainAlwaysTiles == Spec => []ChainTiles
  BY HeapInvariance, ChainFollows, PTL

\* No two objects, and no object and header, share a byte, and each object keeps
\* the tag NEW gave it.
THEOREM ObjectsStayApart == Spec => []ObjectsApart
  BY HeapInvariance, ApartFollows, PTL

\* NEW does not refuse what a free stretch of the heap has room for: Alloc merges
\* the blocks of the stretch before it looks at their size.
THEOREM NeverRefusesWrongly == Spec => []NoFalseRefusal
  BY HeapInvariance, NoFalseRefusalFollows, PTL
=============================================================================
