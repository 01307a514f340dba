--------------------------- MODULE MemoryManager ---------------------------
(***************************************************************************)
(* OS16/src/MemoryManager.Mod: the coarse allocator of the managed zone    *)
(* [RamBase, RamTop).                                                      *)
(*                                                                         *)
(* The four parallel arrays base, size, kind and owner and their count     *)
(* nseg are one sequence of segments, seg, with nseg = Len(seg).  A call   *)
(* of an exported procedure is one action: the module has no concurrency   *)
(* of its own.  Two history variables, which no action reads, record what  *)
(* the callers were told:                                                  *)
(*   held       the blocks handed out by Alloc and AllocFixed and not yet  *)
(*              given back;                                                *)
(*   truncated  TRUE once insert has dropped a segment because the table   *)
(*              was full.                                                  *)
(* Addresses are natural numbers: the zone is far below the 2^31 of a      *)
(* LONGINT, so no sum in the module wraps.                                 *)
(***************************************************************************)
EXTENDS Integers, Sequences, SequencesExt, FiniteSets

CONSTANTS
  MaxBlocks,        \* size of the segment table (128 in the code)
  Bank, Page,       \* the two alignments alignUp knows (10000H and 100H)
  RamBase, RamTop,  \* the bounds the boot code gives to Init
  Kinds,            \* the kinds of an allocated block (Code, Data, ...)
  Owners,           \* process ids, beside Sys
  Sizes             \* the sizes the callers ask for

Free == "Free"
Sys  == "Sys"

\* RamBase # 0 because Alloc answers 0 for "no memory"; Bootstrap gives 40000H.
\* Every caller asks for at least one byte.
ASSUME MemoryConstants ==
  /\ MaxBlocks \in Nat \ {0}
  /\ Page \in Nat \ {0} /\ Bank \in Nat \ {0}
  /\ RamBase \in Nat \ {0} /\ RamTop \in Nat /\ RamBase < RamTop
  /\ Free \notin Kinds
  /\ Sizes \subseteq Nat \ {0}

VARIABLES seg, held, truncated
vars == <<seg, held, truncated>>

Segment(b, s, k, o) == [base |-> b, size |-> s, kind |-> k, owner |-> o]
SegmentType ==
  [base : Nat, size : Nat, kind : Kinds \cup {Free}, owner : Owners \cup {Sys}]

End(s)     == s.base + s.size
Overlap(s, t) == s.base < End(t) /\ t.base < End(s)
Alignments == {1, Page, Bank}
Addresses  == (RamBase - 1) .. RamTop

-----------------------------------------------------------------------------
(* The segment table. *)

\* Insert e before position i.  A full table drops it without a word.
insert(s, i, e) == IF Len(s) < MaxBlocks THEN InsertAt(s, i, e) ELSE s

carveKeepsLeadSize(s, i, a, sz, k, own) ==
  LET tail == Segment(a + sz, End(s[i]) - (a + sz), Free, Sys)
      withTail(t, j) == IF a + sz < End(s[i]) THEN insert(t, j, tail) ELSE t
  IN  IF a = s[i].base
      THEN withTail([s EXCEPT ![i] = Segment(a, sz, k, own)], i + 1)
      ELSE withTail(insert(s, i + 1, Segment(a, sz, k, own)), i + 2)

\* Take [a, a+sz) out of the free segment i; what is left on either side of it
\* stays free.
carve(s, i, a, sz, k, own) ==
  LET block == Segment(a, sz, k, own)
      tail  == Segment(a + sz, End(s[i]) - (a + sz), Free, Sys)
      withTail(t, j) == IF a + sz < End(s[i]) THEN insert(t, j, tail) ELSE t
  IN  IF a = s[i].base
      THEN withTail([s EXCEPT ![i] = block], i + 1)
      ELSE withTail(insert([s EXCEPT ![i].size = a - s[i].base], i + 1, block), i + 2)

\* The segments carve adds, whether or not the table has room for them.
Added(s, i, a, sz) ==
  (IF a = s[i].base THEN 0 ELSE 1) + (IF a + sz < End(s[i]) THEN 1 ELSE 0)

\* The loop's table t of the segments so far takes the next one: two free
\* neighbours become one.
Extend(t, e) ==
  IF t # <<>> /\ Last(t).kind = Free /\ e.kind = Free
  THEN [t EXCEPT ![Len(t)].size = @ + e.size]
  ELSE Append(t, e)

\* Merge each run of free segments into its first.
coalesce(s) ==
  LET merged[n \in 0 .. Len(s)] == IF n = 0 THEN <<>> ELSE Extend(merged[n - 1], s[n])
  IN  merged[Len(s)]

\* Round a up to al, when al is a bank or a page; any other al leaves it alone.
alignUp(a, al) ==
  IF al \in {Bank, Page} THEN a + (al - 1) - ((a + (al - 1)) % al) ELSE a

-----------------------------------------------------------------------------
(* The procedures. *)

\* The module body leaves the table empty.
Init ==
  /\ seg = <<>>
  /\ held = {}
  /\ truncated = FALSE

\* Init*(RamBase, RamTop), which HeapManager.Bootstrap calls while it has no heap.
Initialise ==
  /\ seg = <<>>
  /\ seg' = <<Segment(RamBase, RamTop - RamBase, Free, Sys)>>
  /\ UNCHANGED <<held, truncated>>

\* Both allocators end this way: the caller is told that it has [a, a+sz).
Grant(i, a, sz, k, own) ==
  /\ seg' = carve(seg, i, a, sz, k, own)
  /\ held' = held \cup {Segment(a, sz, k, own)}
  /\ truncated' = (truncated \/ Len(seg) + Added(seg, i, a, sz) > MaxBlocks)

FitsAnyKind(s, sz, al) == alignUp(s.base, al) + sz <= End(s)

Fits(s, sz, al) == s.kind = Free /\ alignUp(s.base, al) + sz <= End(s)

\* First fit: the lowest segment that can take the aligned block.
Alloc(k, sz, al, own) ==
  \E i \in DOMAIN seg :
    /\ Fits(seg[i], sz, al)
    /\ \A j \in 1 .. (i - 1) : ~Fits(seg[j], sz, al)
    /\ Grant(i, alignUp(seg[i].base, al), sz, k, own)

HoldsStart(s, b, sz) == s.kind = Free /\ s.base <= b /\ b < End(s)

Holds(s, b, sz) == s.kind = Free /\ s.base <= b /\ b + sz <= End(s)

AllocFixed(b, sz, k, own) ==
  \E i \in DOMAIN seg :
    /\ Holds(seg[i], b, sz)
    /\ \A j \in 1 .. (i - 1) : ~Holds(seg[j], b, sz)
    /\ Grant(i, b, sz, k, own)

\* A call that finds no room: Alloc answers 0, AllocFixed FALSE, nothing changes.
Refuse ==
  /\ \/ \E sz \in Sizes, al \in Alignments : \A i \in DOMAIN seg : ~Fits(seg[i], sz, al)
     \/ \E b \in Addresses, sz \in Sizes : \A i \in DOMAIN seg : ~Holds(seg[i], b, sz)
  /\ UNCHANGED vars

Freed(s) == [s EXCEPT !.kind = Free, !.owner = Sys]

\* Free the first segment based at addr; any other address is ignored.
Release(addr) ==
  /\ \/ \E i \in DOMAIN seg :
          /\ seg[i].base = addr
          /\ \A j \in 1 .. (i - 1) : seg[j].base # addr
          /\ seg' = IF seg[i].kind # Free
                    THEN coalesce([seg EXCEPT ![i] = Freed(@)]) ELSE seg
     \/ /\ \A i \in DOMAIN seg : seg[i].base # addr
        /\ UNCHANGED seg
  /\ held' = {h \in held : h.base # addr}
  /\ UNCHANGED truncated

FreesAllUsed(s, own) == s.kind # Free

ReclaimedBy(s, own) == s.kind # Free /\ s.owner = own

FreeOwner(own) ==
  /\ seg' = coalesce([i \in DOMAIN seg |->
                        IF ReclaimedBy(seg[i], own) THEN Freed(seg[i]) ELSE seg[i]])
  /\ held' = {h \in held : h.owner # own}
  /\ UNCHANGED truncated

Next ==
  \/ Initialise
  \/ \E k \in Kinds, sz \in Sizes, own \in Owners \cup {Sys} :
       \/ \E al \in Alignments : Alloc(k, sz, al, own)
       \/ \E b \in Addresses : AllocFixed(b, sz, k, own)
  \/ Refuse
  \/ \E addr \in Addresses : Release(addr)
  \/ \E own \in Owners \cup {Sys} : FreeOwner(own)

Spec == Init /\ [][Next]_vars

-----------------------------------------------------------------------------
(* What must hold. *)

\* The table never outgrows its arrays and holds segments of natural bounds.
TypeOK ==
  /\ seg \in Seq(SegmentType) /\ Len(seg) <= MaxBlocks
  /\ held \subseteq SegmentType
  /\ truncated \in BOOLEAN

\* "One ordered (by base) segment table": whatever Alloc, AllocFixed, Release,
\* FreeOwner and a full table do, the segments stay in order and disjoint, and
\* inside the zone.
Ordered(s) ==
  /\ \A i, j \in DOMAIN s : i < j => End(s[i]) <= s[j].base
  /\ \A i \in DOMAIN s : RamBase <= s[i].base /\ End(s[i]) <= RamTop /\ s[i].size > 0
TableOrdered == Ordered(seg)

\* Until a segment is dropped the table has no gap: every byte of the zone
\* belongs to a segment, free or used.
TableCovers ==
  (seg # <<>> /\ ~truncated) =>
    /\ seg[1].base = RamBase
    /\ End(Last(seg)) = RamTop
    /\ \A i \in 1 .. (Len(seg) - 1) : End(seg[i]) = seg[i + 1].base

Used(s) == {s[i] : i \in {j \in DOMAIN s : s[j].kind # Free}}

\* Until a segment is dropped the used segments are exactly the blocks the
\* callers hold: nothing is lost, nothing is freed behind its owner's back.
TableIsHeld == ~truncated => Used(seg) = held

\* "Hands out non-overlapping, owned blocks": no two blocks that callers hold
\* share a byte.
HeldDisjoint == \A g, h \in held : g # h => ~Overlap(g, h)

\* The same, as long as the table has never been full.
HeldDisjointUnlessTruncated == ~truncated => HeldDisjoint

\* Coalescing is complete: Alloc refuses sz bytes only when no gap between the
\* blocks callers hold could take them, at any address of that alignment.
NoFalseRefusal ==
  (seg # <<>> /\ ~truncated) =>
    \A sz \in Sizes, al \in Alignments :
      (\E a \in RamBase .. (RamTop - sz) :
          /\ alignUp(a, al) = a
          /\ \A h \in held : ~Overlap(Segment(a, sz, Free, Sys), h))
      => \E i \in DOMAIN seg : Fits(seg[i], sz, al)

-----------------------------------------------------------------------------
(* The blocks callers hold, seen as the promise they were given. *)

Promise == INSTANCE BlockOwnership WITH blocks <- held, open <- (seg # <<>>)

\* Until a segment is dropped, every call gives out a block that is clear of the
\* blocks already out, takes back the one block it names, ends one owner, or
\* leaves the callers' blocks alone.
KeepsPromise ==
  Promise!Init /\ [][~truncated' => Promise!Next]_<<held, seg # <<>>>>
=============================================================================
