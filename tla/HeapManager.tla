---------------------------- MODULE HeapManager ----------------------------
(***************************************************************************)
(* OS16/src/HeapManager.Mod: the target of NEW.  It sub-allocates inside   *)
(* one HEAP block of the MemoryManager, the region [base, limit), which a  *)
(* chain of blocks tiles; each starts with a header of size, in-use flag   *)
(* and type tag.                                                           *)
(*                                                                         *)
(* hdr maps the address of each header on the chain to its fields.  A      *)
(* header that merging has swallowed is inside a larger block, where the   *)
(* next owner may overwrite it, so it is no longer in DOMAIN hdr.  Two     *)
(* history variables record the callers' side: live, the objects they have *)
(* and have not freed, and given, the regions the heap was laid over.      *)
(*                                                                         *)
(* Callers keep two rules the code does not check: they free an object     *)
(* once, and they write only inside its payload.                           *)
(***************************************************************************)
EXTENDS Integers, FiniteSets, FiniteSetsExt

CONSTANTS
  HdrSize,       \* 12
  Regions,       \* the blocks MemoryManager.Alloc(Heap, ...) hands to Create
  PayloadSizes,  \* the sizes NEW asks for
  TypeDescs      \* the tags NEW passes, 0 for a raw buffer

MinBlock == HdrSize + 4

RegionEnd(r) == r.base + r.size

\* Regions are distinct blocks of the MemoryManager, which never overlap, and
\* each can hold a header.
ASSUME HeapConstants ==
  /\ HdrSize \in Nat \ {0}
  /\ \A r \in Regions : r.base \in Nat \ {0} /\ r.size \in Nat /\ r.size >= MinBlock
  /\ \A r, s \in Regions : r # s => RegionEnd(r) <= s.base \/ RegionEnd(s) <= r.base
  /\ PayloadSizes \subseteq Nat /\ TypeDescs \subseteq Nat /\ 0 \in TypeDescs

VARIABLES base, limit, hdr, live, given
vars == <<base, limit, hdr, live, given>>

Header(s, u, td) == [size |-> s, used |-> u, td |-> td]
FreeHeader(s)    == Header(s, FALSE, 0)
Object(a, n, td) == [addr |-> a, size |-> n, td |-> td]
Payload(o)       == o.addr .. (o.addr + o.size - 1)
HeaderBytes(p)   == p .. (p + HdrSize - 1)

\* The chain when the header x has been written at p.
setBlk(h, p, x)  == [q \in DOMAIN h \cup {p} |-> IF q = p THEN x ELSE h[q]]

-----------------------------------------------------------------------------
(* The chain of the active region. *)

next(p)   == p + hdr[p].size
Active(p) == base <= p /\ p < limit

\* Where the walk of Alloc starts to merge: a free block after a used one, or
\* the first block.
Heads ==
  {p \in DOMAIN hdr : /\ Active(p) /\ ~hdr[p].used
                      /\ ~\E q \in DOMAIN hdr : Active(q) /\ ~hdr[q].used /\ next(q) = p}

\* Size of the free block that merging makes at p: p and the free blocks after it.
FreeRun(p) ==
  LET run[q \in {a \in DOMAIN hdr : Active(a)} \cup {limit}] ==
        IF q = limit \/ hdr[q].used THEN 0 ELSE hdr[q].size + run[next(q)]
  IN  run[p]

NeedPayloadOnly(n) == ((n + 1) \div 2) * 2

\* The block an object of n bytes takes: a header and an even payload.
need(n) == HdrSize + ((n + 1) \div 2) * 2

\* The walk reaches every head up to the block p that is taken (or the end, when
\* none is) and leaves one block where each run was; later runs it never saw.
Merged(p) ==
  LET stop == IF p = limit THEN limit ELSE p + FreeRun(p)
  IN  [q \in {q \in DOMAIN hdr : Active(q) /\ q < stop => hdr[q].used \/ q \in Heads} |->
         IF q \in Heads /\ q < stop THEN FreeHeader(FreeRun(q)) ELSE hdr[q]]

TakeForgetsRemainderSize(h, p, n, td) ==
  IF h[p].size - need(n) >= MinBlock
  THEN setBlk(setBlk(h, p + need(n), FreeHeader(h[p].size)), p, Header(need(n), TRUE, td))
  ELSE setBlk(h, p, Header(h[p].size, TRUE, td))

TakeUntagged(h, p, n, td) ==
  IF h[p].size - need(n) >= MinBlock
  THEN setBlk(setBlk(h, p + need(n), FreeHeader(h[p].size - need(n))), p, Header(need(n), TRUE, h[p].td))
  ELSE setBlk(h, p, Header(h[p].size, TRUE, h[p].td))

\* Give the block p of chain h to an object: split off the rest, unless the rest
\* would be a splinter, and tag it.
Take(h, p, n, td) ==
  IF h[p].size - need(n) >= MinBlock
  THEN setBlk(setBlk(h, p + need(n), FreeHeader(h[p].size - need(n))), p, Header(need(n), TRUE, td))
  ELSE setBlk(h, p, Header(h[p].size, TRUE, td))

-----------------------------------------------------------------------------
(* The procedures. *)

\* The module body, before its Bootstrap.
Init ==
  /\ base = 0 /\ limit = 0
  /\ hdr = <<>>
  /\ live = {} /\ given = {}

\* Create, called by Bootstrap or by a kernel, and Init*: one free block over a
\* fresh region, which becomes the only one Alloc looks at.
Create(r) ==
  /\ r \in Regions \ given
  /\ base' = r.base /\ limit' = RegionEnd(r)
  /\ hdr' = setBlk(hdr, r.base, FreeHeader(r.size))
  /\ given' = given \cup {r}
  /\ UNCHANGED live

AllocGrants(n, td) ==
  LET fit == {p \in Heads : FreeRun(p) >= need(n)}
      p   == Min(fit)
  IN  /\ fit # {}
      /\ hdr' = Take(Merged(p), p, n, td)
      /\ live' = live \cup {Object(p + HdrSize, n, td)}
      /\ UNCHANGED <<base, limit, given>>

\* Alloc answers 0, and has still merged every run of free blocks.
AllocRefuses(n) ==
  /\ \A p \in Heads : FreeRun(p) < need(n)
  /\ hdr' = Merged(limit)
  /\ UNCHANGED <<base, limit, live, given>>

\* Lazy: only the flag and the tag.  The object may be of an earlier region.
FreeObject(o) ==
  /\ hdr' = [hdr EXCEPT ![o.addr - HdrSize].used = FALSE, ![o.addr - HdrSize].td = 0]
  /\ live' = live \ {o}
  /\ UNCHANGED <<base, limit, given>>

Next ==
  \/ \E r \in Regions : Create(r)
  \/ \E n \in PayloadSizes : (\E td \in TypeDescs : AllocGrants(n, td)) \/ AllocRefuses(n)
  \/ \E o \in live : FreeObject(o)

Spec == Init /\ [][Next]_vars

-----------------------------------------------------------------------------
(* What must hold. *)

\* Headers have natural sizes, at least a header each, and callers natural addresses.
TypeOK ==
  /\ base \in Nat /\ limit \in Nat
  /\ \A p \in DOMAIN hdr : /\ p \in Nat
                           /\ hdr[p] \in [size : Nat, used : BOOLEAN, td : TypeDescs]
                           /\ hdr[p].size >= HdrSize
  /\ \A o \in live : o \in [addr : Nat, size : PayloadSizes, td : TypeDescs]
  /\ given \subseteq Regions

\* In every region the heap was laid over, the blocks tile it: the first starts
\* at its base and each ends where the next starts or at the region's end.  A
\* walk that follows sizes therefore never leaves the region nor misses a block.
ChainTiles ==
  /\ \A r \in given : r.base \in DOMAIN hdr
  /\ \A p \in DOMAIN hdr : \E r \in given :
       /\ r.base <= p /\ next(p) <= RegionEnd(r)
       /\ next(p) \in DOMAIN hdr \cup {RegionEnd(r)}
       /\ ~\E q \in DOMAIN hdr : p < q /\ q < next(p)

\* Splitting wastes less than a smallest block on any object.
SlackBounded ==
  \A o \in live : LET p == o.addr - HdrSize IN p \in DOMAIN hdr => hdr[p].size < need(o.size) + MinBlock

\* The objects callers have are exactly the used blocks, each with the tag it was
\* allocated with four bytes before it (dynamic dispatch reads it there).  No two
\* objects share a byte, no header (of a free block or another object) lies in
\* an object's payload, and every payload is inside a region.
ObjectsApart ==
  /\ {o.addr - HdrSize : o \in live} = {p \in DOMAIN hdr : hdr[p].used}
  /\ \A o \in live :
       /\ hdr[o.addr - HdrSize].td = o.td
       /\ \A q \in live : o # q => Payload(o) \cap Payload(q) = {}
       /\ \A p \in DOMAIN hdr : Payload(o) \cap HeaderBytes(p) = {}
       /\ \E r \in given : Payload(o) \subseteq r.base .. (RegionEnd(r) - 1)

\* Merging as the walk goes loses nothing: when a stretch of the active region
\* that no used block touches has room for an object, NEW does not refuse it.
NoFalseRefusal ==
  \A n \in PayloadSizes, a \in DOMAIN hdr, z \in DOMAIN hdr \cup {limit} :
    (/\ base <= a /\ a + need(n) <= z /\ z <= limit
     /\ \A p \in DOMAIN hdr : (a <= p /\ p < z) => ~hdr[p].used)
    => \E p \in Heads : FreeRun(p) >= need(n)
=============================================================================
