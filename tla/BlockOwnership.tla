-------------------------- MODULE BlockOwnership --------------------------
(***************************************************************************)
(* What OS16/doc/OS16_MemoryManagement.md and the head of MemoryManager.Mod *)
(* promise, with no table: the zone is a set of owned blocks, no two of    *)
(* which overlap, and a block leaves the set only when it is released by   *)
(* its address or its owner exits.                                         *)
(***************************************************************************)
EXTENDS Integers

CONSTANTS RamBase, RamTop, Kinds, Owners, Sizes
VARIABLES blocks, open

Sys == "Sys"
vars == <<blocks, open>>

Apart(g, h) == g.base + g.size <= h.base \/ h.base + h.size <= g.base

Init == blocks = {} /\ open = FALSE

Open == ~open /\ open' = TRUE /\ UNCHANGED blocks

\* Somewhere in the zone, clear of every block there is.
Give(b) ==
  /\ open
  /\ RamBase <= b.base /\ b.base + b.size <= RamTop
  /\ \A g \in blocks : Apart(b, g)
  /\ blocks' = blocks \cup {b}
  /\ UNCHANGED open

TakeBack(b) == blocks' = blocks \ {b} /\ UNCHANGED open

Exit(own) == blocks' = {b \in blocks : b.owner # own} /\ UNCHANGED open

Next ==
  \/ Open
  \/ \E a \in RamBase .. RamTop, sz \in Sizes, k \in Kinds, own \in Owners \cup {Sys} :
       Give([base |-> a, size |-> sz, kind |-> k, owner |-> own])
  \/ \E b \in blocks : TakeBack(b)
  \/ \E own \in Owners \cup {Sys} : Exit(own)

Spec == Init /\ [][Next]_vars
=============================================================================
