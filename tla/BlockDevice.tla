----------------------------- MODULE BlockDevice -----------------------------
(***************************************************************************)
(* What OS16's file system needs of a block driver (Driver.BlockDriver):   *)
(* calls come one at a time; a call for a block that the open drive has    *)
(* succeeds, reads what was last written there and changes nothing else;   *)
(* any other call fails and changes nothing.  A medium that cannot be      *)
(* written takes writes and forgets them.                                  *)
(***************************************************************************)
EXTENDS Integers

CONSTANTS Size, Drives, Ops

VARIABLES
  drive,     \* the drive that calls go to
  disk,      \* disk[d][b]: the contents of block b of drive d
  present,   \* the drives with a medium
  fixed,     \* the drives whose medium cannot be written
  call,      \* the call under way, or NoCall
  stored,    \* a write under way has reached the disk
  result     \* of the last call

vars == <<drive, disk, present, fixed, call, stored, result>>

NoCall   == [op |-> "none"]
NoResult == [ok |-> FALSE, op |-> "none"]

Accessible(b) == drive \in present /\ b < Size

\* Any contents, any media, and no call yet.
Init ==
  /\ drive \notin Drives
  /\ fixed \subseteq present /\ present \subseteq Drives
  /\ call = NoCall /\ stored = FALSE /\ result = NoResult

Open(d) ==
  /\ call = NoCall
  /\ drive' = d
  /\ UNCHANGED <<disk, present, fixed, call, stored, result>>

Begin ==
  /\ call = NoCall /\ drive \in Drives
  /\ call'.op \in Ops /\ call'.block \in Nat
  /\ stored' = FALSE /\ result' = NoResult
  /\ UNCHANGED <<drive, disk, present, fixed>>

\* The one step of a write that the disk sees.
Store ==
  /\ call.op = "write" /\ ~stored /\ Accessible(call.block)
  /\ disk' = IF drive \in fixed THEN disk
             ELSE [disk EXCEPT ![drive][call.block] = call.data]
  /\ stored' = TRUE
  /\ UNCHANGED <<drive, present, fixed, call, result>>

Return(r) ==
  /\ result' = r
  /\ call' = NoCall /\ stored' = FALSE
  /\ UNCHANGED <<drive, disk, present, fixed>>

Succeed ==
  /\ call # NoCall /\ Accessible(call.block)
  /\ \/ call.op = "read" /\ Return([ok |-> TRUE, op |-> "read", data |-> disk[drive][call.block]])
     \/ call.op = "write" /\ stored /\ Return([ok |-> TRUE, op |-> "write"])

Fail ==
  /\ call # NoCall /\ ~Accessible(call.block)
  /\ Return([ok |-> FALSE, op |-> call.op])

Next == (\E d \in Drives : Open(d)) \/ Begin \/ Store \/ Succeed \/ Fail

Spec == Init /\ [][Next]_vars
=============================================================================
