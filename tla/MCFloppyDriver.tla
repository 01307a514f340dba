--------------------------- MODULE MCFloppyDriver ---------------------------
(* Three cylinders of four sectors, in sectors of two bytes; a byte holds a *)
(* few track numbers past the disk's.  Every block starts out different.   *)
EXTENDS FloppyDriver

DistinctImages ==
  [d \in Drives |-> [b \in 0 .. (DiskBlocks - 1) |-> [j \in 0 .. (SectorSize - 1) |->
     IF j = 0 THEN b ELSE d]]]

\* Both sides, two tracks, the last block, and the first one past the disk.
SomeBlocks == {0, 3, 6, DiskBlocks - 1, DiskBlocks}

OnePayload == {[j \in 0 .. (SectorSize - 1) |-> 15 - j]}
=============================================================================
