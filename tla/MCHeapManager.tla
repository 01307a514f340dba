--------------------------- MODULE MCHeapManager ---------------------------
(* A heap of 58 bytes, and a second one of 20 that a kernel may create later. *)
EXTENDS HeapManager

TwoRegions == {[base |-> 100, size |-> 58], [base |-> 200, size |-> 20]}
AskedSizes == {0, 1, 5}
Tags == {0, 7}
=============================================================================
