------------------------------- MODULE MCFiles -------------------------------
(* Two files and two riders on a disk of three clusters, each of two one-byte *)
(* sectors, whose FAT takes three blocks.                                    *)
EXTENDS Files, TLC

Bits == {1, 2}
Symmetry == Permutations(Handles) \cup Permutations(Riders) \cup Permutations(Names)
=============================================================================
