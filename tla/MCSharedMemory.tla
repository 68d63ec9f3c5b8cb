--------------------------- MODULE MCSharedMemory ---------------------------
(***************************************************************************)
(* Instances of SharedMemory for TLC.                                      *)
(***************************************************************************)
EXTENDS SharedMemory, TLC

CONSTANTS b1, b2, k1

Symmetry == Permutations({b1, b2})
=============================================================================
