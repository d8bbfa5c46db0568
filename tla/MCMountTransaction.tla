------------------------- MODULE MCMountTransaction -------------------------
(* Instances of MountTransaction for TLC.                                   *)
EXTENDS MountTransaction, TLC

CONSTANTS b1, b2

BinarySymmetry == Permutations(Binaries)
=============================================================================
