---------------------------- MODULE MCBinaryStore ----------------------------
(* Instances of BinaryStore for TLC. *)
EXTENDS BinaryStore

CONSTANTS d1, d2, d3, i1, i2, v1
=============================================================================
