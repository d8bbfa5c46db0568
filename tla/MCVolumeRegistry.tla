--------------------------- MODULE MCVolumeRegistry ---------------------------
(* Instances of VolumeRegistry for TLC. *)
EXTENDS VolumeRegistry

CONSTANTS n1, p1, p2, h1, h2, h3
=============================================================================
