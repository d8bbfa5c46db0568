------------------------ MODULE MCPublishTransaction ------------------------
(* Instances of PublishTransaction for TLC.                                 *)
EXTENDS PublishTransaction, TLC

CONSTANTS v1, v2, t1, t2, s1, s2, w1, w2, single, multiNode, multiWriter

(* Two targets of one volume. *)
OneVolume == t1 :> v1 @@ t2 :> v1

(* Two volumes that share the state directory. *)
TwoVolumes == t1 :> v1 @@ t2 :> v2

WorkerSymmetry == Permutations(Workers)
=============================================================================
