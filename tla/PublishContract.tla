--------------------------- MODULE PublishContract ---------------------------
(***************************************************************************)
(* What the node plugin promises about one workload target, with no word   *)
(* about locks, program steps or record contents: the lifecycle            *)
(*                                                                         *)
(*     none -> pending -> published -> unpublishing -> none                *)
(*                 \___________________/                                   *)
(*                                                                         *)
(* tied to the bind mount at the target.  A target is bound only under a   *)
(* pending record, stays bound as long as it is published, loses its       *)
(* record only once it is unbound, and a cleanup never turns back.         *)
(*                                                                         *)
(* The records live in a directory.  recoverable holds every assignment of *)
(* statuses that a power loss may leave there: changing a record adds one, *)
(* syncing the directory leaves only the visible one.                      *)
(***************************************************************************)
CONSTANT Targets

VARIABLES
  status,        \* status of the visible record of each target
  bound,         \* is a bind mount present at the target?
  recoverable    \* the status assignments a power loss may leave

vars == <<status, bound, recoverable>>

Statuses == {"none", "pending", "published", "unpublishing"}

(* The edges of validatePublishStatusTransition. *)
LegalTransition(from, to) ==
  <<from, to>> \in { <<"none", "pending">>,
                     <<"pending", "published">>,
                     <<"pending", "unpublishing">>,
                     <<"published", "unpublishing">>,
                     <<"unpublishing", "none">> }

(* Where the target must stand with respect to its bind mount for a record *)
(* to take status st: a new record finds the target unbound, publication   *)
(* finds it bound, and a record is dropped only from an unbound target.    *)
BoundAsNeeded(t, st) ==
  /\ st \in {"none", "pending"} => ~bound[t]
  /\ st = "published" => bound[t]

Init ==
  /\ status = [t \in Targets |-> "none"]
  /\ bound = [t \in Targets |-> FALSE]
  /\ recoverable = {status}

Advance(t, st) ==
  /\ LegalTransition(status[t], st)
  /\ BoundAsNeeded(t, st)
  /\ status' = [status EXCEPT ![t] = st]
  /\ recoverable' = recoverable \union {status'}
  /\ UNCHANGED bound

BindTarget(t) ==
  /\ status[t] = "pending"
  /\ bound' = [bound EXCEPT ![t] = TRUE]
  /\ UNCHANGED <<status, recoverable>>

UnbindTarget(t) ==
  /\ status[t] \in {"pending", "unpublishing"}
  /\ bound' = [bound EXCEPT ![t] = FALSE]
  /\ UNCHANGED <<status, recoverable>>

Settle ==
  /\ recoverable' = {status}
  /\ UNCHANGED <<status, bound>>

PowerLoss ==
  /\ status' \in recoverable
  /\ recoverable' = {status'}
  /\ bound' = [t \in Targets |-> FALSE]

Next ==
  \/ \E t \in Targets :
       \/ \E st \in Statuses : Advance(t, st)
       \/ BindTarget(t)
       \/ UnbindTarget(t)
  \/ Settle
  \/ PowerLoss

Spec == Init /\ [][Next]_vars
=============================================================================
