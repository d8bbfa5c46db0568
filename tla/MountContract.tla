---------------------------- MODULE MountContract ----------------------------
(***************************************************************************)
(* What the node plugin promises about the staging mount of a volume, with *)
(* no word about systemd, files, observations or program steps: the        *)
(* lifecycle                                                               *)
(*                                                                         *)
(*     none -> starting -> active -> stopping -> none                      *)
(*               |  ^________/          ^   ^                              *)
(*               |_____________________/    |                              *)
(*                                                                         *)
(* of its durable state, tied to the one process that serves the mount.    *)
(* A state names a new attempt, or goes, only while no process lives; a    *)
(* process starts only for the attempt of the state, and never while that  *)
(* is active; a recovery keeps the binary that was active as its fallback, *)
(* and only a recovery with a fallback has a second candidate.             *)
(***************************************************************************)
EXTENDS Naturals

CONSTANTS Binaries, NoBinary

VARIABLES
  state,    \* the durable state: phase, attempt, binary, fallback
  used,     \* attempts used so far
  live      \* attempt of the process that lives, 0 without one

vars == <<state, used, live>>

NoState == [phase |-> "none", attempt |-> 0, binary |-> NoBinary, fallback |-> NoBinary]

Starting(a, b, fb) == [phase |-> "starting", attempt |-> a, binary |-> b, fallback |-> fb]

Init ==
  /\ state = NoState
  /\ used = 0
  /\ live = 0

(* A new attempt: the first of a stage, the recovery of an active mount, or *)
(* the switch of a recovery to its fallback.                                *)
NextCandidates(a) ==
  {Starting(a, b, fb) : b \in {b \in Binaries : state.phase \in {"none", "active"}},
                        fb \in {IF state.phase = "active" THEN state.binary ELSE NoBinary}}
  \union
  {Starting(a, b, NoBinary) :
     b \in {b \in Binaries : state.phase = "starting" /\ b = state.fallback}}

NewAttempt ==
  /\ live = 0
  /\ used' = used + 1
  /\ state' \in NextCandidates(used')
  /\ UNCHANGED live

(* The same attempt is promoted, or told to stop. *)
Advance(phase) ==
  /\ <<state.phase, phase>> \in { <<"starting", "active">>, <<"starting", "stopping">>,
                                  <<"active", "stopping">> }
  /\ state' = [state EXCEPT !.phase = phase, !.fallback = NoBinary]
  /\ UNCHANGED <<used, live>>

Forget ==
  /\ state.phase \in {"starting", "stopping"}
  /\ live = 0
  /\ state' = NoState
  /\ UNCHANGED <<used, live>>

Start ==
  /\ state.phase \in {"starting", "stopping"}
  /\ live = 0
  /\ live' = state.attempt
  /\ UNCHANGED <<state, used>>

Die ==
  /\ live # 0
  /\ live' = 0
  /\ UNCHANGED <<state, used>>

Next ==
  \/ NewAttempt
  \/ Advance("active") \/ Advance("stopping")
  \/ Forget
  \/ Start
  \/ Die

Spec == Init /\ [][Next]_vars
=============================================================================
