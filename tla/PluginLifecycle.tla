---------------------------- MODULE PluginLifecycle ----------------------------
(***************************************************************************)
(* The node plugin as a process: Run takes its preflight, opens the CSI    *)
(* socket, starts the recovery of recorded mounts beside the RPC handlers  *)
(* and serves until a signal ends it, or until it is killed and kubelet    *)
(* starts it again.                                                        *)
(*                                                                         *)
(* Recovery and handlers meet in the mutex of a volume (lockVolume).  What *)
(* they do to the volume under it is MountTransaction; here it is one step *)
(* with the outcomes that module allows, and what counts is who may do it, *)
(* on what knowledge, and that everybody comes to an end.                  *)
(***************************************************************************)
EXTENDS Naturals

CONSTANTS
  Volumes,
  Handlers,        \* goroutines that serve RPCs
  Nobody,          \* the holder of a free mutex
  Recovery,        \* the recovery goroutine, as a holder
  MaxFaults        \* bound on kills, hangs, failed starts, damage, missing capabilities

ASSUME LifecycleAssumption ==
  /\ Nobody \notin Handlers /\ Recovery \notin Handlers /\ Nobody # Recovery
  /\ MaxFaults \in Nat

VARIABLES
  record,   \* durable state of each volume; an active one is up or broken
  plugin,   \* where Run is
  socket,   \* the CSI socket file
  caps,     \* what the preflight found the node capable of
  holder,   \* holder of each volume's mutex
  rpc,      \* the call each handler serves
  pass,     \* the recovery pass
  faults

volatile == <<plugin, socket, caps>>
vars == <<record, volatile, holder, rpc, pass, faults>>

Records == {"none", "starting", "up", "broken", "stopping"}

(* The capabilities that operations require are nested: to look at a mount *)
(* (healthy-stage), to stop one (unstage), to launch one (create).         *)
Levels == 0 .. 3
Inspect == 1
Stop == 2
Launch == 3

Calls ==
  [op : {"stage", "unstage"}, vol : Volumes, step : {"lock", "work", "answer"},
   cancelled : BOOLEAN, hung : BOOLEAN]

NoCall == [op |-> "none", vol |-> Nobody, step |-> "none", cancelled |-> FALSE, hung |-> FALSE]

(* listed: the states that listMountStates read; left: those to do. *)
Passes ==
  [step : {"off", "list", "next", "lock", "work", "release", "done"},
   listed : [Volumes -> Records], left : SUBSET Volumes, vol : Volumes \union {Nobody},
   cancelled : BOOLEAN, hung : BOOLEAN]

NoPass ==
  [step |-> "off", listed |-> [v \in Volumes |-> "none"], left |-> {}, vol |-> Nobody,
   cancelled |-> FALSE, hung |-> FALSE]

TypeOK ==
  /\ record \in [Volumes -> Records]
  /\ plugin \in {"down", "preflight", "listen", "serving", "draining", "stopping"}
  /\ socket \in {"none", "stale", "open"}
  /\ caps \in Levels
  /\ holder \in [Volumes -> Handlers \union {Nobody, Recovery}]
  /\ rpc \in [Handlers -> Calls \union {NoCall}]
  /\ pass \in Passes
  /\ faults \in 0 .. MaxFaults

(* Any records an earlier instance may have left. *)
Init ==
  /\ record \in [Volumes -> Records]
  /\ plugin = "down"
  /\ socket = "none"
  /\ caps = 0
  /\ holder = [v \in Volumes |-> Nobody]
  /\ rpc = [h \in Handlers |-> NoCall]
  /\ pass = NoPass
  /\ faults = 0

Faulty == faults < MaxFaults /\ faults' = faults + 1

-----------------------------------------------------------------------------
(* What an operation can make of a volume's state.  Whatever happens to    *)
(* it, it may fail or be refused and leave things as they are.             *)

(* NodeStageVolume: a healthy mount is left alone; an attempt is promoted, *)
(* cleaned up or resumed; a stop is finished; a mount recorded for another *)
(* path and gone from there is stopped; then the mount is launched.        *)
StageOutcomes(r) ==
  {r} \union
  (IF r = "starting" /\ caps >= Inspect THEN {"up"} ELSE {}) \union
  (IF r \in {"starting", "broken", "stopping"} /\ caps >= Stop
   THEN {"stopping", "none"} ELSE {}) \union
  (IF r # "up" /\ caps >= Launch THEN {"up", "starting"} ELSE {})

UnstageOutcomes(r) ==
  {r} \union (IF r # "none" /\ caps >= Stop THEN {"stopping", "none"} ELSE {})

(* recoverOneNodeMount, for the state it read. *)
RecoverOutcomes(r) ==
  {r} \union
  (IF r = "starting" /\ caps >= Inspect THEN {"up"} ELSE {}) \union
  (IF r \in {"starting", "stopping"} /\ caps >= Stop THEN {"none"} ELSE {}) \union
  (IF r \in {"starting", "broken"} /\ caps >= Launch THEN {"up", "starting"} ELSE {})

-----------------------------------------------------------------------------
(* The process *)

(* kubelet starts the container, again and again. *)
Start ==
  /\ plugin = "down"
  /\ plugin' = "preflight"
  /\ UNCHANGED <<record, socket, caps, holder, rpc, pass, faults>>

(* runNodePreflight: taken once, before the socket is opened, and kept. *)
Preflight ==
  /\ plugin = "preflight"
  /\ \/ caps' = Launch /\ UNCHANGED faults
     \/ caps' \in Levels \ {Launch} /\ Faulty
  /\ plugin' = "listen"
  /\ UNCHANGED <<record, socket, holder, rpc, pass>>

ListenOverStale ==
  /\ plugin = "listen"
  /\ IF socket = "none"
     THEN plugin' = "serving" /\ socket' = "open" /\ pass' = [NoPass EXCEPT !.step = "list"]
     ELSE plugin' = "down" /\ UNCHANGED <<socket, pass>>
  /\ UNCHANGED <<record, caps, holder, rpc, faults>>

(* listenCSIEndpoint removes what a killed instance left; then Run starts  *)
(* the recovery and serves.                                                *)
Listen ==
  /\ plugin = "listen"
  /\ plugin' = "serving"
  /\ socket' = "open"
  /\ pass' = [NoPass EXCEPT !.step = "list"]
  /\ UNCHANGED <<record, caps, holder, rpc, faults>>

(* Run returns an error before it serves; the deferred cleanup removes the *)
(* socket if it had been opened.                                           *)
StartFails ==
  /\ plugin = "listen"
  /\ Faulty
  /\ plugin' = "down"
  /\ socket' \in {socket, "none"}
  /\ UNCHANGED <<record, caps, holder, rpc, pass>>

TerminateServerOnly ==
  /\ plugin = "serving"
  /\ plugin' = "draining"
  /\ socket' = "none"
  /\ UNCHANGED <<record, caps, holder, rpc, pass, faults>>

(* SIGTERM: the recovery is cancelled, and GracefulStop closes the         *)
(* listener, whose file goes with it, and waits for the handlers.          *)
Terminate ==
  /\ plugin = "serving"
  /\ plugin' = "draining"
  /\ socket' = "none"
  /\ pass' = [pass EXCEPT !.cancelled = TRUE]
  /\ UNCHANGED <<record, caps, holder, rpc, faults>>

DrainTimeoutForAll ==
  /\ plugin = "draining"
  /\ plugin' = "stopping"
  /\ rpc' = [h \in Handlers |-> [rpc[h] EXCEPT !.cancelled = TRUE]]
  /\ UNCHANGED <<record, socket, caps, holder, pass, faults>>

(* After ten seconds Stop cancels the calls that are left. *)
DrainTimeout ==
  /\ plugin = "draining"
  /\ plugin' = "stopping"
  /\ rpc' = [h \in Handlers |->
               IF rpc[h] = NoCall THEN NoCall ELSE [rpc[h] EXCEPT !.cancelled = TRUE]]
  /\ UNCHANGED <<record, socket, caps, holder, pass, faults>>

(* All that is not on disk ends with the process, its recovery included. *)
ProcessGone ==
  /\ plugin' = "down"
  /\ holder' = [v \in Volumes |-> Nobody]
  /\ rpc' = [h \in Handlers |-> NoCall]
  /\ pass' = NoPass
  /\ UNCHANGED <<record, caps>>

(* runServerUntilSignal returns when no handler is left; the deferred      *)
(* cleanup removes the socket file.                                        *)
Exit ==
  /\ plugin \in {"draining", "stopping"}
  /\ \A h \in Handlers : rpc[h] = NoCall
  /\ ProcessGone
  /\ socket' = "none"
  /\ UNCHANGED faults

(* kubelet's grace period for the container is over. *)
GracePeriodEnds ==
  /\ plugin \in {"draining", "stopping"}
  /\ ProcessGone
  /\ UNCHANGED <<socket, faults>>

(* SIGKILL, a crash, or SIGTERM before the handler is installed; or Serve  *)
(* returns an error, and the deferred cleanup removes the socket.          *)
Killed ==
  /\ plugin # "down"
  /\ Faulty
  /\ ProcessGone
  /\ socket' \in IF socket = "open" THEN {"stale", "none"} ELSE {socket}

-----------------------------------------------------------------------------
(* The recovery goroutine *)

(* listMountStates, without a lock. *)
ListRecords ==
  /\ pass.step = "list"
  /\ pass' = [pass EXCEPT !.step = "next", !.listed = record,
                          !.left = {v \in Volumes : record[v] # "none"}]
  /\ UNCHANGED <<record, volatile, holder, rpc, faults>>

NextVolume ==
  /\ pass.step = "next"
  /\ IF pass.cancelled \/ pass.left = {}
     THEN pass' = [NoPass EXCEPT !.step = "done", !.cancelled = pass.cancelled]
     ELSE \E v \in pass.left :
            pass' = [pass EXCEPT !.step = "lock", !.vol = v, !.left = @ \ {v}]
  /\ UNCHANGED <<record, volatile, holder, rpc, faults>>

RecoveryLocks ==
  /\ pass.step = "lock" /\ holder[pass.vol] = Nobody
  /\ holder' = [holder EXCEPT ![pass.vol] = Recovery]
  /\ pass' = [pass EXCEPT !.step = "work"]
  /\ UNCHANGED <<record, volatile, rpc, faults>>

RecoverAsListed ==
  /\ pass.step = "work"
  /\ pass.hung => pass.cancelled
  /\ \E r \in RecoverOutcomes(pass.listed[pass.vol]) :
       record' = [record EXCEPT ![pass.vol] = r]
  /\ pass' = [pass EXCEPT !.step = "release", !.hung = FALSE, !.listed[pass.vol] = "none"]
  /\ UNCHANGED <<volatile, holder, rpc, faults>>

(* The state is read again under the lock.  A command that hangs does so   *)
(* until its context is cancelled and, as Exec waits for the pipe that a   *)
(* service of systemd-run --wait --pipe shares, that service has ended.    *)
RecoverOneNodeMount ==
  /\ pass.step = "work"
  /\ pass.hung => pass.cancelled
  /\ \E r \in RecoverOutcomes(record[pass.vol]) :
       record' = [record EXCEPT ![pass.vol] = r]
  /\ pass' = [pass EXCEPT !.step = "release", !.hung = FALSE, !.listed[pass.vol] = "none"]
  /\ UNCHANGED <<volatile, holder, rpc, faults>>

RecoveryKeepsLock ==
  /\ pass.step = "release"
  /\ pass' = [pass EXCEPT !.step = "next"]
  /\ UNCHANGED <<record, volatile, holder, rpc, faults>>

RecoveryReleases ==
  /\ pass.step = "release"
  /\ holder' = [holder EXCEPT ![pass.vol] = Nobody]
  /\ pass' = [pass EXCEPT !.step = "next"]
  /\ UNCHANGED <<record, volatile, rpc, faults>>

RecoveryHangsUp ==
  /\ pass.step = "work" /\ ~pass.hung
  /\ Faulty
  /\ pass' = [pass EXCEPT !.hung = TRUE]
  /\ UNCHANGED <<record, volatile, holder, rpc>>

RecoveryStep ==
  ListRecords \/ NextVolume \/ RecoveryLocks \/ RecoverOneNodeMount \/ RecoveryReleases

-----------------------------------------------------------------------------
(* The handlers *)

Call(h, op, v) ==
  /\ plugin = "serving" /\ rpc[h] = NoCall
  /\ rpc' = [rpc EXCEPT ![h] = [NoCall EXCEPT !.op = op, !.vol = v, !.step = "lock"]]
  /\ UNCHANGED <<record, volatile, holder, pass, faults>>

(* The mutex knows no context: a cancelled call waits for it all the same. *)
Lock(h) ==
  /\ rpc[h].step = "lock" /\ holder[rpc[h].vol] = Nobody
  /\ holder' = [holder EXCEPT ![rpc[h].vol] = h]
  /\ rpc' = [rpc EXCEPT ![h].step = "work"]
  /\ UNCHANGED <<record, volatile, pass, faults>>

Work(h) ==
  /\ rpc[h].step = "work"
  /\ rpc[h].hung => rpc[h].cancelled
  /\ \E r \in IF rpc[h].op = "stage" THEN StageOutcomes(record[rpc[h].vol])
                                     ELSE UnstageOutcomes(record[rpc[h].vol]) :
       record' = [record EXCEPT ![rpc[h].vol] = r]
  /\ rpc' = [rpc EXCEPT ![h].step = "answer", ![h].hung = FALSE]
  /\ UNCHANGED <<volatile, holder, pass, faults>>

Answer(h) ==
  /\ rpc[h].step = "answer"
  /\ holder' = [holder EXCEPT ![rpc[h].vol] = Nobody]
  /\ rpc' = [rpc EXCEPT ![h] = NoCall]
  /\ UNCHANGED <<record, volatile, pass, faults>>

HandlerHangs(h) ==
  /\ rpc[h].step = "work" /\ ~rpc[h].hung
  /\ Faulty
  /\ rpc' = [rpc EXCEPT ![h].hung = TRUE]
  /\ UNCHANGED <<record, volatile, holder, pass>>

(* The deadline that kubelet set for the call passes. *)
Deadline(h) ==
  /\ rpc[h] # NoCall /\ ~rpc[h].cancelled
  /\ rpc' = [rpc EXCEPT ![h].cancelled = TRUE]
  /\ UNCHANGED <<record, volatile, holder, pass, faults>>

(* An active mount breaks. *)
MountBreaks ==
  /\ Faulty
  /\ \E v \in Volumes : record[v] = "up" /\ record' = [record EXCEPT ![v] = "broken"]
  /\ UNCHANGED <<volatile, holder, rpc, pass>>

-----------------------------------------------------------------------------
Next ==
  \/ Start \/ Preflight \/ Listen \/ StartFails
  \/ Terminate \/ DrainTimeout \/ Exit \/ GracePeriodEnds \/ Killed
  \/ RecoveryStep \/ RecoveryHangsUp
  \/ \E h \in Handlers, v \in Volumes : Call(h, "stage", v) \/ Call(h, "unstage", v)
  \/ \E h \in Handlers : Lock(h) \/ Work(h) \/ Answer(h) \/ HandlerHangs(h) \/ Deadline(h)
  \/ MountBreaks

Spec == Init /\ [][Next]_vars

(* Goroutines run on, timers fire, kubelet restarts the container and      *)
(* cancels calls that take too long; a waiter is not passed over by a Go   *)
(* mutex for ever.  Nobody is bound to call, to signal or to kill.         *)
Fairness ==
  /\ WF_vars(Start) /\ WF_vars(Preflight) /\ WF_vars(Listen)
  /\ WF_vars(DrainTimeout) /\ WF_vars(Exit)
  /\ WF_vars(RecoveryStep) /\ SF_vars(RecoveryLocks)
  /\ \A h \in Handlers :
       SF_vars(Lock(h)) /\ WF_vars(Work(h)) /\ WF_vars(Answer(h)) /\ WF_vars(Deadline(h))

FairSpec == Spec /\ Fairness

-----------------------------------------------------------------------------
(* A volume that has been unstaged, or is being so, comes up again only    *)
(* through a NodeStageVolume that holds its lock: the recovery, whose list *)
(* of states is old when it gets to a volume, does not revive it           *)
(* (recoverOneNodeMount rereads under the lock).                           *)
StoppedStaysDown ==
  [][\A v \in Volumes :
       record[v] \in {"none", "stopping"} /\ record'[v] \in {"starting", "up"} =>
         \E h \in Handlers : holder[v] = h /\ rpc[h].op = "stage" /\ rpc[h].vol = v]_vars

(* After every end of the plugin, also one that leaves its socket file     *)
(* behind, kubelet's restarts bring it back to serving.                    *)
ServesAgain == (plugin = "down") ~> (plugin = "serving")

(* A plugin told to end ends by itself, within no more than the drain      *)
(* timeout and the steps under way, although handlers hang in commands or  *)
(* wait for a volume whose lock a hanging recovery holds                   *)
(* (runServerUntilSignal, stopGRPCServer).                                 *)
ShutdownEnds == (plugin = "draining") ~> (plugin = "down")

(* Every call is answered, or ends with the plugin, whatever else waits    *)
(* for the volume's lock and although commands of other handlers hang,     *)
(* unless a command of the recovery, whose context has no deadline, hangs  *)
(* for ever.                                                               *)
RequestsAnswered ==
  []<>~pass.hung => \A h \in Handlers : (rpc[h] # NoCall) ~> (rpc[h] = NoCall)
=============================================================================
