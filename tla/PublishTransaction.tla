-------------------------- MODULE PublishTransaction --------------------------
(***************************************************************************)
(* The node plugin's publish transaction: NodePublishVolume binds a staged *)
(* volume at a workload target, NodeUnpublishVolume undoes it, and         *)
(* NodeUnstageVolume takes the staged volume away once no target uses it.  *)
(*                                                                         *)
(* Handlers run concurrently, serialised per volume by lockVolume.  Every  *)
(* step that another handler, a crash of the plugin or a power loss of the *)
(* node can separate from the next one is an action: the rename of a       *)
(* record, the sync of the state directory, the bind, the read-only        *)
(* remount, the unmount, the removal.  NodeStageVolume and the recovery of *)
(* the staging mount appear only by their outcome.                         *)
(***************************************************************************)
EXTENDS Naturals, Sequences, FiniteSets

CONSTANTS
  Volumes, Targets, Stagings, Workers,
  Modes,          \* access modes a request may carry
  MultiModes,     \* the multi-writer ones
  VolumeOf,       \* the volume that kubelet publishes at each target
  NoWorker, NoStage,
  MaxFaults       \* bound on failed operations, crashes and power losses

ASSUME ConstantsAssumption ==
  /\ MultiModes \subseteq Modes
  /\ VolumeOf \in [Targets -> Volumes]
  /\ NoWorker \notin Workers
  /\ NoStage \notin [path : Stagings, stopping : BOOLEAN]
  /\ MaxFaults \in Nat

VARIABLES
  file,       \* visible publish-state record of each target
  staged,     \* visible mount-state record of each volume
  images,     \* contents of the state directory a power loss may leave
  mnt,        \* stack of bind mounts at each target, by mount option
  health,     \* staging mount: "up", "disconnected" or "gone"
  lock,       \* holder of each volume's mutex
  pc,         \* next step of each handler
  local,      \* each handler's copy of the record it is working on
  acked,      \* last result answered for a target and not superseded
  faults

vars == <<file, staged, images, mnt, health, lock, pc, local, acked, faults>>

PublishStatuses == {"pending", "published", "unpublishing"}

PublishStates ==
  [volumeID : Volumes, stagingTarget : Stagings, target : Targets,
   readonly : BOOLEAN, accessMode : Modes, status : PublishStatuses]

NoRecord == [status |-> "none"]

StageRecords == [path : Stagings, stopping : BOOLEAN]

Files == [Targets -> PublishStates \union {NoRecord}]
StageFiles == [Volumes -> StageRecords \union {NoStage}]

(* How mountinfo shows a bind mount. *)
MountOptions == {"ro", "rw"}
Option(readonly) == IF readonly THEN "ro" ELSE "rw"

Image(f, s) == [file |-> f, staged |-> s]

Steps ==
  {"idle",
   "writePending", "syncPending", "bind", "remount", "promote", "syncPublished",
   "writeIntent", "syncIntent", "unmount", "remove", "syncRemoved",
   "writeStopping", "syncStopping", "teardown", "delete", "syncDeleted"}

TypeOK ==
  /\ file \in Files
  /\ staged \in StageFiles
  /\ images \subseteq [file : Files, staged : StageFiles]
  /\ mnt \in [Targets -> Seq(MountOptions)]
  /\ health \in [Volumes -> {"up", "disconnected", "gone"}]
  /\ lock \in [Volumes -> Workers \union {NoWorker}]
  /\ pc \in [Workers -> Steps]
  /\ local \in [Workers -> PublishStates \union {NoRecord}]
  /\ acked \in [Targets -> {"none", "published", "unpublished"}]
  /\ faults \in 0 .. MaxFaults

Init ==
  /\ file = [t \in Targets |-> NoRecord]
  /\ staged = [v \in Volumes |-> NoStage]
  /\ images = {Image(file, staged)}
  /\ mnt = [t \in Targets |-> <<>>]
  /\ health = [v \in Volumes |-> "gone"]
  /\ lock = [v \in Volumes |-> NoWorker]
  /\ pc = [w \in Workers |-> "idle"]
  /\ local = [w \in Workers |-> NoRecord]
  /\ acked = [t \in Targets |-> "none"]
  /\ faults = 0

-----------------------------------------------------------------------------
(* Definitions named after a slip (an unchecked mount, a forgotten status) *)
(* are what the definition after them would be with that slip in the code; *)
(* no specification uses them.                                             *)

(* Reading the state *)

UnlockedVolume(v) == TRUE

(* lockVolume(volumeID): the mutex can be taken. *)
LockFree(v) == lock[v] = NoWorker

IsMountPoint(t) == mnt[t] # <<>>

(* The option of the mount on top of the stack, the one a process sees, and  *)
(* what an unmount of it leaves.                                           *)
MountedReadonly(t) == mnt[t][Len(mnt[t])] = "ro"
BelowTop(t) == SubSeq(mnt[t], 1, Len(mnt[t]) - 1)

OnlyPublishedAreConsumers(v, s) ==
  {t \in Targets : /\ file[t].status = "published"
                   /\ file[t].volumeID = v
                   /\ file[t].stagingTarget = s}

(* hasActivePublishTargets: every record, whatever its status, is a        *)
(* consumer of the volume at its staging path.                             *)
hasActivePublishTargets(v, s) ==
  {t \in Targets : /\ file[t] # NoRecord
                   /\ file[t].volumeID = v
                   /\ file[t].stagingTarget = s}

ModeOfRequestUnchecked(active, m) == \A t \in active : file[t].accessMode = m

(* checkMultiTargetAccess *)
checkMultiTargetAccess(active, m) ==
  \/ active = {}
  \/ /\ m \in MultiModes
     /\ \A t \in active : file[t].accessMode = m

(* publishStateMatches: the request repeats the one on record. *)
publishStateMatches(r, v, s, t, ro, m) ==
  /\ r.volumeID = v
  /\ r.stagingTarget = s
  /\ r.target = t
  /\ r.readonly = ro
  /\ r.accessMode = m

(* ObserveMountPoint for read-only requests fails on a stack of mounts;    *)
(* other requests only ask IsMountPoint.                                   *)
Observable(t, ro) == ro => Len(mnt[t]) <= 1

ReadonlyUnchecked(t, ro) == TRUE

(* The read-only check that a mounted target passes before success. *)
ReadonlyHonoured(t, ro) == ro => MountedReadonly(t)

-----------------------------------------------------------------------------
(* Steps shared by the handlers *)

(* A handler starts: it takes the volume's mutex and copies the record. *)
Begin(w, v, step, r) ==
  /\ pc[w] = "idle"
  /\ LockFree(v)
  /\ lock' = [lock EXCEPT ![v] = w]
  /\ pc' = [pc EXCEPT ![w] = step]
  /\ local' = [local EXCEPT ![w] = r]

Goto(w, step) ==
  /\ pc' = [pc EXCEPT ![w] = step]
  /\ UNCHANGED <<lock, local>>

(* A handler returns and its deferred unlock runs. *)
Return(w) ==
  /\ pc' = [pc EXCEPT ![w] = "idle"]
  /\ local' = [local EXCEPT ![w] = NoRecord]
  /\ lock' = [v \in Volumes |-> IF lock[v] = w THEN NoWorker ELSE lock[v]]

(* The visible effect of a rename or a removal in the state directory: the *)
(* old contents stay recoverable until the directory is synced.            *)
DirChanged == images' = images \union {Image(file', staged')}

(* directory.Sync() *)
DirSynced == images' = {Image(file, staged)}

(* Rename of the temporary file over the record of the handler's target. *)
Rename(w, st) ==
  /\ file' = [file EXCEPT ![local[w].target] = [local[w] EXCEPT !.status = st]]
  /\ UNCHANGED staged
  /\ DirChanged
  /\ UNCHANGED <<mnt, health, acked, faults>>

Sync(w, from, to) ==
  /\ pc[w] = from
  /\ DirSynced
  /\ Goto(w, to)
  /\ UNCHANGED <<file, staged, mnt, health, acked, faults>>

-----------------------------------------------------------------------------
(* NodePublishVolume *)

(* verifyActiveMountLocally: the mount state is active at the requested    *)
(* staging path and everything behind it is healthy now.                   *)
StageVerified(v, s) ==
  /\ staged[v] = [path |-> s, stopping |-> FALSE]
  /\ health[v] = "up"

(* No record: the target must not be mounted and the volume's other        *)
(* targets must tolerate a new one.                                        *)
PublishNew(w, t, s, ro, m) ==
  LET v == VolumeOf[t] IN
  /\ StageVerified(v, s)
  /\ file[t] = NoRecord
  /\ ~IsMountPoint(t)
  /\ checkMultiTargetAccess(hasActivePublishTargets(v, s), m)
  /\ Begin(w, v, "writePending",
           [volumeID |-> v, stagingTarget |-> s, target |-> t, readonly |-> ro,
            accessMode |-> m, status |-> "pending"])
  /\ acked' = [acked EXCEPT ![t] = "none"]
  /\ UNCHANGED <<file, staged, images, mnt, health, faults>>

PublishResumeBindsAgain(w, t, s, ro, m) ==
  LET v == VolumeOf[t] IN
  /\ StageVerified(v, s)
  /\ file[t].status = "pending"
  /\ publishStateMatches(file[t], v, s, t, ro, m)
  /\ Begin(w, v, "bind", file[t])
  /\ acked' = [acked EXCEPT ![t] = "none"]
  /\ UNCHANGED <<file, staged, images, mnt, health, faults>>

(* A matching pending record: bind again, or validate the mount found. *)
PublishResume(w, t, s, ro, m) ==
  LET v == VolumeOf[t] IN
  /\ StageVerified(v, s)
  /\ file[t].status = "pending"
  /\ publishStateMatches(file[t], v, s, t, ro, m)
  /\ Observable(t, ro)
  /\ IsMountPoint(t) => ReadonlyHonoured(t, ro)
  /\ Begin(w, v, IF IsMountPoint(t) THEN "promote" ELSE "bind", file[t])
  /\ acked' = [acked EXCEPT ![t] = "none"]
  /\ UNCHANGED <<file, staged, images, mnt, health, faults>>

PublishRepeatUnmounted(t, s, ro, m) ==
  LET v == VolumeOf[t] IN
  /\ LockFree(v)
  /\ StageVerified(v, s)
  /\ file[t].status = "published"
  /\ publishStateMatches(file[t], v, s, t, ro, m)
  /\ acked' = [acked EXCEPT ![t] = "published"]
  /\ UNCHANGED <<file, staged, images, mnt, health, lock, pc, local, faults>>

(* A matching published record: success without any effect, provided that  *)
(* the target is still mounted as recorded.                                *)
PublishRepeat(t, s, ro, m) ==
  LET v == VolumeOf[t] IN
  /\ LockFree(v)
  /\ StageVerified(v, s)
  /\ file[t].status = "published"
  /\ publishStateMatches(file[t], v, s, t, ro, m)
  /\ Observable(t, ro)
  /\ IsMountPoint(t)
  /\ ReadonlyHonoured(t, ro)
  /\ acked' = [acked EXCEPT ![t] = "published"]
  /\ UNCHANGED <<file, staged, images, mnt, health, lock, pc, local, faults>>

WritePending(w) ==
  /\ pc[w] = "writePending"
  /\ Rename(w, "pending")
  /\ Goto(w, "syncPending")

SyncPending(w) == Sync(w, "syncPending", "bind")

(* bindMount: mount(MS_BIND), then for a read-only publish the remount. *)
Bind(w) ==
  /\ pc[w] = "bind"
  /\ mnt' = [mnt EXCEPT ![local[w].target] = Append(@, "rw")]
  /\ Goto(w, IF local[w].readonly THEN "remount" ELSE "promote")
  /\ UNCHANGED <<file, staged, images, health, acked, faults>>

Remount(w) ==
  /\ pc[w] = "remount"
  /\ mnt' = [mnt EXCEPT ![local[w].target] = Append(BelowTop(local[w].target), "ro")]
  /\ Goto(w, "promote")
  /\ UNCHANGED <<file, staged, images, health, acked, faults>>

(* The remount fails; bindMount tries to take the bind mount away again    *)
(* and ignores whether that works.                                         *)
RemountFails(w) ==
  /\ pc[w] = "remount"
  /\ faults < MaxFaults
  /\ faults' = faults + 1
  /\ \/ mnt' = [mnt EXCEPT ![local[w].target] = BelowTop(local[w].target)]
     \/ UNCHANGED mnt
  /\ Return(w)
  /\ UNCHANGED <<file, staged, images, health, acked>>

Promote(w) ==
  /\ pc[w] = "promote"
  /\ Rename(w, "published")
  /\ Goto(w, "syncPublished")

SyncPublished(w) ==
  /\ pc[w] = "syncPublished"
  /\ DirSynced
  /\ acked' = [acked EXCEPT ![local[w].target] = "published"]
  /\ Return(w)
  /\ UNCHANGED <<file, staged, mnt, health, faults>>

-----------------------------------------------------------------------------
(* NodeUnpublishVolume *)

(* No record and no mount: success without any effect. *)
UnpublishAbsent(t) ==
  /\ LockFree(VolumeOf[t])
  /\ file[t] = NoRecord
  /\ ~IsMountPoint(t)
  /\ acked' = [acked EXCEPT ![t] = "unpublished"]
  /\ UNCHANGED <<file, staged, images, mnt, health, lock, pc, local, faults>>

UnpublishWithoutIntent(w, t) ==
  LET v == VolumeOf[t] IN
  /\ file[t] # NoRecord
  /\ file[t].volumeID = v
  /\ Begin(w, v, "unmount", file[t])
  /\ acked' = [acked EXCEPT ![t] = "none"]
  /\ UNCHANGED <<file, staged, images, mnt, health, faults>>

UnpublishWithoutResume(w, t) ==
  LET v == VolumeOf[t] IN
  /\ file[t].status \in {"pending", "published"}
  /\ file[t].volumeID = v
  /\ Begin(w, v, "writeIntent", file[t])
  /\ acked' = [acked EXCEPT ![t] = "none"]
  /\ UNCHANGED <<file, staged, images, mnt, health, faults>>

(* A record of this volume: the intent is written before any cleanup,      *)
(* unless it is on record already.                                         *)
Unpublish(w, t) ==
  LET v == VolumeOf[t] IN
  /\ file[t] # NoRecord
  /\ file[t].volumeID = v
  /\ file[t].target = t
  /\ Begin(w, v, IF file[t].status = "unpublishing" THEN "unmount" ELSE "writeIntent",
           file[t])
  /\ acked' = [acked EXCEPT ![t] = "none"]
  /\ UNCHANGED <<file, staged, images, mnt, health, faults>>

WriteIntent(w) ==
  /\ pc[w] = "writeIntent"
  /\ Rename(w, "unpublishing")
  /\ Goto(w, "syncIntent")

SyncIntent(w) == Sync(w, "syncIntent", "unmount")

UnmountErrorIgnored(w) ==
  /\ pc[w] = "unmount"
  /\ \/ mnt' = [mnt EXCEPT ![local[w].target] = <<>>]
     \/ UNCHANGED mnt
  /\ Goto(w, "remove")
  /\ UNCHANGED <<file, staged, images, health, acked, faults>>

(* The unmount takes the top of the stack; a target still mounted after it *)
(* is an error that keeps the record.                                      *)
Unmount(w) ==
  LET t == local[w].target IN
  /\ pc[w] = "unmount"
  /\ mnt' = [mnt EXCEPT ![t] = IF IsMountPoint(t) THEN BelowTop(t) ELSE @]
  /\ IF mnt'[t] = <<>> THEN Goto(w, "remove") ELSE Return(w)
  /\ UNCHANGED <<file, staged, images, health, acked, faults>>

Remove(w) ==
  /\ pc[w] = "remove"
  /\ file' = [file EXCEPT ![local[w].target] = NoRecord]
  /\ UNCHANGED staged
  /\ DirChanged
  /\ Goto(w, "syncRemoved")
  /\ UNCHANGED <<mnt, health, acked, faults>>

SyncRemoved(w) ==
  /\ pc[w] = "syncRemoved"
  /\ DirSynced
  /\ acked' = [acked EXCEPT ![local[w].target] = "unpublished"]
  /\ Return(w)
  /\ UNCHANGED <<file, staged, mnt, health, faults>>

-----------------------------------------------------------------------------
(* NodeUnstageVolume, by its effect on the mount state and the mount *)

UnstageUnscanned(w, v) ==
  /\ staged[v] # NoStage
  /\ Begin(w, v, IF staged[v].stopping THEN "teardown" ELSE "writeStopping", NoRecord)
  /\ UNCHANGED <<file, staged, images, mnt, health, acked, faults>>

Unstage(w, v) ==
  /\ staged[v] # NoStage
  /\ hasActivePublishTargets(v, staged[v].path) = {}
  /\ Begin(w, v, IF staged[v].stopping THEN "teardown" ELSE "writeStopping", NoRecord)
  /\ UNCHANGED <<file, staged, images, mnt, health, acked, faults>>

(* The mount-state record is replaced in the same state directory. *)
WriteStopping(w, v) ==
  /\ pc[w] = "writeStopping" /\ lock[v] = w
  /\ staged' = [staged EXCEPT ![v].stopping = TRUE]
  /\ UNCHANGED file
  /\ DirChanged
  /\ Goto(w, "syncStopping")
  /\ UNCHANGED <<mnt, health, acked, faults>>

SyncStopping(w) == Sync(w, "syncStopping", "teardown")

(* The stopper ends the supervisor and unmounts the staging path. *)
Teardown(w, v) ==
  /\ pc[w] = "teardown" /\ lock[v] = w
  /\ health' = [health EXCEPT ![v] = "gone"]
  /\ Goto(w, "delete")
  /\ UNCHANGED <<file, staged, images, mnt, acked, faults>>

DeleteState(w, v) ==
  /\ pc[w] = "delete" /\ lock[v] = w
  /\ staged' = [staged EXCEPT ![v] = NoStage]
  /\ UNCHANGED file
  /\ DirChanged
  /\ Goto(w, "syncDeleted")
  /\ UNCHANGED <<mnt, health, acked, faults>>

SyncDeleted(w) ==
  /\ pc[w] = "syncDeleted"
  /\ DirSynced
  /\ Return(w)
  /\ UNCHANGED <<file, staged, mnt, health, acked, faults>>

-----------------------------------------------------------------------------
(* NodeStageVolume, by its outcome *)

StageAnywhere(v, s) == health[v] = "gone"

(* A volume recorded at another path is moved only when nobody consumes it *)
(* there and that path is not mounted (reconcileStaleStageStateForMount).  *)
StageAllowed(v, s) ==
  staged[v] # NoStage /\ staged[v].path # s =>
    /\ hasActivePublishTargets(v, staged[v].path) = {}
    /\ health[v] = "gone"

(* The launch commits and syncs its record first; the mount comes up or    *)
(* the attempt fails and leaves the record.  The recovery of a staging     *)
(* mount has the same outcome at the path on record.                       *)
StageVolume(v, s) ==
  /\ LockFree(v)
  /\ StageAllowed(v, s)
  /\ staged' = [staged EXCEPT ![v] = [path |-> s, stopping |-> FALSE]]
  /\ images' = {Image(file, staged')}
  /\ \E h \in {"up", "gone"} : health' = [health EXCEPT ![v] = h]
  /\ UNCHANGED <<file, mnt, lock, pc, local, acked, faults>>

-----------------------------------------------------------------------------
(* The environment *)

(* The supervisor dies or its mount goes away. *)
HealthLoss(v) ==
  /\ \E h \in {"disconnected", "gone"} :
       /\ <<health[v], h>> \in {<<"up", "disconnected">>, <<"up", "gone">>,
                               <<"disconnected", "gone">>}
       /\ health' = [health EXCEPT ![v] = h]
  /\ UNCHANGED <<file, staged, images, mnt, lock, pc, local, acked, faults>>

(* The next operation of a handler fails without effect and its error is   *)
(* returned: nothing is rolled back.                                       *)
OperationFails(w) ==
  /\ pc[w] # "idle"
  /\ faults < MaxFaults
  /\ faults' = faults + 1
  /\ Return(w)
  /\ UNCHANGED <<file, staged, images, mnt, health, acked>>

(* Every handler dies with the plugin; mounts and records stay. *)
HandlersDie ==
  /\ lock' = [v \in Volumes |-> NoWorker]
  /\ pc' = [w \in Workers |-> "idle"]
  /\ local' = [w \in Workers |-> NoRecord]

PluginCrash ==
  /\ \E w \in Workers : pc[w] # "idle"
  /\ faults < MaxFaults
  /\ faults' = faults + 1
  /\ HandlersDie
  /\ UNCHANGED <<file, staged, images, mnt, health, acked>>

(* The node loses power: all mounts are gone and the state directory comes *)
(* back as one of its recoverable images.                                  *)
PowerLoss ==
  /\ faults < MaxFaults
  /\ faults' = faults + 1
  /\ \E i \in images :
       /\ file' = i.file
       /\ staged' = i.staged
       /\ images' = {i}
  /\ mnt' = [t \in Targets |-> <<>>]
  /\ health' = [v \in Volumes |-> "gone"]
  /\ acked' = [t \in Targets |-> IF acked[t] = "published" THEN "none" ELSE acked[t]]
  /\ HandlersDie

-----------------------------------------------------------------------------
PublishCall(w, t) ==
  \/ \E s \in Stagings, ro \in BOOLEAN, m \in Modes :
       \/ PublishNew(w, t, s, ro, m)
       \/ PublishResume(w, t, s, ro, m)
       \/ PublishRepeat(t, s, ro, m)

PublishStep(w) ==
  \/ WritePending(w) \/ SyncPending(w) \/ Bind(w) \/ Remount(w)
  \/ Promote(w) \/ SyncPublished(w)

UnpublishStep(w) ==
  \/ WriteIntent(w) \/ SyncIntent(w) \/ Unmount(w) \/ Remove(w) \/ SyncRemoved(w)

UnstageStep(w) ==
  \/ \E v \in Volumes : WriteStopping(w, v) \/ Teardown(w, v) \/ DeleteState(w, v)
  \/ SyncStopping(w) \/ SyncDeleted(w)

HandlerStep(w) == PublishStep(w) \/ UnpublishStep(w) \/ UnstageStep(w)

Fault ==
  \/ \E w \in Workers : RemountFails(w) \/ OperationFails(w)
  \/ \E v \in Volumes : HealthLoss(v)
  \/ PluginCrash
  \/ PowerLoss

Next ==
  \/ \E w \in Workers, t \in Targets : PublishCall(w, t) \/ Unpublish(w, t)
  \/ \E t \in Targets : UnpublishAbsent(t)
  \/ \E w \in Workers, v \in Volumes : Unstage(w, v)
  \/ \E v \in Volumes, s \in Stagings : StageVolume(v, s)
  \/ \E w \in Workers : HandlerStep(w)
  \/ Fault

Spec == Init /\ [][Next]_vars

(* A handler that runs goes on running, and kubelet repeats an unpublish   *)
(* until it is answered; Go's mutex does not starve a waiter.              *)
Fairness ==
  /\ \A w \in Workers : WF_vars(HandlerStep(w))
  /\ \A t \in Targets : SF_vars(\E w \in Workers : Unpublish(w, t))

FairSpec == Spec /\ Fairness

-----------------------------------------------------------------------------
(* Safety *)

(* A bind mount at a workload target is always covered by a record, so     *)
(* that an unpublish finds it: no interleaving, failure or crash leaves a  *)
(* mount that NodeUnpublishVolume refuses as "mounted without durable      *)
(* Drive9 state".                                                          *)
BoundImpliesRecord == \A t \in Targets : IsMountPoint(t) => file[t] # NoRecord

(* No retry binds a second time over an existing bind mount: the unmount   *)
(* of NodeUnpublishVolume takes one mount away and expects none below.     *)
NoStackedBind == \A t \in Targets : Len(mnt[t]) <= 1

(* A target recorded as published and mounted is mounted with the flag the *)
(* request asked for, also when a failed or interrupted read-only remount  *)
(* left a writable mount behind for the retry to find.                     *)
PublishedAsRequested ==
  \A t \in Targets :
    file[t].status = "published" /\ IsMountPoint(t) => mnt[t] = <<Option(file[t].readonly)>>

(* What kubelet was told still holds until it asks for something else: a   *)
(* target answered as published is recorded and mounted as published, a    *)
(* target answered as unpublished is not mounted.                          *)
AnswersHold ==
  \A t \in Targets :
    /\ acked[t] = "published" => file[t].status = "published" /\ IsMountPoint(t)
    /\ acked[t] = "unpublished" => ~IsMountPoint(t)

(* Two targets of a volume exist only under one multi-writer mode,         *)
(* whatever records a power loss brings back (checkMultiTargetAccess).     *)
AccessExclusive ==
  \A t, u \in Targets :
    /\ t # u
    /\ file[t] # NoRecord /\ file[u] # NoRecord
    /\ file[t].volumeID = file[u].volumeID
    => /\ file[t].accessMode = file[u].accessMode
       /\ file[t].accessMode \in MultiModes

(* A volume keeps its mount-state record, at the path its consumers use,   *)
(* as long as any target has a record; this holds of every image a power   *)
(* loss may leave as well.                                                 *)
ConsumersKeepStage ==
  \A i \in images : \A t \in Targets :
    i.file[t] # NoRecord =>
      LET st == i.staged[i.file[t].volumeID] IN
      st # NoStage /\ st.path = i.file[t].stagingTarget

(* A staging mount is stopped for an unstage only when no record uses it. *)
StoppingHasNoConsumer ==
  \A v \in Volumes :
    staged[v] # NoStage /\ staged[v].stopping =>
      hasActivePublishTargets(v, staged[v].path) = {}

(* NodeUnpublishVolume answers success only when the removal of the record *)
(* is final: docs/design/2026-07-12-csi-publish-transaction-state-machine- *)
(* design.md gives as commit point of unpublishing -> none "After the      *)
(* target is absent and state removal is directory-synced."                *)
UnpublishIsFinal ==
  \A t \in Targets : acked[t] = "unpublished" => \A i \in images : i.file[t] = NoRecord

(* The promise of the publish transaction, at the level of statuses. *)
Statuses(f) == [t \in Targets |-> f[t].status]

Contract ==
  INSTANCE PublishContract WITH
    status <- Statuses(file),
    bound <- [t \in Targets |-> IsMountPoint(t)],
    recoverable <- {Statuses(i.file) : i \in images}

(* The handlers implement the lifecycle of PublishContract: every record   *)
(* change is a legal transition made when the bind mount allows it, a      *)
(* published target is never unbound, cleanup never turns back.            *)
ImplementsContract == Contract!Spec

(* A cleanup once recorded completes: unless the node loses the record, an *)
(* unpublishing record ends in no record, through errors, crashes and      *)
(* retries.                                                                *)
CleanupCompletes ==
  \A t \in Targets : (file[t].status = "unpublishing") ~> (file[t] = NoRecord)

-----------------------------------------------------------------------------
(* The inductive invariant behind the safety properties *)

TargetSteps ==
  {"writePending", "syncPending", "bind", "remount", "promote", "syncPublished",
   "writeIntent", "syncIntent", "unmount", "remove", "syncRemoved"}

StageSteps == {"writeStopping", "syncStopping", "teardown", "delete", "syncDeleted"}

(* A directory whose records fit together: a publish record names its own  *)
(* target and volume, its volume is staged where it says and not being     *)
(* stopped, and targets of one volume share a multi-writer mode.           *)
CoherentDir(f, s) ==
  /\ \A t \in Targets :
       f[t] # NoRecord =>
         /\ f[t].target = t
         /\ f[t].volumeID = VolumeOf[t]
         /\ s[VolumeOf[t]] = [path |-> f[t].stagingTarget, stopping |-> FALSE]
  /\ \A t, u \in Targets :
       t # u /\ f[t] # NoRecord /\ f[u] # NoRecord /\ VolumeOf[t] = VolumeOf[u]
         => f[t].accessMode = f[u].accessMode /\ f[t].accessMode \in MultiModes

DirCoherent ==
  /\ Image(file, staged) \in images
  /\ \A i \in images : CoherentDir(i.file, i.staged)

(* What may be mounted at a target, given its record. *)
MountFitsRecord(t) ==
  /\ mnt[t] \in {<<>>, <<"ro">>, <<"rw">>}
  /\ file[t] = NoRecord => mnt[t] = <<>>
  /\ file[t].status = "pending" => mnt[t] \in {<<>>, <<"rw">>, <<Option(file[t].readonly)>>}
  /\ file[t].status = "published" => mnt[t] \in {<<>>, <<Option(file[t].readonly)>>}

(* The mutexes: a handler at work holds exactly the mutex of its volume. *)
LockDiscipline ==
  /\ \A v \in Volumes : lock[v] # NoWorker => pc[lock[v]] # "idle"
  /\ \A u, v \in Volumes : lock[u] = lock[v] /\ lock[u] # NoWorker => u = v
  /\ \A w \in Workers : pc[w] \in TargetSteps =>
       /\ local[w] \in PublishStates
       /\ local[w].volumeID = VolumeOf[local[w].target]
       /\ lock[local[w].volumeID] = w

(* The visible record is the handler's copy, but for its status. *)
RecordIs(w, st) == file[local[w].target] = [local[w] EXCEPT !.status = st]

(* The checks behind a new record still hold: the target has none, the     *)
(* volume is staged as requested and its other targets allow one more.     *)
NewRecordFits(r) ==
  /\ file[r.target] = NoRecord
  /\ staged[r.volumeID] = [path |-> r.stagingTarget, stopping |-> FALSE]
  /\ \A u \in Targets :
       VolumeOf[u] = r.volumeID /\ file[u] # NoRecord =>
         file[u].accessMode = r.accessMode /\ r.accessMode \in MultiModes

(* What a publish or unpublish handler knows about its target. *)
HandlerKnows(w) ==
  /\ pc[w] = "writePending" => NewRecordFits(local[w])
  /\ pc[w] \in {"writePending", "syncPending", "bind", "remount", "promote"} =>
       local[w].status = "pending"
  /\ pc[w] \in {"syncPending", "bind", "remount", "promote"} =>
       file[local[w].target] = local[w]
  /\ pc[w] \in {"syncPending", "bind"} => mnt[local[w].target] = <<>>
  /\ pc[w] = "remount" => mnt[local[w].target] = <<"rw">> /\ local[w].readonly
  /\ pc[w] \in {"promote", "syncPublished"} =>
       mnt[local[w].target] = <<Option(local[w].readonly)>>
  /\ pc[w] = "syncPublished" => RecordIs(w, "published")
  /\ pc[w] = "writeIntent" => file[local[w].target] = local[w]
  /\ pc[w] \in {"syncIntent", "unmount", "remove"} => RecordIs(w, "unpublishing")
  /\ pc[w] = "remove" => mnt[local[w].target] = <<>>
  /\ pc[w] = "syncRemoved" => file[local[w].target] = NoRecord

(* What an unstage handler of the volume knows: nobody has published the   *)
(* volume since its scan.                                                  *)
UnstageKnows(v) ==
  lock[v] # NoWorker /\ pc[lock[v]] \in StageSteps =>
    /\ \A t \in Targets : VolumeOf[t] = v => file[t] = NoRecord
    /\ pc[lock[v]] # "syncDeleted" => staged[v] # NoStage

(* An answer stands until a later request for the target starts. *)
AnswerCovered(t) ==
  /\ acked[t] = "published" => file[t].status = "published" /\ mnt[t] # <<>>
  /\ acked[t] = "unpublished" => mnt[t] = <<>>
  /\ \A w \in Workers :
       pc[w] \in TargetSteps /\ local[w].target = t => acked[t] = "none"

(* The strengthening of the safety properties that every step preserves:   *)
(* the directory is coherent in all its recoverable images, mounts fit     *)
(* their records, and each handler's view of its target is still true when *)
(* it acts, because the mutex of the volume kept the others away.          *)
IInv ==
  /\ TypeOK
  /\ DirCoherent
  /\ LockDiscipline
  /\ \A t \in Targets : MountFitsRecord(t) /\ AnswerCovered(t)
  /\ \A w \in Workers : HandlerKnows(w)
  /\ \A v \in Volumes : UnstageKnows(v)
=============================================================================
