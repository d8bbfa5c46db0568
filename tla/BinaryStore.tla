----------------------------- MODULE BinaryStore -----------------------------
(***************************************************************************)
(* The host binary directory and the three parties that use it.  The       *)
(* install-host-binaries init container publishes a content-addressed      *)
(* Drive9 binary, the launcher and the symlink "drive9" that names the     *)
(* desired binary.  The node plugin resolves that link into the mount      *)
(* records it writes.  Once after each start of the plugin, when its       *)
(* recovery scan has ended, the collector deletes the binaries that        *)
(* neither the link nor a record names.                                    *)
(*                                                                         *)
(* A directory entry is durable once the directory has been synced; until  *)
(* then a power loss keeps or loses each change by itself.                 *)
(***************************************************************************)
EXTENDS Naturals, FiniteSets

CONSTANTS
  Digests,      \* images; an image brings one Drive9 binary and one launcher
  Nothing,      \* no digest
  Installers,   \* installer processes
  Volumes,      \* volumes staged on the node
  Overlap,      \* may an installer run while the plugin of another pod is up?
  MaxFaults     \* bound on failed steps, killed processes and power losses

ASSUME StoreAssumption ==
  /\ Nothing \notin Digests /\ Nothing \notin Installers
  /\ Digests \intersect {"launcher", "link", "absent", "intact"} = {}
  /\ Nothing \notin {"launcher", "link", "absent", "intact"}
  /\ Overlap \in BOOLEAN
  /\ MaxFaults \in Nat

VARIABLES
  entry,    \* the entries of the directory
  disk,     \* the values each entry may have after a power loss
  lock,     \* the installer that holds the flock on the directory
  inst,     \* local variables of each installer
  ready,    \* image whose installer let the plugin of its pod start
  plugin,   \* is the node plugin up?
  gc,       \* the collector
  want,     \* desired binary resolved by the running operation of a volume
  rec,      \* mount record of each volume
  proc,     \* binary that the supervisor of each volume executes
  faults

installer == <<lock, inst, ready>>
mount == <<want, rec, proc>>
vars == <<entry, disk, installer, plugin, gc, mount, faults>>

Entries == Digests \union {"launcher", "link"}
Values == Digests \union {"absent", "intact"}

InstallerSteps ==
  {"idle", "drive9", "drive9Rename", "drive9Sync",
   "launcher", "launcherSync",
   "desired", "desiredSync", "undo", "undoSync"}

(* at, before: the entry just published and its previous value, for the    *)
(* rollback.                                                               *)
Jobs == [pc : InstallerSteps, image : Digests \union {Nothing},
         at : Entries \union {Nothing}, before : Values]

NoJob == [pc |-> "idle", image |-> Nothing, at |-> Nothing, before |-> "absent"]

Records == [phase : {"starting", "active", "stopping"}, binary : Digests,
            fallback : Digests \union {Nothing}]

NoRecord == [phase |-> "none", binary |-> Nothing, fallback |-> Nothing]

Collectors == [pc : {"pending", "states", "verify", "list", "remove", "done"},
               desired : Digests \union {Nothing},
               keep : SUBSET Digests, list : SUBSET Digests]

Collector(step) == [pc |-> step, desired |-> Nothing, keep |-> {}, list |-> {}]

TypeOK ==
  /\ entry \in [Entries -> Values]
  /\ disk \in [Entries -> SUBSET Values]
  /\ lock \in Installers \union {Nothing}
  /\ inst \in [Installers -> Jobs]
  /\ ready \in Digests \union {Nothing}
  /\ plugin \in BOOLEAN
  /\ gc \in Collectors
  /\ want \in [Volumes -> Digests \union {Nothing}]
  /\ rec \in [Volumes -> Records \union {NoRecord}]
  /\ proc \in [Volumes -> Digests \union {Nothing}]
  /\ faults \in 0 .. MaxFaults

Init ==
  /\ entry = [e \in Entries |-> "absent"]
  /\ disk = [e \in Entries |-> {"absent"}]
  /\ lock = Nothing
  /\ inst = [i \in Installers |-> NoJob]
  /\ ready = Nothing
  /\ plugin = FALSE
  /\ gc = Collector("done")
  /\ want = [v \in Volumes |-> Nothing]
  /\ rec = [v \in Volumes |-> NoRecord]
  /\ proc = [v \in Volumes |-> Nothing]
  /\ faults = 0

-----------------------------------------------------------------------------
(* The directory *)

(* rename and unlink.  writeInstallerTemp syncs a temporary file before it *)
(* is renamed, so a published file has its whole content.                  *)
Put(e, value) ==
  /\ entry' = [entry EXCEPT ![e] = value]
  /\ disk' = [disk EXCEPT ![e] = @ \union {value}]

(* dir.Sync *)
SyncDirectory ==
  /\ disk' = [e \in Entries |-> {entry[e]}]
  /\ UNCHANGED entry

Desired == entry["link"]

(* The link names a regular file. *)
Resolves == Desired \in Digests /\ entry[Desired] # "absent"

Faulty == faults < MaxFaults /\ faults' = faults + 1

-----------------------------------------------------------------------------
(* installHostBinariesWithFault *)

(* The installer goes on at a step, or it exits and its flock is gone. *)
To(i, step, j) == inst' = [inst EXCEPT ![i] = [j EXCEPT !.pc = step]] /\ UNCHANGED lock

Exit(i) == inst' = [inst EXCEPT ![i] = NoJob] /\ lock' = Nothing

Elsewhere == UNCHANGED <<plugin, gc, mount>>
Publishes == UNCHANGED <<ready, faults>> /\ Elsewhere
ChangesNothing == UNCHANGED <<entry, disk>> /\ Publishes

LockIgnored == TRUE

LockFree == lock = Nothing

(* unix.Flock with LOCK_EX.  The installer is an init container: the       *)
(* plugin of its own pod is not up yet, and the plugin of the pod it       *)
(* replaces is down unless the pods overlap.                               *)
Lock(i) ==
  /\ inst[i].pc = "idle"
  /\ LockFree
  /\ Overlap \/ ~plugin
  /\ lock' = i
  /\ \E d \in Digests : inst' = [inst EXCEPT ![i] = [NoJob EXCEPT !.pc = "drive9", !.image = d]]
  /\ ready' = Nothing
  /\ UNCHANGED <<entry, disk, faults>> /\ Elsewhere

(* installVersionedDrive9: a file of this name, and of the digest in its   *)
(* name (validateExistingVersionedDrive9), is left alone.                  *)
PrepareDrive9(i) ==
  /\ inst[i].pc = "drive9"
  /\ To(i, IF entry[inst[i].image] = "intact" THEN "launcher" ELSE "drive9Rename", inst[i])
  /\ ChangesNothing

RenameDrive9(i) ==
  /\ inst[i].pc = "drive9Rename"
  /\ Put(inst[i].image, "intact")
  /\ To(i, "drive9Sync", [inst[i] EXCEPT !.at = inst[i].image, !.before = "absent"])
  /\ Publishes

SyncDrive9(i) ==
  /\ inst[i].pc = "drive9Sync"
  /\ SyncDirectory
  /\ To(i, "launcher", inst[i])
  /\ Publishes

(* replaceLauncher remembers the previous launcher. *)
RenameLauncher(i) ==
  /\ inst[i].pc = "launcher"
  /\ Put("launcher", inst[i].image)
  /\ To(i, "launcherSync", [inst[i] EXCEPT !.at = "launcher", !.before = entry["launcher"]])
  /\ Publishes

SyncLauncher(i) ==
  /\ inst[i].pc = "launcherSync"
  /\ SyncDirectory
  /\ To(i, "desired", inst[i])
  /\ Publishes

Succeed(i) == Exit(i) /\ ready' = inst[i].image

LinkInPlace(i) ==
  /\ inst[i].pc = "desired"
  /\ CASE Desired = inst[i].image -> Succeed(i) /\ UNCHANGED <<entry, disk>>
       [] Desired = "absent" ->
            /\ Put("link", inst[i].image)
            /\ To(i, "desiredSync", [inst[i] EXCEPT !.at = "link", !.before = Desired])
            /\ UNCHANGED ready
       [] OTHER -> Exit(i) /\ UNCHANGED <<entry, disk, ready>>
  /\ UNCHANGED faults /\ Elsewhere

(* replaceDesiredSymlink.  snapshotDesiredSymlink refuses to replace a     *)
(* link whose target is gone; a link that is right already is left alone,  *)
(* and the sync of the launcher has made it durable.                       *)
ReplaceDesired(i) ==
  /\ inst[i].pc = "desired"
  /\ CASE Desired = inst[i].image /\ Resolves -> Succeed(i) /\ UNCHANGED <<entry, disk>>
       [] Desired # inst[i].image /\ (Resolves \/ Desired = "absent") ->
            /\ Put("link", inst[i].image)
            /\ To(i, "desiredSync", [inst[i] EXCEPT !.at = "link", !.before = Desired])
            /\ UNCHANGED ready
       [] OTHER -> Exit(i) /\ UNCHANGED <<entry, disk, ready>>
  /\ UNCHANGED faults /\ Elsewhere

FinishUnsynced(i) ==
  /\ inst[i].pc = "desiredSync"
  /\ Succeed(i)
  /\ UNCHANGED <<entry, disk, faults>> /\ Elsewhere

SyncDesired(i) ==
  /\ inst[i].pc = "desiredSync"
  /\ SyncDirectory
  /\ Succeed(i)
  /\ UNCHANGED faults /\ Elsewhere

(* The directory sync fails and the entry just published is rolled back:   *)
(* removeAndSync, restoreRegularDestination, restoreDesiredSymlink.        *)
SyncFails(i) ==
  /\ inst[i].pc \in {"drive9Sync", "launcherSync", "desiredSync"}
  /\ Faulty
  /\ To(i, "undo", inst[i])
  /\ UNCHANGED <<entry, disk, ready>> /\ Elsewhere

Undo(i) ==
  /\ inst[i].pc = "undo"
  /\ Put(inst[i].at, inst[i].before)
  /\ To(i, "undoSync", inst[i])
  /\ Publishes

(* removeAndSync, for an entry that was not there before, syncs even when  *)
(* it could not remove.                                                    *)
RemovalFails(i) ==
  /\ inst[i].pc = "undo" /\ inst[i].before = "absent"
  /\ Faulty
  /\ To(i, "undoSync", inst[i])
  /\ UNCHANGED <<entry, disk, ready>> /\ Elsewhere

UndoSync(i) ==
  /\ inst[i].pc = "undoSync"
  /\ SyncDirectory
  /\ Exit(i)
  /\ Publishes

(* The process is killed, or a step other than a directory sync fails,     *)
(* those of the rollback included.                                         *)
InstallerEnds(i) ==
  /\ inst[i].pc # "idle"
  /\ Faulty
  /\ Exit(i)
  /\ UNCHANGED <<entry, disk, ready>> /\ Elsewhere

InstallerStep(i) ==
  \/ PrepareDrive9(i) \/ RenameDrive9(i) \/ SyncDrive9(i)
  \/ RenameLauncher(i) \/ SyncLauncher(i)
  \/ ReplaceDesired(i) \/ SyncDesired(i) \/ Undo(i) \/ UndoSync(i)

InstallerFault(i) == SyncFails(i) \/ RemovalFails(i) \/ InstallerEnds(i)

-----------------------------------------------------------------------------
(* The node plugin *)

Directory == UNCHANGED <<entry, disk, installer>>

(* The kubelet starts the plugin after the init container of the pod has   *)
(* succeeded; a new recovery scan, with the collector at its end, begins.  *)
PluginStarts ==
  /\ ~plugin /\ ready # Nothing
  /\ \A i \in Installers : inst[i].pc = "idle"
  /\ plugin' = TRUE
  /\ gc' = Collector("pending")
  /\ UNCHANGED <<mount, faults>> /\ Directory

(* Its operations and its collector end with it; supervisors do not. *)
PluginEnds ==
  /\ plugin
  /\ plugin' = FALSE
  /\ gc' = Collector("done")
  /\ want' = [v \in Volumes |-> Nothing]
  /\ UNCHANGED <<rec, proc, faults>> /\ Directory

(* mountStateInventoryMu: the collector keeps writers of records out. *)
InventoryFree == gc.pc \in {"pending", "done"}

RecordChange(v, r) ==
  /\ plugin /\ InventoryFree
  /\ rec' = [rec EXCEPT ![v] = r]
  /\ UNCHANGED <<plugin, gc, proc, faults>> /\ Directory

(* validateDesiredDrive9Content, by Launch for a volume without a record   *)
(* (with validateHostLauncherBinary) and before the recovery of an active  *)
(* one.                                                                    *)
ResolveDesired(v) ==
  /\ plugin /\ want[v] = Nothing
  /\ rec[v].phase \in {"none", "active"}
  /\ Resolves
  /\ rec[v] = NoRecord => entry["launcher"] # "absent"
  /\ want' = [want EXCEPT ![v] = Desired]
  /\ UNCHANGED <<plugin, gc, rec, proc, faults>> /\ Directory

FallbackBinary(v) == IF rec[v].phase = "active" THEN rec[v].binary ELSE Nothing

(* Launch, or newActiveRecoveryCandidate once the old supervisor is gone.  *)
CommitStarting(v) ==
  /\ want[v] # Nothing /\ proc[v] = Nothing
  /\ RecordChange(v, [phase |-> "starting", binary |-> want[v], fallback |-> FallbackBinary(v)])
  /\ want' = [want EXCEPT ![v] = Nothing]

(* The operation fails before it commits. *)
GiveUp(v) ==
  /\ want[v] # Nothing
  /\ want' = [want EXCEPT ![v] = Nothing]
  /\ UNCHANGED <<plugin, gc, rec, proc, faults>> /\ Directory

(* waitForMountAndPromote *)
Promote(v) ==
  /\ rec[v].phase = "starting" /\ proc[v] = rec[v].binary
  /\ RecordChange(v, [rec[v] EXCEPT !.phase = "active", !.fallback = Nothing])
  /\ UNCHANGED want

SwitchUnchecked(v) ==
  /\ rec[v].phase = "starting" /\ proc[v] = Nothing
  /\ RecordChange(v, [rec[v] EXCEPT !.binary = rec[v].fallback, !.fallback = Nothing])
  /\ UNCHANGED want

(* switchToFallback, newFallbackRecoveryCandidate *)
SwitchToFallback(v) ==
  /\ rec[v].phase = "starting" /\ rec[v].fallback # Nothing
  /\ proc[v] = Nothing
  /\ RecordChange(v, [rec[v] EXCEPT !.binary = rec[v].fallback, !.fallback = Nothing])
  /\ UNCHANGED want

(* The stop intent *)
Intend(v) ==
  /\ rec[v].phase \in {"starting", "active"} /\ want[v] = Nothing
  /\ RecordChange(v, [rec[v] EXCEPT !.phase = "stopping", !.fallback = Nothing])
  /\ UNCHANGED want

(* mountStateStore.Delete of a cancelled stage or a finished stop.  A      *)
(* supervisor whose launcher read its files before the plugin removed them *)
(* may outlive the record.                                                 *)
DeleteRecord(v) ==
  /\ rec[v].phase \in {"starting", "stopping"}
  /\ rec[v].phase = "starting" => rec[v].fallback = Nothing
  /\ RecordChange(v, NoRecord)
  /\ UNCHANGED want

(* The transient unit executes the binary of the record, if it is there:   *)
(* the launcher reads its files, the unit is there from now on.  A unit    *)
(* that systemd starts late finds the files until the record is deleted.   *)
Executes(v) ==
  /\ rec[v].phase \in {"starting", "stopping"} /\ proc[v] = Nothing
  /\ entry[rec[v].binary] = "intact"
  /\ proc' = [proc EXCEPT ![v] = rec[v].binary]
  /\ UNCHANGED <<plugin, gc, want, rec, faults>> /\ Directory

ProcessEnds(v) ==
  /\ proc[v] # Nothing
  /\ proc' = [proc EXCEPT ![v] = Nothing]
  /\ UNCHANGED <<plugin, gc, want, rec, faults>> /\ Directory

-----------------------------------------------------------------------------
(* binaryGarbageCollector.Run *)

Recorded == {rec[v].binary : v \in {u \in Volumes : rec[u] # NoRecord}}
Fallbacks == {rec[v].fallback : v \in Volumes} \ {Nothing}

Collects(c) == plugin /\ gc' = c /\ UNCHANGED <<plugin, mount, faults>>

Skip == Collects(Collector("done")) /\ Directory

(* readDesiredBinaryName, with the inventory locked *)
ReadDesired ==
  /\ gc.pc = "pending"
  /\ IF Resolves
     THEN Collects([Collector("states") EXCEPT !.desired = Desired]) /\ Directory
     ELSE Skip

KeepDesiredAndActive == {gc.desired} \union Recorded

Keep == {gc.desired} \union Recorded \union Fallbacks

(* readStateSnapshot *)
ReadStates ==
  /\ gc.pc = "states"
  /\ Collects([gc EXCEPT !.pc = "verify", !.keep = Keep]) /\ Directory

CorrelatedIfRecorded ==
  \A v \in Volumes : proc[v] # Nothing /\ rec[v] # NoRecord => proc[v] = rec[v].binary

(* Units and processes must belong to a record and execute its binary: the *)
(* unit of a deleted record ends the collection.                           *)
Correlated == \A v \in Volumes : proc[v] # Nothing => proc[v] = rec[v].binary

(* verifyInventoryUnchanged *)
Verify ==
  /\ gc.pc = "verify"
  /\ IF Correlated /\ Resolves /\ Desired = gc.desired /\ Keep = gc.keep
     THEN Collects([gc EXCEPT !.pc = "list"]) /\ Directory
     ELSE Skip

(* A unit, a process or an artifact that cannot be verified, a failed      *)
(* command: nothing more is deleted.                                       *)
GiveUpCollection ==
  /\ gc.pc \in {"verify", "list", "remove"}
  /\ Skip

ListDirectory ==
  /\ gc.pc = "list"
  /\ Collects([gc EXCEPT !.pc = "remove", !.list = {d \in Digests : entry[d] # "absent"}])
  /\ Directory

RemoveBinary ==
  /\ gc.pc = "remove"
  /\ \E d \in gc.list \ gc.keep :
       /\ Put(d, "absent")
       /\ Collects([gc EXCEPT !.list = @ \ {d}])
  /\ UNCHANGED installer

CollectionEnds ==
  /\ gc.pc = "remove" /\ gc.list \subseteq gc.keep
  /\ Skip

CollectorStep ==
  ReadDesired \/ ReadStates \/ Verify \/ GiveUpCollection \/ ListDirectory
    \/ RemoveBinary \/ CollectionEnds

-----------------------------------------------------------------------------
(* The node loses power: every entry falls back to one of its possible     *)
(* values.  Records survive, their directory is synced by each write.      *)
PowerLoss ==
  /\ Faulty
  /\ entry' \in {f \in [Entries -> Values] : \A e \in Entries : f[e] \in disk[e]}
  /\ disk' = [e \in Entries |-> {entry'[e]}]
  /\ lock' = Nothing
  /\ inst' = [i \in Installers |-> NoJob]
  /\ ready' = Nothing
  /\ plugin' = FALSE
  /\ gc' = Collector("done")
  /\ want' = [v \in Volumes |-> Nothing]
  /\ proc' = [v \in Volumes |-> Nothing]
  /\ UNCHANGED rec

VolumeStep(v) ==
  \/ ResolveDesired(v) \/ CommitStarting(v) \/ GiveUp(v) \/ Promote(v)
  \/ SwitchToFallback(v) \/ Intend(v) \/ DeleteRecord(v) \/ Executes(v) \/ ProcessEnds(v)

Next ==
  \/ \E i \in Installers : Lock(i) \/ InstallerStep(i) \/ InstallerFault(i)
  \/ PluginStarts \/ PluginEnds
  \/ \E v \in Volumes : VolumeStep(v)
  \/ CollectorStep
  \/ PowerLoss

(* The kubelet runs the init container again until it succeeds. *)
Fairness == \A i \in Installers : WF_vars(Lock(i)) /\ WF_vars(InstallerStep(i))

Spec == Init /\ [][Next]_vars
FairSpec == Spec /\ Fairness

-----------------------------------------------------------------------------
(* Properties *)

(* The desired link never dangles and is never there without the launcher, *)
(* whatever step of an install fails, is killed or loses power, and        *)
(* whatever the collector deletes: replaceDesiredSymlink publishes last,   *)
(* after the directory was synced, and every other installer would refuse  *)
(* a dangling link.                                                        *)
DesiredRunnable ==
  Desired # "absent" =>
    /\ entry[Desired] = "intact"
    /\ entry["launcher"] \in Digests

(* A successful install survives a power loss, the early returns that skip *)
(* a directory sync included (installVersionedDrive9 and                   *)
(* replaceDesiredSymlink when nothing is to be changed).                   *)
InstallDurable ==
  ready # Nothing =>
    /\ disk["link"] = {ready}
    /\ disk[ready] = {"intact"}
    /\ disk["launcher"] = {ready}

(* Every binary a mount record names, its fallback included, is in the     *)
(* directory: a recovery, a fallback or a resumed launch executes it.      *)
RecordedBinariesPresent ==
  \A v \in Volumes : rec[v] # NoRecord =>
    /\ entry[rec[v].binary] = "intact"
    /\ rec[v].fallback # Nothing => entry[rec[v].fallback] = "intact"

(* "This preserves binaries used by live, stopping, or partially recovered *)
(* mounts and preserves the current binary when no volume is mounted"      *)
(* (binary GC in csi-rolling-upgrade-mount-survival-v2.md): Run deletes no *)
(* binary that is desired, recorded or running at that moment.             *)
CollectsOnlyUnused ==
  [][\A d \in Digests : RemoveBinary /\ entry'[d] # entry[d] =>
       /\ d # Desired
       /\ d \notin Recorded \union Fallbacks
       /\ \A v \in Volumes : proc[v] # d]_vars

(* An install that failed, was killed or lost power leaves nothing behind  *)
(* that a later run of the init container refuses for ever.                *)
InstallSucceeds == ready = Nothing ~> ready # Nothing
=============================================================================
