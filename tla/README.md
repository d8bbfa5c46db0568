# Verification of the Drive9 CSI driver

TLA+ models, TLC runs and TLAPS proofs for the Drive9 Kubernetes CSI driver
(`src/`).  The driver mounts remote Drive9 directories into pods.  Its node
plugin has to keep durable records, systemd units, FUSE processes and bind
mounts consistent while kubelet repeats and cancels requests and while the
plugin, the FUSE processes and the node itself may stop at any step.  Its
controller keeps the ownership of remote directories in the remote workspace
itself, one HTTP request at a time.

`PROJECT.json` lists components, runs, mutants, the map from definitions to
source lines, hazards, findings and theorems.

## 1. The system

| Component | State it keeps | Operations | Correct when |
|---|---|---|---|
| Node publish transaction (`driver.go`, `mount_linux.go`, `mountinfo.go`) | one publish record per volume and target in the state directory; bind mounts | `NodePublishVolume`, `NodeUnpublishVolume` | a bind mount always has a record, no target is bound twice, read-only and access modes hold, an answer stays true, cleanup never turns back |
| Mount state store (`mount_state.go`) | one durable mount state per volume | `Read`, `Write` (with transition rules), `Delete`, atomic rename and directory sync | only legal transitions, nothing half-written |
| Launch lifecycle (`mount_lifecycle.go`) | starting record, startup files with credentials, transient unit | `Launch`, `waitForMountAndPromote`, `promoteActive` | record before side effects, only a verified supervisor is promoted, credentials removed |
| Starting reconciler (`mount_reconcile_starting.go`) | the starting record | `Reconcile`, `failExpiredStarting`, `handleAbsentStarting`, `resumeStarting`, `switchToFallback` | an attempt ends in active, in its fallback or in nothing, with nothing left behind |
| Mount stopper (`mount_stop.go`, `runtime_artifact_cleanup.go`) | the stopping record | `Stop`, `Reconcile` | record deleted only after unit, process, mount and files; always finishes |
| Active recovery (`active_recovery.go`) | active record, then candidates | observe, decide, clean, start desired, start fallback | never two supervisors |
| No-state reconciliation (`node_no_state.go`) | – | `observeNoStateMount`, `reconcileNoStateMount` | touches nothing that lives |
| Stage/unstage handlers, startup recovery (`driver.go`, `node_state_first.go`, `node_recovery.go`) | per-volume mutex | dispatch on the recorded phase | a stage with consumers is not taken away |
| systemd units, process ownership, launcher (`systemd.go`, `host_process.go`, `cmd/drive9-csi-launcher`) | on the host | queries, ownership checks, exec | what is stopped or promoted is really ours |
| Binary installer (`install_host_binaries.go`) | content-addressed binaries, launcher and desired link in one directory, under a `flock` | install, with rollback of a step whose directory sync fails | the link never dangles, a reported install is durable, a repeated one gets done |
| Binary garbage collection (`binary_gc.go`) | an inventory while it runs | `Run`, at the end of the recovery scan | no desired, recorded or running binary is deleted |
| Controller (`driver.go`, `drive9_client.go`) | remote directory, marker, index, name index | `CreateVolume`, `DeleteVolume` | a reported volume is complete, a deleted one is free, retries finish |
| Server lifecycle and preflight (`driver.go`, `node_preflight.go`, `node_recovery.go`) | process, socket, capabilities, volume mutexes | `Run`, recovery pass, handlers, shutdown | always serves again, always ends, recovery revives nothing |
| Credentials, parameters, manifests | none across calls | – | – |

Interactions: the handlers of one volume exclude each other by `lockVolume`;
volumes share the state directory (and so its syncs).  Publish uses a verified
active mount state; unstage, and a stage at a new path, scan the publish
records.  Everything on the host is reached by commands (`systemd-run`,
`systemctl`, `kill`, host unmount) and observed through several separate
queries, between which the host moves on.  At plugin start each recorded mount
is recovered by the same code that kubelet's requests use, beside the first
requests; then the collector runs.  Installer and plugin meet only in the binary
directory, plugin and controller only in the marker of the remote directory.

Hard behaviours: crash or error between any two steps; power loss between a
rename and its sync; observations that are no longer true when they are used;
deadlines racing late readiness; commands and HTTP requests that take effect
after their caller gave up; retries of what was half done; parts of a mount lost
one by one; commands that hang while a mutex is held.  The full list, line by line, is `hazards` in `PROJECT.json`.

## 2. Modules

| Module | Contents |
|---|---|
| `PublishContract` | abstract target lifecycle `none -> pending -> published -> unpublishing -> none`, tied to the bind mount, with the directory contents a power loss may leave |
| `PublishTransaction` | the publish and unpublish handlers step by step, with unstage and stage reduced to what publish sees of them |
| `PublishTransactionProofs` | theorems about `PublishTransaction` |
| `MCPublishTransaction` | its instances |
| `MountContract` | abstract mount lifecycle `none -> starting -> active -> stopping -> none` with attempts, candidates and the one live process |
| `MountHost` | the host of one volume: unit, processes, mounts, process-state file, startup files; the plugin's commands and what the host does by itself |
| `MountTransaction` | stage, launch, reconciliation, recovery, fallback and unstage over `MountHost` |
| `MountTransactionProofs` | theorems about its records, steps and startup files |
| `MountSupervisorProofs` | theorems about its units and processes while no start is late; refinement of `MountContract` |
| `MountLateStartProofs` | theorems about its supervisors whenever starts arrive |
| `MCMountTransaction` | its instances |
| `BinaryStore` | binary directory with installers, the records that name binaries, and the collector |
| `BinaryStoreProofs` | theorems about `BinaryStore` |
| `MCBinaryStore` | its instances |
| `VolumeRegistry` | controller: create and delete over the remote workspace |
| `VolumeRegistryProofs` | theorems about `VolumeRegistry` |
| `MCVolumeRegistry` | its instances |
| `PluginLifecycle` | the plugin process: start, socket, recovery pass, handlers, mutexes, shutdown |
| `PluginLifecycleProofs` | theorems about `PluginLifecycle` |
| `MCPluginLifecycle` | its instances |

Three modules see the same mount record at different depth: `MountTransaction`
has all of its phases and every step between them, `BinaryStore` keeps which
binaries it names, `PluginLifecycle` whether it is there and up.  The changes the
latter two allow are those of the first.

### PublishTransaction

Variables: the visible publish records and mount states, the set of directory
images a power loss may bring back, the stack of bind mounts at each target, the
health of each staging mount, the per-volume mutexes, for every handler its
program counter and the record it works on, and (for the properties only) the
last answer given for each target.  One action per step between
two points where the handler can fail or be interleaved: write, sync, bind,
remount, promote, write intent, unmount, remove, sync.  `Begin` takes the mutex
with the observations that the handler makes first; an error or a crash ends a
handler and rolls nothing back; a power loss picks any image and clears the
mounts.  Stage and unstage appear by their outcome (record changes with their
syncs and the loss of the mount); their inside is `MountTransaction`.

### MountHost and MountTransaction

`MountHost` holds the unit (not found, running, exited; the attempt in its
description; MainPID), the live processes (a launcher has no binary yet, and
records what it has read), the mounts at the staging path, the process-state file
and the startup files.  The launcher reads its files, removes what is left of them
and executes Drive9 in three steps, between which the plugin may move
(`LauncherReads`, `LauncherRemoves`, `LauncherExecs`).
`MountTransaction` adds the durable record, the startup deadline, attempt
numbers, and one operation in progress (the volume's mutex admits one) as a
program counter with local variables.  Observations that the code makes with
separate queries and then combines are separate steps where the host may move
between them (`ObserveStarting`/`DecideStarting`,
`ObserveStopping`/`DecideStopping`, `StopCheckMount`/`StopCheckRest`, the two
no-state observations).  An operation may be interrupted before any step
(`Interrupted`: crash, cancelled request, error return) or go on after an error
where the code does (`Tolerated`).

Abstractions: activating and active units are one state, so are inactive and
failed ones (`ResetFailed` may or may not unload); the control socket goes with
the process-state file; the supervisor mounts and writes its process-state file in
either order (docs/design/csi-rolling-upgrade-mount-survival-v2.md:585-586 has the
mount first), and ending or killed it may leave both, either or none; the
normal and the lazy unmount are one command that may take one or two mounts;
`/run` is tmpfs, so a reboot clears the runtime files; drain has no effect on
what is modelled; missing credentials, capabilities or remote markers are failed
operations; the observations that `Stop` and `Cleanup` make before their first
write are one step (`Intend`, `Revalidate`), since both observe again before they
act or are bound to the plan decided before.  The record is one atomic write:
directory syncs are the subject of `PublishTransaction`.  A stage at another
path reuses `mounts` for the new path: it is reached only after the old path was
cleared.

What the store would accept (`ValidState`, `ValidTransition`, `Deletable`) is
stated separately from what the operations write, so that `WritesAccepted` can
compare the two.  With `LateStarts` the client of a `systemd-run` may be killed
with its start still queued (`RunGivenUp`); systemd processes it at any later
time, unless a unit of that name exists by then (`LateStart`).

### BinaryStore

Variables: the entries of the binary directory and, for each, the values it may
have after a power loss; the `flock`; each installer's program counter, image,
and the entry to roll back; whether a plugin may start and is up; the
collector's inventory; and per volume the binary resolved by the operation under
way, the record and the running binary.  A rename or unlink changes an entry at
once and adds to what a power loss may leave; a directory sync settles all
entries.  Each directory sync may fail and is then rolled back, with its own
failures; every other failure, and a kill, ends the installer where it is.  Record
writers and the collector exclude each other by `mountStateInventoryMu`, the
installer excludes neither: without `Overlap` it runs only while no plugin is up
(init container of the next pod), with it also beside one.  The collector's
correlation of units, processes and artifacts is one condition, and may give up
at any step.  A supervisor may outlive its record, when its launcher had read its
files before they were removed (`DeleteRecord`); the collector then sees a unit
without a record and gives up.  Records are taken to be durable here; temporary files, ELF
validation and file modes are left out.

### VolumeRegistry

A volume is a pair of name and prefix: these determine the remote root, which
determines volume ID and marker.  Each HTTP request of `CreateVolume` and
`DeleteVolume` is a step.  A request may fail with or without its effect
(`RequestFails`); the caller may give up on a call with a write under way, which
still arrives, and call again (`GivenUp`); a user may remove the directory.  The
parent directories that `mkdirAll` makes, the content of markers apart from the
volume they name, and markers written by others are left out.  The caller is
external-provisioner: one call per name at a time, repeated until it succeeds,
`DeleteVolume` only after a successful `CreateVolume` (it needs the PV).

### PluginLifecycle

`Run` from the preflight to its end, by signal, error or kill.  An operation
under the volume mutex is one step whose outcomes depend on the record and on the
capabilities found by the preflight, which are nested: inspect, stop, launch.  It
may hang in a host command until its context is cancelled; waiting for the mutex
ignores the context.  A cancelled command does not return at once: `Exec` sets no
`WaitDelay` (`host_runtime.go:116-132`), and `systemctl` runs as a service of
`systemd-run --wait --pipe` (`systemd.go:53-68`) that may hold the pipe when its
client was killed.  `Work` and `RecoverOneNodeMount` of a hung and cancelled
operation stand for the end of that service, whenever it comes.  Single probes, gRPC,
and system calls that ignore cancellation are left out.

## 3. Runs

| Run | Instance | Shows |
|---|---|---|
| `publish_one_volume` | 1 volume, 2 targets, 2 staging paths, 3 access modes, 2 handlers, 3 faults | records, binds, access modes, answers; implements `PublishContract`; the inductive invariant of the proofs |
| `publish_two_volumes` | 2 volumes, 1 target each, 2 handlers, 1 fault | no interference through the shared directory and its syncs |
| `publish_liveness` | 1 volume, 2 targets, 2 handlers, 2 faults | a recorded unpublish intent is carried out |
| `publish_durability` (violation) | same | an answered unpublish may come back after a power loss |
| `mount_safety` | 2 binaries, 4 attempts, 4 processes, 3 faults | one supervisor, units, files and processes belong to the record, stop leaves nothing, the store refuses no write, implements `MountContract` |
| `mount_late_start` | 2 binaries, 3 attempts, 2 processes, 2 faults, late starts | although starts arrive late, never two supervisors and none under the record of another attempt; repeated unstages delete a record of any phase in the end; a stage attempt leaves starting unless its mount cannot be attributed |
| `mount_deletion` (violation) | 3 attempts, 1 fault | a starting record is deleted over a dead mount |
| `mount_fallback` (violation) | 3 attempts, 1 fault | a failed desired candidate is started again |
| `binary_store` | 3 images, 2 installers, 1 volume, 3 faults | the desired link is runnable, an install durable, a repeated one succeeds; recorded binaries are there, only unused ones are deleted |
| `binary_overlap` (violation) | 2 images, 1 installer, 1 volume, no faults, pods overlap | a desired binary is deleted |
| `registry_retries` | 1 name, 2 prefixes, 3 handlers, 2 late writes, 2 faults | reported volumes are complete, deleted ones free, retries end |
| `plugin_lifecycle` | 1 volume, 2 handlers, hanging recovery, 2 faults | unstaged volumes stay down, requests are answered, shutdown ends, the plugin serves again |

Bounds.  Two handlers are enough for every pairwise interleaving of one volume,
as the mutex serialises them, and the second volume adds the shared directory.
Two targets are what access modes need.  `mount_safety` reaches a stage, a
recovery, its fallback and one more attempt, with three faults on the way;
`mount_late_start` three attempts of which at most two get a process, and a unit
beyond that fails to start (`ForkFails`).  Fault bounds count
errors, crashes, reboots and lost parts; deaths of the supervisor are not
counted.  Binaries and handlers are symmetric; symmetry is not used in runs with
liveness.

Two installers are a rollout that meets the one before it; the third image is
the fallback of a volume whose recovery started another binary than the one
desired since.  Three faults allow a failed sync, a failed rollback and a power
loss in one install.  One name is enough for the registry, as names share
nothing; two prefixes are what the name index is for.  One of its three handlers
serves the call under way, two hold calls given up with a write outstanding;
handlers are interchangeable, so a call takes a fixed one of those that are free.
Two handlers and the recovery are the ways to compete for a mutex.

Fairness.  Publish liveness assumes that a started handler goes on (or fails,
finitely often) and that kubelet repeats an unfinished unpublish.  `mount_late_start`
assumes weak fairness of the operation in progress, of systemd and the launcher
and of the clock.  That kubelet goes on asking is the premise of the property
concerned (`StageRepeated` in `StartingEnds`, `UnstageRepeated` in
`UnstageEnds`): strong fairness of `Continue("stage")` or of `Unstage`, since
other requests for the volume may take the mutex in between, and never of both,
which kubelet does not want at a time.  The supervisor is never assumed to make progress: it may
hang.  An installer that was started goes on, and kubelet runs the init container
again (weak fairness of `Lock`).  The controller's handlers go on, and
external-provisioner repeats a failed call (strong fairness of `Retry`, since
calls of another volume of the name may come between).  In the plugin,
goroutines run, timers fire, kubelet restarts the container and sets deadlines,
and a Go mutex does not pass over a waiter for ever (strong fairness of `Lock` and
`RecoveryLocks`: its starvation mode).  That a cancelled command ends at all rests on
the bounds of systemd and of the inner command, not on the plugin (section 2).  Nobody is bound to call, to signal or to
kill.  `RequestsAnswered` excludes a recovery that hangs for ever (its premise
`[]<>~pass.hung`): the recovery's context has no deadline, and requests for the
volume would wait as long as it hangs.  `ShutdownEnds` does not exclude it.

Late effects.  With late starts, "the running unit is that of the record" no
longer holds: a start may arrive after its record was deleted or replaced.
Operations on the volume refuse such a unit; its launcher finds no startup files
once they were removed, and ends.  A launcher that had read them before becomes a
supervisor even after `handleAbsentStarting` deleted the record; its running unit
then keeps the next attempt away.  What remains, and is checked, is that two
supervisors never run at a time, that none starts under the record of another attempt
(`SupervisesRecordedAttempt`), and that stage and unstage still end.
Likewise a late write of `CreateVolume` may arrive after the volume was deleted
and leave a name index or index entry; `DeletedIsFree` therefore speaks of
states no call was given up before, and a name is used again only in these.

## 4. Findings

* `publish_durability`: a repeated `NodeUnpublishVolume` after a removal whose
  directory sync failed answers success without syncing, although the design
  makes the synced removal the commit point.
* `mount_deletion`: `startingReconciler.Reconcile` combines an older observation
  of mount and process with a newer one of the unit, and `handleAbsentStarting`
  deletes the record on it.  A supervisor that registers, mounts and is killed
  in between leaves a dead mount that later requests refuse.  The window is small;
  the other deletion, in the stopper, checks the mount again and does not have it
  (`StopLeavesNothing`).
* `mount_fallback`: the pass without credentials resets the failed unit of a
  desired candidate; the pass with credentials then takes the attempt for one that
  never ran and starts the failed binary again.  Only the deadline ends this.
* `binary_overlap`: the collector excludes writers of records, not the installer.
  If the pods overlap, as when the old pod was deleted by force, an installer may
  switch the desired link after the collector's last look at it; the collector
  deletes the desired binary.  Launches fail, and installers of other images
  refuse the dangling link, until the same image is installed again.

Two more differences are observations, without a run of their own.

A supervisor that dies after its mount and before its process-state file leaves a
mount that `Reconcile` refuses (`mount_reconcile_starting.go:147-150`, `173-175`) at
every repeated `NodeStageVolume`, after the startup deadline too; the attempt stays
in starting until an unstage, which gets past it (`UnstageEnds`).  TLC shows the trace
for `StartingEnds` without its exception, and with it that nothing else keeps a stage
attempt in starting.  The design (`survival-v2.md:708`) has the disconnected mount of
a verified dead service cleaned and the stage retried, and has the state preserved
when ownership of something alive is in doubt (`:709`); without a process-state file
the code takes the second course.

The README (`src/README.md:375-377`) says that cleanup is refused without a marker, while
`DeleteVolume` (`driver.go:563-578`) cleans up when the marker or the directory is
missing and refuses only a marker of another volume.
`TestDeleteVolumeRetryAfterPartialFailure` expects the code's behaviour, and a
retry of a half-done delete needs it (`DeleteEnds`).

## 5. Proofs

Every invariant and every action property that a passing run checks is also a
theorem, for every value of the constants that the named assumptions allow: any
number of volumes, targets, handlers, binaries, installers, attempts, processes
and faults.  Two modes are hypotheses, not assumptions: `LateStarts = FALSE` and
`Overlap = FALSE`, for what does not hold in the other mode (section 3, Late
effects, and the finding `binary_overlap`); what is left of it in that mode has
theorems of its own.  Liveness and fairness are out of the prover's
reach and stay with TLC: `CleanupCompletes`, `UnstageEnds`, `StartingEnds`,
`InstallSucceeds`, `CreateEnds`, `DeleteEnds`, `RequestsAnswered`, `ShutdownEnds`,
`ServesAgain`.  So do the four refuted properties.

None of the properties is inductive: an operation acts on what it saw some steps
ago, and others move in between.  Each proof therefore rests on an invariant
(`IInv`, `TypeInv` or `LockHeld`) that says, step by step, what an operation still
knows; TLC checked each of them on the instances of section 3 before it was
proved.  Proofs have one step per action and, beneath it, one per conjunct that
the action can disturb.

| Module | Theorems | Argument |
|---|---|---|
| `PublishTransactionProofs` | `InductiveInvariant`, `TypeCorrect`, `BindsAreRecorded`, `BindsAreSingle`, `ReadonlyIsKept`, `AnswersAreKept`, `AccessModesAgree`, `ConsumersAreStaged`, `StoppedIsUnused`, `Refinement` | images and handler knowledge |
| `MountTransactionProofs` | `StepsFitRecord`, `TypeCorrect`, `NoFilesLeftBehind`, `StoreAcceptsWrites` | phase of the record at each step |
| `MountSupervisorProofs` (`LateStarts = FALSE`) | `InductiveInvariant`, `SupervisorIsOne`, `UnitIsOfAttempt`, `RecordNamesProcess`, `StopperLeavesNothing`, `DeletionLeavesNoProcess`, `TransactionImplementsContract` | unit or recorded orphan |
| `MountLateStartProofs` | `InductiveInvariant`, `NoTwoSupervisors`, `NewAttemptFindsNoSupervisor`, `RecordNamesSupervisor`, `LateSupervisorIsRecorded`, `ActiveStopIsClean` | the pair of startup files |
| `BinaryStoreProofs` (`Overlap = FALSE` except for the first three) | `TypesAndLock`, `TypeCorrect`, `CollectorSparesInUse`, `InductiveInvariant`, `LinkStaysRunnable`, `InstallStaysDurable`, `RecordedStayPresent`, `CollectorSparesUsed` | every content the disk may have |
| `VolumeRegistryProofs` | `InductiveInvariant`, `TypeCorrect`, `ProvisionedStaysComplete`, `DeletedStaysFree` | one live call per name |
| `PluginLifecycleProofs` | `MutexesAreHeld`, `TypeCorrect`, `VolumesAreExclusive`, `StoppedVolumesStayDown` | mutex discipline |

Publish.  `IInv` says, for each step of a handler that holds the mutex, which of
its observations still hold.  A power loss replaces the visible records by any
image, so `IInv` says of every image what it says of the visible one, including
that a publish record's volume is staged in it.

Mount, records and files.  `TypeInv` ties each step to the phase of the record it
works on, and records which steps come after the removal of the startup files.
That is enough, with late starts too, for the files (they are always those of the
record) and for the store: every record that is written is valid and a legal
successor of the one before.

Mount, processes, without late starts.  A process is either the main process of
the running unit, which is the unit of the record, or the supervisor that an
active record names and that lost its unit; a starting attempt without a running
unit therefore has no process.  For each step of the stopper and of the cleanup
before a recovery, `IInv` says which process can still live.  From it follow one
supervisor, the clean deletion by the stopper, and the refinement of
`MountContract`: the record maps to the abstract state, and the attempt of the
live process to `live`; a step that writes a record is a `NewAttempt`, an
`Advance` or a `Forget` of the contract, a fork is its `Start`.
`DeletionLeavesNoProcess` bounds the finding `mount_deletion`: whoever deletes a
record, `handleAbsentStarting` included, leaves no process, no running unit and no
startup files.  What can remain is what a killed supervisor leaves: its mount, its
process-state file, its ended unit.

Mount, processes, with late starts.  A unit of an old attempt may run beside a
recorded supervisor, so the first argument fails.  The second one is about the
startup files: a launcher becomes a supervisor only after it has read the pair of
them, and removes the pair before.  The invariant is about supervisors and launchers
that have read their files together (`Armed`), since nothing keeps the latter from
becoming the former.  `IInv` says that an armed process belongs to the running unit or
is the supervisor on record, that what it has read is of the record unless that was
deleted meanwhile, that the pair is not there again once a launcher has removed it
(files are published only after every armed process is known to be gone), and that
the only one under a record that was active is the supervisor it names.  The subtle step is a recovery that is
reconciled a second time, with credentials: its first pass has removed the files,
so an attempt it finds absent cannot come alive before it is published again
(`SecondPass`).  `NewAttemptFindsNoSupervisor` is the core of this: no record of a
new attempt is written while an armed process lives.  The other side is what a late
start can do at all: `LateSupervisorIsRecorded` says that a launcher becomes a
supervisor only while no other runs, and either of the attempt and the binary on a
record that is not active or under no record at all.  The latter happens: a launcher
reads its files, `handleAbsentStarting` removes them and deletes the record, the
launcher goes on; TLC shows this trace if the case is left out.
`RecordNamesSupervisor` says that an active record names the only armed process.

Of the clean deletion, `ActiveStopIsClean` is what is left with late starts: once a
mount was active its files are gone for good, so the stopper's deletion of its
record finds no armed process, no mount, no process-state file and no startup file.  A
launch that was never active can be deleted under the supervisor that its late
start brings up; TLC shows such a trace for the stronger statement.

Binary store.  What a power loss may leave is a set of values per entry.  `IInv`
says that every combination the disk may hold has a runnable link and all recorded
binaries, what the entry to be rolled back was, and that what the collector has
verified stays unused while it holds the inventory: every supervisor then has a
record, since one without had ended the collection.  The last part needs that no
installer runs beside a plugin, which is where `Overlap = FALSE` is used.

With overlapping pods the collector may delete the binary that a new link has just
named (`binary_overlap`), and an operation that resolved the old link may then
record it, so `RecordedBinariesPresent` fails as well.  `CollectorSparesInUse` says
how far that goes: no deletion takes a binary that a record names, as its binary
or its fallback, or that a supervisor executes.  Its invariant (`OverlapInv`) is
that everything in use when the collector reads the records is in its keep set and
that, while it holds the inventory, nothing else comes into use.

Registry.  At most one call of a name is live; calls that were given up have at
most one write under way.  `IInv` says for each step of the live call what its
earlier requests have put into the workspace, and which writes may still arrive.

Plugin.  `LockHeld` says that whoever works on a volume is the holder of its
mutex, across kills and restarts; `StoppedVolumesStayDown` follows because the
recovery rereads the record under the mutex.

## 6. Plan

1. (done) Publish transaction: contract, detailed model, runs, invariants, proofs
   and refinement proof.
2. (done) Mount transaction: host, operations, contract, safety, liveness, findings.
3. (done) Binary installer and garbage collection.
4. (done) Controller: create and delete as sequences of requests.
5. (done) `systemd-run` that takes effect late; what the record store accepts.
6. (done) Plugin process: start, recovery pass, mutexes, shutdown.
7. (done) Proofs for `BinaryStore`, `VolumeRegistry` and `PluginLifecycle`.
8. (done) Proofs for the mount transaction: records and files, supervisors, the
   refinement of `MountContract`, supervisors with late starts.
9. (done) What the stopper leaves behind when starts are late; what the collector
   spares when pods overlap.

## 7. Not modelled

Parsing of parameters, paths and mount options, mount arguments, ELF validation,
the single probes of the preflight, credentials and Kubernetes lookups, manifests
and their checker (`hack/check-manifests.go`), scripts and end-to-end tests keep no
state across calls that the properties speak about.  Workspace-root volumes have
no remote state, and `ControllerModifyVolume` changes none.  Legacy attempts
recorded before `--direct-mount-strict` are left out.

Outside the models: other processes on the node that mount at kubelet's paths,
between the observation of a target and its bind mount too; manual changes to
records; concurrent creates of one name with different parameters; clocks that
are set back (records refuse times before their creation); the durability of the
binary directory's own entry; a preflight that hangs (the plugin then never
serves); handlers in system calls that ignore cancellation.  Each of these that
the code is exposed to is a hazard with a note in `PROJECT.json`.
