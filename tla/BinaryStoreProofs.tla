-------------------------- MODULE BinaryStoreProofs --------------------------
(***************************************************************************)
(* Proofs about BinaryStore, for any images, installers and volumes and    *)
(* any number of failed steps, killed installers and power losses.  Types, *)
(* the lock and the binaries in use that the collector spares are proved   *)
(* whether or not installers overlap with a plugin; all else for           *)
(* installers that do not (Overlap = FALSE), since with overlap it is      *)
(* false (BinaryOverlap.cfg).                                              *)
(*                                                                         *)
(* The argument is about the disk, not about the directory that processes  *)
(* see: any value an entry may have after a power loss is a value the link *)
(* or a record can rely on.  The visible directory is one of the           *)
(* possibilities, and a rollback goes back to another one of them.         *)
(***************************************************************************)
EXTENDS BinaryStore, TLAPS

-----------------------------------------------------------------------------
(* Invariants *)

Published == {"drive9Sync", "launcherSync", "desiredSync", "undo"}

(* An installer at work has an image and the flock, and knows the entry it *)
(* has published.                                                          *)
JobOK(i) ==
  /\ inst[i].pc # "idle" => inst[i].image \in Digests /\ lock = i
  /\ inst[i].pc \in Published \union {"undoSync"} => inst[i].at \in Entries

Collecting == {"states", "verify", "list", "remove"}

TypeInv ==
  /\ TypeOK
  /\ \A i \in Installers : JobOK(i)
  /\ gc.pc \in Collecting => gc.desired \in Digests

(* The directory is one of its possible contents after a power loss, and   *)
(* binaries are whole or absent, launcher and link name images.            *)
DiskFits ==
  /\ \A e \in Entries : entry[e] \in disk[e]
  /\ \A d \in Digests : disk[d] \subseteq {"absent", "intact"}
  /\ \A e \in {"launcher", "link"} : disk[e] \subseteq Digests \union {"absent"}

(* Whatever image the link may name after a power loss can be run. *)
DiskRunnable ==
  \A d \in disk["link"] \ {"absent"} : disk[d] = {"intact"} /\ "absent" \notin disk["launcher"]

(* The binaries of records survive a power loss. *)
RecordedDurable ==
  \A v \in Volumes : rec[v] # NoRecord =>
    /\ disk[rec[v].binary] = {"intact"}
    /\ rec[v].fallback # Nothing => disk[rec[v].fallback] = {"intact"}

Synced(e) == disk[e] = {entry[e]}

(* What an installer knows of the directory at its steps. *)
InstallerKnows(i) ==
  LET j == inst[i] IN
  /\ j.pc \in Published => j.before \in disk[j.at]
  /\ j.pc = "drive9Rename" => entry[j.image] = "absent"
  /\ j.pc \in {"drive9Sync", "launcher", "launcherSync", "desired", "desiredSync"} =>
       entry[j.image] = "intact"
  /\ j.pc \in {"launcherSync", "desired", "desiredSync"} => entry["launcher"] = j.image
  /\ j.pc \in {"desired", "desiredSync"} => \A e \in Entries \ {"link"} : Synced(e)
  /\ j.pc = "desired" => Synced("link")
  /\ j.pc = "desiredSync" => entry["link"] = j.image

(* No plugin without an image installed, no installer while one is. *)
PluginApart ==
  /\ plugin => ready # Nothing
  /\ ready # Nothing => \A i \in Installers : inst[i].pc = "idle"

(* Operations resolve the installed image. *)
WantsReady == \A v \in Volumes : want[v] # Nothing => plugin /\ want[v] = ready

Deleting == {"list", "remove"}

(* While the collector deletes, every supervisor executes the binary of    *)
(* its record: one without a record had ended the collection.              *)
ProcMatches ==
  gc.pc \in Deleting =>
    \A v \in Volumes : proc[v] # Nothing => rec[v] # NoRecord /\ proc[v] = rec[v].binary

(* What the collector has read is still true. *)
CollectorKnows ==
  /\ gc.pc \in Collecting => plugin /\ gc.desired = ready
  /\ gc.pc \in Collecting \ {"states"} => gc.keep = Keep

IInv ==
  /\ TypeInv
  /\ DiskFits
  /\ DiskRunnable
  /\ RecordedDurable
  /\ \A i \in Installers : InstallerKnows(i)
  /\ PluginApart
  /\ InstallDurable
  /\ WantsReady
  /\ ProcMatches
  /\ CollectorKnows

-----------------------------------------------------------------------------
(* Facts about the operators *)

LEMMA NamesApart ==
  /\ \A d \in Digests : d # Nothing /\ d # "launcher" /\ d # "link" /\ d # "absent" /\ d # "intact"
  /\ Nothing # "launcher" /\ Nothing # "link" /\ Nothing # "absent"
  /\ Nothing \notin Installers
BY StoreAssumption

LEMMA NoJobIsIdle == NoJob \in Jobs /\ NoJob.pc = "idle"
BY DEF NoJob, Jobs, InstallerSteps, Values

LEMMA NoRecordIsNone ==
  /\ NoRecord \notin Records /\ NoRecord.phase = "none" /\ NoRecord.fallback = Nothing
  /\ NoRecord.binary = Nothing
  /\ \A r \in Records : /\ r.phase \in {"starting", "active", "stopping"}
                        /\ r.binary \in Digests /\ r.fallback \in Digests \union {Nothing}
BY DEF NoRecord, Records

LEMMA FreshCollector ==
  ASSUME NEW step \in {"pending", "states", "done"}
  PROVE  Collector(step) \in Collectors /\ Collector(step).pc = step
BY DEF Collector, Collectors

LEMMA FaultyCounts == TypeOK /\ Faulty => faults' \in 0 .. MaxFaults
BY StoreAssumption DEF TypeOK, Faulty

(* Rename, unlink and sync keep the types of the directory. *)
LEMMA PutTyped ==
  ASSUME TypeOK, NEW e \in Entries, NEW value \in Values, Put(e, value)
  PROVE  entry' \in [Entries -> Values] /\ disk' \in [Entries -> SUBSET Values]
BY DEF TypeOK, Put

LEMMA SyncTyped ==
  ASSUME TypeOK, SyncDirectory
  PROVE  entry' \in [Entries -> Values] /\ disk' \in [Entries -> SUBSET Values]
BY DEF TypeOK, SyncDirectory

(* An installer that goes on keeps its image and the lock. *)
LEMMA ToKeeps ==
  ASSUME TypeInv, NEW i \in Installers, inst[i].pc # "idle",
         NEW step \in InstallerSteps \ {"idle"}, NEW j \in Jobs, j.image = inst[i].image,
         step \in Published \union {"undoSync"} => j.at \in Entries,
         To(i, step, j)
  PROVE  /\ inst' \in [Installers -> Jobs] /\ lock' = lock
         /\ inst'[i].pc = step /\ inst'[i].image = j.image /\ inst'[i].at = j.at
         /\ inst'[i].before = j.before
         /\ \A k \in Installers : k # i => inst'[k] = inst[k]
         /\ \A k \in Installers : JobOK(k)'
<1> DEFINE c == [j EXCEPT !.pc = step]
<1>1. c \in Jobs /\ c.pc = step /\ c.image = j.image /\ c.at = j.at /\ c.before = j.before
  BY DEF Jobs
<1>2. inst' = [inst EXCEPT ![i] = c] /\ lock' = lock /\ inst \in [Installers -> Jobs]
  BY DEF To, TypeInv, TypeOK
<1>3. inst'[i] = c /\ \A k \in Installers : k # i => inst'[k] = inst[k]
  BY <1>2
<1>4. \A k \in Installers : JobOK(k)'
  BY <1>1, <1>2, <1>3 DEF TypeInv, JobOK
<1> QED
  BY <1>1, <1>2, <1>3, <1>4

(* An installer that exits is the only one at work. *)
LEMMA ExitKeeps ==
  ASSUME TypeInv, NEW i \in Installers, inst[i].pc # "idle", Exit(i)
  PROVE  /\ inst' \in [Installers -> Jobs] /\ lock' = Nothing
         /\ \A k \in Installers : inst'[k].pc = "idle"
         /\ \A k \in Installers : JobOK(k)'
<1>1. \A k \in Installers : k # i => inst[k].pc = "idle"
  BY DEF TypeInv, JobOK
<1>2. inst' = [inst EXCEPT ![i] = NoJob] /\ lock' = Nothing /\ inst \in [Installers -> Jobs]
  BY DEF Exit, TypeInv, TypeOK
<1>3. inst' \in [Installers -> Jobs] /\ \A k \in Installers : inst'[k].pc = "idle"
  BY <1>1, <1>2, NoJobIsIdle
<1> QED
  BY <1>2, <1>3 DEF JobOK, Published

-----------------------------------------------------------------------------
(* Types and the lock *)

LEMMA InitTypeInv == Init => TypeInv
<1> SUFFICES ASSUME Init PROVE TypeInv
  OBVIOUS
<1>1. TypeOK
  <2>1. entry \in [Entries -> Values] /\ disk \in [Entries -> SUBSET Values]
    BY DEF Init, Values
  <2>2. inst \in [Installers -> Jobs] /\ gc \in Collectors
    BY NoJobIsIdle, FreshCollector DEF Init
  <2>3. faults \in 0 .. MaxFaults
    BY StoreAssumption DEF Init
  <2> QED
    BY <2>1, <2>2, <2>3 DEF Init, TypeOK
<1> QED
  BY <1>1, NoJobIsIdle, FreshCollector DEF Init, TypeInv, JobOK, Published, Collecting

LEMMA InstallerKeepsType ==
  ASSUME TypeInv, NEW i \in Installers, Lock(i) \/ InstallerStep(i) \/ InstallerFault(i)
  PROVE  TypeInv'
<1> USE DEF InstallerSteps, Published
<1>a. TypeOK /\ (gc.pc \in Collecting => gc.desired \in Digests)
  BY DEF TypeInv
<1>1. CASE Lock(i)
  <2>1. PICK d \in Digests :
          inst' = [inst EXCEPT ![i] = [NoJob EXCEPT !.pc = "drive9", !.image = d]]
    BY <1>1 DEF Lock
  <2>2. LET c == [NoJob EXCEPT !.pc = "drive9", !.image = d] IN
        c \in Jobs /\ c.pc = "drive9" /\ c.image = d
    BY <2>1 DEF NoJob, Jobs, Values
  <2>3. /\ inst' \in [Installers -> Jobs] /\ inst'[i].pc = "drive9" /\ inst'[i].image = d
        /\ \A k \in Installers : k # i => inst'[k] = inst[k]
    BY <2>1, <2>2, <1>a DEF TypeOK
  <2>4. \A k \in Installers : inst[k].pc = "idle"
    BY <1>1, NamesApart DEF Lock, LockFree, TypeInv, JobOK
  <2>5. \A k \in Installers : JobOK(k)'
    BY <1>1, <2>1, <2>3, <2>4 DEF Lock, JobOK
  <2> QED
    BY <1>1, <1>a, <2>3, <2>5 DEF Lock, TypeInv, TypeOK, Elsewhere, mount
<1>2. CASE PrepareDrive9(i)
  <2>1. inst[i] \in Jobs /\ inst[i].pc # "idle"
    BY <1>2, <1>a DEF PrepareDrive9, TypeOK
  <2>2. inst' \in [Installers -> Jobs] /\ lock' = lock /\ \A k \in Installers : JobOK(k)'
    <3>1. CASE To(i, "launcher", inst[i])
      BY <2>1, <3>1, ToKeeps
    <3>2. CASE To(i, "drive9Rename", inst[i])
      BY <2>1, <3>2, ToKeeps
    <3> QED
      BY <1>2, <3>1, <3>2 DEF PrepareDrive9
  <2> QED
    BY <1>2, <1>a, <2>2
       DEF PrepareDrive9, ChangesNothing, Publishes, Elsewhere, mount, TypeInv, TypeOK
<1>3. CASE RenameDrive9(i)
  <2>1. inst[i].pc # "idle" /\ inst[i].image \in Entries /\ "absent" \in Values /\ "intact" \in Values
    BY <1>3 DEF RenameDrive9, TypeInv, JobOK, Entries, Values
  <2>2. inst' \in [Installers -> Jobs] /\ lock' = lock /\ \A k \in Installers : JobOK(k)'
    <3> DEFINE j == [inst[i] EXCEPT !.at = inst[i].image, !.before = "absent"]
    <3>0. inst[i] \in Jobs
      BY <1>a DEF TypeOK
    <3>1. j \in Jobs /\ j.image = inst[i].image /\ j.at \in Entries
      BY <2>1, <3>0 DEF Jobs
    <3> QED
      BY <1>3, <2>1, <3>1, ToKeeps DEF RenameDrive9
  <2>3. entry' \in [Entries -> Values] /\ disk' \in [Entries -> SUBSET Values]
    BY <1>3, <1>a, <2>1, PutTyped DEF RenameDrive9
  <2> QED
    BY <1>3, <1>a, <2>2, <2>3
       DEF RenameDrive9, Publishes, Elsewhere, mount, TypeInv, TypeOK
<1>4. CASE SyncDrive9(i)
  <2>1. inst[i] \in Jobs /\ inst[i].pc # "idle"
    BY <1>4, <1>a DEF SyncDrive9, TypeOK
  <2>2. inst' \in [Installers -> Jobs] /\ lock' = lock /\ \A k \in Installers : JobOK(k)'
    BY <1>4, <2>1, ToKeeps DEF SyncDrive9
  <2> QED
    BY <1>4, <1>a, <2>2, SyncTyped
       DEF SyncDrive9, Publishes, Elsewhere, mount, TypeInv, TypeOK
<1>5. CASE RenameLauncher(i)
  <2>1. inst[i].pc # "idle" /\ "launcher" \in Entries /\ inst[i].image \in Values
        /\ entry["launcher"] \in Values
    BY <1>5, <1>a DEF RenameLauncher, TypeInv, JobOK, Entries, Values, TypeOK
  <2>2. inst' \in [Installers -> Jobs] /\ lock' = lock /\ \A k \in Installers : JobOK(k)'
    <3> DEFINE j == [inst[i] EXCEPT !.at = "launcher", !.before = entry["launcher"]]
    <3>0. inst[i] \in Jobs
      BY <1>a DEF TypeOK
    <3>1. j \in Jobs /\ j.image = inst[i].image /\ j.at = "launcher"
      BY <2>1, <3>0 DEF Jobs
    <3>2. To(i, "launcherSync", j)
      BY <1>5 DEF RenameLauncher
    <3> HIDE DEF j
    <3> QED
      BY <2>1, <3>0, <3>1, <3>2, ToKeeps
  <2>3. entry' \in [Entries -> Values] /\ disk' \in [Entries -> SUBSET Values]
    BY <1>5, <1>a, <2>1, PutTyped DEF RenameLauncher
  <2> QED
    BY <1>5, <1>a, <2>2, <2>3
       DEF RenameLauncher, Publishes, Elsewhere, mount, TypeInv, TypeOK
<1>6. CASE SyncLauncher(i)
  <2>1. inst[i] \in Jobs /\ inst[i].pc # "idle"
    BY <1>6, <1>a DEF SyncLauncher, TypeOK
  <2>2. inst' \in [Installers -> Jobs] /\ lock' = lock /\ \A k \in Installers : JobOK(k)'
    BY <1>6, <2>1, ToKeeps DEF SyncLauncher
  <2> QED
    BY <1>6, <1>a, <2>2, SyncTyped
       DEF SyncLauncher, Publishes, Elsewhere, mount, TypeInv, TypeOK
<1>7. CASE ReplaceDesired(i)
  <2>1. inst[i].pc # "idle" /\ "link" \in Entries /\ inst[i].image \in Values
        /\ Desired \in Values /\ inst[i].image \in Digests
    BY <1>7, <1>a DEF ReplaceDesired, TypeInv, JobOK, Entries, Values, TypeOK, Desired
  <2>2. CASE Exit(i) /\ ready' \in {ready, inst[i].image} /\ UNCHANGED <<entry, disk>>
    <3>1. inst' \in [Installers -> Jobs] /\ lock' = Nothing /\ \A k \in Installers : JobOK(k)'
      BY <2>1, <2>2, ExitKeeps
    <3> QED
      BY <1>7, <1>a, <2>1, <2>2, <3>1 DEF ReplaceDesired, Elsewhere, mount, TypeInv, TypeOK
  <2>3. CASE /\ Put("link", inst[i].image)
             /\ To(i, "desiredSync", [inst[i] EXCEPT !.at = "link", !.before = Desired])
             /\ UNCHANGED ready
    <3>1. inst' \in [Installers -> Jobs] /\ lock' = lock /\ \A k \in Installers : JobOK(k)'
      <4> DEFINE j == [inst[i] EXCEPT !.at = "link", !.before = Desired]
      <4>0. inst[i] \in Jobs
        BY <1>a DEF TypeOK
      <4>1. j \in Jobs /\ j.image = inst[i].image /\ j.at = "link"
        BY <2>1, <4>0 DEF Jobs
      <4>2. To(i, "desiredSync", j)
        BY <2>3
      <4> HIDE DEF j
      <4> QED
        BY <2>1, <4>0, <4>1, <4>2, ToKeeps
    <3>2. entry' \in [Entries -> Values] /\ disk' \in [Entries -> SUBSET Values]
      BY <1>a, <2>1, <2>3, PutTyped
    <3> QED
      BY <1>7, <1>a, <2>3, <3>1, <3>2 DEF ReplaceDesired, Elsewhere, mount, TypeInv, TypeOK
  <2> QED
    BY <1>7, <2>2, <2>3 DEF ReplaceDesired, Succeed
<1>8. CASE SyncDesired(i)
  <2>1. inst[i].pc # "idle" /\ inst[i].image \in Digests
    BY <1>8 DEF SyncDesired, TypeInv, JobOK
  <2>2. inst' \in [Installers -> Jobs] /\ lock' = Nothing /\ \A k \in Installers : JobOK(k)'
    BY <1>8, <2>1, ExitKeeps DEF SyncDesired, Succeed
  <2> QED
    BY <1>8, <1>a, <2>1, <2>2, SyncTyped
       DEF SyncDesired, Succeed, Elsewhere, mount, TypeInv, TypeOK
<1>9. CASE Undo(i) \/ RemovalFails(i)
  <2>1. inst[i] \in Jobs /\ inst[i].pc = "undo" /\ inst[i].at \in Entries
        /\ inst[i].before \in Values
    BY <1>9, <1>a DEF Undo, RemovalFails, TypeOK, TypeInv, JobOK, Jobs
  <2>2. inst' \in [Installers -> Jobs] /\ lock' = lock /\ \A k \in Installers : JobOK(k)'
    BY <1>9, <2>1, ToKeeps DEF Undo, RemovalFails
  <2>3. entry' \in [Entries -> Values] /\ disk' \in [Entries -> SUBSET Values]
    BY <1>9, <1>a, <2>1, PutTyped DEF Undo, RemovalFails, TypeOK
  <2>4. faults' \in 0 .. MaxFaults
    BY <1>9, <1>a, FaultyCounts DEF Undo, RemovalFails, Publishes, TypeOK
  <2> QED
    BY <1>9, <1>a, <2>2, <2>3, <2>4
       DEF Undo, RemovalFails, Publishes, Elsewhere, mount, TypeInv, TypeOK
<1>10. CASE UndoSync(i)
  <2>1. inst' \in [Installers -> Jobs] /\ lock' = Nothing /\ \A k \in Installers : JobOK(k)'
    BY <1>10, ExitKeeps DEF UndoSync
  <2> QED
    BY <1>10, <1>a, <2>1, SyncTyped
       DEF UndoSync, Publishes, Elsewhere, mount, TypeInv, TypeOK
<1>11. CASE SyncFails(i)
  <2>1. inst[i] \in Jobs /\ inst[i].pc # "idle" /\ inst[i].at \in Entries
    BY <1>11, <1>a DEF SyncFails, TypeOK, TypeInv, JobOK
  <2>2. inst' \in [Installers -> Jobs] /\ lock' = lock /\ \A k \in Installers : JobOK(k)'
    BY <1>11, <2>1, ToKeeps DEF SyncFails
  <2> QED
    BY <1>11, <1>a, <2>2, FaultyCounts DEF SyncFails, Elsewhere, mount, TypeInv, TypeOK
<1>12. CASE InstallerEnds(i)
  <2>1. inst' \in [Installers -> Jobs] /\ lock' = Nothing /\ \A k \in Installers : JobOK(k)'
    BY <1>12, ExitKeeps DEF InstallerEnds
  <2> QED
    BY <1>12, <1>a, <2>1, FaultyCounts DEF InstallerEnds, Elsewhere, mount, TypeInv, TypeOK
<1> QED
  BY <1>1, <1>2, <1>3, <1>4, <1>5, <1>6, <1>7, <1>8, <1>9, <1>10, <1>11, <1>12
     DEF InstallerStep, InstallerFault

(* The records that operations write. *)
LEMMA RecordsWritten ==
  ASSUME TypeOK, NEW v \in Volumes
  PROVE  /\ rec[v].phase \in {"starting", "active", "stopping"} => rec[v] \in Records
         /\ rec[v] # NoRecord => rec[v] \in Records
         /\ FallbackBinary(v) \in Digests \union {Nothing}
         /\ rec[v] \in Records =>
              /\ [rec[v] EXCEPT !.phase = "active", !.fallback = Nothing] \in Records
              /\ [rec[v] EXCEPT !.phase = "stopping", !.fallback = Nothing] \in Records
              /\ rec[v].fallback # Nothing =>
                   [rec[v] EXCEPT !.binary = rec[v].fallback, !.fallback = Nothing] \in Records
         /\ want[v] # Nothing =>
              [phase |-> "starting", binary |-> want[v], fallback |-> FallbackBinary(v)] \in Records
<1>1. rec[v] \in Records \union {NoRecord} /\ want[v] \in Digests \union {Nothing}
  BY DEF TypeOK
<1>2. rec[v] \in Records => rec[v].binary \in Digests
  BY NoRecordIsNone
<1>3. FallbackBinary(v) \in Digests \union {Nothing}
  BY <1>1, <1>2, NoRecordIsNone DEF FallbackBinary
<1> QED
  BY <1>1, <1>3, NoRecordIsNone DEF Records

(* What a step of the plugin that leaves directory and installers alone    *)
(* has to keep.                                                            *)
LEMMA PluginTyped ==
  ASSUME TypeInv, UNCHANGED <<entry, disk, lock, inst, ready>>,
         plugin' \in BOOLEAN, gc' \in Collectors,
         gc'.pc \in Collecting => gc'.desired \in Digests,
         want' \in [Volumes -> Digests \union {Nothing}],
         rec' \in [Volumes -> Records \union {NoRecord}],
         proc' \in [Volumes -> Digests \union {Nothing}], faults' = faults
  PROVE  TypeInv'
BY DEF TypeInv, TypeOK, JobOK

LEMMA VolumeKeepsType ==
  ASSUME TypeInv, NEW v \in Volumes, VolumeStep(v)
  PROVE  TypeInv'
<1> USE DEF RecordChange, Directory, installer
<1>a. TypeOK /\ (gc.pc \in Collecting => gc.desired \in Digests)
  BY DEF TypeInv
<1>b. rec[v] \in Records \union {NoRecord}
  BY <1>a DEF TypeOK
<1>1. CASE ResolveDesired(v)
  <2>1. want' \in [Volumes -> Digests \union {Nothing}]
    BY <1>a, <1>1 DEF ResolveDesired, Resolves, TypeOK
  <2> QED
    BY <1>a, <1>1, <2>1, PluginTyped DEF ResolveDesired, TypeOK
<1>2. CASE CommitStarting(v)
  <2>1. [phase |-> "starting", binary |-> want[v], fallback |-> FallbackBinary(v)] \in Records
    BY <1>a, <1>2, RecordsWritten DEF CommitStarting
  <2>2. rec' \in [Volumes -> Records \union {NoRecord}]
    BY <1>a, <1>2, <2>1 DEF CommitStarting, TypeOK
  <2>3. want' \in [Volumes -> Digests \union {Nothing}]
    BY <1>a, <1>2 DEF CommitStarting, TypeOK
  <2> QED
    BY <1>a, <1>2, <2>2, <2>3, PluginTyped DEF CommitStarting, TypeOK
<1>3. CASE GiveUp(v)
  <2>1. want' \in [Volumes -> Digests \union {Nothing}]
    BY <1>a, <1>3 DEF GiveUp, TypeOK
  <2> QED
    BY <1>a, <1>3, <2>1, PluginTyped DEF GiveUp, TypeOK
<1>4. CASE Promote(v)
  <2>1. rec' \in [Volumes -> Records \union {NoRecord}]
    BY <1>a, <1>4, RecordsWritten DEF Promote, TypeOK
  <2> QED
    BY <1>a, <1>4, <2>1, PluginTyped DEF Promote, TypeOK
<1>5. CASE SwitchToFallback(v)
  <2>1. rec' \in [Volumes -> Records \union {NoRecord}]
    BY <1>a, <1>5, RecordsWritten DEF SwitchToFallback, TypeOK
  <2> QED
    BY <1>a, <1>5, <2>1, PluginTyped DEF SwitchToFallback, TypeOK
<1>6. CASE Intend(v)
  <2>1. rec' \in [Volumes -> Records \union {NoRecord}]
    BY <1>a, <1>6, RecordsWritten DEF Intend, TypeOK
  <2> QED
    BY <1>a, <1>6, <2>1, PluginTyped DEF Intend, TypeOK
<1>7. CASE DeleteRecord(v)
  <2>1. rec' \in [Volumes -> Records \union {NoRecord}]
    BY <1>a, <1>7 DEF DeleteRecord, TypeOK
  <2> QED
    BY <1>a, <1>7, <2>1, PluginTyped DEF DeleteRecord, TypeOK
<1>8. CASE Executes(v)
  <2>1. rec[v].binary \in Digests
    BY <1>a, <1>8, RecordsWritten, NoRecordIsNone DEF Executes
  <2>2. proc' \in [Volumes -> Digests \union {Nothing}]
    BY <1>a, <1>8, <2>1 DEF Executes, TypeOK
  <2> QED
    BY <1>a, <1>8, <2>2, PluginTyped DEF Executes, TypeOK
<1>9. CASE ProcessEnds(v)
  <2>1. proc' \in [Volumes -> Digests \union {Nothing}]
    BY <1>a, <1>9 DEF ProcessEnds, TypeOK
  <2> QED
    BY <1>a, <1>9, <2>1, PluginTyped DEF ProcessEnds, TypeOK
<1> QED
  BY <1>1, <1>2, <1>3, <1>4, <1>5, <1>6, <1>7, <1>8, <1>9 DEF VolumeStep

(* What the collector keeps are binaries. *)
LEMMA KeepsBinaries ==
  ASSUME TypeOK
  PROVE  /\ Recorded \subseteq Digests /\ Fallbacks \subseteq Digests
         /\ gc.desired \in Digests => Keep \subseteq Digests
<1>1. \A v \in Volumes : /\ rec[v] # NoRecord => rec[v].binary \in Digests
                         /\ rec[v].fallback \in Digests \union {Nothing}
  BY NoRecordIsNone DEF TypeOK
<1> QED
  BY <1>1 DEF Recorded, Fallbacks, Keep

LEMMA CollectorKeepsType ==
  ASSUME TypeInv, CollectorStep
  PROVE  TypeInv'
<1> USE DEF Directory, installer, mount, Collects, Collecting
<1>a. TypeOK /\ (gc.pc \in Collecting => gc.desired \in Digests)
  BY DEF TypeInv
<1>b. CASE Skip
  <2>1. gc' \in Collectors /\ gc'.pc = "done"
    BY <1>b, FreshCollector DEF Skip
  <2> QED
    BY <1>a, <1>b, <2>1, PluginTyped DEF Skip, TypeOK
<1>1. CASE ReadDesired
  <2>1. CASE Resolves /\ Collects([Collector("states") EXCEPT !.desired = Desired]) /\ Directory
    <3>1. gc' \in Collectors /\ gc'.desired \in Digests
      BY <1>a, <2>1 DEF Resolves, Collector, Collectors
    <3> QED
      BY <1>a, <2>1, <3>1, PluginTyped DEF TypeOK
  <2> QED
    BY <1>1, <1>b, <2>1 DEF ReadDesired
<1>2. CASE ReadStates
  <2>1. Keep \subseteq Digests /\ gc.desired \in Digests /\ gc \in Collectors
    BY <1>a, <1>2, KeepsBinaries DEF ReadStates, TypeOK
  <2>2. gc' \in Collectors /\ gc'.desired \in Digests
    BY <1>2, <2>1 DEF ReadStates, Collectors
  <2> QED
    BY <1>a, <1>2, <2>2, PluginTyped DEF ReadStates, TypeOK
<1>3. CASE Verify
  <2>1. CASE Collects([gc EXCEPT !.pc = "list"]) /\ Directory
    <3>1. gc' \in Collectors /\ gc'.desired \in Digests
      BY <1>a, <1>3, <2>1 DEF Verify, TypeOK, Collectors
    <3> QED
      BY <1>a, <2>1, <3>1, PluginTyped DEF TypeOK
  <2> QED
    BY <1>3, <1>b, <2>1 DEF Verify
<1>4. CASE ListDirectory
  <2>1. gc \in Collectors /\ gc.desired \in Digests
        /\ {d \in Digests : entry[d] # "absent"} \in SUBSET Digests
    BY <1>a, <1>4 DEF ListDirectory, TypeOK
  <2>2. gc' \in Collectors /\ gc'.desired \in Digests
    BY <1>4, <2>1 DEF ListDirectory, Collectors
  <2> QED
    BY <1>a, <1>4, <2>2, PluginTyped DEF ListDirectory, TypeOK
<1>5. CASE RemoveBinary
  <2>1. PICK d \in gc.list \ gc.keep : Put(d, "absent") /\ Collects([gc EXCEPT !.list = @ \ {d}])
    BY <1>5 DEF RemoveBinary
  <2>2. gc \in Collectors /\ gc.desired \in Digests /\ gc.list \subseteq Digests
    BY <1>a, <1>5 DEF RemoveBinary, TypeOK, Collectors
  <2>3. gc' \in Collectors /\ gc'.desired \in Digests
    BY <2>1, <2>2 DEF Collectors
  <2>4. entry' \in [Entries -> Values] /\ disk' \in [Entries -> SUBSET Values]
    BY <1>a, <2>1, <2>2, PutTyped DEF Entries, Values
  <2> QED
    BY <1>5, <2>1, <2>3, <2>4 DEF RemoveBinary, TypeInv, TypeOK, JobOK
<1> QED
  BY <1>b, <1>1, <1>2, <1>3, <1>4, <1>5
     DEF CollectorStep, GiveUpCollection, CollectionEnds

LEMMA NextKeepsType == TypeInv /\ [Next]_vars => TypeInv'
<1> SUFFICES ASSUME TypeInv, [Next]_vars PROVE TypeInv'
  OBVIOUS
<1>a. TypeOK
  BY DEF TypeInv
<1>1. ASSUME NEW i \in Installers, Lock(i) \/ InstallerStep(i) \/ InstallerFault(i)
      PROVE  TypeInv'
  BY <1>1, InstallerKeepsType
<1>2. CASE PluginStarts \/ PluginEnds
  <2>1. gc' \in Collectors /\ gc'.pc \notin Collecting
    BY <1>2, FreshCollector DEF PluginStarts, PluginEnds, Collecting
  <2>2. want' \in [Volumes -> Digests \union {Nothing}] /\ plugin' \in BOOLEAN
    BY <1>a, <1>2 DEF PluginStarts, PluginEnds, mount, TypeOK
  <2> QED
    BY <1>a, <1>2, <2>1, <2>2, PluginTyped
       DEF PluginStarts, PluginEnds, Directory, installer, mount, TypeOK
<1>3. ASSUME NEW v \in Volumes, VolumeStep(v) PROVE TypeInv'
  BY <1>3, VolumeKeepsType
<1>4. CASE CollectorStep
  BY <1>4, CollectorKeepsType
<1>5. CASE PowerLoss
  <2>1. entry' \in [Entries -> Values] /\ disk' \in [Entries -> SUBSET Values]
    BY <1>5 DEF PowerLoss
  <2>2. gc' \in Collectors /\ gc'.pc \notin Collecting
    BY <1>5, FreshCollector DEF PowerLoss, Collecting
  <2>3. inst' \in [Installers -> Jobs] /\ \A i \in Installers : JobOK(i)'
    BY <1>5, NoJobIsIdle DEF PowerLoss, JobOK, Published
  <2> QED
    BY <1>a, <1>5, <2>1, <2>2, <2>3, FaultyCounts DEF PowerLoss, TypeInv, TypeOK
<1>6. CASE UNCHANGED vars
  BY <1>6 DEF vars, installer, mount, TypeInv, TypeOK, JobOK
<1> QED
  BY <1>1, <1>2, <1>3, <1>4, <1>5, <1>6 DEF Next

(* The directory, the installers, the records and the collector keep their *)
(* types, and an installer at work holds the flock, whether or not the     *)
(* pods of a rollout overlap.                                              *)
THEOREM TypesAndLock == Spec => []TypeInv
BY InitTypeInv, NextKeepsType, PTL DEF Spec

(* Type correctness, with and without overlap. *)
THEOREM TypeCorrect == Spec => []TypeOK
<1>1. TypeInv => TypeOK
  BY DEF TypeInv
<1> QED
  BY <1>1, TypesAndLock, PTL

-----------------------------------------------------------------------------
(* What changes of the directory do to the possible contents of the disk *)

DiskInv == DiskFits /\ DiskRunnable /\ RecordedDurable

(* RecordedDurable, as a fact about the set of recorded binaries. *)
LEMMA RecordedAreDigests ==
  ASSUME TypeOK
  PROVE  /\ Recorded \union Fallbacks \subseteq Digests
         /\ RecordedDurable <=> \A d \in Recorded \union Fallbacks : disk[d] = {"intact"}
<1>1. \A v \in Volumes : rec[v] = NoRecord => rec[v].fallback = Nothing
  BY NoRecordIsNone
<1> QED
  BY <1>1, KeepsBinaries DEF RecordedDurable, Recorded, Fallbacks

(* A value that the disk may have anyway: a rollback. *)
LEMMA PutOldKeeps ==
  ASSUME TypeOK, DiskInv, NEW e \in Entries, NEW value \in disk[e], Put(e, value), rec' = rec
  PROVE  DiskInv' /\ disk' = disk
<1>1. disk' = disk
  BY DEF Put, TypeOK
<1>2. \A x \in Entries : entry'[x] \in disk[x]
  BY DEF Put, TypeOK, DiskInv, DiskFits
<1> QED
  BY <1>1, <1>2 DEF DiskInv, DiskFits, DiskRunnable, RecordedDurable

(* A published binary. *)
LEMMA PutBinaryKeeps ==
  ASSUME TypeOK, DiskInv, NEW d \in Digests, Put(d, "intact"), rec' = rec
  PROVE  DiskInv'
<1>1. /\ d \in Entries /\ "link" \in Entries /\ "launcher" \in Entries /\ Digests \subseteq Entries
      /\ d # "link" /\ d # "launcher"
  BY NamesApart DEF Entries
<1>2. /\ disk' = [disk EXCEPT ![d] = disk[d] \union {"intact"}]
      /\ entry' = [entry EXCEPT ![d] = "intact"]
  BY DEF Put
<1>3. disk'["link"] = disk["link"] /\ disk'["launcher"] = disk["launcher"]
  BY <1>1, <1>2 DEF TypeOK
<1>4. \A x \in Digests : disk[x] = {"intact"} => disk'[x] = {"intact"}
  BY <1>1, <1>2 DEF TypeOK
<1>5. DiskFits'
  BY <1>1, <1>2, <1>3 DEF DiskInv, DiskFits, TypeOK
<1>6. disk["link"] \ {"absent"} \subseteq Digests
  BY DEF DiskInv, DiskFits
<1>7. DiskRunnable'
  BY <1>3, <1>4, <1>6 DEF DiskInv, DiskRunnable
<1>8. RecordedDurable'
  BY <1>4, RecordedAreDigests, NoRecordIsNone DEF DiskInv, RecordedDurable, TypeOK
<1> QED
  BY <1>5, <1>7, <1>8 DEF DiskInv

(* A deleted binary that neither the link nor a record may name. *)
LEMMA RemoveBinaryKeeps ==
  ASSUME TypeOK, DiskInv, NEW d \in Digests, Put(d, "absent"), rec' = rec,
         d \notin disk["link"], d \notin Recorded \union Fallbacks
  PROVE  DiskInv' /\ \A e \in Entries : e # d => disk'[e] = disk[e] /\ entry'[e] = entry[e]
<1>1. /\ d \in Entries /\ "link" \in Entries /\ "launcher" \in Entries /\ Digests \subseteq Entries
      /\ d # "link" /\ d # "launcher"
  BY NamesApart DEF Entries
<1>2. /\ disk' = [disk EXCEPT ![d] = disk[d] \union {"absent"}]
      /\ entry' = [entry EXCEPT ![d] = "absent"]
  BY DEF Put
<1>3. /\ disk'["link"] = disk["link"] /\ disk'["launcher"] = disk["launcher"]
      /\ \A e \in Entries : e # d => disk'[e] = disk[e] /\ entry'[e] = entry[e]
  BY <1>1, <1>2 DEF TypeOK
<1>4. DiskFits'
  BY <1>1, <1>2, <1>3 DEF DiskInv, DiskFits, TypeOK
<1>5. disk["link"] \ {"absent"} \subseteq Digests
  BY DEF DiskInv, DiskFits
<1>6. DiskRunnable'
  BY <1>1, <1>3, <1>5 DEF DiskInv, DiskRunnable
<1>7. RecordedDurable'
  <2>1. \A x \in Recorded \union Fallbacks : disk[x] = {"intact"} /\ x \in Entries /\ x # d
    BY <1>1, RecordedAreDigests DEF DiskInv
  <2>2. \A x \in Recorded \union Fallbacks : disk'[x] = {"intact"}
    BY <1>3, <2>1
  <2>3. \A v \in Volumes : /\ rec[v] # NoRecord => rec[v].binary \in Recorded
                           /\ rec[v].fallback # Nothing => rec[v].fallback \in Fallbacks
    BY DEF Recorded, Fallbacks
  <2> QED
    BY <2>2, <2>3 DEF RecordedDurable
<1> QED
  BY <1>3, <1>4, <1>6, <1>7 DEF DiskInv

(* A published launcher. *)
LEMMA PutLauncherKeeps ==
  ASSUME TypeOK, DiskInv, NEW d \in Digests, Put("launcher", d), rec' = rec
  PROVE  DiskInv'
<1>1. /\ "link" \in Entries /\ "launcher" \in Entries /\ Digests \subseteq Entries
      /\ "launcher" \notin Digests /\ d # "absent"
  BY NamesApart DEF Entries
<1>2. /\ disk' = [disk EXCEPT !["launcher"] = disk["launcher"] \union {d}]
      /\ entry' = [entry EXCEPT !["launcher"] = d]
  BY DEF Put
<1>3. /\ disk'["link"] = disk["link"] /\ disk'["launcher"] = disk["launcher"] \union {d}
      /\ \A x \in Digests : disk'[x] = disk[x]
  BY <1>1, <1>2 DEF TypeOK
<1>4. DiskFits'
  BY <1>1, <1>2, <1>3 DEF DiskInv, DiskFits, TypeOK
<1>5. disk["link"] \ {"absent"} \subseteq Digests
  BY DEF DiskInv, DiskFits
<1>6. DiskRunnable'
  BY <1>1, <1>3, <1>5 DEF DiskInv, DiskRunnable
<1>7. RecordedDurable'
  <2>1. \A x \in Recorded \union Fallbacks : disk[x] = {"intact"}
    BY RecordedAreDigests DEF DiskInv
  <2>2. Recorded \union Fallbacks \subseteq Digests
    BY RecordedAreDigests
  <2>3. \A w \in Volumes : rec[w] # NoRecord =>
          /\ rec[w].binary \in Recorded \union Fallbacks
          /\ rec[w].fallback # Nothing => rec[w].fallback \in Recorded \union Fallbacks
    BY DEF Recorded, Fallbacks
  <2> QED
    BY <1>3, <2>1, <2>2, <2>3 DEF RecordedDurable
<1> QED
  BY <1>4, <1>6, <1>7 DEF DiskInv

(* A link to a binary that is durable, beside a durable launcher. *)
LEMMA PutLinkKeeps ==
  ASSUME TypeOK, DiskInv, NEW d \in Digests, Put("link", d), rec' = rec,
         disk[d] = {"intact"}, "absent" \notin disk["launcher"]
  PROVE  DiskInv'
<1>1. /\ "link" \in Entries /\ "launcher" \in Entries /\ Digests \subseteq Entries
      /\ "link" \notin Digests
  BY NamesApart DEF Entries
<1>2. /\ disk' = [disk EXCEPT !["link"] = disk["link"] \union {d}]
      /\ entry' = [entry EXCEPT !["link"] = d]
  BY DEF Put
<1>3. /\ disk'["launcher"] = disk["launcher"] /\ disk'["link"] = disk["link"] \union {d}
      /\ \A x \in Digests : disk'[x] = disk[x]
  BY <1>1, <1>2 DEF TypeOK
<1>4. DiskFits'
  BY <1>1, <1>2, <1>3 DEF DiskInv, DiskFits, TypeOK
<1>5. disk["link"] \ {"absent"} \subseteq Digests
  BY DEF DiskInv, DiskFits
<1>6. DiskRunnable'
  BY <1>1, <1>3, <1>5 DEF DiskInv, DiskRunnable
<1>7. RecordedDurable'
  <2>1. \A x \in Recorded \union Fallbacks : disk[x] = {"intact"}
    BY RecordedAreDigests DEF DiskInv
  <2>2. Recorded \union Fallbacks \subseteq Digests
    BY RecordedAreDigests
  <2>3. \A w \in Volumes : rec[w] # NoRecord =>
          /\ rec[w].binary \in Recorded \union Fallbacks
          /\ rec[w].fallback # Nothing => rec[w].fallback \in Recorded \union Fallbacks
    BY DEF Recorded, Fallbacks
  <2> QED
    BY <1>3, <2>1, <2>2, <2>3 DEF RecordedDurable
<1> QED
  BY <1>4, <1>6, <1>7 DEF DiskInv

(* A sync and a power loss leave one of the possible contents, for good. *)
LEMMA CollapseKeeps ==
  ASSUME TypeOK, DiskInv, rec' = rec,
         entry' \in [Entries -> Values],
         \A e \in Entries : entry'[e] \in disk[e],
         disk' = [e \in Entries |-> {entry'[e]}]
  PROVE  DiskInv' /\ \A e \in Entries : disk'[e] = {entry'[e]}
<1>1. "link" \in Entries /\ "launcher" \in Entries /\ Digests \subseteq Entries
  BY DEF Entries
<1>2. \A e \in Entries : disk'[e] = {entry'[e]} /\ disk'[e] \subseteq disk[e]
  OBVIOUS
<1>3. DiskFits'
  BY <1>1, <1>2 DEF DiskInv, DiskFits
<1>4. \A d \in Digests : disk[d] = {"intact"} => disk'[d] = {"intact"}
  BY <1>1, <1>2
<1>5. disk["link"] \ {"absent"} \subseteq Digests
  BY DEF DiskInv, DiskFits
<1>6. DiskRunnable'
  BY <1>1, <1>2, <1>4, <1>5 DEF DiskInv, DiskRunnable
<1>7. RecordedDurable'
  BY <1>4, NoRecordIsNone DEF DiskInv, RecordedDurable, TypeOK
<1> QED
  BY <1>2, <1>3, <1>6, <1>7 DEF DiskInv

LEMMA SyncKeeps ==
  ASSUME TypeOK, DiskInv, SyncDirectory, rec' = rec
  PROVE  DiskInv' /\ entry' = entry /\ \A e \in Entries : disk'[e] = {entry'[e]}
BY CollapseKeeps DEF SyncDirectory, TypeOK, DiskInv, DiskFits

-----------------------------------------------------------------------------
(* Installers *)

(* While an installer works there is no plugin, hence no operation and no  *)
(* collection, and no other installer; what remains is the disk and what   *)
(* the installer itself knows.                                             *)
LEMMA InstallerFrame ==
  ASSUME IInv, NEW i \in Installers, inst[i].pc # "idle", TypeInv', Elsewhere,
         \A k \in Installers : k # i => inst'[k].pc = "idle",
         DiskInv', InstallerKnows(i)',
         \/ ready' = Nothing
         \/ inst'[i].pc = "idle" /\ InstallDurable'
  PROVE  IInv'
<1>1. ready = Nothing /\ ~plugin
  BY DEF IInv, PluginApart
<1>2. UNCHANGED <<plugin, gc, want, rec, proc>>
  BY DEF Elsewhere, mount
<1>3. gc.pc \notin Collecting /\ \A v \in Volumes : want[v] = Nothing
  BY <1>1 DEF IInv, CollectorKnows, WantsReady
<1>4. \A k \in Installers : InstallerKnows(k)'
  <2>1. ASSUME NEW k \in Installers, k # i PROVE InstallerKnows(k)'
    <3>1. inst'[k].pc = "idle"
      BY <2>1
    <3> QED
      BY <3>1 DEF InstallerKnows, Published
  <2> QED
    BY <2>1
<1>5. PluginApart'
  BY <1>1, <1>2 DEF PluginApart
<1>6. InstallDurable'
  BY DEF InstallDurable
<1>7. WantsReady' /\ ProcMatches'
  BY <1>2, <1>3 DEF IInv, WantsReady, ProcMatches
<1>8. CollectorKnows'
  BY <1>2, <1>3 DEF CollectorKnows
<1> QED
  BY <1>4, <1>5, <1>6, <1>7, <1>8 DEF IInv, DiskInv

(* An installer that ends knows nothing more. *)
LEMMA InstallerEndKeeps ==
  ASSUME IInv, NEW i \in Installers, inst[i].pc # "idle", Exit(i), TypeInv', Elsewhere, DiskInv',
         ready' = Nothing \/ InstallDurable'
  PROVE  IInv'
<1>1. \A k \in Installers : inst'[k].pc = "idle"
  BY ExitKeeps DEF IInv
<1>2. InstallerKnows(i)'
  BY <1>1 DEF InstallerKnows, Published
<1> QED
  BY <1>1, <1>2, InstallerFrame

(* An installer that goes on. *)
LEMMA InstallerGoesOn ==
  ASSUME IInv, NEW i \in Installers, inst[i].pc # "idle", TypeInv', Elsewhere, ready' = ready,
         NEW step \in InstallerSteps \ {"idle"}, NEW j \in Jobs, j.image = inst[i].image,
         step \in Published \union {"undoSync"} => j.at \in Entries,
         To(i, step, j), DiskInv',
         \* what the next step knows
         step \in Published => j.before \in disk'[j.at],
         step = "drive9Rename" => entry'[j.image] = "absent",
         step \in {"drive9Sync", "launcher", "launcherSync", "desired", "desiredSync"} =>
           entry'[j.image] = "intact",
         step \in {"launcherSync", "desired", "desiredSync"} => entry'["launcher"] = j.image,
         step \in {"desired", "desiredSync"} =>
           \A e \in Entries \ {"link"} : disk'[e] = {entry'[e]},
         step = "desired" => disk'["link"] = {entry'["link"]},
         step = "desiredSync" => entry'["link"] = j.image
  PROVE  IInv'
<1>0. TypeInv
  BY DEF IInv
<1>1. /\ inst'[i].pc = step /\ inst'[i].image = j.image /\ inst'[i].at = j.at
      /\ inst'[i].before = j.before
      /\ \A k \in Installers : k # i => inst'[k] = inst[k]
  BY <1>0, ToKeeps
<1>2. ready = Nothing /\ \A k \in Installers : k # i => inst[k].pc = "idle"
  BY DEF IInv, PluginApart, TypeInv, JobOK
<1>3. InstallerKnows(i)'
  BY <1>1 DEF InstallerKnows, Synced
<1> QED
  BY <1>1, <1>2, <1>3, InstallerFrame

LEMMA InstallerKeeps ==
  ASSUME IInv, Overlap = FALSE,
         NEW i \in Installers, Lock(i) \/ InstallerStep(i) \/ InstallerFault(i)
  PROVE  IInv'
<1> USE DEF Publishes, InstallerSteps, Published
<1>a. TypeInv /\ TypeOK /\ DiskInv /\ InstallerKnows(i) /\ TypeInv'
  BY InstallerKeepsType DEF IInv, TypeInv, DiskInv
<1>b. inst[i] \in Jobs /\ "launcher" \in Entries /\ "link" \in Entries /\ Digests \subseteq Entries
  BY <1>a DEF TypeOK, Entries
<1>c. ASSUME inst[i].pc # "idle"
      PROVE  /\ inst[i].image \in Digests /\ ready = Nothing
             /\ inst[i].pc \in Published => inst[i].at \in Entries /\ inst[i].before \in disk[inst[i].at]
  BY <1>a, <1>c DEF TypeInv, JobOK, IInv, PluginApart, InstallerKnows
<1>d. ASSUME Elsewhere PROVE rec' = rec
  BY <1>d DEF Elsewhere, mount
<1>e. ASSUME UNCHANGED <<entry, disk>>, Elsewhere PROVE DiskInv'
  BY <1>a, <1>d, <1>e DEF DiskInv, DiskFits, DiskRunnable, RecordedDurable
<1>1. CASE Lock(i)
  <2>1. /\ ~plugin /\ ready' = Nothing /\ lock = Nothing
        /\ UNCHANGED <<entry, disk, plugin, gc, want, rec, proc>>
    BY <1>1 DEF Lock, LockFree, Elsewhere, mount
  <2>2. \A k \in Installers : inst[k].pc = "idle"
    BY <1>a, <2>1, NamesApart DEF TypeInv, JobOK
  <2>3. PICK d \in Digests :
          inst' = [inst EXCEPT ![i] = [NoJob EXCEPT !.pc = "drive9", !.image = d]]
    BY <1>1 DEF Lock
  <2>4. inst'[i].pc = "drive9" /\ \A k \in Installers : k # i => inst'[k].pc = "idle"
    BY <1>a, <2>2, <2>3 DEF TypeOK, NoJob
  <2>5. \A k \in Installers : InstallerKnows(k)'
    <3>1. \A k \in Installers : inst'[k].pc \in {"drive9", "idle"}
      BY <2>4
    <3> QED
      BY <3>1 DEF InstallerKnows
  <2>6. gc.pc \notin Collecting /\ \A v \in Volumes : want[v] = Nothing
    BY <2>1 DEF IInv, CollectorKnows, WantsReady
  <2>7. DiskInv'
    BY <1>1, <1>e DEF Lock
  <2>8. PluginApart' /\ InstallDurable' /\ WantsReady' /\ ProcMatches' /\ CollectorKnows'
    BY <2>1, <2>6
       DEF IInv, PluginApart, InstallDurable, WantsReady, ProcMatches, CollectorKnows
  <2> QED
    BY <1>a, <2>5, <2>7, <2>8 DEF IInv, DiskInv
<1>2. CASE PrepareDrive9(i)
  <2>1. inst[i].pc # "idle" /\ inst[i].image \in Digests /\ Elsewhere /\ ready' = ready /\ entry' = entry
    BY <1>2, <1>c DEF PrepareDrive9, ChangesNothing
  <2>2. entry[inst[i].image] \in {"absent", "intact"}
    BY <1>a, <1>b, <2>1 DEF DiskInv, DiskFits
  <2>3. DiskInv'
    BY <1>2, <1>e DEF PrepareDrive9, ChangesNothing
  <2>4. CASE entry[inst[i].image] = "intact" /\ To(i, "launcher", inst[i])
    BY <1>a, <1>b, <2>1, <2>3, <2>4, InstallerGoesOn
  <2>5. CASE entry[inst[i].image] # "intact" /\ To(i, "drive9Rename", inst[i])
    BY <1>a, <1>b, <2>1, <2>2, <2>3, <2>5, InstallerGoesOn
  <2> QED
    BY <1>2, <2>4, <2>5 DEF PrepareDrive9
<1>3. CASE RenameDrive9(i)
  <2> DEFINE d == inst[i].image
             j == [inst[i] EXCEPT !.at = d, !.before = "absent"]
  <2>1. /\ inst[i].pc # "idle" /\ d \in Digests /\ d \in Entries /\ entry[d] = "absent"
        /\ Elsewhere /\ ready' = ready /\ Put(d, "intact") /\ To(i, "drive9Sync", j)
    BY <1>3, <1>a, <1>b, <1>c DEF RenameDrive9, InstallerKnows
  <2>2. j \in Jobs /\ j.image = d /\ j.at = d /\ j.before = "absent"
    BY <1>a, <1>b, <2>1 DEF Jobs, Values
  <2>3. DiskInv'
    BY <1>a, <1>d, <2>1, PutBinaryKeeps
  <2>4. "absent" \in disk'[d] /\ entry'[d] = "intact"
    BY <1>a, <2>1 DEF Put, TypeOK, DiskInv, DiskFits
  <2> HIDE DEF d, j
  <2> QED
    BY <1>a, <2>1, <2>2, <2>3, <2>4, InstallerGoesOn DEF d
<1>4. CASE SyncDrive9(i)
  <2>1. /\ inst[i].pc # "idle" /\ entry[inst[i].image] = "intact"
        /\ Elsewhere /\ ready' = ready /\ SyncDirectory /\ To(i, "launcher", inst[i])
    BY <1>4, <1>a DEF SyncDrive9, InstallerKnows
  <2>2. DiskInv' /\ entry' = entry
    BY <1>a, <1>d, <2>1, SyncKeeps
  <2> QED
    BY <1>a, <1>b, <2>1, <2>2, InstallerGoesOn
<1>5. CASE RenameLauncher(i)
  <2> DEFINE d == inst[i].image
             j == [inst[i] EXCEPT !.at = "launcher", !.before = entry["launcher"]]
  <2>1. /\ inst[i].pc # "idle" /\ d \in Digests /\ d # "launcher" /\ entry[d] = "intact"
        /\ Elsewhere /\ ready' = ready /\ Put("launcher", d) /\ To(i, "launcherSync", j)
    BY <1>5, <1>a, <1>b, <1>c, NamesApart DEF RenameLauncher, InstallerKnows
  <2>2. j \in Jobs /\ j.image = d /\ j.at = "launcher" /\ j.before = entry["launcher"]
    BY <1>a, <1>b, <2>1 DEF Jobs, TypeOK
  <2>3. DiskInv'
    BY <1>a, <1>d, <2>1, PutLauncherKeeps
  <2>4. /\ entry["launcher"] \in disk'["launcher"] /\ entry'["launcher"] = d
        /\ entry'[d] = "intact"
    BY <1>a, <1>b, <2>1 DEF Put, TypeOK, DiskInv, DiskFits
  <2> HIDE DEF d, j
  <2> QED
    BY <1>a, <1>b, <2>1, <2>2, <2>3, <2>4, InstallerGoesOn DEF d
<1>6. CASE SyncLauncher(i)
  <2>1. /\ inst[i].pc # "idle" /\ entry[inst[i].image] = "intact"
        /\ entry["launcher"] = inst[i].image
        /\ Elsewhere /\ ready' = ready /\ SyncDirectory /\ To(i, "desired", inst[i])
    BY <1>6, <1>a DEF SyncLauncher, InstallerKnows
  <2>2. DiskInv' /\ entry' = entry /\ \A e \in Entries : disk'[e] = {entry'[e]}
    BY <1>a, <1>d, <2>1, SyncKeeps
  <2> QED
    BY <1>a, <1>b, <2>1, <2>2, InstallerGoesOn
<1>7. CASE ReplaceDesired(i)
  <2> DEFINE d == inst[i].image
             j == [inst[i] EXCEPT !.at = "link", !.before = Desired]
  <2>1. /\ inst[i].pc # "idle" /\ d \in Digests /\ d # "link" /\ d # Nothing /\ ready = Nothing
        /\ entry[d] = "intact" /\ entry["launcher"] = d /\ Elsewhere
        /\ \A e \in Entries : disk[e] = {entry[e]}
    BY <1>7, <1>a, <1>b, <1>c, NamesApart DEF ReplaceDesired, InstallerKnows, Synced
  <2>2. CASE Desired = d /\ Succeed(i) /\ UNCHANGED <<entry, disk>>
    <3>1. InstallDurable'
      BY <1>b, <2>1, <2>2 DEF Succeed, InstallDurable, Desired
    <3> QED
      BY <1>a, <1>e, <2>1, <2>2, <3>1, InstallerEndKeeps DEF Succeed
  <2>3. CASE Put("link", d) /\ To(i, "desiredSync", j) /\ UNCHANGED ready
    <3>1. j \in Jobs /\ j.image = d /\ j.at = "link" /\ j.before = Desired
      BY <1>a, <1>b, <2>1 DEF Jobs, TypeOK, Desired
    <3>2. disk[d] = {"intact"} /\ "absent" \notin disk["launcher"]
      BY <1>b, <2>1, NamesApart
    <3>3. DiskInv'
      BY <1>a, <1>d, <2>1, <2>3, <3>2, PutLinkKeeps
    <3>4. /\ Desired \in disk'["link"] /\ entry'["link"] = d /\ entry'[d] = "intact"
          /\ entry'["launcher"] = d /\ \A e \in Entries \ {"link"} : disk'[e] = {entry'[e]}
      BY <1>a, <1>b, <2>1, <2>3 DEF Put, TypeOK, Desired
    <3> HIDE DEF d, j
    <3> QED
      BY <1>a, <1>b, <2>1, <2>3, <3>1, <3>3, <3>4, InstallerGoesOn DEF d
  <2>4. CASE Exit(i) /\ UNCHANGED <<entry, disk, ready>>
    BY <1>a, <1>e, <2>1, <2>4, InstallerEndKeeps
  <2> QED
    BY <1>7, <2>2, <2>3, <2>4 DEF ReplaceDesired
<1>8. CASE SyncDesired(i)
  <2>1. /\ inst[i].pc # "idle" /\ inst[i].image \in Digests /\ entry[inst[i].image] = "intact"
        /\ entry["launcher"] = inst[i].image /\ entry["link"] = inst[i].image
        /\ Elsewhere /\ SyncDirectory /\ Succeed(i)
    BY <1>8, <1>a, <1>c DEF SyncDesired, InstallerKnows
  <2>2. DiskInv' /\ entry' = entry /\ \A e \in Entries : disk'[e] = {entry'[e]}
    BY <1>a, <1>d, <2>1, SyncKeeps
  <2>3. InstallDurable'
    BY <1>b, <2>1, <2>2 DEF Succeed, InstallDurable
  <2> QED
    BY <1>a, <2>1, <2>2, <2>3, InstallerEndKeeps DEF Succeed
<1>9. CASE Undo(i)
  <2>1. /\ inst[i].pc # "idle" /\ inst[i].at \in Entries /\ inst[i].before \in disk[inst[i].at]
        /\ Elsewhere /\ ready' = ready /\ Put(inst[i].at, inst[i].before)
        /\ To(i, "undoSync", inst[i])
    BY <1>9, <1>c DEF Undo
  <2>2. DiskInv'
    BY <1>a, <1>d, <2>1, PutOldKeeps
  <2> QED
    BY <1>a, <1>b, <2>1, <2>2, InstallerGoesOn
<1>10. CASE UndoSync(i)
  <2>1. inst[i].pc # "idle" /\ Elsewhere /\ ready' = Nothing /\ SyncDirectory /\ Exit(i)
    BY <1>10, <1>c DEF UndoSync
  <2>2. DiskInv'
    BY <1>a, <1>d, <2>1, SyncKeeps
  <2> QED
    BY <1>a, <2>1, <2>2, InstallerEndKeeps
<1>11. CASE SyncFails(i)
  <2>1. /\ inst[i].pc # "idle" /\ inst[i].at \in Entries /\ inst[i].before \in disk[inst[i].at]
        /\ Elsewhere /\ ready' = ready /\ UNCHANGED <<entry, disk>> /\ To(i, "undo", inst[i])
    BY <1>11, <1>c DEF SyncFails
  <2> QED
    BY <1>a, <1>b, <1>e, <2>1, InstallerGoesOn
<1>12. CASE RemovalFails(i)
  <2>1. /\ inst[i].pc # "idle" /\ inst[i].at \in Entries
        /\ Elsewhere /\ ready' = ready /\ UNCHANGED <<entry, disk>> /\ To(i, "undoSync", inst[i])
    BY <1>12, <1>c DEF RemovalFails
  <2> QED
    BY <1>a, <1>b, <1>e, <2>1, InstallerGoesOn
<1>13. CASE InstallerEnds(i)
  BY <1>13, <1>a, <1>c, <1>e, InstallerEndKeeps DEF InstallerEnds
<1> QED
  BY <1>1, <1>2, <1>3, <1>4, <1>5, <1>6, <1>7, <1>8, <1>9, <1>10, <1>11, <1>12, <1>13
     DEF InstallerStep, InstallerFault

-----------------------------------------------------------------------------
(* The node plugin *)

(* A running plugin sees the image that was installed for it. *)
LEMMA InstalledIsDesired ==
  ASSUME IInv, plugin
  PROVE  ready \in Digests /\ disk["link"] = {ready} /\ Desired = ready /\ disk[ready] = {"intact"}
<1>1. ready \in Digests /\ disk["link"] = {ready} /\ disk[ready] = {"intact"}
  BY DEF IInv, PluginApart, InstallDurable, TypeInv, TypeOK
<1>2. Desired \in disk["link"]
  BY DEF IInv, DiskFits, Desired, Entries
<1> QED
  BY <1>1, <1>2

(* Steps that leave the directory alone.  The inventory lock keeps the     *)
(* records as the collector has read them.                                 *)
LEMMA MountFrame ==
  ASSUME IInv, TypeInv', UNCHANGED <<entry, disk, lock, inst, ready, plugin, gc>>,
         rec' = rec \/ gc.pc \notin Collecting,
         RecordedDurable', WantsReady', ProcMatches'
  PROVE  IInv'
<1>1. DiskFits' /\ DiskRunnable' /\ PluginApart' /\ InstallDurable'
  BY DEF IInv, DiskFits, DiskRunnable, PluginApart, InstallDurable
<1>2. \A i \in Installers : InstallerKnows(i)'
  BY DEF IInv, InstallerKnows, Synced
<1>3. CollectorKnows'
  <2>1. CASE rec' = rec
    BY <2>1 DEF IInv, CollectorKnows, Keep, Recorded, Fallbacks
  <2>2. CASE gc.pc \notin Collecting
    BY <2>2 DEF CollectorKnows
  <2> QED
    BY <2>1, <2>2
<1> QED
  BY <1>1, <1>2, <1>3 DEF IInv

(* One record is replaced by one that names durable binaries. *)
LEMMA RecordKeeps ==
  ASSUME IInv, TypeInv', NEW v \in Volumes, NEW r \in Records \union {NoRecord},
         RecordChange(v, r),
         r # NoRecord => disk[r.binary] = {"intact"},
         r # NoRecord /\ r.fallback # Nothing => disk[r.fallback] = {"intact"},
         \A u \in Volumes : want'[u] \in {want[u], Nothing}
  PROVE  IInv'
<1>1. /\ UNCHANGED <<entry, disk, lock, inst, ready, plugin, gc, proc>>
      /\ rec' = [rec EXCEPT ![v] = r]
      /\ gc.pc \notin Collecting
  BY DEF RecordChange, Directory, installer, InventoryFree, Collecting
<1>2. rec'[v] = r /\ \A u \in Volumes : u # v => rec'[u] = rec[u]
  BY <1>1 DEF IInv, TypeInv, TypeOK
<1>3. RecordedDurable'
  BY <1>1, <1>2 DEF IInv, RecordedDurable
<1>4. WantsReady'
  BY <1>1 DEF IInv, WantsReady
<1>5. ProcMatches'
  BY <1>1 DEF ProcMatches, Deleting, Collecting
<1> QED
  BY <1>1, <1>3, <1>4, <1>5, MountFrame

LEMMA VolumeKeeps ==
  ASSUME IInv, NEW v \in Volumes, VolumeStep(v)
  PROVE  IInv'
<1> USE DEF Directory, installer
<1>a. TypeInv /\ TypeOK /\ TypeInv'
  BY VolumeKeepsType DEF IInv, TypeInv
<1>b. ASSUME UNCHANGED <<want, rec, proc, disk, plugin, ready, gc>>
      PROVE  RecordedDurable' /\ WantsReady' /\ ProcMatches'
  BY <1>b DEF IInv, RecordedDurable, WantsReady, ProcMatches
<1>c. /\ rec[v] \in Records \union {NoRecord}
      /\ rec[v] # NoRecord => disk[rec[v].binary] = {"intact"}
      /\ rec[v] # NoRecord /\ rec[v].fallback # Nothing => disk[rec[v].fallback] = {"intact"}
      /\ rec[v].phase \in {"starting", "active", "stopping"} => rec[v] \in Records /\ rec[v] # NoRecord
  BY <1>a, NoRecordIsNone DEF IInv, TypeOK, RecordedDurable
<1>1. CASE ResolveDesired(v)
  <2>1. /\ plugin /\ UNCHANGED <<entry, disk, lock, inst, ready, plugin, gc, rec, proc>>
        /\ want' = [want EXCEPT ![v] = Desired]
    BY <1>1 DEF ResolveDesired
  <2>2. WantsReady'
    BY <1>a, <2>1, InstalledIsDesired DEF IInv, WantsReady, TypeOK
  <2>3. RecordedDurable' /\ ProcMatches'
    BY <2>1 DEF IInv, RecordedDurable, ProcMatches
  <2> QED
    BY <1>a, <2>1, <2>2, <2>3, MountFrame
<1>2. CASE CommitStarting(v)
  <2> DEFINE r == [phase |-> "starting", binary |-> want[v], fallback |-> FallbackBinary(v)]
  <2>1. /\ want[v] # Nothing /\ proc[v] = Nothing /\ plugin /\ RecordChange(v, r)
        /\ want' = [want EXCEPT ![v] = Nothing]
    BY <1>2 DEF CommitStarting, RecordChange
  <2>2. r \in Records /\ r \in Records \union {NoRecord}
    BY <1>a, <2>1, RecordsWritten
  <2>3. disk[want[v]] = {"intact"}
    BY <2>1, InstalledIsDesired DEF IInv, WantsReady
  <2>4. FallbackBinary(v) # Nothing => disk[FallbackBinary(v)] = {"intact"}
    BY <1>c DEF FallbackBinary
  <2>5. r.binary = want[v] /\ r.fallback = FallbackBinary(v)
    OBVIOUS
  <2>6. \A u \in Volumes : want'[u] \in {want[u], Nothing}
    BY <1>a, <2>1 DEF TypeOK
  <2> HIDE DEF r
  <2> QED
    BY <1>a, <2>1, <2>2, <2>3, <2>4, <2>5, <2>6, RecordKeeps
<1>3. CASE GiveUp(v)
  <2>1. /\ UNCHANGED <<entry, disk, lock, inst, ready, plugin, gc, rec, proc>>
        /\ want' = [want EXCEPT ![v] = Nothing]
    BY <1>3 DEF GiveUp
  <2>2. WantsReady'
    BY <1>a, <2>1 DEF IInv, WantsReady, TypeOK
  <2>3. RecordedDurable' /\ ProcMatches'
    BY <2>1 DEF IInv, RecordedDurable, ProcMatches
  <2> QED
    BY <1>a, <2>1, <2>2, <2>3, MountFrame
<1>4. CASE Promote(v)
  <2> DEFINE r == [rec[v] EXCEPT !.phase = "active", !.fallback = Nothing]
  <2>1. rec[v] \in Records /\ rec[v] # NoRecord /\ RecordChange(v, r) /\ want' = want
    BY <1>4, <1>c DEF Promote
  <2>2. r \in Records /\ r.binary = rec[v].binary /\ r.fallback = Nothing
    BY <2>1 DEF Records
  <2> HIDE DEF r
  <2> QED
    BY <1>a, <1>c, <2>1, <2>2, RecordKeeps, NoRecordIsNone
<1>5. CASE SwitchToFallback(v)
  <2> DEFINE r == [rec[v] EXCEPT !.binary = rec[v].fallback, !.fallback = Nothing]
  <2>1. /\ rec[v] \in Records /\ rec[v] # NoRecord /\ RecordChange(v, r) /\ want' = want
        /\ rec[v].fallback # Nothing /\ proc[v] = Nothing
    BY <1>5, <1>c DEF SwitchToFallback
  <2>2. r \in Records /\ r.binary = rec[v].fallback /\ r.fallback = Nothing
    BY <2>1 DEF Records
  <2> HIDE DEF r
  <2> QED
    BY <1>a, <1>c, <2>1, <2>2, RecordKeeps, NoRecordIsNone
<1>6. CASE Intend(v)
  <2> DEFINE r == [rec[v] EXCEPT !.phase = "stopping", !.fallback = Nothing]
  <2>1. rec[v] \in Records /\ rec[v] # NoRecord /\ RecordChange(v, r) /\ want' = want
    BY <1>6, <1>c DEF Intend
  <2>2. r \in Records /\ r.binary = rec[v].binary /\ r.fallback = Nothing
    BY <2>1 DEF Records
  <2> HIDE DEF r
  <2> QED
    BY <1>a, <1>c, <2>1, <2>2, RecordKeeps, NoRecordIsNone
<1>7. CASE DeleteRecord(v)
  <2>1. RecordChange(v, NoRecord) /\ want' = want
    BY <1>7 DEF DeleteRecord
  <2> QED
    BY <1>a, <2>1, RecordKeeps
<1>8. CASE Executes(v)
  <2>1. /\ UNCHANGED <<entry, disk, lock, inst, ready, plugin, gc, rec, want>>
        /\ proc' = [proc EXCEPT ![v] = rec[v].binary] /\ rec[v] # NoRecord
    BY <1>8, <1>c DEF Executes
  <2>2. ProcMatches'
    BY <1>a, <2>1 DEF IInv, ProcMatches, TypeOK
  <2>3. RecordedDurable' /\ WantsReady'
    BY <2>1 DEF IInv, RecordedDurable, WantsReady
  <2> QED
    BY <1>a, <2>1, <2>2, <2>3, MountFrame
<1>9. CASE ProcessEnds(v)
  <2>1. /\ UNCHANGED <<entry, disk, lock, inst, ready, plugin, gc, rec, want>>
        /\ proc' = [proc EXCEPT ![v] = Nothing]
    BY <1>9 DEF ProcessEnds
  <2>2. ProcMatches'
    BY <1>a, <2>1 DEF IInv, ProcMatches, TypeOK
  <2>3. RecordedDurable' /\ WantsReady'
    BY <2>1 DEF IInv, RecordedDurable, WantsReady
  <2> QED
    BY <1>a, <2>1, <2>2, <2>3, MountFrame
<1> QED
  BY <1>1, <1>2, <1>3, <1>4, <1>5, <1>6, <1>7, <1>8, <1>9 DEF VolumeStep

-----------------------------------------------------------------------------
(* The collector, the ends of the plugin and of the node *)

(* Nothing the collector deletes is wanted by the link, a record or a      *)
(* supervisor: what it read is still so.                                   *)
LEMMA DeletedIsUnused ==
  ASSUME IInv, gc.pc = "remove", NEW d \in gc.list \ gc.keep
  PROVE  /\ d \in Digests /\ d # ready /\ d # Desired /\ d \notin disk["link"]
         /\ d \notin Recorded \union Fallbacks
         /\ \A v \in Volumes : proc[v] # d
<1>1. plugin /\ gc.desired = ready /\ gc.keep = Keep
  BY DEF IInv, CollectorKnows, Collecting
<1>2. d \in Digests /\ d # ready /\ d \notin Recorded \union Fallbacks
  BY <1>1 DEF Keep, IInv, TypeInv, TypeOK, Collectors
<1>3. d # Desired /\ d \notin disk["link"]
  BY <1>1, <1>2, InstalledIsDesired
<1>4. \A v \in Volumes : proc[v] # d
  <2> SUFFICES ASSUME NEW v \in Volumes, proc[v] = d PROVE FALSE
    OBVIOUS
  <2>1. proc[v] # Nothing
    BY <1>2, NamesApart
  <2>2. rec[v] # NoRecord /\ rec[v].binary = d
    BY <2>1 DEF IInv, ProcMatches, Deleting
  <2> QED
    BY <1>2, <2>2 DEF Recorded
<1> QED
  BY <1>2, <1>3, <1>4

(* A correlated supervisor has a record. *)
LEMMA CorrelatedMatches ==
  ASSUME Correlated, NEW v \in Volumes, proc[v] # Nothing
  PROVE  rec[v] # NoRecord /\ proc[v] = rec[v].binary
BY DEF Correlated, NoRecord

(* The collector reads. *)
LEMMA CollectorFrame ==
  ASSUME IInv, TypeInv', UNCHANGED <<entry, disk, lock, inst, ready, plugin, want, rec, proc>>,
         gc'.pc \in Collecting => plugin /\ gc'.desired = ready,
         gc'.pc \in Collecting \ {"states"} => gc'.keep = Keep',
         gc'.pc \in Deleting => gc.pc \in Deleting \/ Correlated
  PROVE  IInv'
<1>1. DiskFits' /\ DiskRunnable' /\ RecordedDurable' /\ PluginApart' /\ InstallDurable'
      /\ WantsReady'
  BY DEF IInv, DiskFits, DiskRunnable, RecordedDurable, PluginApart, InstallDurable, WantsReady
<1>2. \A i \in Installers : InstallerKnows(i)'
  BY DEF IInv, InstallerKnows, Synced
<1>3. CollectorKnows'
  BY DEF CollectorKnows
<1>4. ProcMatches'
  BY CorrelatedMatches DEF IInv, ProcMatches
<1> QED
  BY <1>1, <1>2, <1>3, <1>4 DEF IInv

LEMMA CollectorKeeps ==
  ASSUME IInv, CollectorStep
  PROVE  IInv'
<1> USE DEF Directory, installer, mount, Collects
<1>a. TypeInv /\ TypeOK /\ TypeInv' /\ gc \in Collectors
  BY CollectorKeepsType DEF IInv, TypeInv, TypeOK
<1>b. CASE Skip
  <2>1. gc'.pc = "done" /\ UNCHANGED <<entry, disk, lock, inst, ready, plugin, want, rec, proc>>
    BY <1>b, FreshCollector DEF Skip
  <2> QED
    BY <1>a, <2>1, CollectorFrame DEF Collecting, Deleting
<1>c. ASSUME rec' = rec, gc'.desired = gc.desired
      PROVE  Keep' = Keep
  BY <1>c DEF Keep, Recorded, Fallbacks
<1>1. CASE ReadDesired
  <2>1. CASE Collects([Collector("states") EXCEPT !.desired = Desired]) /\ Directory
    <3>1. gc'.pc = "states" /\ gc'.desired = Desired
      BY <2>1 DEF Collector
    <3> QED
      BY <1>a, <2>1, <3>1, InstalledIsDesired, CollectorFrame DEF Deleting
  <2> QED
    BY <1>1, <1>b, <2>1 DEF ReadDesired
<1>2. CASE ReadStates
  <2>1. gc'.pc = "verify" /\ gc'.desired = gc.desired /\ gc'.keep = Keep
    BY <1>a, <1>2 DEF ReadStates, Collectors
  <2>2. plugin /\ gc.desired = ready
    BY <1>2 DEF ReadStates, IInv, CollectorKnows, Collecting
  <2>3. UNCHANGED <<entry, disk, lock, inst, ready, plugin, want, rec, proc>>
    BY <1>2 DEF ReadStates
  <2> QED
    BY <1>a, <1>c, <2>1, <2>2, <2>3, CollectorFrame DEF Deleting
<1>3. CASE Verify \/ ListDirectory
  <2>1. CASE /\ (gc.pc = "verify" /\ Correlated) \/ gc.pc = "list"
             /\ gc'.desired = gc.desired /\ gc'.keep = gc.keep
             /\ UNCHANGED <<entry, disk, lock, inst, ready, plugin, want, rec, proc>>
    <3>1. plugin /\ gc.desired = ready /\ gc.keep = Keep
      BY <2>1 DEF IInv, CollectorKnows, Collecting
    <3> QED
      BY <1>a, <1>c, <2>1, <3>1, CollectorFrame DEF Deleting
  <2>2. CASE gc.pc = "verify" /\ Correlated /\ Collects([gc EXCEPT !.pc = "list"]) /\ Directory
    <3>1. gc'.desired = gc.desired /\ gc'.keep = gc.keep
      BY <1>a, <2>2 DEF Collectors
    <3> QED
      BY <2>1, <2>2, <3>1
  <2>3. CASE ListDirectory
    <3>1. gc'.desired = gc.desired /\ gc'.keep = gc.keep
      BY <1>a, <2>3 DEF ListDirectory, Collectors
    <3> QED
      BY <2>1, <2>3, <3>1 DEF ListDirectory
  <2> QED
    BY <1>3, <1>b, <2>2, <2>3 DEF Verify
<1>4. CASE RemoveBinary
  <2>1. PICK d \in gc.list \ gc.keep : Put(d, "absent") /\ Collects([gc EXCEPT !.list = @ \ {d}])
    BY <1>4 DEF RemoveBinary
  <2>2. gc'.desired = gc.desired /\ gc'.keep = gc.keep /\ gc'.pc = "remove" /\ gc.pc = "remove"
    BY <1>a, <1>4, <2>1 DEF RemoveBinary, Collectors
  <2>3. /\ plugin /\ gc.desired = ready /\ gc.keep = Keep
        /\ UNCHANGED <<lock, inst, ready, plugin, want, rec, proc>>
    BY <1>4, <2>1, <2>2 DEF RemoveBinary, IInv, CollectorKnows, Collecting
  <2>4. /\ d \in Digests /\ d # ready /\ d \notin disk["link"] /\ d \notin Recorded \union Fallbacks
    BY <2>1, <2>2, DeletedIsUnused
  <2>5. DiskInv' /\ \A e \in Entries : e # d => disk'[e] = disk[e] /\ entry'[e] = entry[e]
    BY <1>a, <2>1, <2>3, <2>4, RemoveBinaryKeeps DEF IInv, DiskInv
  <2>6. ready \in Entries /\ "link" \in Entries /\ "launcher" \in Entries /\ d # "link" /\ d # "launcher"
    BY <2>3, <2>4, NamesApart, InstalledIsDesired DEF Entries
  <2>7. InstallDurable'
    BY <2>3, <2>4, <2>5, <2>6 DEF IInv, InstallDurable
  <2>8. PluginApart' /\ WantsReady' /\ ProcMatches'
    BY <2>2, <2>3 DEF IInv, PluginApart, WantsReady, ProcMatches
  <2>9. CollectorKnows'
    BY <1>c, <2>2, <2>3 DEF CollectorKnows
  <2>10. \A i \in Installers : InstallerKnows(i)'
    <3>1. \A i \in Installers : inst'[i].pc = "idle"
      BY <2>3 DEF IInv, PluginApart
    <3> QED
      BY <3>1 DEF InstallerKnows, Published
  <2> QED
    BY <1>a, <2>5, <2>7, <2>8, <2>9, <2>10 DEF IInv, DiskInv
<1> QED
  BY <1>b, <1>1, <1>2, <1>3, <1>4
     DEF CollectorStep, GiveUpCollection, CollectionEnds

LEMMA PluginKeeps ==
  ASSUME IInv, PluginStarts \/ PluginEnds
  PROVE  IInv'
<1> USE DEF Directory, installer, mount
<1>a. TypeInv'
  <2>1. [Next]_vars
    BY DEF Next
  <2> QED
    BY <2>1, NextKeepsType DEF IInv
<1>1. UNCHANGED <<entry, disk, lock, inst, ready, rec, proc>>
  BY DEF PluginStarts, PluginEnds
<1>2. DiskFits' /\ DiskRunnable' /\ RecordedDurable' /\ InstallDurable'
  BY <1>1 DEF IInv, DiskFits, DiskRunnable, RecordedDurable, InstallDurable
<1>3. \A i \in Installers : InstallerKnows(i)'
  BY <1>1 DEF IInv, InstallerKnows, Synced
<1>4. gc'.pc \notin Collecting
  BY FreshCollector DEF PluginStarts, PluginEnds, Collecting
<1>5. CollectorKnows' /\ ProcMatches'
  BY <1>4 DEF CollectorKnows, ProcMatches, Collecting, Deleting
<1>6. PluginApart' /\ WantsReady'
  BY <1>1 DEF PluginStarts, PluginEnds, IInv, PluginApart, WantsReady
<1> QED
  BY <1>a, <1>2, <1>3, <1>5, <1>6 DEF IInv

LEMMA PowerLossKeeps ==
  ASSUME IInv, PowerLoss
  PROVE  IInv'
<1>a. TypeInv' /\ TypeOK /\ DiskInv
  <2>1. [Next]_vars
    BY DEF Next
  <2> QED
    BY <2>1, NextKeepsType DEF IInv, TypeInv, DiskInv
<1>1. DiskInv'
  <2>1. entry' \in [Entries -> Values] /\ \A e \in Entries : entry'[e] \in disk[e]
    BY DEF PowerLoss
  <2> QED
    BY <1>a, <2>1, CollapseKeeps DEF PowerLoss
<1>2. \A i \in Installers : inst'[i].pc = "idle"
  BY NoJobIsIdle DEF PowerLoss
<1>3. \A i \in Installers : InstallerKnows(i)'
  BY <1>2 DEF InstallerKnows, Published
<1>4. gc'.pc \notin Collecting
  BY FreshCollector DEF PowerLoss, Collecting
<1>5. CollectorKnows' /\ ProcMatches'
  BY <1>4 DEF CollectorKnows, ProcMatches, Collecting, Deleting
<1>6. PluginApart' /\ InstallDurable' /\ WantsReady'
  BY DEF PowerLoss, PluginApart, InstallDurable, WantsReady
<1> QED
  BY <1>a, <1>1, <1>3, <1>5, <1>6 DEF IInv, DiskInv

-----------------------------------------------------------------------------
(* Results *)

LEMMA InitIInv == Init => IInv
<1> SUFFICES ASSUME Init PROVE IInv
  OBVIOUS
<1>1. "link" \in Entries /\ "launcher" \in Entries /\ Digests \subseteq Entries
  BY DEF Entries
<1>2. DiskFits /\ DiskRunnable
  BY <1>1 DEF Init, DiskFits, DiskRunnable
<1>3. \A i \in Installers : InstallerKnows(i)
  BY NoJobIsIdle DEF Init, InstallerKnows, Published
<1>4. CollectorKnows
  BY FreshCollector DEF Init, CollectorKnows, Collecting
<1>5. RecordedDurable /\ PluginApart /\ InstallDurable /\ WantsReady /\ ProcMatches
  BY DEF Init, RecordedDurable, PluginApart, InstallDurable, WantsReady, ProcMatches
<1> QED
  BY <1>2, <1>3, <1>4, <1>5, InitTypeInv DEF IInv

LEMMA NextKeepsIInv ==
  ASSUME Overlap = FALSE
  PROVE  IInv /\ [Next]_vars => IInv'
<1> SUFFICES ASSUME IInv, [Next]_vars PROVE IInv'
  OBVIOUS
<1>1. ASSUME NEW i \in Installers, Lock(i) \/ InstallerStep(i) \/ InstallerFault(i)
      PROVE  IInv'
  BY <1>1, InstallerKeeps
<1>2. CASE PluginStarts \/ PluginEnds
  BY <1>2, PluginKeeps
<1>3. ASSUME NEW v \in Volumes, VolumeStep(v) PROVE IInv'
  BY <1>3, VolumeKeeps
<1>4. CASE CollectorStep
  BY <1>4, CollectorKeeps
<1>5. CASE PowerLoss
  BY <1>5, PowerLossKeeps
<1>6. CASE UNCHANGED vars
  <2>1. UNCHANGED <<entry, disk, lock, inst, ready, plugin, gc, want, rec, proc>> /\ TypeInv'
    BY <1>6, NextKeepsType DEF vars, installer, mount, IInv
  <2>2. RecordedDurable' /\ WantsReady' /\ ProcMatches'
    BY <2>1 DEF IInv, RecordedDurable, WantsReady, ProcMatches
  <2> QED
    BY <2>1, <2>2, MountFrame
<1> QED
  BY <1>1, <1>2, <1>3, <1>4, <1>5, <1>6 DEF Next

(* Without overlapping pods, every possible content of the disk can be run *)
(* and has the recorded binaries, the installer and the collector know     *)
(* what they act on.                                                       *)
THEOREM InductiveInvariant == Overlap = FALSE => (Spec => []IInv)
<1> SUFFICES ASSUME Overlap = FALSE PROVE Spec => []IInv
  OBVIOUS
<1>1. IInv /\ [Next]_vars => IInv'
  BY NextKeepsIInv
<1> QED
  BY <1>1, InitIInv, PTL DEF Spec

(* The desired link never dangles and never lacks its launcher, at any     *)
(* step of any install, rollback, collection or power loss.                *)
THEOREM LinkStaysRunnable == Overlap = FALSE => (Spec => []DesiredRunnable)
<1> SUFFICES ASSUME Overlap = FALSE PROVE Spec => []DesiredRunnable
  OBVIOUS
<1>1. IInv => DesiredRunnable
  <2> SUFFICES ASSUME IInv, Desired # "absent"
               PROVE  entry[Desired] = "intact" /\ entry["launcher"] \in Digests
    BY DEF DesiredRunnable
  <2>1. "link" \in Entries /\ "launcher" \in Entries /\ Digests \subseteq Entries
    BY DEF Entries
  <2>2. Desired \in disk["link"] \ {"absent"} /\ Desired \in Digests
    BY <2>1 DEF IInv, DiskFits, Desired
  <2>3. disk[Desired] = {"intact"} /\ "absent" \notin disk["launcher"]
    BY <2>2 DEF IInv, DiskRunnable
  <2> QED
    BY <2>1, <2>2, <2>3 DEF IInv, DiskFits
<1> QED
  BY <1>1, InductiveInvariant, PTL

(* A successful install survives a power loss. *)
THEOREM InstallStaysDurable == Overlap = FALSE => (Spec => []InstallDurable)
<1> SUFFICES ASSUME Overlap = FALSE PROVE Spec => []InstallDurable
  OBVIOUS
<1>1. IInv => InstallDurable
  BY DEF IInv
<1> QED
  BY <1>1, InductiveInvariant, PTL

(* The binaries of all records, fallbacks included, stay in the directory. *)
THEOREM RecordedStayPresent == Overlap = FALSE => (Spec => []RecordedBinariesPresent)
<1> SUFFICES ASSUME Overlap = FALSE PROVE Spec => []RecordedBinariesPresent
  OBVIOUS
<1>1. IInv => RecordedBinariesPresent
  <2> SUFFICES ASSUME IInv, NEW v \in Volumes, rec[v] # NoRecord
               PROVE  /\ entry[rec[v].binary] = "intact"
                      /\ rec[v].fallback # Nothing => entry[rec[v].fallback] = "intact"
    BY DEF RecordedBinariesPresent
  <2>1. rec[v].binary \in Entries /\ (rec[v].fallback # Nothing => rec[v].fallback \in Entries)
    BY NoRecordIsNone DEF IInv, TypeInv, TypeOK, Entries
  <2> QED
    BY <2>1 DEF IInv, RecordedDurable, DiskFits
<1> QED
  BY <1>1, InductiveInvariant, PTL

(* The collector deletes no binary that the link, a record or a supervisor *)
(* uses when it is deleted.                                                *)
THEOREM CollectorSparesUsed == Overlap = FALSE => (Spec => CollectsOnlyUnused)
<1> SUFFICES ASSUME Overlap = FALSE PROVE Spec => CollectsOnlyUnused
  OBVIOUS
<1> DEFINE Spares == \A d \in Digests : RemoveBinary /\ entry'[d] # entry[d] =>
             /\ d # Desired
             /\ d \notin Recorded \union Fallbacks
             /\ \A v \in Volumes : proc[v] # d
<1>1. IInv => Spares
  <2> SUFFICES ASSUME IInv, NEW d \in Digests, RemoveBinary, entry'[d] # entry[d]
               PROVE  d # Desired /\ d \notin Recorded \union Fallbacks
                      /\ \A v \in Volumes : proc[v] # d
    OBVIOUS
  <2>1. PICK x \in gc.list \ gc.keep : Put(x, "absent")
    BY DEF RemoveBinary
  <2>2. x = d
    BY <2>1 DEF Put, IInv, TypeInv, TypeOK, Entries
  <2> QED
    BY <2>1, <2>2, DeletedIsUnused DEF RemoveBinary
<1>2. CollectsOnlyUnused <=> [][Spares]_vars
  BY DEF CollectsOnlyUnused
<1> QED
  BY <1>1, <1>2, InductiveInvariant, PTL

-----------------------------------------------------------------------------
(* Overlapping pods *)

(* What is left of CollectsOnlyUnused when an installer runs beside the    *)
(* plugin of another pod: the collector may take the desired binary, but   *)
(* none that a record or a supervisor uses.                                *)
CollectsNoneInUse ==
  [][\A d \in Digests : RemoveBinary /\ entry'[d] # entry[d] =>
       /\ d \notin Recorded \union Fallbacks
       /\ \A v \in Volumes : proc[v] # d]_vars

(* The collector keeps what is recorded, since it keeps writers of records *)
(* out; a supervisor is started with the binary of its record.             *)
KeepsInUse == gc.pc \in Collecting \ {"states"} => Recorded \union Fallbacks \subseteq gc.keep

OverlapInv == TypeInv /\ ProcMatches /\ KeepsInUse

(* Neither records nor supervisors change, and the collector reads no more *)
(* than before.                                                            *)
LEMMA InUseFrame ==
  ASSUME OverlapInv, UNCHANGED <<rec, proc>>,
         \/ gc'.pc \notin Collecting \ {"states"}
         \/ (gc.pc \in Collecting \ {"states"} /\ gc'.keep = gc.keep)
         \/ gc'.keep = Keep,
         gc'.pc \in Deleting => gc.pc \in Deleting \/ Correlated
  PROVE  ProcMatches' /\ KeepsInUse'
<1>1. ProcMatches'
  BY CorrelatedMatches DEF OverlapInv, ProcMatches
<1>2. Recorded' = Recorded /\ Fallbacks' = Fallbacks
  BY DEF Recorded, Fallbacks
<1>3. KeepsInUse'
  BY <1>2 DEF OverlapInv, KeepsInUse, Keep
<1> QED
  BY <1>1, <1>3

(* One record is replaced, while the collector is not at work. *)
LEMMA InUseRecord ==
  ASSUME NEW v \in Volumes, NEW r, RecordChange(v, r)
  PROVE  ProcMatches' /\ KeepsInUse'
<1>1. gc' = gc /\ gc.pc \notin Collecting
  BY DEF RecordChange, InventoryFree, Collecting
<1> QED
  BY <1>1 DEF ProcMatches, KeepsInUse, Collecting, Deleting

LEMMA InUseVolume ==
  ASSUME OverlapInv, NEW v \in Volumes, VolumeStep(v)
  PROVE  ProcMatches' /\ KeepsInUse'
<1>a. /\ rec[v].phase \in {"starting", "active", "stopping"} => rec[v] \in Records /\ rec[v] # NoRecord
      /\ proc \in [Volumes -> Digests \union {Nothing}]
  BY NoRecordIsNone DEF OverlapInv, TypeInv, TypeOK
<1>b. ASSUME gc' = gc
      PROVE  \/ gc'.pc \notin Collecting \ {"states"}
             \/ (gc.pc \in Collecting \ {"states"} /\ gc'.keep = gc.keep)
  BY <1>b
<1>1. CASE ResolveDesired(v) \/ GiveUp(v)
  <2>1. UNCHANGED <<gc, rec, proc>>
    BY <1>1 DEF ResolveDesired, GiveUp
  <2> QED
    BY <1>b, <2>1, InUseFrame
<1>2. CASE CommitStarting(v) \/ Promote(v) \/ SwitchToFallback(v) \/ Intend(v) \/ DeleteRecord(v)
  <2>1. \E r : RecordChange(v, r)
    BY <1>2 DEF CommitStarting, Promote, SwitchToFallback, Intend, DeleteRecord
  <2> QED
    BY <2>1, InUseRecord
<1>3. CASE Executes(v) \/ ProcessEnds(v)
  <2>1. UNCHANGED <<gc, rec>> /\ \E b \in {rec[v].binary, Nothing} :
          /\ proc' = [proc EXCEPT ![v] = b]
          /\ b # Nothing => rec[v] # NoRecord /\ b = rec[v].binary
    BY <1>3, <1>a DEF Executes, ProcessEnds
  <2>2. ProcMatches'
    BY <1>a, <2>1 DEF OverlapInv, ProcMatches
  <2>3. Recorded' = Recorded /\ Fallbacks' = Fallbacks
    BY <2>1 DEF Recorded, Fallbacks
  <2>4. KeepsInUse'
    BY <2>1, <2>3 DEF OverlapInv, KeepsInUse
  <2> QED
    BY <2>2, <2>4
<1> QED
  BY <1>1, <1>2, <1>3 DEF VolumeStep

LEMMA InUseCollector ==
  ASSUME OverlapInv, CollectorStep
  PROVE  ProcMatches' /\ KeepsInUse'
<1>a. gc \in Collectors
  BY DEF OverlapInv, TypeInv, TypeOK
<1>b. UNCHANGED <<rec, proc>>
  BY DEF CollectorStep, ReadDesired, ReadStates, Verify, GiveUpCollection, ListDirectory,
         RemoveBinary, CollectionEnds, Skip, Collects, mount
<1>1. CASE Skip
  <2>1. gc'.pc = "done"
    BY <1>1, FreshCollector DEF Skip, Collects
  <2> QED
    BY <1>b, <2>1, InUseFrame DEF Collecting, Deleting
<1>2. CASE ReadDesired
  <2>1. CASE Collects([Collector("states") EXCEPT !.desired = Desired])
    <3>1. gc'.pc = "states"
      BY <2>1 DEF Collects, Collector
    <3> QED
      BY <1>b, <3>1, InUseFrame DEF Collecting, Deleting
  <2> QED
    BY <1>1, <1>2, <2>1 DEF ReadDesired
<1>3. CASE ReadStates
  <2>1. gc'.keep = Keep /\ gc'.pc = "verify"
    BY <1>3, <1>a DEF ReadStates, Collects, Collectors
  <2> QED
    BY <1>b, <2>1, InUseFrame DEF Deleting
<1>4. CASE Verify
  <2>1. CASE Correlated /\ Collects([gc EXCEPT !.pc = "list"])
    <3>1. gc'.keep = gc.keep
      BY <1>a, <2>1 DEF Collects, Collectors
    <3> QED
      BY <1>b, <1>4, <2>1, <3>1, InUseFrame DEF Verify, Collecting
  <2> QED
    BY <1>1, <1>4, <2>1 DEF Verify
<1>5. CASE ListDirectory \/ RemoveBinary
  <2>1. gc'.keep = gc.keep /\ gc.pc \in {"list", "remove"}
    BY <1>5, <1>a DEF ListDirectory, RemoveBinary, Collects, Collectors
  <2> QED
    BY <1>b, <2>1, InUseFrame DEF Collecting, Deleting
<1> QED
  BY <1>1, <1>2, <1>3, <1>4, <1>5 DEF CollectorStep, GiveUpCollection, CollectionEnds

LEMMA NextKeepsInUse == OverlapInv /\ [Next]_vars => OverlapInv'
<1> SUFFICES ASSUME OverlapInv, [Next]_vars PROVE OverlapInv'
  OBVIOUS
<1>a. TypeInv'
  BY NextKeepsType DEF OverlapInv
<1> SUFFICES ProcMatches' /\ KeepsInUse'
  BY <1>a DEF OverlapInv
<1>b. ASSUME UNCHANGED <<gc, rec, proc>> PROVE ProcMatches' /\ KeepsInUse'
  <2>1. \/ gc'.pc \notin Collecting \ {"states"}
        \/ (gc.pc \in Collecting \ {"states"} /\ gc'.keep = gc.keep)
    BY <1>b
  <2> QED
    BY <1>b, <2>1, InUseFrame
<1>1. ASSUME NEW i \in Installers, Lock(i) \/ InstallerStep(i) \/ InstallerFault(i)
      PROVE  ProcMatches' /\ KeepsInUse'
  <2>1. Elsewhere
    BY <1>1 DEF Lock, InstallerStep, InstallerFault, PrepareDrive9, RenameDrive9, SyncDrive9,
                RenameLauncher, SyncLauncher, ReplaceDesired, SyncDesired, Undo, UndoSync,
                SyncFails, RemovalFails, InstallerEnds, Publishes, ChangesNothing
  <2> QED
    BY <1>b, <2>1 DEF Elsewhere, mount
<1>2. CASE PluginStarts \/ PluginEnds
  <2>1. UNCHANGED <<rec, proc>> /\ gc'.pc \in {"pending", "done"}
    BY <1>2, FreshCollector DEF PluginStarts, PluginEnds, mount
  <2> QED
    BY <2>1, InUseFrame DEF Collecting, Deleting
<1>3. ASSUME NEW v \in Volumes, VolumeStep(v) PROVE ProcMatches' /\ KeepsInUse'
  BY <1>3, InUseVolume
<1>4. CASE CollectorStep
  BY <1>4, InUseCollector
<1>5. CASE PowerLoss
  <2>1. gc'.pc = "done"
    BY <1>5, FreshCollector DEF PowerLoss
  <2> QED
    BY <2>1 DEF KeepsInUse, ProcMatches, Collecting, Deleting
<1>6. CASE UNCHANGED vars
  BY <1>6, <1>b DEF vars, mount
<1> QED
  BY <1>1, <1>2, <1>3, <1>4, <1>5, <1>6 DEF Next

(* With or without overlapping pods, whatever the installers do, the       *)
(* collector deletes no binary that a record names, as its binary or its   *)
(* fallback, or that a supervisor executes.                                *)
THEOREM CollectorSparesInUse == Spec => CollectsNoneInUse
<1> DEFINE Spares == \A d \in Digests : RemoveBinary /\ entry'[d] # entry[d] =>
             /\ d \notin Recorded \union Fallbacks
             /\ \A v \in Volumes : proc[v] # d
<1>1. OverlapInv => Spares
  <2> SUFFICES ASSUME OverlapInv, NEW d \in Digests, RemoveBinary, entry'[d] # entry[d]
               PROVE  d \notin Recorded \union Fallbacks /\ \A v \in Volumes : proc[v] # d
    OBVIOUS
  <2>1. PICK x \in gc.list \ gc.keep : Put(x, "absent")
    BY DEF RemoveBinary
  <2>2. x = d
    BY <2>1 DEF Put, OverlapInv, TypeInv, TypeOK, Entries
  <2>3. d \notin Recorded \union Fallbacks
    BY <2>1, <2>2 DEF RemoveBinary, OverlapInv, KeepsInUse, Collecting
  <2>4. ASSUME NEW v \in Volumes PROVE proc[v] # d
    <3>1. proc[v] # Nothing => proc[v] \in Recorded
      BY DEF RemoveBinary, OverlapInv, ProcMatches, Recorded, Deleting
    <3> QED
      BY <2>3, <3>1, NamesApart
  <2> QED
    BY <2>3, <2>4
<1>2. CollectsNoneInUse <=> [][Spares]_vars
  BY DEF CollectsNoneInUse
<1>3. Init => OverlapInv
  BY InitTypeInv, FreshCollector DEF Init, OverlapInv, ProcMatches, KeepsInUse, Collecting
<1> QED
  BY <1>1, <1>2, <1>3, NextKeepsInUse, PTL DEF Spec
=============================================================================
