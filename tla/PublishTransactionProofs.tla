---------------------- MODULE PublishTransactionProofs ----------------------
(***************************************************************************)
(* Proofs about PublishTransaction: the inductive invariant IInv holds for *)
(* any sets of volumes, targets, staging paths and handlers and any bound  *)
(* on faults, and implies the safety properties the runs check.            *)
(*                                                                         *)
(* The argument is one of frames.  A step of a handler changes records and *)
(* mounts of one volume, whose mutex the handler holds, so what the other  *)
(* handlers know is not disturbed (TargetFrameKeeps, VolumeFrameKeeps);    *)
(* what remains for each action is its own target.                         *)
(***************************************************************************)
EXTENDS PublishTransaction, SequenceTheorems, TLAPS

(* A record of a target is told from the absence of one by its status. *)
LEMMA NoRecordIsNoState ==
  /\ NoRecord \notin PublishStates
  /\ \A r \in PublishStates : r.status # "none"
  /\ NoRecord.status = "none"
BY DEF NoRecord, PublishStates, PublishStatuses

(* Rewriting the status of a record keeps everything else. *)
LEMMA StatusRewritten ==
  ASSUME NEW r \in PublishStates, NEW st \in PublishStatuses
  PROVE  /\ [r EXCEPT !.status = st] \in PublishStates
         /\ [r EXCEPT !.status = st].target = r.target
         /\ [r EXCEPT !.status = st].volumeID = r.volumeID
         /\ [r EXCEPT !.status = st].stagingTarget = r.stagingTarget
         /\ [r EXCEPT !.status = st].readonly = r.readonly
         /\ [r EXCEPT !.status = st].accessMode = r.accessMode
         /\ [r EXCEPT !.status = st].status = st
BY DEF PublishStates, PublishStatuses

(* Unmounting the only mount leaves none. *)
LEMMA NothingBelow ==
  ASSUME NEW t \in Targets, mnt[t] \in {<<"ro">>, <<"rw">>}
  PROVE  BelowTop(t) = <<>>
<1>1. Len(mnt[t]) = 1
  OBVIOUS
<1>2. mnt[t] \in Seq(MountOptions)
  <2>1. <<"ro">> \in Seq(MountOptions) /\ <<"rw">> \in Seq(MountOptions)
    BY DEF MountOptions
  <2> QED
    BY <2>1
<1> QED
  BY <1>1, <1>2, SubSeqProperties, EmptySeq DEF BelowTop

(* The initial state satisfies the inductive invariant. *)
LEMMA InitIInv == Init => IInv
<1> SUFFICES ASSUME Init PROVE IInv
  OBVIOUS
<1>1. TypeOK
  BY ConstantsAssumption DEF Init, TypeOK, Files, StageFiles, Image, Steps
<1>2. DirCoherent
  BY DEF Init, DirCoherent, CoherentDir, Image
<1>3. LockDiscipline
  BY DEF Init, LockDiscipline, TargetSteps
<1>4. \A t \in Targets : MountFitsRecord(t)
  BY NoRecordIsNoState DEF Init, MountFitsRecord
<1>5. \A t \in Targets : AnswerCovered(t)
  BY DEF Init, AnswerCovered, TargetSteps
<1>6. \A w \in Workers : HandlerKnows(w)
  BY DEF Init, HandlerKnows
<1>7. \A v \in Volumes : UnstageKnows(v)
  BY DEF Init, UnstageKnows
<1> QED
  BY <1>1, <1>2, <1>3, <1>4, <1>5, <1>6, <1>7 DEF IInv

-----------------------------------------------------------------------------
(* A step of handler w at target t, before, during or after holding the    *)
(* mutex of t's volume, that leaves every other target and handler alone.  *)
TargetFrame(w, t) ==
  LET v == VolumeOf[t] IN
  /\ \/ lock[v] = w /\ pc[w] \in TargetSteps
     \/ lock[v] = NoWorker /\ pc[w] = "idle"
  /\ staged' = staged
  /\ \A u \in Targets :
       u # t => file'[u] = file[u] /\ mnt'[u] = mnt[u] /\ acked'[u] = acked[u]
  /\ \A x \in Volumes : x # v => lock'[x] = lock[x]
  /\ \A x \in Workers : x # w => pc'[x] = pc[x] /\ local'[x] = local[x]
  /\ \/ lock'[v] = w /\ pc'[w] \in TargetSteps /\ local'[w].target = t
     \/ lock'[v] = NoWorker /\ pc'[w] = "idle"

(* Such a step disturbs nothing that the others rely on. *)
LEMMA TargetFrameKeeps ==
  ASSUME IInv, NEW w \in Workers, NEW t \in Targets, TargetFrame(w, t)
  PROVE  /\ \A x \in Workers : x # w => HandlerKnows(x)'
         /\ \A u \in Targets : u # t => MountFitsRecord(u)' /\ AnswerCovered(u)'
         /\ \A x \in Volumes : UnstageKnows(x)'
         /\ \A x \in Workers : x # w => ~(pc'[x] \in TargetSteps /\ local'[x].target = t)
<1> DEFINE v == VolumeOf[t]
<1>1. v \in Volumes
  BY ConstantsAssumption
<1>2. \A x \in Workers : x # w /\ pc[x] \in TargetSteps =>
        /\ local[x].target \in Targets
        /\ local[x].volumeID \in Volumes
        /\ local[x].volumeID = VolumeOf[local[x].target]
        /\ local[x].volumeID # v
        /\ local[x].target # t
  BY ConstantsAssumption DEF IInv, LockDiscipline, TargetFrame, PublishStates
<1>3. ASSUME NEW x \in Workers, x # w PROVE HandlerKnows(x)'
  <2>1. CASE pc[x] \notin TargetSteps
    BY <1>3, <2>1 DEF HandlerKnows, TargetFrame, TargetSteps
  <2>2. CASE pc[x] \in TargetSteps
    <3>1. /\ file'[local[x].target] = file[local[x].target]
          /\ mnt'[local[x].target] = mnt[local[x].target]
          /\ pc'[x] = pc[x] /\ local'[x] = local[x]
          /\ staged' = staged
      BY <1>2, <1>3, <2>2 DEF TargetFrame
    <3>2. NewRecordFits(local[x]) => NewRecordFits(local[x])'
      BY <1>2, <1>3, <2>2, <3>1 DEF TargetFrame, NewRecordFits
    <3>3. HandlerKnows(x)
      BY DEF IInv
    <3> QED
      BY <3>1, <3>2, <3>3 DEF HandlerKnows, RecordIs
  <2> QED
    BY <2>1, <2>2
<1>4. ASSUME NEW u \in Targets, u # t PROVE MountFitsRecord(u)'
  BY <1>4 DEF IInv, MountFitsRecord, TargetFrame
<1>5. ASSUME NEW u \in Targets, u # t PROVE AnswerCovered(u)'
  <2>1. ASSUME NEW x \in Workers, pc'[x] \in TargetSteps, local'[x].target = u
        PROVE  acked'[u] = "none"
    BY <1>5, <2>1 DEF IInv, AnswerCovered, TargetFrame, TargetSteps
  <2> QED
    BY <1>5, <2>1 DEF IInv, AnswerCovered, TargetFrame
<1>6. ASSUME NEW x \in Volumes PROVE UnstageKnows(x)'
  <2>1. CASE x = v
    BY <2>1 DEF UnstageKnows, TargetFrame, TargetSteps, StageSteps
  <2>2. CASE x # v
    <3>1. lock[x] # w
      BY <1>1, <2>2, ConstantsAssumption DEF IInv, LockDiscipline, TargetFrame
    <3>2. lock'[x] = lock[x] /\ (lock[x] # NoWorker => pc'[lock[x]] = pc[lock[x]])
      BY <2>2, <3>1 DEF TargetFrame, IInv, TypeOK
    <3>3. \A u \in Targets : VolumeOf[u] = x => file'[u] = file[u]
      BY <2>2 DEF TargetFrame
    <3> QED
      BY <3>2, <3>3 DEF IInv, UnstageKnows, TargetFrame
  <2> QED
    BY <2>1, <2>2
<1>7. ASSUME NEW x \in Workers, x # w
      PROVE ~(pc'[x] \in TargetSteps /\ local'[x].target = t)
  BY <1>2, <1>7 DEF TargetFrame
<1> QED
  BY <1>3, <1>4, <1>5, <1>6, <1>7

(* A step of one target handler preserves IInv when it does so at its own  *)
(* target: the rest follows from the frame.                                *)
LEMMA TargetStepKeeps ==
  ASSUME IInv, NEW w \in Workers, NEW t \in Targets, TargetFrame(w, t),
         TypeOK', DirCoherent', MountFitsRecord(t)', HandlerKnows(w)',
         pc'[w] \in TargetSteps =>
           /\ local'[w] \in PublishStates
           /\ local'[w].volumeID = VolumeOf[t]
           /\ acked'[t] = "none",
         acked'[t] = "published" => file'[t].status = "published" /\ mnt'[t] # <<>>,
         acked'[t] = "unpublished" => mnt'[t] = <<>>
  PROVE  IInv'
<1> DEFINE v == VolumeOf[t]
<1>1. v \in Volumes
  BY ConstantsAssumption
<1>2. \A x \in Volumes : x # v => lock[x] # w
  BY <1>1, ConstantsAssumption DEF IInv, LockDiscipline, TargetFrame
<1>3. LockDiscipline'
  <2>1. ASSUME NEW x \in Volumes, lock'[x] # NoWorker PROVE pc'[lock'[x]] # "idle"
    <3>1. CASE x = v
      BY <2>1, <3>1 DEF TargetFrame, TargetSteps
    <3>2. CASE x # v
      BY <1>2, <2>1, <3>2 DEF TargetFrame, IInv, TypeOK, LockDiscipline
    <3> QED
      BY <3>1, <3>2
  <2>2. ASSUME NEW x \in Volumes, NEW y \in Volumes, lock'[x] = lock'[y], lock'[x] # NoWorker
        PROVE  x = y
    BY <1>2, <2>2 DEF TargetFrame, IInv, LockDiscipline
  <2>3. ASSUME NEW x \in Workers, pc'[x] \in TargetSteps
        PROVE  /\ local'[x] \in PublishStates
               /\ local'[x].volumeID = VolumeOf[local'[x].target]
               /\ lock'[local'[x].volumeID] = x
    <3>1. CASE x = w
      BY <2>3, <3>1 DEF TargetFrame, TargetSteps
    <3>2. CASE x # w
      <4>1. /\ local'[x] = local[x]
            /\ local[x] \in PublishStates
            /\ local[x].volumeID = VolumeOf[local[x].target]
            /\ lock[local[x].volumeID] = x
        BY <2>3, <3>2 DEF TargetFrame, IInv, LockDiscipline
      <4>2. local[x].volumeID \in Volumes /\ local[x].volumeID # v
        BY <3>2, <4>1, ConstantsAssumption DEF TargetFrame, PublishStates
      <4> QED
        BY <4>1, <4>2 DEF TargetFrame
    <3> QED
      BY <3>1, <3>2
  <2> QED
    BY <2>1, <2>2, <2>3 DEF LockDiscipline
<1>4. AnswerCovered(t)'
  BY TargetFrameKeeps DEF AnswerCovered
<1>5. \A u \in Targets : MountFitsRecord(u)' /\ AnswerCovered(u)'
  BY <1>4, TargetFrameKeeps
<1>6. (\A x \in Workers : HandlerKnows(x)') /\ (\A x \in Volumes : UnstageKnows(x)')
  BY TargetFrameKeeps
<1> QED
  BY <1>3, <1>5, <1>6 DEF IInv

(* The visible directory is one of its recoverable images. *)
LEMMA VisibleDirCoherent == IInv => CoherentDir(file, staged)
<1> SUFFICES ASSUME IInv PROVE CoherentDir(file, staged)
  OBVIOUS
<1>1. CoherentDir(Image(file, staged).file, Image(file, staged).staged)
  BY DEF IInv, DirCoherent
<1> QED
  BY <1>1 DEF Image

(* A rename that leads to coherent records keeps every image coherent, and *)
(* so does a sync.                                                         *)
LEMMA DirChangedKeeps ==
  ASSUME IInv, DirChanged, CoherentDir(file', staged')
  PROVE  DirCoherent'
<1>1. CoherentDir(Image(file', staged').file, Image(file', staged').staged)
  BY DEF Image
<1>2. (\A i \in images : CoherentDir(i.file, i.staged))
  BY DEF IInv, DirCoherent
<1>3. Image(file', staged') \in images'
  BY DEF DirChanged
<1>4. \A i \in images' : CoherentDir(i.file, i.staged)
  BY <1>1, <1>2 DEF DirChanged
<1> QED
  BY <1>3, <1>4 DEF DirCoherent, CoherentDir, Image

(* A sync leaves the visible directory as the only image. *)
LEMMA DirSyncedKeeps ==
  ASSUME IInv, DirSynced, file' = file, staged' = staged
  PROVE  DirCoherent'
<1>1. CoherentDir(file, staged)
  BY VisibleDirCoherent
<1>2. CoherentDir(Image(file, staged).file, Image(file, staged).staged)
  BY <1>1 DEF Image
<1>3. images' = {Image(file', staged')}
  BY DEF DirSynced, Image
<1> QED
  BY <1>2, <1>3 DEF DirCoherent, CoherentDir, Image

(* A step that leaves the directory alone keeps it coherent. *)
LEMMA DirUnchangedKeeps ==
  ASSUME IInv, file' = file, staged' = staged, images' = images
  PROVE  DirCoherent'
BY DEF IInv, DirCoherent, CoherentDir, Image

-----------------------------------------------------------------------------
(* Steps of a handler that is at work on a target *)

(* What every such handler has: its copy of a record of the right volume   *)
(* and that volume's mutex; nothing is acknowledged for the target.        *)
LEMMA AtTarget ==
  ASSUME IInv, NEW w \in Workers, pc[w] \in TargetSteps
  PROVE  /\ local[w] \in PublishStates
         /\ local[w].target \in Targets
         /\ local[w].volumeID = VolumeOf[local[w].target]
         /\ VolumeOf[local[w].target] \in Volumes
         /\ lock[VolumeOf[local[w].target]] = w
         /\ \A x \in Volumes : x # VolumeOf[local[w].target] => lock[x] # w
         /\ acked[local[w].target] = "none"
         /\ HandlerKnows(w)
         /\ MountFitsRecord(local[w].target)
<1>1. /\ local[w] \in PublishStates
      /\ local[w].target \in Targets
      /\ local[w].volumeID = VolumeOf[local[w].target]
      /\ lock[local[w].volumeID] = w
  BY DEF IInv, LockDiscipline, PublishStates
<1>2. VolumeOf[local[w].target] \in Volumes
  BY <1>1, ConstantsAssumption
<1>3. \A x \in Volumes : x # VolumeOf[local[w].target] => lock[x] # w
  BY <1>1, <1>2, ConstantsAssumption DEF IInv, LockDiscipline
<1>4. acked[local[w].target] = "none"
  BY <1>1 DEF IInv, AnswerCovered
<1> QED
  BY <1>1, <1>2, <1>3, <1>4 DEF IInv

(* The parts of the state that a target handler's step may change. *)
OnlyTarget(t) ==
  /\ staged' = staged
  /\ \A u \in Targets :
       u # t => file'[u] = file[u] /\ mnt'[u] = mnt[u] /\ acked'[u] = acked[u]

(* A target handler that goes on to its next step stays within its frame. *)
LEMMA GotoFrame ==
  ASSUME IInv, NEW w \in Workers, pc[w] \in TargetSteps,
         NEW step \in TargetSteps, Goto(w, step), OnlyTarget(local[w].target)
  PROVE  /\ TargetFrame(w, local[w].target)
         /\ pc'[w] = step /\ local'[w] = local[w]
BY AtTarget DEF TargetFrame, OnlyTarget, Goto, IInv, TypeOK

(* A target handler that returns stays within its frame. *)
LEMMA ReturnFrame ==
  ASSUME IInv, NEW w \in Workers, pc[w] \in TargetSteps,
         Return(w), OnlyTarget(local[w].target)
  PROVE  /\ TargetFrame(w, local[w].target)
         /\ pc'[w] = "idle"
BY AtTarget DEF TargetFrame, OnlyTarget, Return, IInv, TypeOK

(* Types of the handlers' own variables. *)
LEMMA GotoTypes ==
  ASSUME TypeOK, NEW w \in Workers, NEW step \in Steps, Goto(w, step)
  PROVE  /\ lock' \in [Volumes -> Workers \union {NoWorker}]
         /\ pc' \in [Workers -> Steps]
         /\ local' \in [Workers -> PublishStates \union {NoRecord}]
BY DEF TypeOK, Goto

(* Returning keeps the types of the handlers' own variables. *)
LEMMA ReturnTypes ==
  ASSUME TypeOK, NEW w \in Workers, Return(w)
  PROVE  /\ lock' \in [Volumes -> Workers \union {NoWorker}]
         /\ pc' \in [Workers -> Steps]
         /\ local' \in [Workers -> PublishStates \union {NoRecord}]
BY DEF TypeOK, Return, Steps

(* The recoverable images stay well typed over renames and syncs. *)
LEMMA ImagesTyped ==
  ASSUME TypeOK, file' \in Files, staged' \in StageFiles,
         DirChanged \/ (DirSynced /\ file' = file /\ staged' = staged)
  PROVE  images' \subseteq [file : Files, staged : StageFiles]
BY DEF TypeOK, DirChanged, DirSynced, Image

(* A rename of the handler's record. *)
LEMMA RenameTyped ==
  ASSUME IInv, NEW w \in Workers, pc[w] \in TargetSteps,
         NEW st \in PublishStatuses, Rename(w, st)
  PROVE  /\ file' \in Files
         /\ file'[local[w].target] = [local[w] EXCEPT !.status = st]
         /\ file'[local[w].target] \in PublishStates
         /\ file'[local[w].target].status = st
         /\ file'[local[w].target].readonly = local[w].readonly
         /\ images' \subseteq [file : Files, staged : StageFiles]
         /\ OnlyTarget(local[w].target)
         /\ mnt' = mnt /\ acked' = acked
<1>1. [local[w] EXCEPT !.status = st] \in PublishStates
  BY AtTarget, StatusRewritten
<1>2. /\ file' \in Files
      /\ file'[local[w].target] = [local[w] EXCEPT !.status = st]
      /\ \A u \in Targets : u # local[w].target => file'[u] = file[u]
  BY <1>1, AtTarget DEF IInv, TypeOK, Files, Rename
<1>3. images' \subseteq [file : Files, staged : StageFiles]
  BY <1>2, ImagesTyped DEF IInv, TypeOK, Rename
<1>4. /\ file'[local[w].target].status = st
      /\ file'[local[w].target].readonly = local[w].readonly
  BY <1>2, AtTarget, StatusRewritten
<1>5. mnt' = mnt /\ acked' = acked /\ staged' = staged
  BY DEF Rename
<1>6. OnlyTarget(local[w].target)
  BY <1>2, <1>5 DEF OnlyTarget
<1> QED
  BY <1>1, <1>2, <1>3, <1>4, <1>5, <1>6

(* A rename keeps the directory coherent when it writes a new record that  *)
(* fits, or rewrites the status of the record on file.                     *)
LEMMA RenameCoherent ==
  ASSUME IInv, NEW w \in Workers, pc[w] \in TargetSteps,
         NEW st \in PublishStatuses, Rename(w, st),
         \/ NewRecordFits(local[w])
         \/ /\ file[local[w].target] # NoRecord
            /\ file[local[w].target].stagingTarget = local[w].stagingTarget
            /\ file[local[w].target].accessMode = local[w].accessMode
  PROVE  DirCoherent'
<1> DEFINE t == local[w].target
<1>1. /\ local[w] \in PublishStates /\ t \in Targets
      /\ local[w].volumeID = VolumeOf[t] /\ VolumeOf[t] \in Volumes
  BY AtTarget
<1>2. /\ file'[t] = [local[w] EXCEPT !.status = st]
      /\ \A u \in Targets : u # t => file'[u] = file[u]
      /\ staged' = staged
  BY RenameTyped DEF OnlyTarget
<1>3. /\ file'[t].target = t
      /\ file'[t].volumeID = VolumeOf[t]
      /\ file'[t].stagingTarget = local[w].stagingTarget
      /\ file'[t].accessMode = local[w].accessMode
  BY <1>1, <1>2, StatusRewritten
<1>4. CoherentDir(file, staged)
  BY VisibleDirCoherent
<1>5. staged[VolumeOf[t]] = [path |-> local[w].stagingTarget, stopping |-> FALSE]
  BY <1>1, <1>4 DEF CoherentDir, NewRecordFits
<1>6. ASSUME NEW u \in Targets, u # t, file[u] # NoRecord, VolumeOf[u] = VolumeOf[t]
      PROVE  file[u].accessMode = local[w].accessMode /\ local[w].accessMode \in MultiModes
  <2>1. CASE NewRecordFits(local[w])
    BY <1>1, <1>6, <2>1 DEF NewRecordFits
  <2>2. CASE file[t] # NoRecord /\ file[t].accessMode = local[w].accessMode
    BY <1>1, <1>4, <1>6, <2>2 DEF CoherentDir
  <2> QED
    BY <2>1, <2>2
<1>7. CoherentDir(file', staged')
  <2>1. ASSUME NEW u \in Targets, file'[u] # NoRecord
        PROVE  /\ file'[u].target = u
               /\ file'[u].volumeID = VolumeOf[u]
               /\ staged'[VolumeOf[u]] = [path |-> file'[u].stagingTarget, stopping |-> FALSE]
    <3>1. CASE u = t
      BY <1>2, <1>3, <1>5, <3>1
    <3>2. CASE u # t
      BY <1>2, <1>4, <2>1, <3>2 DEF CoherentDir
    <3> QED
      BY <3>1, <3>2
  <2>2. ASSUME NEW x \in Targets, NEW y \in Targets, x # y, file'[x] # NoRecord,
               file'[y] # NoRecord, VolumeOf[x] = VolumeOf[y]
        PROVE  file'[x].accessMode = file'[y].accessMode /\ file'[x].accessMode \in MultiModes
    <3>1. CASE x = t
      BY <1>2, <1>3, <1>6, <2>2, <3>1
    <3>2. CASE y = t
      BY <1>2, <1>3, <1>6, <2>2, <3>2
    <3>3. CASE x # t /\ y # t
      BY <1>2, <1>4, <2>2, <3>3 DEF CoherentDir
    <3> QED
      BY <3>1, <3>2, <3>3
  <2> QED
    BY <2>1, <2>2 DEF CoherentDir
<1> QED
  BY <1>7, DirChangedKeeps DEF Rename

(* The new record fits the checks made when the request started. *)
LEMMA WritePendingKeeps ==
  ASSUME IInv, NEW w \in Workers, WritePending(w) PROVE IInv'
<1>1. /\ pc[w] = "writePending" /\ pc[w] \in TargetSteps
      /\ Rename(w, "pending") /\ Goto(w, "syncPending")
  BY DEF WritePending, TargetSteps
<1> PICK t \in Targets : t = local[w].target
  BY <1>1, AtTarget
<1>2. /\ local[w] \in PublishStates /\ acked[t] = "none"
      /\ local[w].volumeID = VolumeOf[t]
      /\ HandlerKnows(w) /\ MountFitsRecord(t)
  BY <1>1, AtTarget
<1>3. NewRecordFits(local[w]) /\ local[w].status = "pending" /\ mnt[t] = <<>>
  BY <1>1, <1>2 DEF HandlerKnows, MountFitsRecord, NewRecordFits
<1>4. /\ file' \in Files
      /\ file'[t] = [local[w] EXCEPT !.status = "pending"]
      /\ images' \subseteq [file : Files, staged : StageFiles]
      /\ OnlyTarget(t)
      /\ mnt' = mnt /\ acked' = acked
  BY <1>1, RenameTyped DEF PublishStatuses
<1>5. file'[t] = local[w]
  BY <1>2, <1>3, <1>4 DEF PublishStates
<1>6. TargetFrame(w, t) /\ pc'[w] = "syncPending" /\ local'[w] = local[w]
  BY <1>1, <1>4, GotoFrame DEF TargetSteps
<1>7. TypeOK'
  BY <1>1, <1>4, GotoTypes DEF Rename, IInv, TypeOK, Steps
<1>8. DirCoherent'
  BY <1>1, <1>3, RenameCoherent DEF PublishStatuses
<1>9. MountFitsRecord(t)'
  BY <1>3, <1>4 DEF MountFitsRecord
<1>10. HandlerKnows(w)'
  BY <1>3, <1>4, <1>5, <1>6 DEF HandlerKnows
<1> QED
  BY <1>2, <1>4, <1>6, <1>7, <1>8, <1>9, <1>10, TargetStepKeeps

(* The sync of the pending record. *)
LEMMA SyncPendingKeeps ==
  ASSUME IInv, NEW w \in Workers, SyncPending(w) PROVE IInv'
<1>1. /\ pc[w] = "syncPending" /\ pc[w] \in TargetSteps
      /\ DirSynced /\ Goto(w, "bind")
      /\ UNCHANGED <<file, staged, mnt, health, acked, faults>>
  BY DEF SyncPending, Sync, TargetSteps
<1> PICK t \in Targets : t = local[w].target
  BY <1>1, AtTarget
<1>2. /\ local[w] \in PublishStates /\ acked[t] = "none"
      /\ local[w].volumeID = VolumeOf[t]
      /\ HandlerKnows(w) /\ MountFitsRecord(t)
  BY <1>1, AtTarget
<1>3. TargetFrame(w, t) /\ pc'[w] = "bind" /\ local'[w] = local[w]
  BY <1>1, GotoFrame DEF OnlyTarget, TargetSteps
<1>4. TypeOK'
  BY <1>1, GotoTypes, ImagesTyped DEF IInv, TypeOK, Steps
<1>5. DirCoherent'
  BY <1>1, DirSyncedKeeps
<1>6. MountFitsRecord(t)'
  BY <1>1, <1>2 DEF MountFitsRecord
<1>7. HandlerKnows(w)'
  BY <1>1, <1>2, <1>3 DEF HandlerKnows
<1> QED
  BY <1>1, <1>2, <1>3, <1>4, <1>5, <1>6, <1>7, TargetStepKeeps

(* The bind mount finds the target unmounted under a pending record. *)
LEMMA BindKeeps ==
  ASSUME IInv, NEW w \in Workers, Bind(w) PROVE IInv'
<1>1. /\ pc[w] = "bind" /\ pc[w] \in TargetSteps
      /\ Goto(w, IF local[w].readonly THEN "remount" ELSE "promote")
      /\ UNCHANGED <<file, staged, images, health, acked, faults>>
  BY DEF Bind, TargetSteps
<1> PICK t \in Targets : t = local[w].target
  BY <1>1, AtTarget
<1>2. /\ local[w] \in PublishStates /\ acked[t] = "none"
      /\ local[w].volumeID = VolumeOf[t]
      /\ HandlerKnows(w)
  BY <1>1, AtTarget
<1>3. file[t] = local[w] /\ local[w].status = "pending" /\ mnt[t] = <<>>
  BY <1>1, <1>2 DEF HandlerKnows
<1>4. /\ mnt' = [mnt EXCEPT ![t] = <<"rw">>]
      /\ mnt' \in [Targets -> Seq(MountOptions)]
  BY <1>3 DEF Bind, IInv, TypeOK, MountOptions
<1>5. mnt'[t] = <<"rw">> /\ \A u \in Targets : u # t => mnt'[u] = mnt[u]
  BY <1>4 DEF IInv, TypeOK
<1>6. local[w].readonly \in BOOLEAN
  BY <1>2 DEF PublishStates
<1>7. /\ TargetFrame(w, t) /\ local'[w] = local[w]
      /\ pc'[w] = IF local[w].readonly THEN "remount" ELSE "promote"
  BY <1>1, <1>5, GotoFrame DEF OnlyTarget, TargetSteps
<1>8. TypeOK'
  BY <1>1, <1>4, GotoTypes DEF IInv, TypeOK, Steps
<1>9. DirCoherent'
  BY <1>1, DirUnchangedKeeps
<1>10. MountFitsRecord(t)'
  BY <1>1, <1>2, <1>3, <1>5, NoRecordIsNoState DEF MountFitsRecord
<1>11. HandlerKnows(w)'
  BY <1>1, <1>3, <1>5, <1>6, <1>7 DEF HandlerKnows, Option
<1> QED
  BY <1>1, <1>2, <1>7, <1>8, <1>9, <1>10, <1>11, TargetStepKeeps

(* The read-only remount replaces the writable mount of the bind. *)
LEMMA RemountKeeps ==
  ASSUME IInv, NEW w \in Workers, Remount(w) PROVE IInv'
<1>1. /\ pc[w] = "remount" /\ pc[w] \in TargetSteps
      /\ Goto(w, "promote")
      /\ UNCHANGED <<file, staged, images, health, acked, faults>>
  BY DEF Remount, TargetSteps
<1> PICK t \in Targets : t = local[w].target
  BY <1>1, AtTarget
<1>2. /\ local[w] \in PublishStates /\ acked[t] = "none"
      /\ local[w].volumeID = VolumeOf[t]
      /\ HandlerKnows(w)
  BY <1>1, AtTarget
<1>3. /\ file[t] = local[w] /\ local[w].status = "pending"
      /\ mnt[t] = <<"rw">> /\ local[w].readonly = TRUE
  BY <1>1, <1>2 DEF HandlerKnows, PublishStates
<1>4. mnt' = [mnt EXCEPT ![t] = Append(BelowTop(t), "ro")]
  BY DEF Remount
<1>5. BelowTop(t) = <<>>
  BY <1>3, NothingBelow
<1>6. /\ mnt' \in [Targets -> Seq(MountOptions)] /\ mnt'[t] = <<"ro">>
      /\ \A u \in Targets : u # t => mnt'[u] = mnt[u]
  <2>1. Append(BelowTop(t), "ro") = <<"ro">> /\ <<"ro">> \in Seq(MountOptions)
    BY <1>5 DEF MountOptions
  <2> QED
    BY <1>4, <2>1 DEF IInv, TypeOK
<1>7. TargetFrame(w, t) /\ pc'[w] = "promote" /\ local'[w] = local[w]
  BY <1>1, <1>6, GotoFrame DEF OnlyTarget, TargetSteps
<1>8. TypeOK'
  BY <1>1, <1>6, GotoTypes DEF IInv, TypeOK, Steps
<1>9. DirCoherent'
  BY <1>1, DirUnchangedKeeps
<1>10. MountFitsRecord(t)'
  BY <1>1, <1>2, <1>3, <1>6, NoRecordIsNoState DEF MountFitsRecord, Option
<1>11. HandlerKnows(w)'
  BY <1>1, <1>3, <1>6, <1>7 DEF HandlerKnows, Option
<1> QED
  BY <1>1, <1>2, <1>7, <1>8, <1>9, <1>10, <1>11, TargetStepKeeps

(* The failed remount leaves the writable mount or nothing under a pending *)
(* record; both fit it.                                                    *)
LEMMA RemountFailsKeeps ==
  ASSUME IInv, NEW w \in Workers, RemountFails(w) PROVE IInv'
<1>1. /\ pc[w] = "remount" /\ pc[w] \in TargetSteps
      /\ Return(w)
      /\ UNCHANGED <<file, staged, images, health, acked>>
      /\ faults < MaxFaults /\ faults' = faults + 1
  BY DEF RemountFails, TargetSteps
<1> PICK t \in Targets : t = local[w].target
  BY <1>1, AtTarget
<1>2. /\ local[w] \in PublishStates /\ acked[t] = "none"
      /\ local[w].volumeID = VolumeOf[t]
      /\ HandlerKnows(w)
  BY <1>1, AtTarget
<1>3. file[t] = local[w] /\ local[w].status = "pending" /\ mnt[t] = <<"rw">>
  BY <1>1, <1>2 DEF HandlerKnows
<1>4. /\ mnt' \in [Targets -> Seq(MountOptions)] /\ mnt'[t] \in {<<>>, <<"rw">>}
      /\ \A u \in Targets : u # t => mnt'[u] = mnt[u]
  <2>1. CASE mnt' = [mnt EXCEPT ![t] = BelowTop(t)]
    <3>1. BelowTop(t) = <<>>
      BY <1>3, NothingBelow
    <3> QED
      BY <2>1, <3>1 DEF IInv, TypeOK
  <2>2. CASE mnt' = mnt
    BY <1>3, <2>2 DEF IInv, TypeOK
  <2> QED
    BY <2>1, <2>2 DEF RemountFails
<1>5. TargetFrame(w, t) /\ pc'[w] = "idle"
  BY <1>1, <1>4, ReturnFrame DEF OnlyTarget
<1>6. TypeOK'
  <2>1. faults' \in 0 .. MaxFaults
    BY <1>1, ConstantsAssumption DEF IInv, TypeOK
  <2> QED
    BY <1>1, <1>4, <2>1, ReturnTypes DEF IInv, TypeOK
<1>7. DirCoherent'
  BY <1>1, DirUnchangedKeeps
<1>8. MountFitsRecord(t)'
  BY <1>1, <1>2, <1>3, <1>4, NoRecordIsNoState DEF MountFitsRecord
<1>9. HandlerKnows(w)'
  BY <1>5 DEF HandlerKnows
<1> QED
  BY <1>1, <1>2, <1>5, <1>6, <1>7, <1>8, <1>9, TargetStepKeeps DEF TargetSteps

(* The published record finds the target mounted as requested. *)
LEMMA PromoteKeeps ==
  ASSUME IInv, NEW w \in Workers, Promote(w) PROVE IInv'
<1>1. /\ pc[w] = "promote" /\ pc[w] \in TargetSteps
      /\ Rename(w, "published") /\ Goto(w, "syncPublished")
  BY DEF Promote, TargetSteps
<1> PICK t \in Targets : t = local[w].target
  BY <1>1, AtTarget
<1>2. /\ local[w] \in PublishStates /\ acked[t] = "none"
      /\ local[w].volumeID = VolumeOf[t]
      /\ HandlerKnows(w) /\ MountFitsRecord(t)
  BY <1>1, AtTarget
<1>3. file[t] = local[w] /\ mnt[t] = <<Option(local[w].readonly)>>
  BY <1>1, <1>2 DEF HandlerKnows
<1>4. /\ file' \in Files
      /\ file'[t] = [local[w] EXCEPT !.status = "published"]
      /\ file'[t] \in PublishStates
      /\ file'[t].readonly = local[w].readonly
      /\ file'[t].status = "published"
      /\ images' \subseteq [file : Files, staged : StageFiles]
      /\ OnlyTarget(t)
      /\ mnt' = mnt /\ acked' = acked
  BY <1>1, RenameTyped DEF PublishStatuses
<1>5. TargetFrame(w, t) /\ pc'[w] = "syncPublished" /\ local'[w] = local[w]
  BY <1>1, <1>4, GotoFrame DEF TargetSteps
<1>6. TypeOK'
  BY <1>1, <1>4, GotoTypes DEF Rename, IInv, TypeOK, Steps
<1>7. DirCoherent'
  BY <1>1, <1>2, <1>3, RenameCoherent, NoRecordIsNoState DEF PublishStatuses
<1>8. MountFitsRecord(t)'
  BY <1>2, <1>3, <1>4, NoRecordIsNoState DEF MountFitsRecord
<1>9. HandlerKnows(w)'
  BY <1>3, <1>4, <1>5 DEF HandlerKnows, RecordIs
<1> QED
  BY <1>2, <1>4, <1>5, <1>6, <1>7, <1>8, <1>9, TargetStepKeeps

(* Success is answered for a target that is recorded and mounted. *)
LEMMA SyncPublishedKeeps ==
  ASSUME IInv, NEW w \in Workers, SyncPublished(w) PROVE IInv'
<1>1. /\ pc[w] = "syncPublished" /\ pc[w] \in TargetSteps
      /\ DirSynced /\ Return(w)
      /\ UNCHANGED <<file, staged, mnt, health, faults>>
  BY DEF SyncPublished, TargetSteps
<1> PICK t \in Targets : t = local[w].target
  BY <1>1, AtTarget
<1>2. /\ local[w] \in PublishStates
      /\ local[w].volumeID = VolumeOf[t]
      /\ HandlerKnows(w) /\ MountFitsRecord(t)
  BY <1>1, AtTarget
<1>3. file[t].status = "published" /\ mnt[t] = <<Option(local[w].readonly)>>
  <2>1. RecordIs(w, "published") /\ mnt[t] = <<Option(local[w].readonly)>>
    BY <1>1, <1>2 DEF HandlerKnows
  <2> QED
    BY <1>2, <2>1, StatusRewritten DEF RecordIs, PublishStatuses
<1>4. /\ acked' \in [Targets -> {"none", "published", "unpublished"}]
      /\ acked'[t] = "published"
      /\ \A u \in Targets : u # t => acked'[u] = acked[u]
  BY DEF SyncPublished, IInv, TypeOK
<1>5. TargetFrame(w, t) /\ pc'[w] = "idle"
  BY <1>1, <1>4, ReturnFrame DEF OnlyTarget
<1>6. TypeOK'
  BY <1>1, <1>4, ReturnTypes, ImagesTyped DEF IInv, TypeOK
<1>7. DirCoherent'
  BY <1>1, DirSyncedKeeps
<1>8. MountFitsRecord(t)'
  BY <1>1, <1>2 DEF MountFitsRecord
<1>9. HandlerKnows(w)'
  BY <1>5 DEF HandlerKnows
<1>10. file'[t].status = "published" /\ mnt'[t] # <<>>
  BY <1>1, <1>3
<1> QED
  BY <1>4, <1>5, <1>6, <1>7, <1>8, <1>9, <1>10, TargetStepKeeps DEF TargetSteps

(* The cleanup intent rewrites the status on record and nothing else. *)
LEMMA WriteIntentKeeps ==
  ASSUME IInv, NEW w \in Workers, WriteIntent(w) PROVE IInv'
<1>1. /\ pc[w] = "writeIntent" /\ pc[w] \in TargetSteps
      /\ Rename(w, "unpublishing") /\ Goto(w, "syncIntent")
  BY DEF WriteIntent, TargetSteps
<1> PICK t \in Targets : t = local[w].target
  BY <1>1, AtTarget
<1>2. /\ local[w] \in PublishStates /\ acked[t] = "none"
      /\ local[w].volumeID = VolumeOf[t]
      /\ HandlerKnows(w) /\ MountFitsRecord(t)
  BY <1>1, AtTarget
<1>3. file[t] = local[w]
  BY <1>1, <1>2 DEF HandlerKnows
<1>4. /\ file' \in Files
      /\ file'[t] = [local[w] EXCEPT !.status = "unpublishing"]
      /\ file'[t] \in PublishStates
      /\ file'[t].status = "unpublishing"
      /\ images' \subseteq [file : Files, staged : StageFiles]
      /\ OnlyTarget(t)
      /\ mnt' = mnt /\ acked' = acked
  BY <1>1, RenameTyped DEF PublishStatuses
<1>5. TargetFrame(w, t) /\ pc'[w] = "syncIntent" /\ local'[w] = local[w]
  BY <1>1, <1>4, GotoFrame DEF TargetSteps
<1>6. TypeOK'
  BY <1>1, <1>4, GotoTypes DEF Rename, IInv, TypeOK, Steps
<1>7. DirCoherent'
  BY <1>1, <1>2, <1>3, RenameCoherent, NoRecordIsNoState DEF PublishStatuses
<1>8. MountFitsRecord(t)'
  BY <1>2, <1>4, NoRecordIsNoState DEF MountFitsRecord
<1>9. HandlerKnows(w)'
  BY <1>4, <1>5 DEF HandlerKnows, RecordIs
<1> QED
  BY <1>2, <1>4, <1>5, <1>6, <1>7, <1>8, <1>9, TargetStepKeeps

(* The sync of the cleanup intent. *)
LEMMA SyncIntentKeeps ==
  ASSUME IInv, NEW w \in Workers, SyncIntent(w) PROVE IInv'
<1>1. /\ pc[w] = "syncIntent" /\ pc[w] \in TargetSteps
      /\ DirSynced /\ Goto(w, "unmount")
      /\ UNCHANGED <<file, staged, mnt, health, acked, faults>>
  BY DEF SyncIntent, Sync, TargetSteps
<1> PICK t \in Targets : t = local[w].target
  BY <1>1, AtTarget
<1>2. /\ local[w] \in PublishStates /\ acked[t] = "none"
      /\ local[w].volumeID = VolumeOf[t]
      /\ HandlerKnows(w) /\ MountFitsRecord(t)
  BY <1>1, AtTarget
<1>3. TargetFrame(w, t) /\ pc'[w] = "unmount" /\ local'[w] = local[w]
  BY <1>1, GotoFrame DEF OnlyTarget, TargetSteps
<1>4. TypeOK'
  BY <1>1, GotoTypes, ImagesTyped DEF IInv, TypeOK, Steps
<1>5. DirCoherent'
  BY <1>1, DirSyncedKeeps
<1>6. MountFitsRecord(t)'
  BY <1>1, <1>2 DEF MountFitsRecord
<1>7. HandlerKnows(w)'
  BY <1>1, <1>2, <1>3 DEF HandlerKnows, RecordIs
<1> QED
  BY <1>1, <1>2, <1>3, <1>4, <1>5, <1>6, <1>7, TargetStepKeeps

(* At most one mount is there to take, so the target ends up unmounted. *)
LEMMA UnmountKeeps ==
  ASSUME IInv, NEW w \in Workers, Unmount(w) PROVE IInv'
<1>1. /\ pc[w] = "unmount" /\ pc[w] \in TargetSteps
      /\ UNCHANGED <<file, staged, images, health, acked, faults>>
  BY DEF Unmount, TargetSteps
<1> PICK t \in Targets : t = local[w].target
  BY <1>1, AtTarget
<1>2. /\ local[w] \in PublishStates /\ acked[t] = "none"
      /\ local[w].volumeID = VolumeOf[t]
      /\ HandlerKnows(w) /\ MountFitsRecord(t)
  BY <1>1, AtTarget
<1>3. mnt' = [mnt EXCEPT ![t] = <<>>]
  <2>1. CASE mnt[t] = <<>>
    BY <2>1 DEF Unmount, IsMountPoint
  <2>2. CASE mnt[t] # <<>>
    <3>1. BelowTop(t) = <<>>
      BY <1>2, <2>2, NothingBelow DEF MountFitsRecord
    <3> QED
      BY <2>2, <3>1 DEF Unmount, IsMountPoint
  <2> QED
    BY <2>1, <2>2
<1>4. /\ mnt' \in [Targets -> Seq(MountOptions)] /\ mnt'[t] = <<>>
      /\ \A u \in Targets : u # t => mnt'[u] = mnt[u]
  BY <1>3 DEF IInv, TypeOK
<1>5. Goto(w, "remove")
  BY <1>4 DEF Unmount
<1>6. TargetFrame(w, t) /\ pc'[w] = "remove" /\ local'[w] = local[w]
  BY <1>1, <1>4, <1>5, GotoFrame DEF OnlyTarget, TargetSteps
<1>7. TypeOK'
  BY <1>1, <1>4, <1>5, GotoTypes DEF IInv, TypeOK, Steps
<1>8. DirCoherent'
  BY <1>1, DirUnchangedKeeps
<1>9. MountFitsRecord(t)'
  BY <1>4 DEF MountFitsRecord
<1>10. HandlerKnows(w)'
  BY <1>1, <1>2, <1>4, <1>6 DEF HandlerKnows, RecordIs
<1> QED
  BY <1>1, <1>2, <1>6, <1>7, <1>8, <1>9, <1>10, TargetStepKeeps

(* The record is removed from an unmounted target. *)
LEMMA RemoveKeeps ==
  ASSUME IInv, NEW w \in Workers, Remove(w) PROVE IInv'
<1>1. /\ pc[w] = "remove" /\ pc[w] \in TargetSteps
      /\ DirChanged /\ Goto(w, "syncRemoved")
      /\ UNCHANGED <<staged, mnt, health, acked, faults>>
  BY DEF Remove, TargetSteps
<1> PICK t \in Targets : t = local[w].target
  BY <1>1, AtTarget
<1>2. /\ local[w] \in PublishStates /\ acked[t] = "none"
      /\ local[w].volumeID = VolumeOf[t]
      /\ HandlerKnows(w)
  BY <1>1, AtTarget
<1>3. mnt[t] = <<>>
  BY <1>1, <1>2 DEF HandlerKnows
<1>4. /\ file' \in Files /\ file'[t] = NoRecord
      /\ \A u \in Targets : u # t => file'[u] = file[u]
  BY DEF Remove, IInv, TypeOK, Files
<1>5. TargetFrame(w, t) /\ pc'[w] = "syncRemoved" /\ local'[w] = local[w]
  BY <1>1, <1>4, GotoFrame DEF OnlyTarget, TargetSteps
<1>6. TypeOK'
  BY <1>1, <1>4, GotoTypes, ImagesTyped DEF IInv, TypeOK, Steps
<1>7. DirCoherent'
  <2>1. CoherentDir(file, staged)
    BY VisibleDirCoherent
  <2>2. CoherentDir(file', staged')
    BY <1>1, <1>4, <2>1 DEF CoherentDir
  <2> QED
    BY <1>1, <2>2, DirChangedKeeps
<1>8. MountFitsRecord(t)'
  BY <1>1, <1>3 DEF MountFitsRecord
<1>9. HandlerKnows(w)'
  BY <1>4, <1>5 DEF HandlerKnows
<1> QED
  BY <1>1, <1>2, <1>5, <1>6, <1>7, <1>8, <1>9, TargetStepKeeps

(* Success is answered for a target that is not mounted. *)
LEMMA SyncRemovedKeeps ==
  ASSUME IInv, NEW w \in Workers, SyncRemoved(w) PROVE IInv'
<1>1. /\ pc[w] = "syncRemoved" /\ pc[w] \in TargetSteps
      /\ DirSynced /\ Return(w)
      /\ UNCHANGED <<file, staged, mnt, health, faults>>
  BY DEF SyncRemoved, TargetSteps
<1> PICK t \in Targets : t = local[w].target
  BY <1>1, AtTarget
<1>2. HandlerKnows(w) /\ MountFitsRecord(t)
  BY <1>1, AtTarget
<1>3. mnt[t] = <<>>
  BY <1>1, <1>2 DEF HandlerKnows, MountFitsRecord
<1>4. /\ acked' \in [Targets -> {"none", "published", "unpublished"}]
      /\ acked'[t] = "unpublished"
      /\ \A u \in Targets : u # t => acked'[u] = acked[u]
  BY DEF SyncRemoved, IInv, TypeOK
<1>5. TargetFrame(w, t) /\ pc'[w] = "idle"
  BY <1>1, <1>4, ReturnFrame DEF OnlyTarget
<1>6. TypeOK'
  BY <1>1, <1>4, ReturnTypes, ImagesTyped DEF IInv, TypeOK
<1>7. DirCoherent'
  BY <1>1, DirSyncedKeeps
<1>8. MountFitsRecord(t)'
  BY <1>1, <1>2 DEF MountFitsRecord
<1>9. HandlerKnows(w)'
  BY <1>5 DEF HandlerKnows
<1>10. mnt'[t] = <<>>
  BY <1>1, <1>3
<1> QED
  BY <1>4, <1>5, <1>6, <1>7, <1>8, <1>9, <1>10, TargetStepKeeps DEF TargetSteps

-----------------------------------------------------------------------------
(* Calls for a target *)

(* The start of a handler: it takes the mutex, nothing else changes but    *)
(* that the earlier answer is superseded.                                  *)
LEMMA BeginFrame ==
  ASSUME IInv, NEW w \in Workers, NEW t \in Targets,
         Begin(w, VolumeOf[t], pc'[w], local'[w]),
         pc'[w] \in TargetSteps, local'[w] \in PublishStates, local'[w].target = t,
         acked' = [acked EXCEPT ![t] = "none"],
         UNCHANGED <<file, staged, images, mnt, health, faults>>
  PROVE  /\ TargetFrame(w, t)
         /\ acked'[t] = "none"
         /\ TypeOK' /\ DirCoherent' /\ MountFitsRecord(t)'
<1>1. VolumeOf[t] \in Volumes
  BY ConstantsAssumption
<1>2. TargetFrame(w, t) /\ acked'[t] = "none"
  BY <1>1 DEF Begin, LockFree, TargetFrame, IInv, TypeOK
<1>3. TypeOK'
  <2>1. pc' \in [Workers -> Steps]
    BY DEF Begin, IInv, TypeOK, Steps, TargetSteps
  <2>2. local' \in [Workers -> PublishStates \union {NoRecord}]
    BY DEF Begin, IInv, TypeOK
  <2>3. lock' \in [Volumes -> Workers \union {NoWorker}]
    BY <1>1 DEF Begin, IInv, TypeOK
  <2> QED
    BY <2>1, <2>2, <2>3 DEF IInv, TypeOK
<1>4. DirCoherent'
  BY DirUnchangedKeeps
<1>5. MountFitsRecord(t)'
  BY DEF IInv, MountFitsRecord
<1> QED
  BY <1>2, <1>3, <1>4, <1>5

(* A record found for a target is one of its own volume. *)
LEMMA RecordIdentity ==
  ASSUME IInv, NEW t \in Targets, file[t] # NoRecord
  PROVE  /\ file[t] \in PublishStates
         /\ file[t].target = t
         /\ file[t].volumeID = VolumeOf[t]
<1>1. CoherentDir(file, staged)
  BY VisibleDirCoherent
<1>2. file[t] \in PublishStates
  BY DEF IInv, TypeOK, Files
<1> QED
  BY <1>1, <1>2 DEF CoherentDir

(* A publish without a record checks what its new record must fit. *)
LEMMA PublishNewKeeps ==
  ASSUME IInv, NEW w \in Workers, NEW t \in Targets, NEW s \in Stagings,
         NEW ro \in BOOLEAN, NEW m \in Modes, PublishNew(w, t, s, ro, m)
  PROVE  IInv'
<1> DEFINE r == [volumeID |-> VolumeOf[t], stagingTarget |-> s, target |-> t,
                 readonly |-> ro, accessMode |-> m, status |-> "pending"]
<1>1. /\ r \in PublishStates
      /\ r.target = t /\ r.volumeID = VolumeOf[t] /\ r.stagingTarget = s
      /\ r.accessMode = m /\ r.status = "pending"
  BY ConstantsAssumption DEF PublishStates, PublishStatuses
<1>2. /\ file[t] = NoRecord
      /\ staged[VolumeOf[t]] = [path |-> s, stopping |-> FALSE]
      /\ checkMultiTargetAccess(hasActivePublishTargets(VolumeOf[t], s), m)
      /\ Begin(w, VolumeOf[t], "writePending", r)
      /\ acked' = [acked EXCEPT ![t] = "none"]
      /\ UNCHANGED <<file, staged, images, mnt, health, faults>>
  BY DEF PublishNew, StageVerified
<1>3. /\ TargetFrame(w, t) /\ pc'[w] = "writePending" /\ local'[w] = r
      /\ acked'[t] = "none" /\ TypeOK' /\ DirCoherent' /\ MountFitsRecord(t)'
  <2> HIDE DEF r
  <2>1. pc'[w] = "writePending" /\ local'[w] = r
    BY <1>2 DEF Begin, IInv, TypeOK
  <2>2. Begin(w, VolumeOf[t], pc'[w], local'[w]) /\ pc'[w] \in TargetSteps
    BY <1>2, <2>1 DEF TargetSteps
  <2> QED
    BY <1>1, <1>2, <2>1, <2>2, BeginFrame
<1>4. NewRecordFits(r)
  <2>1. ASSUME NEW u \in Targets, VolumeOf[u] = VolumeOf[t], file[u] # NoRecord
        PROVE  file[u].accessMode = m /\ m \in MultiModes
    <3>1. file[u].volumeID = VolumeOf[t] /\ file[u].stagingTarget = s
      <4>1. /\ file[u].volumeID = VolumeOf[u]
            /\ staged[VolumeOf[u]] = [path |-> file[u].stagingTarget, stopping |-> FALSE]
        BY <2>1, VisibleDirCoherent DEF CoherentDir
      <4> QED
        BY <1>2, <2>1, <4>1
    <3>2. u \in hasActivePublishTargets(VolumeOf[t], s)
      BY <2>1, <3>1 DEF hasActivePublishTargets
    <3> QED
      BY <1>2, <3>2 DEF checkMultiTargetAccess
  <2> QED
    BY <1>1, <1>2, <2>1 DEF NewRecordFits
<1>5. HandlerKnows(w)'
  <2>1. NewRecordFits(r)'
    BY <1>2, <1>4 DEF NewRecordFits
  <2> QED
    BY <1>1, <1>3, <2>1 DEF HandlerKnows
<1> QED
  BY <1>1, <1>3, <1>5, TargetStepKeeps

(* A pending target found mounted passes the read-only check, so its mount *)
(* is the requested one.                                                   *)
LEMMA PublishResumeKeeps ==
  ASSUME IInv, NEW w \in Workers, NEW t \in Targets, NEW s \in Stagings,
         NEW ro \in BOOLEAN, NEW m \in Modes, PublishResume(w, t, s, ro, m)
  PROVE  IInv'
<1> DEFINE step == IF mnt[t] # <<>> THEN "promote" ELSE "bind"
<1>1. /\ file[t].status = "pending" /\ file[t].readonly = ro
      /\ mnt[t] # <<>> => (ro => mnt[t][Len(mnt[t])] = "ro")
      /\ Begin(w, VolumeOf[t], step, file[t])
      /\ acked' = [acked EXCEPT ![t] = "none"]
      /\ UNCHANGED <<file, staged, images, mnt, health, faults>>
  BY DEF PublishResume, publishStateMatches, ReadonlyHonoured, MountedReadonly, IsMountPoint
<1>2. file[t] \in PublishStates /\ file[t].target = t /\ file[t].volumeID = VolumeOf[t]
  BY <1>1, RecordIdentity, NoRecordIsNoState
<1>3. /\ TargetFrame(w, t) /\ pc'[w] = step /\ local'[w] = file[t]
      /\ acked'[t] = "none" /\ TypeOK' /\ DirCoherent' /\ MountFitsRecord(t)'
  <2> HIDE DEF step
  <2>1. pc'[w] = step /\ local'[w] = file[t]
    BY <1>1 DEF Begin, IInv, TypeOK
  <2>2. Begin(w, VolumeOf[t], pc'[w], local'[w]) /\ pc'[w] \in TargetSteps
    BY <1>1, <2>1 DEF step, TargetSteps
  <2> QED
    BY <1>1, <1>2, <2>1, <2>2, BeginFrame
<1>4. mnt[t] # <<>> => mnt[t] = <<Option(ro)>>
  BY <1>1 DEF IInv, MountFitsRecord, Option
<1>5. HandlerKnows(w)'
  BY <1>1, <1>2, <1>3, <1>4 DEF HandlerKnows
<1> QED
  BY <1>2, <1>3, <1>5, TargetStepKeeps

(* An unpublish starts from the record on file. *)
LEMMA UnpublishKeeps ==
  ASSUME IInv, NEW w \in Workers, NEW t \in Targets, Unpublish(w, t)
  PROVE  IInv'
<1> DEFINE step == IF file[t].status = "unpublishing" THEN "unmount" ELSE "writeIntent"
<1>1. /\ file[t] # NoRecord
      /\ Begin(w, VolumeOf[t], step, file[t])
      /\ acked' = [acked EXCEPT ![t] = "none"]
      /\ UNCHANGED <<file, staged, images, mnt, health, faults>>
  BY DEF Unpublish
<1>2. file[t] \in PublishStates /\ file[t].target = t /\ file[t].volumeID = VolumeOf[t]
  BY <1>1, RecordIdentity
<1>3. /\ TargetFrame(w, t) /\ pc'[w] = step /\ local'[w] = file[t]
      /\ acked'[t] = "none" /\ TypeOK' /\ DirCoherent' /\ MountFitsRecord(t)'
  <2> HIDE DEF step
  <2>1. pc'[w] = step /\ local'[w] = file[t]
    BY <1>1 DEF Begin, IInv, TypeOK
  <2>2. Begin(w, VolumeOf[t], pc'[w], local'[w]) /\ pc'[w] \in TargetSteps
    BY <1>1, <2>1 DEF step, TargetSteps
  <2> QED
    BY <1>1, <1>2, <2>1, <2>2, BeginFrame
<1>4. file[t].status = "unpublishing" => file[t] = [file[t] EXCEPT !.status = "unpublishing"]
  BY <1>2 DEF PublishStates
<1>5. HandlerKnows(w)'
  BY <1>1, <1>2, <1>3, <1>4 DEF HandlerKnows, RecordIs
<1> QED
  BY <1>2, <1>3, <1>5, TargetStepKeeps

(* A handler at work on a target keeps its volume's mutex from a call. *)
LEMMA NobodyAtFreeTarget ==
  ASSUME IInv, NEW t \in Targets, LockFree(VolumeOf[t]), NEW w \in Workers,
         pc[w] \in TargetSteps
  PROVE  local[w].target # t
BY AtTarget, ConstantsAssumption DEF LockFree

(* Calls answered at once: a repeated publish and an unpublish of a target *)
(* that has neither record nor mount.                                      *)
LEMMA AnswerKeeps ==
  ASSUME IInv, NEW t \in Targets, LockFree(VolumeOf[t]),
         NEW answer \in {"published", "unpublished"},
         answer = "published" => file[t].status = "published" /\ mnt[t] # <<>>,
         answer = "unpublished" => mnt[t] = <<>>,
         acked' = [acked EXCEPT ![t] = answer],
         UNCHANGED <<file, staged, images, mnt, health, lock, pc, local, faults>>
  PROVE  IInv'
<1>1. TypeOK'
  BY DEF IInv, TypeOK
<1>2. DirCoherent'
  BY DirUnchangedKeeps
<1>3. LockDiscipline'
  BY DEF IInv, LockDiscipline
<1>4. ASSUME NEW u \in Targets PROVE MountFitsRecord(u)' /\ AnswerCovered(u)'
  <2>1. MountFitsRecord(u)'
    BY DEF IInv, MountFitsRecord
  <2>2. CASE u = t
    BY <2>1, <2>2, NobodyAtFreeTarget DEF IInv, TypeOK, AnswerCovered
  <2>3. CASE u # t
    BY <2>1, <2>3 DEF IInv, TypeOK, AnswerCovered
  <2> QED
    BY <2>2, <2>3
<1>5. ASSUME NEW x \in Workers PROVE HandlerKnows(x)'
  BY DEF IInv, HandlerKnows, NewRecordFits, RecordIs
<1>6. ASSUME NEW x \in Volumes PROVE UnstageKnows(x)'
  BY DEF IInv, UnstageKnows
<1> QED
  BY <1>1, <1>2, <1>3, <1>4, <1>5, <1>6 DEF IInv

-----------------------------------------------------------------------------
(* Unstaging and staging *)

(* A step of handler w about a whole volume: it touches no target, frees   *)
(* or takes only mutexes of its own, and changes the mount state only of a *)
(* volume it holds.                                                        *)
VolumeFrame(w) ==
  /\ pc[w] \in StageSteps \union {"idle"}
  /\ pc'[w] \in StageSteps \union {"idle"}
  /\ UNCHANGED <<file, mnt, acked>>
  /\ \A x \in Workers : x # w => pc'[x] = pc[x] /\ local'[x] = local[x]
  /\ \A x \in Volumes :
       /\ lock'[x] # lock[x] => lock[x] \in {w, NoWorker} /\ lock'[x] \in {w, NoWorker}
       /\ staged'[x] # staged[x] => lock[x] = w
       /\ lock'[x] = w => pc'[w] \in StageSteps
  /\ \A x, y \in Volumes : lock'[x] = w /\ lock'[y] = w => x = y

(* Such a step preserves IInv when it does so at its own volume. *)
LEMMA VolumeStepKeeps ==
  ASSUME IInv, NEW w \in Workers, VolumeFrame(w), TypeOK', DirCoherent',
         \A v \in Volumes : lock'[v] = w => UnstageKnows(v)'
  PROVE  IInv'
<1>1. \A x \in Workers : x # w /\ pc[x] \in TargetSteps =>
        /\ local[x] \in PublishStates
        /\ local[x].volumeID \in Volumes
        /\ local[x].volumeID = VolumeOf[local[x].target]
        /\ lock[local[x].volumeID] = x
        /\ lock'[local[x].volumeID] = x
        /\ staged'[local[x].volumeID] = staged[local[x].volumeID]
  BY ConstantsAssumption DEF IInv, LockDiscipline, VolumeFrame, PublishStates
<1>2. pc[w] \notin TargetSteps /\ pc'[w] \notin TargetSteps
  BY DEF VolumeFrame, TargetSteps, StageSteps
<1>3. LockDiscipline'
  <2>1. ASSUME NEW x \in Volumes, lock'[x] # NoWorker PROVE pc'[lock'[x]] # "idle"
    <3>1. CASE lock'[x] = w
      BY <3>1 DEF VolumeFrame, StageSteps
    <3>2. CASE lock'[x] # w
      BY <2>1, <3>2 DEF VolumeFrame, IInv, TypeOK, LockDiscipline
    <3> QED
      BY <3>1, <3>2
  <2>2. ASSUME NEW x \in Volumes, NEW y \in Volumes, lock'[x] = lock'[y], lock'[x] # NoWorker
        PROVE  x = y
    BY <2>2 DEF VolumeFrame, IInv, LockDiscipline
  <2>3. ASSUME NEW x \in Workers, pc'[x] \in TargetSteps
        PROVE  /\ local'[x] \in PublishStates
               /\ local'[x].volumeID = VolumeOf[local'[x].target]
               /\ lock'[local'[x].volumeID] = x
    BY <1>1, <1>2, <2>3 DEF VolumeFrame
  <2> QED
    BY <2>1, <2>2, <2>3 DEF LockDiscipline
<1>4. ASSUME NEW t \in Targets PROVE MountFitsRecord(t)' /\ AnswerCovered(t)'
  <2>1. MountFitsRecord(t)'
    BY DEF VolumeFrame, IInv, MountFitsRecord
  <2>2. AnswerCovered(t)'
    BY <1>2 DEF VolumeFrame, IInv, AnswerCovered
  <2> QED
    BY <2>1, <2>2
<1>5. ASSUME NEW x \in Workers PROVE HandlerKnows(x)'
  <2>1. CASE pc'[x] \notin TargetSteps
    BY <2>1 DEF HandlerKnows, TargetSteps
  <2>2. CASE pc'[x] \in TargetSteps
    <3>1. /\ x # w /\ pc'[x] = pc[x] /\ local'[x] = local[x] /\ pc[x] \in TargetSteps
          /\ file' = file /\ mnt' = mnt
      BY <1>2, <2>2 DEF VolumeFrame
    <3>2. NewRecordFits(local[x]) => NewRecordFits(local[x])'
      BY <1>1, <3>1 DEF NewRecordFits
    <3>3. HandlerKnows(x)
      BY DEF IInv
    <3> QED
      BY <3>1, <3>2, <3>3 DEF HandlerKnows, RecordIs
  <2> QED
    BY <2>1, <2>2
<1>6. ASSUME NEW x \in Volumes PROVE UnstageKnows(x)'
  <2>1. CASE lock'[x] = w
    BY <2>1
  <2>2. CASE lock'[x] = NoWorker
    BY <2>2 DEF UnstageKnows
  <2>3. CASE lock'[x] # w /\ lock'[x] # NoWorker
    <3>1. lock'[x] = lock[x] /\ staged'[x] = staged[x]
      BY <2>3 DEF VolumeFrame
    <3>2. pc'[lock[x]] = pc[lock[x]] /\ file' = file
      BY <2>3, <3>1 DEF VolumeFrame, IInv, TypeOK
    <3> QED
      BY <3>1, <3>2 DEF IInv, UnstageKnows
  <2> QED
    BY <2>1, <2>2, <2>3
<1> QED
  BY <1>3, <1>4, <1>5, <1>6 DEF IInv

(* The scan found no record at the staged path; by coherence there is none *)
(* of the volume at all.                                                   *)
LEMMA UnstageStartKeeps ==
  ASSUME IInv, NEW w \in Workers, NEW v \in Volumes, Unstage(w, v)
  PROVE  IInv'
<1> DEFINE step == IF staged[v].stopping THEN "teardown" ELSE "writeStopping"
<1>1. /\ staged[v] # NoStage
      /\ hasActivePublishTargets(v, staged[v].path) = {}
      /\ Begin(w, v, step, NoRecord)
      /\ UNCHANGED <<file, staged, images, mnt, health, acked, faults>>
  BY DEF Unstage
<1>2. step \in StageSteps /\ step # "syncDeleted"
  BY DEF StageSteps
<1> HIDE DEF step
<1>3. /\ pc[w] = "idle" /\ pc' = [pc EXCEPT ![w] = step]
      /\ lock[v] = NoWorker /\ lock' = [lock EXCEPT ![v] = w]
      /\ local' = [local EXCEPT ![w] = NoRecord]
  BY <1>1 DEF Begin, LockFree
<1>4. \A x \in Volumes : lock[x] # w
  BY <1>3, ConstantsAssumption DEF IInv, LockDiscipline
<1>5. VolumeFrame(w)
  BY <1>1, <1>2, <1>3, <1>4 DEF VolumeFrame, IInv, TypeOK
<1>6. TypeOK'
  BY <1>1, <1>2, <1>3 DEF IInv, TypeOK, Steps, StageSteps
<1>7. DirCoherent'
  BY <1>1, DirUnchangedKeeps
<1>8. ASSUME NEW t \in Targets, VolumeOf[t] = v PROVE file[t] = NoRecord
  <2>1. SUFFICES ASSUME file[t] # NoRecord PROVE FALSE
    OBVIOUS
  <2>2. /\ file[t].volumeID = v
        /\ staged[v] = [path |-> file[t].stagingTarget, stopping |-> FALSE]
    BY <1>8, <2>1, VisibleDirCoherent DEF CoherentDir
  <2>3. t \in hasActivePublishTargets(v, staged[v].path)
    BY <2>1, <2>2 DEF hasActivePublishTargets
  <2> QED
    BY <1>1, <2>3
<1>9. \A x \in Volumes : lock'[x] = w => UnstageKnows(x)'
  BY <1>1, <1>2, <1>3, <1>4, <1>8 DEF UnstageKnows, IInv, TypeOK
<1> QED
  BY <1>5, <1>6, <1>7, <1>9, VolumeStepKeeps

(* Changing the mount state of a volume without records is coherent. *)
LEMMA UnusedStageChange ==
  ASSUME IInv, NEW v \in Volumes, file' = file,
         \A x \in Volumes : x # v => staged'[x] = staged[x],
         \A t \in Targets : VolumeOf[t] = v => file[t] = NoRecord
  PROVE  CoherentDir(file', staged')
<1>1. CoherentDir(file, staged)
  BY VisibleDirCoherent
<1> QED
  BY <1>1, ConstantsAssumption DEF CoherentDir

(* Steps of an unstage handler that go on to another step. *)
LEMMA UnstageGotoFrame ==
  ASSUME IInv, NEW w \in Workers, pc[w] \in StageSteps, pc'[w] \in StageSteps,
         Goto(w, pc'[w]), UNCHANGED <<file, mnt, acked>>,
         \A x \in Volumes : staged'[x] # staged[x] => lock[x] = w
  PROVE  VolumeFrame(w)
BY ConstantsAssumption DEF VolumeFrame, Goto, IInv, TypeOK, LockDiscipline

(* An unstage handler that returns stays within its frame. *)
LEMMA UnstageReturnFrame ==
  ASSUME IInv, NEW w \in Workers, pc[w] \in StageSteps,
         Return(w), UNCHANGED <<file, mnt, acked, staged>>
  PROVE  VolumeFrame(w) /\ \A x \in Volumes : lock'[x] # w
BY ConstantsAssumption DEF VolumeFrame, Return, IInv, TypeOK

(* The stopping record replaces one that no target uses. *)
LEMMA WriteStoppingKeeps ==
  ASSUME IInv, NEW w \in Workers, NEW v \in Volumes, WriteStopping(w, v)
  PROVE  IInv'
<1>1. /\ pc[w] = "writeStopping" /\ lock[v] = w
      /\ staged' = [staged EXCEPT ![v] = [staged[v] EXCEPT !.stopping = TRUE]]
      /\ DirChanged /\ Goto(w, "syncStopping")
      /\ UNCHANGED <<file, mnt, health, acked, faults>>
  BY DEF WriteStopping
<1>2. /\ staged[v] \in StageRecords
      /\ \A t \in Targets : VolumeOf[t] = v => file[t] = NoRecord
  BY <1>1, ConstantsAssumption DEF IInv, UnstageKnows, StageSteps, TypeOK, StageFiles
<1>3. [staged[v] EXCEPT !.stopping = TRUE] \in StageRecords
  BY <1>2 DEF StageRecords
<1>4. /\ staged' \in StageFiles /\ staged'[v] \in StageRecords
      /\ \A x \in Volumes : x # v => staged'[x] = staged[x]
  BY <1>1, <1>3 DEF IInv, TypeOK, StageFiles
<1>5. pc'[w] = "syncStopping" /\ lock' = lock
  BY <1>1 DEF Goto, IInv, TypeOK
<1>6. VolumeFrame(w)
  BY <1>1, <1>4, <1>5, UnstageGotoFrame DEF StageSteps
<1>7. TypeOK'
  <2>1. file' \in Files
    BY <1>1 DEF IInv, TypeOK
  <2> QED
    BY <1>1, <1>4, <2>1, GotoTypes, ImagesTyped DEF IInv, TypeOK, Steps
<1>8. DirCoherent'
  BY <1>1, <1>2, <1>4, UnusedStageChange, DirChangedKeeps
<1>9. \A x \in Volumes : lock'[x] = w => UnstageKnows(x)'
  <2>1. \A x \in Volumes : lock[x] = w => x = v
    BY <1>1, ConstantsAssumption DEF IInv, LockDiscipline
  <2>2. staged'[v] # NoStage
    BY <1>4, ConstantsAssumption DEF StageRecords
  <2> QED
    BY <1>1, <1>2, <1>5, <2>1, <2>2 DEF UnstageKnows
<1> QED
  BY <1>6, <1>7, <1>8, <1>9, VolumeStepKeeps

(* The sync of the stopping record. *)
LEMMA SyncStoppingKeeps ==
  ASSUME IInv, NEW w \in Workers, SyncStopping(w) PROVE IInv'
<1>1. /\ pc[w] = "syncStopping"
      /\ DirSynced /\ Goto(w, "teardown")
      /\ UNCHANGED <<file, staged, mnt, health, acked, faults>>
  BY DEF SyncStopping, Sync
<1>2. pc'[w] = "teardown" /\ lock' = lock
  BY <1>1 DEF Goto, IInv, TypeOK
<1>3. VolumeFrame(w)
  BY <1>1, <1>2, UnstageGotoFrame DEF StageSteps
<1>4. TypeOK'
  BY <1>1, GotoTypes, ImagesTyped DEF IInv, TypeOK, Steps
<1>5. DirCoherent'
  BY <1>1, DirSyncedKeeps
<1>6. \A x \in Volumes : lock'[x] = w => UnstageKnows(x)'
  BY <1>1, <1>2 DEF IInv, UnstageKnows, StageSteps
<1> QED
  BY <1>3, <1>4, <1>5, <1>6, VolumeStepKeeps

(* Taking the staging mount down touches no record. *)
LEMMA TeardownKeeps ==
  ASSUME IInv, NEW w \in Workers, NEW v \in Volumes, Teardown(w, v)
  PROVE  IInv'
<1>1. /\ pc[w] = "teardown"
      /\ health' = [health EXCEPT ![v] = "gone"] /\ Goto(w, "delete")
      /\ UNCHANGED <<file, staged, images, mnt, acked, faults>>
  BY DEF Teardown
<1>2. pc'[w] = "delete" /\ lock' = lock
  BY <1>1 DEF Goto, IInv, TypeOK
<1>3. VolumeFrame(w)
  BY <1>1, <1>2, UnstageGotoFrame DEF StageSteps
<1>4. TypeOK'
  BY <1>1, GotoTypes DEF IInv, TypeOK, Steps
<1>5. DirCoherent'
  BY <1>1, DirUnchangedKeeps
<1>6. \A x \in Volumes : lock'[x] = w => UnstageKnows(x)'
  BY <1>1, <1>2 DEF IInv, UnstageKnows, StageSteps
<1> QED
  BY <1>3, <1>4, <1>5, <1>6, VolumeStepKeeps

(* The mount state is deleted while no target uses it. *)
LEMMA DeleteStateKeeps ==
  ASSUME IInv, NEW w \in Workers, NEW v \in Volumes, DeleteState(w, v)
  PROVE  IInv'
<1>1. /\ pc[w] = "delete" /\ lock[v] = w
      /\ staged' = [staged EXCEPT ![v] = NoStage]
      /\ DirChanged /\ Goto(w, "syncDeleted")
      /\ UNCHANGED <<file, mnt, health, acked, faults>>
  BY DEF DeleteState
<1>2. \A t \in Targets : VolumeOf[t] = v => file[t] = NoRecord
  BY <1>1, ConstantsAssumption DEF IInv, UnstageKnows, StageSteps
<1>3. /\ staged' \in StageFiles
      /\ \A x \in Volumes : x # v => staged'[x] = staged[x]
  BY <1>1 DEF IInv, TypeOK, StageFiles
<1>4. pc'[w] = "syncDeleted" /\ lock' = lock
  BY <1>1 DEF Goto, IInv, TypeOK
<1>5. VolumeFrame(w)
  BY <1>1, <1>3, <1>4, UnstageGotoFrame DEF StageSteps
<1>6. TypeOK'
  <2>1. file' \in Files
    BY <1>1 DEF IInv, TypeOK
  <2> QED
    BY <1>1, <1>3, <2>1, GotoTypes, ImagesTyped DEF IInv, TypeOK, Steps
<1>7. DirCoherent'
  BY <1>1, <1>2, <1>3, UnusedStageChange, DirChangedKeeps
<1>8. \A x \in Volumes : lock'[x] = w => UnstageKnows(x)'
  <2>1. \A x \in Volumes : lock[x] = w => x = v
    BY <1>1, ConstantsAssumption DEF IInv, LockDiscipline
  <2> QED
    BY <1>1, <1>2, <1>4, <2>1 DEF UnstageKnows
<1> QED
  BY <1>5, <1>6, <1>7, <1>8, VolumeStepKeeps

(* The sync of the deletion ends the unstage. *)
LEMMA SyncDeletedKeeps ==
  ASSUME IInv, NEW w \in Workers, SyncDeleted(w) PROVE IInv'
<1>1. /\ pc[w] = "syncDeleted" /\ DirSynced /\ Return(w)
      /\ UNCHANGED <<file, staged, mnt, health, acked, faults>>
  BY DEF SyncDeleted
<1>2. VolumeFrame(w) /\ \A x \in Volumes : lock'[x] # w
  BY <1>1, UnstageReturnFrame DEF StageSteps
<1>3. TypeOK'
  BY <1>1, ReturnTypes, ImagesTyped DEF IInv, TypeOK
<1>4. DirCoherent'
  BY <1>1, DirSyncedKeeps
<1> QED
  BY <1>2, <1>3, <1>4, VolumeStepKeeps

-----------------------------------------------------------------------------
(* Staging and the environment *)

(* NodeStageVolume moves a volume only when no record uses its old path,   *)
(* and otherwise rewrites the path on record.                              *)
LEMMA StageVolumeKeeps ==
  ASSUME IInv, NEW v \in Volumes, NEW s \in Stagings, StageVolume(v, s)
  PROVE  IInv'
<1> DEFINE rec == [path |-> s, stopping |-> FALSE]
<1>1. /\ lock[v] = NoWorker
      /\ StageAllowed(v, s)
      /\ staged' = [staged EXCEPT ![v] = rec]
      /\ images' = {Image(file', staged')}
      /\ UNCHANGED <<file, mnt, lock, pc, local, acked, faults>>
  BY DEF StageVolume, LockFree, Image
<1>2. health' \in [Volumes -> {"up", "disconnected", "gone"}]
  BY DEF StageVolume, IInv, TypeOK
<1>3. rec \in StageRecords
  BY DEF StageRecords
<1>4. /\ staged' \in StageFiles /\ staged'[v] = rec
      /\ \A x \in Volumes : x # v => staged'[x] = staged[x]
  BY <1>1, <1>3 DEF IInv, TypeOK, StageFiles
<1> HIDE DEF rec
<1>5. TypeOK'
  BY <1>1, <1>2, <1>4 DEF IInv, TypeOK, Image
<1>6. ASSUME NEW t \in Targets, VolumeOf[t] = v, file[t] # NoRecord
      PROVE  s = file[t].stagingTarget
  <2>1. /\ file[t].volumeID = v
        /\ staged[v] = [path |-> file[t].stagingTarget, stopping |-> FALSE]
    BY <1>6, VisibleDirCoherent DEF CoherentDir
  <2>2. t \in hasActivePublishTargets(v, staged[v].path)
    BY <1>6, <2>1 DEF hasActivePublishTargets
  <2>3. staged[v] # NoStage
    <3>1. file[t].stagingTarget \in Stagings
      BY <1>6 DEF IInv, TypeOK, Files, PublishStates
    <3>2. staged[v] \in StageRecords
      BY <2>1, <3>1 DEF StageRecords
    <3> QED
      BY <3>2, ConstantsAssumption DEF StageRecords
  <2> QED
    BY <1>1, <2>1, <2>2, <2>3 DEF StageAllowed
<1>7. CoherentDir(file', staged')
  <2>1. CoherentDir(file, staged)
    BY VisibleDirCoherent
  <2>2. ASSUME NEW t \in Targets, file[t] # NoRecord
        PROVE  staged'[VolumeOf[t]] = [path |-> file[t].stagingTarget, stopping |-> FALSE]
    <3>1. CASE VolumeOf[t] = v
      BY <1>4, <1>6, <2>2, <3>1 DEF rec
    <3>2. CASE VolumeOf[t] # v
      BY <1>4, <2>1, <2>2, <3>2, ConstantsAssumption DEF CoherentDir
    <3> QED
      BY <3>1, <3>2
  <2> QED
    BY <1>1, <2>1, <2>2 DEF CoherentDir
<1>8. DirCoherent'
  <2>1. CoherentDir(Image(file', staged').file, Image(file', staged').staged)
    BY <1>7 DEF Image
  <2> QED
    BY <1>1, <2>1 DEF DirCoherent, CoherentDir, Image
<1>9. LockDiscipline'
  BY <1>1 DEF IInv, LockDiscipline
<1>10. \A t \in Targets : MountFitsRecord(t)' /\ AnswerCovered(t)'
  BY <1>1 DEF IInv, MountFitsRecord, AnswerCovered
<1>11. ASSUME NEW w \in Workers PROVE HandlerKnows(w)'
  <2>1. ASSUME pc[w] = "writePending" PROVE NewRecordFits(local[w])'
    <3>1. /\ local[w].volumeID \in Volumes /\ lock[local[w].volumeID] = w
          /\ NewRecordFits(local[w])
      BY <2>1, AtTarget DEF TargetSteps, HandlerKnows
    <3>2. staged'[local[w].volumeID] = staged[local[w].volumeID]
      BY <1>1, <1>4, <3>1, ConstantsAssumption
    <3> QED
      BY <1>1, <3>1, <3>2 DEF NewRecordFits
  <2>2. HandlerKnows(w)
    BY DEF IInv
  <2> QED
    BY <1>1, <2>1, <2>2 DEF HandlerKnows, RecordIs
<1>12. \A x \in Volumes : UnstageKnows(x)'
  BY <1>1, <1>4 DEF IInv, UnstageKnows
<1> QED
  BY <1>5, <1>8, <1>9, <1>10, <1>11, <1>12 DEF IInv

(* A change of nothing but health and the fault count preserves IInv. *)
LEMMA OnlyHealthKeeps ==
  ASSUME IInv, UNCHANGED <<file, staged, images, mnt, lock, pc, local, acked, faults>>,
         health' \in [Volumes -> {"up", "disconnected", "gone"}]
  PROVE  IInv'
<1>1. TypeOK'
  BY DEF IInv, TypeOK
<1>2. DirCoherent'
  BY DirUnchangedKeeps
<1>3. LockDiscipline'
  BY DEF IInv, LockDiscipline
<1>4. \A t \in Targets : MountFitsRecord(t)' /\ AnswerCovered(t)'
  BY DEF IInv, MountFitsRecord, AnswerCovered
<1>5. \A w \in Workers : HandlerKnows(w)'
  BY DEF IInv, HandlerKnows, RecordIs, NewRecordFits
<1>6. \A v \in Volumes : UnstageKnows(v)'
  BY DEF IInv, UnstageKnows
<1> QED
  BY <1>1, <1>2, <1>3, <1>4, <1>5, <1>6 DEF IInv

(* The staging mount fails on its own. *)
LEMMA HealthLossKeeps ==
  ASSUME IInv, NEW v \in Volumes, HealthLoss(v) PROVE IInv'
<1>1. health' \in [Volumes -> {"up", "disconnected", "gone"}]
  BY DEF HealthLoss, IInv, TypeOK
<1> QED
  BY <1>1, OnlyHealthKeeps DEF HealthLoss

(* An operation fails without effect and the handler returns. *)
LEMMA OperationFailsKeeps ==
  ASSUME IInv, NEW w \in Workers, OperationFails(w) PROVE IInv'
<1>1. /\ pc[w] # "idle" /\ faults < MaxFaults /\ faults' = faults + 1
      /\ Return(w)
      /\ UNCHANGED <<file, staged, images, mnt, health, acked>>
  BY DEF OperationFails
<1>2. TypeOK'
  BY <1>1, ReturnTypes, ConstantsAssumption DEF IInv, TypeOK
<1>3. DirCoherent'
  BY <1>1, DirUnchangedKeeps
<1>4. CASE pc[w] \in TargetSteps
  <2> PICK t \in Targets : t = local[w].target
    BY <1>4, AtTarget
  <2>1. TargetFrame(w, t) /\ pc'[w] = "idle"
    BY <1>1, <1>4, ReturnFrame DEF OnlyTarget
  <2>2. MountFitsRecord(t)'
    BY <1>1 DEF IInv, MountFitsRecord
  <2>3. HandlerKnows(w)'
    BY <2>1 DEF HandlerKnows
  <2>4. acked'[t] = "none"
    BY <1>1, <1>4, AtTarget
  <2>5. ~(pc'[w] \in TargetSteps)
    BY <2>1 DEF TargetSteps
  <2> QED
    BY <1>2, <1>3, <2>1, <2>2, <2>3, <2>4, <2>5, TargetStepKeeps
<1>5. CASE pc[w] \in StageSteps
  <2>1. VolumeFrame(w) /\ \A x \in Volumes : lock'[x] # w
    BY <1>1, <1>5, UnstageReturnFrame
  <2> QED
    BY <1>2, <1>3, <2>1, VolumeStepKeeps
<1>6. pc[w] \in TargetSteps \/ pc[w] \in StageSteps
  BY <1>1 DEF IInv, TypeOK, Steps, TargetSteps, StageSteps
<1> QED
  BY <1>4, <1>5, <1>6

(* With no handler left nothing is known and no mutex is held. *)
LEMMA HandlersDieKeeps ==
  ASSUME TypeOK, HandlersDie
  PROVE  /\ LockDiscipline'
         /\ \A w \in Workers : HandlerKnows(w)'
         /\ \A v \in Volumes : UnstageKnows(v)'
         /\ \A w \in Workers : pc'[w] = "idle"
         /\ lock' \in [Volumes -> Workers \union {NoWorker}]
         /\ pc' \in [Workers -> Steps]
         /\ local' \in [Workers -> PublishStates \union {NoRecord}]
<1>1. LockDiscipline'
  BY DEF HandlersDie, LockDiscipline, TargetSteps
<1>2. \A w \in Workers : HandlerKnows(w)'
  BY DEF HandlersDie, HandlerKnows
<1>3. \A v \in Volumes : UnstageKnows(v)'
  BY DEF HandlersDie, UnstageKnows
<1> QED
  BY <1>1, <1>2, <1>3 DEF HandlersDie, Steps

(* A crash of the plugin leaves records and mounts as they are. *)
LEMMA PluginCrashKeeps ==
  ASSUME IInv, PluginCrash PROVE IInv'
<1>1. /\ faults < MaxFaults /\ faults' = faults + 1 /\ HandlersDie
      /\ UNCHANGED <<file, staged, images, mnt, health, acked>>
  BY DEF PluginCrash
<1>2. /\ LockDiscipline'
      /\ \A w \in Workers : HandlerKnows(w)'
      /\ \A v \in Volumes : UnstageKnows(v)'
      /\ \A w \in Workers : pc'[w] = "idle"
      /\ lock' \in [Volumes -> Workers \union {NoWorker}]
      /\ pc' \in [Workers -> Steps]
      /\ local' \in [Workers -> PublishStates \union {NoRecord}]
  BY <1>1, HandlersDieKeeps DEF IInv
<1>3. TypeOK'
  BY <1>1, <1>2, ConstantsAssumption DEF IInv, TypeOK
<1>4. DirCoherent'
  BY <1>1, DirUnchangedKeeps
<1>5. \A t \in Targets : MountFitsRecord(t)' /\ AnswerCovered(t)'
  BY <1>1, <1>2 DEF IInv, MountFitsRecord, AnswerCovered, TargetSteps
<1> QED
  BY <1>2, <1>3, <1>4, <1>5 DEF IInv

(* After a power loss the directory is one of its images, which were all   *)
(* coherent, and nothing is mounted.                                       *)
LEMMA PowerLossKeeps ==
  ASSUME IInv, PowerLoss PROVE IInv'
<1>1. PICK i \in images : file' = i.file /\ staged' = i.staged /\ images' = {i}
  BY DEF PowerLoss
<1>2. /\ faults < MaxFaults /\ faults' = faults + 1 /\ HandlersDie
      /\ mnt' = [t \in Targets |-> <<>>]
      /\ health' = [v \in Volumes |-> "gone"]
      /\ acked' = [t \in Targets |-> IF acked[t] = "published" THEN "none" ELSE acked[t]]
  BY DEF PowerLoss
<1>3. /\ LockDiscipline'
      /\ \A w \in Workers : HandlerKnows(w)'
      /\ \A v \in Volumes : UnstageKnows(v)'
      /\ \A w \in Workers : pc'[w] = "idle"
      /\ lock' \in [Volumes -> Workers \union {NoWorker}]
      /\ pc' \in [Workers -> Steps]
      /\ local' \in [Workers -> PublishStates \union {NoRecord}]
  BY <1>2, HandlersDieKeeps DEF IInv
<1>4. i \in [file : Files, staged : StageFiles] /\ CoherentDir(i.file, i.staged)
  BY DEF IInv, TypeOK, DirCoherent
<1>5. TypeOK'
  <2>1. mnt' \in [Targets -> Seq(MountOptions)]
    BY <1>2
  <2>2. acked' \in [Targets -> {"none", "published", "unpublished"}]
    BY <1>2 DEF IInv, TypeOK
  <2>3. health' \in [Volumes -> {"up", "disconnected", "gone"}]
    BY <1>2
  <2>4. faults' \in 0 .. MaxFaults
    BY <1>2, ConstantsAssumption DEF IInv, TypeOK
  <2> QED
    BY <1>1, <1>3, <1>4, <2>1, <2>2, <2>3, <2>4 DEF TypeOK
<1>6. DirCoherent'
  <2>1. Image(file', staged') = i
    BY <1>1, <1>4 DEF Image
  <2>2. Image(file', staged') \in images'
    BY <1>1, <2>1
  <2>3. \A j \in images' : CoherentDir(j.file, j.staged)
    BY <1>1, <1>4
  <2> QED
    BY <2>2, <2>3 DEF DirCoherent, CoherentDir, Image
<1>7. \A t \in Targets : MountFitsRecord(t)'
  BY <1>2 DEF MountFitsRecord
<1>8. \A t \in Targets : AnswerCovered(t)'
  BY <1>2, <1>3 DEF IInv, TypeOK, AnswerCovered, TargetSteps
<1> QED
  BY <1>3, <1>5, <1>6, <1>7, <1>8 DEF IInv

-----------------------------------------------------------------------------
(* The invariant *)

(* Every step of a handler at work preserves IInv. *)
LEMMA HandlerStepKeeps ==
  ASSUME IInv, NEW w \in Workers, HandlerStep(w) PROVE IInv'
<1>1. CASE PublishStep(w)
  BY <1>1, WritePendingKeeps, SyncPendingKeeps, BindKeeps, RemountKeeps, PromoteKeeps,
     SyncPublishedKeeps DEF PublishStep
<1>2. CASE UnpublishStep(w)
  BY <1>2, WriteIntentKeeps, SyncIntentKeeps, UnmountKeeps, RemoveKeeps, SyncRemovedKeeps
     DEF UnpublishStep
<1>3. CASE UnstageStep(w)
  BY <1>3, WriteStoppingKeeps, SyncStoppingKeeps, TeardownKeeps, DeleteStateKeeps,
     SyncDeletedKeeps DEF UnstageStep
<1> QED
  BY <1>1, <1>2, <1>3 DEF HandlerStep

(* Requests that are answered at once. *)
LEMMA PublishRepeatKeeps ==
  ASSUME IInv, NEW t \in Targets, NEW s \in Stagings, NEW ro \in BOOLEAN, NEW m \in Modes,
         PublishRepeat(t, s, ro, m)
  PROVE  IInv'
BY AnswerKeeps DEF PublishRepeat, IsMountPoint

(* Nothing on record and nothing mounted: the answer holds. *)
LEMMA UnpublishAbsentKeeps ==
  ASSUME IInv, NEW t \in Targets, UnpublishAbsent(t) PROVE IInv'
BY AnswerKeeps DEF UnpublishAbsent, IsMountPoint

(* IInv is inductive. *)
LEMMA NextKeeps == IInv /\ [Next]_vars => IInv'
<1> SUFFICES ASSUME IInv, [Next]_vars PROVE IInv'
  OBVIOUS
<1>1. ASSUME NEW w \in Workers, NEW t \in Targets, PublishCall(w, t) PROVE IInv'
  BY <1>1, PublishNewKeeps, PublishResumeKeeps, PublishRepeatKeeps DEF PublishCall
<1>2. ASSUME NEW w \in Workers, NEW t \in Targets, Unpublish(w, t) PROVE IInv'
  BY <1>2, UnpublishKeeps
<1>3. ASSUME NEW t \in Targets, UnpublishAbsent(t) PROVE IInv'
  BY <1>3, UnpublishAbsentKeeps
<1>4. ASSUME NEW w \in Workers, NEW v \in Volumes, Unstage(w, v) PROVE IInv'
  BY <1>4, UnstageStartKeeps
<1>5. ASSUME NEW v \in Volumes, NEW s \in Stagings, StageVolume(v, s) PROVE IInv'
  BY <1>5, StageVolumeKeeps
<1>6. ASSUME NEW w \in Workers, HandlerStep(w) PROVE IInv'
  BY <1>6, HandlerStepKeeps
<1>7. CASE Fault
  BY <1>7, RemountFailsKeeps, OperationFailsKeeps, HealthLossKeeps, PluginCrashKeeps,
     PowerLossKeeps DEF Fault
<1>8. CASE UNCHANGED vars
  <2>1. /\ UNCHANGED <<file, staged, images, mnt, lock, pc, local, acked, faults>>
        /\ health' \in [Volumes -> {"up", "disconnected", "gone"}]
    BY <1>8 DEF vars, IInv, TypeOK
  <2> QED
    BY <2>1, OnlyHealthKeeps
<1> QED
  BY <1>1, <1>2, <1>3, <1>4, <1>5, <1>6, <1>7, <1>8 DEF Next

(* In every reachable state, for any sets of volumes, targets and handlers *)
(* and any number of faults, the directory is coherent in all recoverable  *)
(* images, mounts fit their records and every handler's view is current.   *)
THEOREM InductiveInvariant == Spec => []IInv
BY InitIInv, NextKeeps, PTL DEF Spec

(* The type invariant. *)
THEOREM TypeCorrect == Spec => []TypeOK
<1>1. IInv => TypeOK
  BY DEF IInv
<1> QED
  BY <1>1, InductiveInvariant, PTL

(* No interleaving, failure or crash leaves a bind mount that              *)
(* NodeUnpublishVolume would refuse for want of a record.                  *)
THEOREM BindsAreRecorded == Spec => []BoundImpliesRecord
<1>1. IInv => BoundImpliesRecord
  BY DEF IInv, BoundImpliesRecord, MountFitsRecord, IsMountPoint
<1> QED
  BY <1>1, InductiveInvariant, PTL

(* No retry of NodePublishVolume binds over an existing bind mount. *)
THEOREM BindsAreSingle == Spec => []NoStackedBind
<1>1. Len(<<>>) = 0 /\ Len(<<"ro">>) = 1 /\ Len(<<"rw">>) = 1
  OBVIOUS
<1>2. ASSUME IInv, NEW t \in Targets PROVE Len(mnt[t]) <= 1
  <2>1. mnt[t] \in {<<>>, <<"ro">>, <<"rw">>}
    BY <1>2 DEF IInv, MountFitsRecord
  <2>2. Len(mnt[t]) = 0 \/ Len(mnt[t]) = 1
    BY <1>1, <2>1
  <2>3. \A n : n = 0 \/ n = 1 => n <= 1
    OBVIOUS
  <2> QED
    BY <2>2, <2>3
<1>3. IInv => NoStackedBind
  BY <1>2 DEF NoStackedBind
<1> QED
  BY <1>3, InductiveInvariant, PTL

(* A published target is mounted read-only exactly when asked so, although *)
(* bind and remount are two steps and either may fail.                     *)
THEOREM ReadonlyIsKept == Spec => []PublishedAsRequested
<1>1. IInv => PublishedAsRequested
  BY Zenon DEF IInv, PublishedAsRequested, MountFitsRecord, IsMountPoint
<1> QED
  BY <1>1, InductiveInvariant, PTL

(* What kubelet was told of a target still holds until it asks again. *)
THEOREM AnswersAreKept == Spec => []AnswersHold
<1>1. IInv => AnswersHold
  BY DEF IInv, AnswersHold, AnswerCovered, IsMountPoint
<1> QED
  BY <1>1, InductiveInvariant, PTL

(* Targets of one volume share a multi-writer access mode, also after a    *)
(* power loss between the rename of a record and the directory sync.       *)
THEOREM AccessModesAgree == Spec => []AccessExclusive
<1>1. ASSUME IInv PROVE AccessExclusive
  <2>1. CoherentDir(file, staged)
    BY <1>1, VisibleDirCoherent
  <2>2. \A t \in Targets : file[t] # NoRecord => file[t].volumeID = VolumeOf[t]
    BY <2>1 DEF CoherentDir
  <2>3. \A t, u \in Targets :
          t # u /\ file[t] # NoRecord /\ file[u] # NoRecord /\ VolumeOf[t] = VolumeOf[u]
            => file[t].accessMode = file[u].accessMode /\ file[t].accessMode \in MultiModes
    BY <2>1 DEF CoherentDir
  <2> QED
    BY <2>2, <2>3 DEF AccessExclusive
<1> QED
  BY <1>1, InductiveInvariant, PTL

(* No unstage, staging at another path or power loss takes the mount state *)
(* away from a volume that some target still has on record.                *)
THEOREM ConsumersAreStaged == Spec => []ConsumersKeepStage
<1>1. ASSUME IInv PROVE ConsumersKeepStage
  <2> SUFFICES ASSUME NEW i \in images, NEW t \in Targets, i.file[t] # NoRecord
               PROVE  /\ i.staged[i.file[t].volumeID] # NoStage
                      /\ i.staged[i.file[t].volumeID].path = i.file[t].stagingTarget
    BY DEF ConsumersKeepStage
  <2>1. /\ i.file[t].volumeID = VolumeOf[t]
        /\ i.staged[VolumeOf[t]] = [path |-> i.file[t].stagingTarget, stopping |-> FALSE]
    BY <1>1 DEF IInv, DirCoherent, CoherentDir
  <2>2. i.file[t].stagingTarget \in Stagings
    <3>1. i.file \in Files
      BY <1>1 DEF IInv, TypeOK
    <3>2. i.file[t] \in PublishStates
      BY <3>1 DEF Files
    <3> QED
      BY <3>2 DEF PublishStates
  <2>3. i.staged[VolumeOf[t]] \in StageRecords
    BY <2>1, <2>2 DEF StageRecords
  <2>4. i.staged[VolumeOf[t]] # NoStage
    BY <2>3, ConstantsAssumption DEF StageRecords
  <2>5. i.staged[VolumeOf[t]].path = i.file[t].stagingTarget
    BY <2>1
  <2> QED
    BY <2>1, <2>4, <2>5
<1> QED
  BY <1>1, InductiveInvariant, PTL

(* A staging mount is stopped only when no record uses it. *)
THEOREM StoppedIsUnused == Spec => []StoppingHasNoConsumer
<1>1. ASSUME IInv PROVE StoppingHasNoConsumer
  <2> SUFFICES ASSUME NEW v \in Volumes, staged[v] # NoStage, staged[v].stopping,
                      NEW t \in hasActivePublishTargets(v, staged[v].path)
               PROVE  FALSE
    BY DEF StoppingHasNoConsumer, hasActivePublishTargets
  <2>1. t \in Targets /\ file[t] # NoRecord /\ file[t].volumeID = v
    BY DEF hasActivePublishTargets
  <2>2. staged[v] = [path |-> file[t].stagingTarget, stopping |-> FALSE]
    BY <1>1, <2>1, VisibleDirCoherent DEF CoherentDir
  <2> QED
    BY <2>2
<1> QED
  BY <1>1, InductiveInvariant, PTL

-----------------------------------------------------------------------------
(* Refinement of PublishContract *)

(* The images seen by the contract. *)
Recoverable(ims) == {Statuses(i.file) : i \in ims}

Bound == [t \in Targets |-> IsMountPoint(t)]

(* The contract's view of a step that changes no status, no mount and no   *)
(* image is a stuttering step.                                             *)
LEMMA ViewUnchanged ==
  ASSUME file' = file, mnt' = mnt, Recoverable(images') = Recoverable(images)
  PROVE  UNCHANGED Contract!vars
<1>1. Statuses(file)' = Statuses(file)
  BY DEF Statuses
<1>2. Bound' = Bound
  BY DEF Bound, IsMountPoint
<1>3. Recoverable(images)' = Recoverable(images)
  BY DEF Recoverable, Statuses
<1> QED
  BY <1>1, <1>2, <1>3 DEF Contract!vars, Bound, Recoverable

(* A sync of the directory settles the recoverable statuses, whatever it   *)
(* does to the mount state.                                                *)
LEMMA SyncSettles ==
  ASSUME file' = file, mnt' = mnt, NEW s, images' = {Image(file, s)}
  PROVE  Contract!Next
<1>1. Statuses(file)' = Statuses(file)
  BY DEF Statuses
<1>2. Bound' = Bound
  BY DEF Bound, IsMountPoint
<1>3. Recoverable(images)' = {Statuses(file)}
  BY DEF Recoverable, Statuses, Image
<1>4. Contract!Settle
  BY <1>1, <1>2, <1>3 DEF Contract!Settle, Bound, Recoverable
<1> QED
  BY <1>4 DEF Contract!Next

(* A rename that leaves the publish records alone adds no image.           *)
LEMMA StageRenameStutters ==
  ASSUME IInv, file' = file, mnt' = mnt, DirChanged
  PROVE  UNCHANGED Contract!vars
<1>1. Image(file, staged) \in images
  BY DEF IInv, DirCoherent
<1>2. Image(file, staged).file = file /\ Image(file', staged').file = file
  BY DEF Image
<1>3. Recoverable(images') = Recoverable(images)
  BY <1>1, <1>2 DEF DirChanged, Recoverable
<1> QED
  BY <1>3, ViewUnchanged

(* A change of one record to another status is a transition of the         *)
(* contract when it is legal and the target is bound as needed.            *)
LEMMA RecordAdvances ==
  ASSUME IInv, NEW t \in Targets,
         \A u \in Targets : u # t => file'[u] = file[u],
         mnt' = mnt, DirChanged,
         Contract!LegalTransition(file[t].status, file'[t].status),
         file'[t].status \in {"none", "pending"} => mnt[t] = <<>>,
         file'[t].status = "published" => mnt[t] # <<>>
  PROVE  Contract!Next
<1> PICK st : st = file'[t].status
  OBVIOUS
<1>1. Statuses(file)' = [Statuses(file) EXCEPT ![t] = st]
  BY DEF Statuses
<1>2. Bound' = Bound
  BY DEF Bound, IsMountPoint
<1>3. Recoverable(images)' = Recoverable(images) \union {Statuses(file)'}
  <2>1. Image(file', staged').file = file'
    BY DEF Image
  <2>2. Recoverable(images') = Recoverable(images) \union {Statuses(file')}
    BY <2>1 DEF DirChanged, Recoverable
  <2>3. Statuses(file)' = Statuses(file') /\ Recoverable(images)' = Recoverable(images')
    BY DEF Statuses, Recoverable
  <2> QED
    BY <2>2, <2>3
<1>4. Statuses(file)[t] = file[t].status
  BY DEF Statuses
<1>5. Contract!BoundAsNeeded(t, st)
  BY DEF Contract!BoundAsNeeded, IsMountPoint
<1>6. Contract!LegalTransition(file[t].status, st) /\ st \in Contract!Statuses
  BY DEF Contract!LegalTransition, Contract!Statuses
<1>7. Contract!Advance(t, st)
  BY <1>1, <1>2, <1>3, <1>4, <1>5, <1>6 DEF Contract!Advance, Bound, Recoverable
<1> QED
  BY <1>6, <1>7 DEF Contract!Next

(* Binding or remounting under a pending record, and unmounting under a    *)
(* pending or unpublishing one.                                            *)
LEMMA MountChanges ==
  ASSUME IInv, NEW t \in Targets, file' = file, images' = images,
         \A u \in Targets : u # t => mnt'[u] = mnt[u],
         \/ file[t].status = "pending"
         \/ file[t].status = "unpublishing" /\ mnt'[t] = <<>>
  PROVE  Contract!Next
<1>1. Statuses(file)' = Statuses(file) /\ Statuses(file)[t] = file[t].status
  BY DEF Statuses
<1>2. Recoverable(images)' = Recoverable(images)
  BY DEF Recoverable, Statuses
<1>3. CASE mnt'[t] = <<>>
  <2>1. Bound' = [Bound EXCEPT ![t] = FALSE]
    BY <1>3 DEF Bound, IsMountPoint
  <2>2. Contract!UnbindTarget(t)
    BY <1>1, <1>2, <2>1 DEF Contract!UnbindTarget, Bound, Recoverable
  <2> QED
    BY <2>2 DEF Contract!Next
<1>4. CASE mnt'[t] # <<>>
  <2>1. Bound' = [Bound EXCEPT ![t] = TRUE]
    BY <1>4 DEF Bound, IsMountPoint
  <2>2. Contract!BindTarget(t)
    BY <1>1, <1>2, <1>4, <2>1 DEF Contract!BindTarget, Bound, Recoverable
  <2> QED
    BY <2>2 DEF Contract!Next
<1> QED
  BY <1>3, <1>4

(* A record change at one target, seen by its new status. *)
Became(t, st) ==
  /\ \A u \in Targets : u # t => file'[u] = file[u]
  /\ file'[t].status = st
  /\ mnt' = mnt
  /\ DirChanged

(* The records a publish or unpublish handler writes. *)
LEMMA RenamesRefine ==
  ASSUME IInv, NEW w \in Workers, WritePending(w) \/ Promote(w) \/ WriteIntent(w)
  PROVE  Contract!Next \/ UNCHANGED Contract!vars
<1>1. pc[w] \in TargetSteps
  BY DEF WritePending, Promote, WriteIntent, TargetSteps
<1> PICK t \in Targets : t = local[w].target
  BY <1>1, AtTarget
<1>2. local[w] \in PublishStates /\ HandlerKnows(w) /\ MountFitsRecord(t)
  BY <1>1, AtTarget
<1>3. ASSUME NEW st \in PublishStatuses, Rename(w, st)
      PROVE  Became(t, st) /\ file'[t] = [local[w] EXCEPT !.status = st]
  <2>1. /\ file' = [file EXCEPT ![t] = [local[w] EXCEPT !.status = st]]
        /\ mnt' = mnt /\ DirChanged
    BY <1>3 DEF Rename
  <2>2. [local[w] EXCEPT !.status = st].status = st
    BY <1>2, StatusRewritten
  <2> QED
    BY <2>1, <2>2 DEF Became, IInv, TypeOK, Files
<1>4. CASE WritePending(w)
  <2>1. file[t] = NoRecord /\ mnt[t] = <<>> /\ Rename(w, "pending")
    BY <1>2, <1>4 DEF WritePending, HandlerKnows, NewRecordFits, MountFitsRecord
  <2>2. Contract!LegalTransition(file[t].status, "pending")
    BY <2>1, NoRecordIsNoState DEF Contract!LegalTransition
  <2>3. Became(t, "pending")
    BY <1>3, <2>1 DEF PublishStatuses
  <2> QED
    BY <2>1, <2>2, <2>3, RecordAdvances DEF Became
<1>5. CASE Promote(w)
  <2>1. file[t].status = "pending" /\ mnt[t] # <<>> /\ Rename(w, "published")
    <3>1. mnt[t] = <<Option(local[w].readonly)>> /\ file[t] = local[w]
      BY <1>2, <1>5 DEF Promote, HandlerKnows
    <3>2. mnt[t] # <<>>
      BY <3>1
    <3> QED
      BY <1>2, <1>5, <3>1, <3>2 DEF Promote, HandlerKnows
  <2>2. Contract!LegalTransition(file[t].status, "published")
    BY <2>1 DEF Contract!LegalTransition
  <2>3. Became(t, "published")
    BY <1>3, <2>1 DEF PublishStatuses
  <2> QED
    BY <2>1, <2>2, <2>3, RecordAdvances DEF Became
<1>6. CASE WriteIntent(w)
  <2>1. file[t] = local[w] /\ Rename(w, "unpublishing")
    BY <1>2, <1>6 DEF WriteIntent, HandlerKnows
  <2>2. CASE file[t].status = "unpublishing"
    <3>1. [local[w] EXCEPT !.status = "unpublishing"] = file[t]
      BY <1>2, <2>1, <2>2 DEF PublishStates
    <3>2. file' = file /\ mnt' = mnt /\ DirChanged
      BY <1>3, <2>1, <3>1 DEF PublishStatuses, Became, Rename, IInv, TypeOK, Files
    <3> QED
      BY <3>2, StageRenameStutters
  <2>3. CASE file[t].status # "unpublishing"
    <3>1. Contract!LegalTransition(file[t].status, "unpublishing")
      BY <1>2, <2>1, <2>3 DEF Contract!LegalTransition, PublishStates, PublishStatuses
    <3>2. Became(t, "unpublishing")
      BY <1>3, <2>1 DEF PublishStatuses
    <3> QED
      BY <3>1, <3>2, RecordAdvances DEF Became
  <2> QED
    BY <2>2, <2>3
<1> QED
  BY <1>4, <1>5, <1>6

(* The removal of a record finds it unpublishing and the target unmounted. *)
LEMMA RemoveRefines ==
  ASSUME IInv, NEW w \in Workers, Remove(w)
  PROVE  Contract!Next
<1>1. pc[w] = "remove" /\ pc[w] \in TargetSteps
  BY DEF Remove, TargetSteps
<1> PICK t \in Targets : t = local[w].target
  BY <1>1, AtTarget
<1>2. /\ local[w] \in PublishStates
      /\ file[t] = [local[w] EXCEPT !.status = "unpublishing"]
      /\ mnt[t] = <<>>
  BY <1>1, AtTarget DEF HandlerKnows, RecordIs
<1>3. Contract!LegalTransition(file[t].status, "none")
  BY <1>2, StatusRewritten DEF Contract!LegalTransition, PublishStatuses
<1>4. file' = [file EXCEPT ![t] = NoRecord] /\ mnt' = mnt /\ DirChanged
  BY DEF Remove
<1>5. Became(t, "none")
  BY <1>4, NoRecordIsNoState DEF Became, IInv, TypeOK, Files
<1> QED
  BY <1>2, <1>3, <1>5, RecordAdvances DEF Became

(* Mounts change under a pending record, or disappear under an             *)
(* unpublishing one.                                                       *)
LEMMA MountsRefine ==
  ASSUME IInv, NEW w \in Workers,
         Bind(w) \/ Remount(w) \/ RemountFails(w) \/ Unmount(w)
  PROVE  Contract!Next
<1>1. pc[w] \in TargetSteps
  BY DEF Bind, Remount, RemountFails, Unmount, TargetSteps
<1> PICK t \in Targets : t = local[w].target
  BY <1>1, AtTarget
<1>2. local[w] \in PublishStates /\ HandlerKnows(w) /\ MountFitsRecord(t)
  BY <1>1, AtTarget
<1>3. /\ file' = file /\ images' = images
      /\ \A u \in Targets : u # t => mnt'[u] = mnt[u]
  BY DEF Bind, Remount, RemountFails, Unmount, IInv, TypeOK
<1>4. CASE Bind(w) \/ Remount(w) \/ RemountFails(w)
  <2>1. file[t].status = "pending"
    BY <1>2, <1>4 DEF Bind, Remount, RemountFails, HandlerKnows
  <2> QED
    BY <1>3, <2>1, MountChanges
<1>5. CASE Unmount(w)
  <2>1. file[t].status = "unpublishing"
    <3>1. RecordIs(w, "unpublishing")
      BY <1>2, <1>5 DEF Unmount, HandlerKnows
    <3>2. file[t] = [local[w] EXCEPT !.status = "unpublishing"]
      BY <3>1 DEF RecordIs
    <3> QED
      BY <1>2, <3>2, StatusRewritten DEF PublishStatuses
  <2>2. mnt[t] \in {<<>>, <<"ro">>, <<"rw">>}
    BY <1>2 DEF MountFitsRecord
  <2>3. mnt'[t] = IF IsMountPoint(t) THEN BelowTop(t) ELSE mnt[t]
    BY <1>5 DEF Unmount, IInv, TypeOK
  <2>4. mnt'[t] = <<>>
    BY <2>2, <2>3, NothingBelow DEF IsMountPoint
  <2> QED
    BY <1>3, <2>1, <2>4, MountChanges
<1> QED
  BY <1>4, <1>5

(* A power loss brings one of the recoverable assignments back. *)
LEMMA PowerLossRefines ==
  ASSUME IInv, PowerLoss PROVE Contract!Next
<1>1. PICK i \in images : file' = i.file /\ images' = {i}
  BY DEF PowerLoss
<1>2. Statuses(file)' = Statuses(i.file)
  BY <1>1 DEF Statuses
<1>3. Recoverable(images)' = {Statuses(i.file)}
  BY <1>1 DEF Recoverable, Statuses
<1>4. Statuses(i.file) \in Recoverable(images)
  BY DEF Recoverable
<1>5. Bound' = [t \in Targets |-> FALSE]
  BY DEF PowerLoss, Bound, IsMountPoint
<1>6. Contract!PowerLoss
  BY <1>2, <1>3, <1>4, <1>5 DEF Contract!PowerLoss, Bound, Recoverable
<1> QED
  BY <1>6 DEF Contract!Next

(* Every other step is a sync or leaves the contract's view alone. *)
LEMMA SyncsRefine ==
  ASSUME DirSynced, file' = file, mnt' = mnt PROVE Contract!Next
BY SyncSettles DEF DirSynced

(* The publish transaction implements the lifecycle it promises. *)
LEMMA NextRefines == IInv /\ [Next]_vars => [Contract!Next]_(Contract!vars)
<1> SUFFICES ASSUME IInv, [Next]_vars
             PROVE  Contract!Next \/ UNCHANGED Contract!vars
  OBVIOUS
<1>1. ASSUME UNCHANGED <<file, mnt, images>> PROVE UNCHANGED Contract!vars
  BY <1>1, ViewUnchanged
<1>2. ASSUME NEW w \in Workers, NEW t \in Targets, PublishCall(w, t) \/ Unpublish(w, t)
      PROVE  UNCHANGED <<file, mnt, images>>
  BY <1>2 DEF PublishCall, PublishNew, PublishResume, PublishRepeat, Unpublish
<1>3. ASSUME NEW t \in Targets, UnpublishAbsent(t) PROVE UNCHANGED <<file, mnt, images>>
  BY <1>3 DEF UnpublishAbsent
<1>4. ASSUME NEW w \in Workers, NEW v \in Volumes, Unstage(w, v)
      PROVE  UNCHANGED <<file, mnt, images>>
  BY <1>4 DEF Unstage
<1>5. ASSUME NEW v \in Volumes, NEW s \in Stagings, StageVolume(v, s) PROVE Contract!Next
  BY <1>5, SyncSettles DEF StageVolume
<1>6. ASSUME NEW w \in Workers, HandlerStep(w)
      PROVE  Contract!Next \/ UNCHANGED Contract!vars
  <2>1. CASE PublishStep(w)
    BY <2>1, RenamesRefine, MountsRefine, SyncsRefine
       DEF PublishStep, SyncPending, Sync, SyncPublished
  <2>2. CASE UnpublishStep(w)
    BY <2>2, RenamesRefine, RemoveRefines, MountsRefine, SyncsRefine
       DEF UnpublishStep, SyncIntent, Sync, SyncRemoved
  <2>3. CASE UnstageStep(w)
    <3>1. ASSUME NEW v \in Volumes, WriteStopping(w, v) \/ DeleteState(w, v)
          PROVE  UNCHANGED Contract!vars
      BY <3>1, StageRenameStutters DEF WriteStopping, DeleteState
    <3>2. ASSUME NEW v \in Volumes, Teardown(w, v) PROVE UNCHANGED <<file, mnt, images>>
      BY <3>2 DEF Teardown
    <3>3. CASE SyncStopping(w) \/ SyncDeleted(w)
      BY <3>3, SyncsRefine DEF SyncStopping, Sync, SyncDeleted
    <3> QED
      BY <1>1, <2>3, <3>1, <3>2, <3>3 DEF UnstageStep
  <2> QED
    BY <1>6, <2>1, <2>2, <2>3 DEF HandlerStep
<1>7. CASE Fault
  <2>1. ASSUME NEW w \in Workers, OperationFails(w) PROVE UNCHANGED <<file, mnt, images>>
    BY <2>1 DEF OperationFails
  <2>2. ASSUME NEW v \in Volumes, HealthLoss(v) PROVE UNCHANGED <<file, mnt, images>>
    BY <2>2 DEF HealthLoss
  <2>3. ASSUME PluginCrash PROVE UNCHANGED <<file, mnt, images>>
    BY <2>3 DEF PluginCrash
  <2> QED
    BY <1>1, <1>7, <2>1, <2>2, <2>3, MountsRefine, PowerLossRefines DEF Fault
<1>8. CASE UNCHANGED vars
  BY <1>1, <1>8 DEF vars
<1> QED
  BY <1>1, <1>2, <1>3, <1>4, <1>5, <1>6, <1>7, <1>8 DEF Next

(* The handlers, with all their intermediate steps, failures, crashes and  *)
(* power losses, implement PublishContract: every record change is a legal *)
(* transition, made when the bind mount allows it.                         *)
THEOREM Refinement == Spec => ImplementsContract
<1>1. Init => Contract!Init
  <2> SUFFICES ASSUME Init PROVE Contract!Init
    OBVIOUS
  <2>1. Statuses(file) = [t \in Targets |-> "none"]
    BY NoRecordIsNoState DEF Init, Statuses
  <2>2. Bound = [t \in Targets |-> FALSE]
    BY DEF Init, Bound, IsMountPoint
  <2>3. Image(file, staged).file = file
    BY DEF Image
  <2>4. Recoverable(images) = {Statuses(file)}
    BY <2>3 DEF Init, Recoverable
  <2> QED
    BY <2>1, <2>2, <2>4 DEF Contract!Init, Bound, Recoverable
<1> QED
  BY <1>1, NextRefines, InductiveInvariant, PTL DEF Spec, ImplementsContract, Contract!Spec
=============================================================================
