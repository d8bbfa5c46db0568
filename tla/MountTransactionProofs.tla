----------------------- MODULE MountTransactionProofs -----------------------
(***************************************************************************)
(* Proofs about MountTransaction, for any binaries, any number of          *)
(* attempts, processes and faults, and whether or not starts may arrive    *)
(* late: types, the records the operations write and the startup files.    *)
(* What is proved of the supervisor itself is in MountSupervisorProofs.    *)
(*                                                                         *)
(* The operations are checked against the record they work on: each step   *)
(* belongs to a phase of the record, and the steps after the removal of    *)
(* the startup files know that there are none.                             *)
(***************************************************************************)
EXTENDS MountTransaction, TLAPS

-----------------------------------------------------------------------------
(* Invariants *)

NoStateSteps == {"noState", "noStateReset", "noStateArtifacts", "launch"}

LaunchSteps == {"publishEnv", "publishArgs", "run", "wait", "promoteFiles", "promote"}

ReconcileSteps ==
  {"observeStarting", "decideStarting", "unmountStale", "resetStale", "absent",
   "absentFiles", "credentials", "switch", "expiredStop", "expiredUnmount", "expiredKill",
   "expiredReset", "expiredCheck", "expiredFiles"}

CandidateSteps ==
  {"candidate", "candidateStop", "candidateUnmount", "candidateKill", "candidateFiles",
   "commitFallback"}

StopSteps ==
  {"observeStopping", "decideStopping", "stopReset", "stopUnit", "stopUnmount", "stopKill",
   "stopCheckMount", "stopCheckRest", "stopFiles"}

CleanupSteps == {"revalidate", "oldStop", "oldKill", "oldUnmount", "commitDesired"}

(* The steps that the cleanup before a recovery and the cleanup of its     *)
(* failed candidate share.                                                 *)
AbsenceSteps == {"oldAbsent", "oldCollect", "oldArtifacts"}

OfCandidate == job.after = "startDesired"

(* The store would accept the record, and its attempt is used up. *)
RecordOK == rec # NoState => ValidState(rec) /\ rec.attempt <= attempts

(* The phase of the record that a step works on. *)
PhaseOK ==
  /\ pc \in NoStateSteps => rec = NoState
  /\ pc \in LaunchSteps \union ReconcileSteps \union CandidateSteps => rec.phase = "starting"
  /\ pc \in StopSteps => rec.phase = "stopping"
  /\ pc \in CleanupSteps => rec.phase = "active"
  /\ pc \in AbsenceSteps /\ ~OfCandidate => rec.phase = "active"
  /\ pc = "intend" => rec.phase \in {"starting", "active"}
  /\ pc = "forget" => rec.phase \in {"starting", "stopping"}

(* What a step knows of the candidates of a recovery and of the process to *)
(* promote.                                                                *)
CandidateOK ==
  /\ pc \in CandidateSteps => OfCandidate
  /\ OfCandidate => /\ pc \in LaunchSteps \union CandidateSteps \union AbsenceSteps
                    /\ rec.phase = "starting" /\ rec.fallback # NoBinary
  /\ pc = "switch" => rec.reason = "recovery" /\ rec.fallback # NoBinary
  /\ pc \in {"promoteFiles", "promote"} => job.owned # 0

UnitNamed == Running => unit.attempt \in Attempts

(* Startup files are those of the record, and gone at these steps. *)
FilesOK ==
  \A f \in files :
    /\ rec.phase \in {"starting", "stopping"} /\ rec.startup
    /\ rec.attempt = f.attempt /\ rec.binary = f.binary

FilesRemoved ==
  \/ pc \in {"promote", "switch", "forget", "commitFallback"}
  \/ pc \in AbsenceSteps /\ OfCandidate /\ ~job.failed

TypeInv ==
  /\ TypeOK
  /\ RecordOK
  /\ PhaseOK
  /\ CandidateOK
  /\ UnitNamed
  /\ FilesOK
  /\ FilesRemoved => files = {}

-----------------------------------------------------------------------------
(* Facts about the operators *)

LEMMA StateFields ==
  /\ NoState.phase = "none" /\ NoState \notin MountStates
  /\ \A r \in MountStates :
       /\ r.phase \in {"starting", "active", "stopping"} /\ r.attempt \in Attempts
       /\ r.reason \in {"stage", "recovery", "none"} /\ r.binary \in Binaries
       /\ r.fallback \in Binaries \union {NoBinary} /\ r.pid \in {0} \union Identities
       /\ r.startup \in BOOLEAN
<1>1. NoState.phase = "none"
  BY DEF NoState
<1>2. \A r \in MountStates :
       /\ r.phase \in {"starting", "active", "stopping"} /\ r.attempt \in Attempts
       /\ r.reason \in {"stage", "recovery", "none"} /\ r.binary \in Binaries
       /\ r.fallback \in Binaries \union {NoBinary} /\ r.pid \in {0} \union Identities
       /\ r.startup \in BOOLEAN
  BY DEF MountStates
<1> QED
  BY <1>1, <1>2

(* A record in a phase is a mount state. *)
LEMMA RecordInPhase ==
  ASSUME TypeOK, rec.phase \in {"starting", "active", "stopping"}
  PROVE  rec \in MountStates /\ rec # NoState /\ rec.attempt \in Attempts /\ rec.binary \in Binaries
BY StateFields DEF TypeOK

LEMMA NoJobTyped == NoJob \in Jobs /\ NoJob.after = "none" /\ NoJob.owned = 0
BY DEF NoJob, Jobs

(* Updates of the local variables, and what they leave alone. *)
LEMMA JobFields ==
  ASSUME NEW j \in Jobs
  PROVE  /\ j.mounted \in BOOLEAN /\ j.late \in BOOLEAN /\ j.failed \in BOOLEAN
         /\ j.creds \in BOOLEAN /\ j.owned \in {0} \union Identities
         /\ j.gaveUp \in {0} \union Attempts
BY DEF Jobs

LEMMA JobOwned ==
  ASSUME NEW j \in Jobs, NEW p \in {0} \union Identities
  PROVE  LET k == [j EXCEPT !.owned = p] IN
         k \in Jobs /\ k.after = j.after /\ k.failed = j.failed /\ k.owned = p
BY DEF Jobs

LEMMA JobFailed ==
  ASSUME NEW j \in Jobs, NEW b \in BOOLEAN
  PROVE  LET k == [j EXCEPT !.failed = b] IN
         k \in Jobs /\ k.after = j.after /\ k.failed = b /\ k.owned = j.owned
BY DEF Jobs

LEMMA JobAfter ==
  ASSUME NEW j \in Jobs,
         NEW a \in {"none", "launch", "reconcile", "resume", "startDesired", "startFallback"}
  PROVE  LET k == [j EXCEPT !.after = a] IN
         k \in Jobs /\ k.after = a /\ k.failed = j.failed /\ k.owned = j.owned
BY DEF Jobs

LEMMA JobCreds ==
  ASSUME NEW j \in Jobs, NEW b \in BOOLEAN
  PROVE  LET k == [j EXCEPT !.creds = b] IN
         k \in Jobs /\ k.after = j.after /\ k.failed = j.failed /\ k.owned = j.owned
BY DEF Jobs

-----------------------------------------------------------------------------
(* Commands and events of the host add no startup file, and a unit runs    *)
(* for an attempt.                                                         *)

HostKept == HostTypeOK' /\ UnitNamed' /\ files' \subseteq files

HostOK == HostTypeOK /\ UnitNamed

LEMMA UnchangedHostKept ==
  ASSUME HostOK, UNCHANGED host
  PROVE  HostKept
BY DEF HostOK, HostKept, HostTypeOK, UnitNamed, Running, host

LEMMA NoUnitTyped == NoUnit \in Units /\ NoUnit.state = "notfound" /\ NoUnit.main = 0
BY DEF NoUnit, Units

(* A unit that exits. *)
LEMMA UnitExits ==
  ASSUME unit \in Units
  PROVE  /\ [unit EXCEPT !.state = "exited", !.main = 0] \in Units
         /\ [unit EXCEPT !.state = "exited", !.main = 0].state = "exited"
         /\ [unit EXCEPT !.state = "exited", !.main = 0].main = 0
BY DEF Units

LEMMA EndsKept ==
  ASSUME HostOK, NEW p, Ends(p)
  PROVE  /\ procs' \subseteq procs /\ mounts' \subseteq mounts
         /\ pidfile' \in {0, pidfile}
BY DEF Ends

LEMMA ShrinkKept ==
  ASSUME HostOK, procs' \subseteq procs, mounts' \subseteq mounts, pidfile' \in {0, pidfile},
         files' \subseteq files, spawned' = spawned,
         unit' \in Units, unit'.state = "running" => unit' = unit
  PROVE  HostKept
BY DEF HostOK, HostKept, HostTypeOK, UnitNamed, Running

LEMMA RemoveStartupFilesKept ==
  ASSUME HostOK, NEW a, RemoveStartupFiles(a)
  PROVE  HostKept
BY ShrinkKept DEF RemoveStartupFiles, HostOK, HostTypeOK

LEMMA SystemctlStopKept ==
  ASSUME HostOK, SystemctlStop
  PROVE  HostKept
<1>1. CASE Running
  BY <1>1, EndsKept, UnitExits, ShrinkKept DEF SystemctlStop, HostOK, HostTypeOK
<1>2. CASE ~Running
  BY <1>2, UnchangedHostKept DEF SystemctlStop, host
<1> QED
  BY <1>1, <1>2

LEMMA ResetFailedKept ==
  ASSUME HostOK, ResetFailed
  PROVE  HostKept
BY ShrinkKept, NoUnitTyped DEF ResetFailed, HostOK, HostTypeOK

LEMMA KernelUnmountKept ==
  ASSUME HostOK, KernelUnmount
  PROVE  HostKept
BY ShrinkKept DEF KernelUnmount, HostOK, HostTypeOK

LEMMA KillKept ==
  ASSUME HostOK, NEW p, Kill(p)
  PROVE  HostKept
BY EndsKept, UnitExits, ShrinkKept DEF Kill, HostOK, HostTypeOK

LEMMA DropArtifactsKept ==
  ASSUME HostOK, DropArtifacts, files' \subseteq files, UNCHANGED <<unit, procs, mounts, spawned>>
  PROVE  HostKept
BY ShrinkKept DEF DropArtifacts, HostOK, HostTypeOK

LEMMA RemoveArtifactsKept ==
  ASSUME HostOK, RemoveArtifacts
  PROVE  HostKept
BY DropArtifactsKept DEF RemoveArtifacts

LEMMA HostRebootedKept ==
  ASSUME HostOK, HostRebooted
  PROVE  HostKept
BY ShrinkKept, NoUnitTyped DEF HostRebooted

LEMMA PartLostKept ==
  ASSUME HostOK, PartLost
  PROVE  HostKept
BY ShrinkKept, NoUnitTyped
   DEF PartLost, UnitLost, ArtifactsLost, MountLost, HostOK, HostTypeOK

LEMMA SystemdRunKept ==
  ASSUME HostOK, NEW a \in Attempts, SystemdRun(a)
  PROVE  HostKept
<1>1. unit' \in Units /\ unit'.attempt \in Attempts
  BY DEF SystemdRun, Units
<1> QED
  BY <1>1 DEF SystemdRun, HostOK, HostKept, HostTypeOK, UnitNamed

(* A new launcher, and what its steps leave alone. *)
LEMMA LauncherFields ==
  ASSUME NEW p, NEW a
  PROVE  LET l == Launcher(p, a) IN
         /\ l.id = p /\ l.attempt = a /\ l.binary = NoBinary /\ l.input = NoBinary
         /\ l.cleared = FALSE
         /\ p \in Identities /\ a \in Attempts => l \in Processes
BY DEF Launcher, Processes

LEMMA ReadFields ==
  ASSUME NEW q \in Processes, NEW b \in Binaries
  PROVE  LET e == [q EXCEPT !.input = b] IN
         /\ e \in Processes /\ e.id = q.id /\ e.attempt = q.attempt /\ e.binary = q.binary
         /\ e.input = b /\ e.cleared = q.cleared
BY DEF Processes

LEMMA RemoveFields ==
  ASSUME NEW q \in Processes
  PROVE  LET e == [q EXCEPT !.cleared = TRUE] IN
         /\ e \in Processes /\ e.id = q.id /\ e.attempt = q.attempt /\ e.binary = q.binary
         /\ e.input = q.input /\ e.cleared = TRUE
BY DEF Processes

LEMMA ExecFields ==
  ASSUME NEW q \in Processes
  PROVE  LET e == [q EXCEPT !.binary = q.input] IN
         /\ e \in Processes /\ e.id = q.id /\ e.attempt = q.attempt /\ e.binary = q.input
         /\ e.input = q.input /\ e.cleared = q.cleared
BY DEF Processes

LEMMA UnitStepKept ==
  ASSUME HostOK, UnitStep
  PROVE  HostKept
<1>1. CASE Fork
  <2>1. spawned + 1 \in Identities /\ spawned + 1 \in 0 .. MaxProcesses
    BY <1>1, HostAssumption DEF Fork, HostOK, HostTypeOK, Identities
  <2>2. Launcher(spawned + 1, unit.attempt) \in Processes
    BY <1>1, <2>1, LauncherFields DEF Fork, HostOK, UnitNamed
  <2>3. unit' \in Units /\ unit'.attempt = unit.attempt
    BY <1>1, <2>1 DEF Fork, HostOK, HostTypeOK, Units
  <2> QED
    BY <1>1, <2>1, <2>2, <2>3 DEF Fork, HostOK, HostKept, HostTypeOK, UnitNamed
<1>2. CASE ForkFails
  <2>1. unit' \in Units /\ unit'.state = "exited"
    BY <1>2 DEF ForkFails, HostOK, HostTypeOK, Units
  <2> QED
    BY <1>2, <2>1, ShrinkKept DEF ForkFails
<1>3. CASE Collect
  BY <1>3, NoUnitTyped, ShrinkKept DEF Collect
<1>4. ASSUME NEW q \in procs, LauncherReads(q) \/ LauncherRemoves(q) \/ LauncherExecs(q)
      PROVE  HostKept
  <2>1. q \in Processes
    BY DEF HostOK, HostTypeOK
  <2>2. PICK e \in Processes : procs' = (procs \ {q}) \union {e}
    <3>1. CASE LauncherReads(q)
      <4>1. PICK f \in StartupFile("args", q.attempt) :
              procs' = (procs \ {q}) \union {[q EXCEPT !.input = f.binary]}
        BY <3>1 DEF LauncherReads
      <4>2. f.binary \in Binaries
        BY DEF StartupFile, HostOK, HostTypeOK, StartupFiles
      <4> QED
        BY <2>1, <4>1, <4>2, ReadFields
    <3>2. CASE LauncherRemoves(q) \/ LauncherExecs(q)
      BY <2>1, <3>2, RemoveFields, ExecFields DEF LauncherRemoves, LauncherExecs
    <3> QED
      BY <1>4, <3>1, <3>2
  <2>3. UNCHANGED <<unit, mounts, pidfile, spawned>> /\ files' \subseteq files
    BY <1>4 DEF LauncherReads, LauncherRemoves, LauncherExecs
  <2> QED
    BY <2>2, <2>3 DEF HostOK, HostKept, HostTypeOK, UnitNamed, Running
<1>5. ASSUME NEW q \in procs, LauncherRefuses(q) PROVE HostKept
  BY <1>5, UnitExits, ShrinkKept DEF LauncherRefuses, HostOK, HostTypeOK
<1> QED
  BY <1>1, <1>2, <1>3, <1>4, <1>5 DEF UnitStep

LEMMA SupervisorStepKept ==
  ASSUME HostOK, SupervisorStep
  PROVE  HostKept
<1>1. PICK q \in procs : Registers(q) \/ MountsVolume(q)
  BY DEF SupervisorStep
<1>2. q.id \in Identities
  BY DEF HostOK, HostTypeOK, Processes
<1> QED
  BY <1>1, <1>2
     DEF Registers, MountsVolume, HostOK, HostKept, HostTypeOK, UnitNamed, Running

LEMMA ProcessExitsKept ==
  ASSUME HostOK, NEW q \in procs, ProcessExits(q)
  PROVE  HostKept
BY EndsKept, UnitExits, ShrinkKept DEF ProcessExits, HostOK, HostTypeOK

-----------------------------------------------------------------------------
(* Shapes of steps *)

(* The record stays: what is left to show is the next step's knowledge. *)
LEMMA GoKeeps ==
  ASSUME TypeInv, HostKept, UNCHANGED <<rec, attempts>>, expired' \in BOOLEAN,
         queued' \in {0} \union Attempts, faults' \in 0 .. MaxFaults,
         pc' \in Steps, job' \in Jobs,
         PhaseOK', CandidateOK', FilesRemoved' => files' = {}
  PROVE  TypeInv'
<1>1. TypeOK'
  BY DEF TypeInv, TypeOK, HostKept
<1>2. RecordOK'
  BY DEF TypeInv, RecordOK, ValidState, ValidStarting, ValidActive, ValidStopping
<1>3. FilesOK'
  BY DEF TypeInv, FilesOK, HostKept
<1> QED
  BY <1>1, <1>2, <1>3 DEF TypeInv, HostKept

(* The operation returns. *)
LEMMA EndKeeps ==
  ASSUME TypeInv, HostKept, UNCHANGED <<rec, attempts>>, expired' \in BOOLEAN,
         queued' \in {0} \union Attempts, faults' \in 0 .. MaxFaults, End
  PROVE  TypeInv'
<1>1. pc' = "idle" /\ job' = NoJob
  BY DEF End, Go
<1>2. pc' \in Steps /\ job' \in Jobs /\ job'.after = "none"
  BY <1>1, NoJobTyped DEF Steps
<1>3. PhaseOK' /\ CandidateOK' /\ ~FilesRemoved'
  BY <1>1, <1>2
     DEF PhaseOK, CandidateOK, FilesRemoved, OfCandidate, NoStateSteps, LaunchSteps,
         ReconcileSteps, CandidateSteps, StopSteps, CleanupSteps, AbsenceSteps
<1> QED
  BY <1>2, <1>3, GoKeeps

(* The operation stays where it is. *)
LEMMA StayKeeps ==
  ASSUME TypeInv, HostKept, UNCHANGED <<rec, attempts, pc, job>>, expired' \in BOOLEAN,
         queued' \in {0} \union Attempts, faults' \in 0 .. MaxFaults
  PROVE  TypeInv'
<1>1. pc' \in Steps /\ job' \in Jobs
  BY DEF TypeInv, TypeOK
<1>2. PhaseOK' /\ CandidateOK'
  BY DEF TypeInv, PhaseOK, CandidateOK, OfCandidate
<1>3. FilesRemoved' => files' = {}
  BY DEF TypeInv, FilesRemoved, OfCandidate, HostKept
<1> QED
  BY <1>1, <1>2, <1>3, GoKeeps

(* The steps of an operation, and where they belong. *)
USE DEF Go, OfCandidate, NoStateSteps, LaunchSteps, ReconcileSteps, CandidateSteps, StopSteps,
        CleanupSteps, AbsenceSteps

LEMMA TypeInvParts ==
  ASSUME TypeInv
  PROVE  /\ HostOK /\ TypeOK /\ job \in Jobs /\ rec \in MountStates \union {NoState}
         /\ expired \in BOOLEAN /\ queued \in {0} \union Attempts /\ faults \in 0 .. MaxFaults
         /\ PhaseOK /\ CandidateOK /\ (FilesRemoved => files = {})
BY DEF TypeInv, TypeOK, HostOK

(* A step without effect on the record. *)
LEMMA HostOnlyKeeps ==
  ASSUME TypeInv, HostOnly, HostKept
  PROVE  /\ UNCHANGED <<rec, attempts, faults>> /\ expired' \in BOOLEAN
         /\ queued' \in {0} \union Attempts /\ faults' \in 0 .. MaxFaults
BY TypeInvParts DEF HostOnly, store

LEMMA NoEffectKeeps ==
  ASSUME TypeInv, NoEffect
  PROVE  HostOnly /\ HostKept
BY TypeInvParts, UnchangedHostKept DEF NoEffect, HostOnly

LEMMA HostOnlyEnds ==
  ASSUME TypeInv, HostOnly, HostKept, End
  PROVE  TypeInv'
BY HostOnlyKeeps, EndKeeps

LEMMA HostOnlyGoes ==
  ASSUME TypeInv, HostOnly, HostKept, pc' \in Steps, job' \in Jobs,
         PhaseOK', CandidateOK', FilesRemoved' => files' = {}
  PROVE  TypeInv'
BY HostOnlyKeeps, GoKeeps

-----------------------------------------------------------------------------
(* Requests and the launch *)

LEMMA RequestKeeps ==
  ASSUME TypeInv, Request
  PROVE  TypeInv'
<1> USE DEF Steps
<1>a. NoJob \in Jobs /\ NoJob.after = "none"
  BY NoJobTyped
<1>b. ASSUME NEW op \in {"stage", "recover", "unstage"}, NEW step, NEW j \in Jobs, j.after = "none",
             Begin(op, step, j),
             \/ rec = NoState /\ step = "noState"
             \/ rec.phase = "starting" /\ step = "observeStarting"
             \/ rec.phase = "stopping" /\ step = "observeStopping"
             \/ rec.phase = "active" /\ step = "revalidate"
             \/ rec.phase \in {"starting", "active"} /\ step = "intend"
      PROVE  TypeInv'
  <2>1. job' \in Jobs /\ job'.after = "none" /\ pc' = step
    <3>1. [j EXCEPT !.op = op] \in Jobs /\ [j EXCEPT !.op = op].after = j.after
      BY <1>b DEF Jobs
    <3> QED
      BY <1>b, <3>1 DEF Begin
  <2>2. HostOnly /\ HostKept
    BY <1>b, NoEffectKeeps DEF Begin
  <2>3. rec' = rec
    BY <2>2 DEF HostOnly, store
  <2>4. PhaseOK' /\ CandidateOK' /\ ~FilesRemoved'
    BY <1>b, <2>1, <2>3 DEF PhaseOK, CandidateOK, FilesRemoved
  <2> QED
    BY <1>b, <2>1, <2>2, <2>4, HostOnlyGoes
<1>1. CASE StageNew
  BY <1>1, <1>a, <1>b DEF StageNew
<1>2. ASSUME NEW op \in {"stage", "recover"}, Continue(op) PROVE TypeInv'
  <2>1. [NoJob EXCEPT !.plan = CleanupPlan] \in Jobs
        /\ [NoJob EXCEPT !.plan = CleanupPlan].after = "none"
    <3>1. CleanupPlan \in SUBSET {"stop", "kill", "unmount"}
      BY DEF CleanupPlan
    <3> QED
      BY <3>1 DEF NoJob, Jobs
  <2> HIDE DEF Begin
  <2> QED
    BY <1>2, <1>a, <1>b, <2>1 DEF Continue
<1>3. ASSUME NEW op \in {"stage", "unstage"}, TakeDown(op) PROVE TypeInv'
  BY <1>3, <1>a, <1>b DEF TakeDown
<1> QED
  BY <1>1, <1>2, <1>3 DEF Request, StageElsewhere, Unstage

(* A new record of a new attempt. *)
LEMMA CommitKeeps ==
  ASSUME TypeInv, NEW reason \in {"stage", "recovery"}, NEW b \in Binaries,
         NEW fb \in Binaries \union {NoBinary}, reason = "stage" => fb = NoBinary,
         Commit(Starting(reason, attempts + 1, b, fb)), files = {},
         NEW j \in Jobs, Go("publishEnv", j), j.after = "startDesired" => fb # NoBinary
  PROVE  TypeInv'
<1> DEFINE r == Starting(reason, attempts + 1, b, fb)
<1>1. attempts + 1 \in Attempts /\ attempts + 1 \in 0 .. MaxAttempts /\ attempts + 1 \in Nat
  BY HostAssumption DEF Commit, TypeInv, TypeOK, Attempts
<1>2. /\ r \in MountStates /\ r.phase = "starting" /\ r.reason = reason /\ r.attempt = attempts + 1
      /\ r.fallback = fb /\ r.pid = 0 /\ r.startup = TRUE
  BY <1>1 DEF Starting, MountStates
<1> HIDE DEF r
<1>3. /\ rec' = r /\ attempts' = attempts + 1 /\ expired' = FALSE
      /\ UNCHANGED <<host, queued, faults>>
  BY DEF Commit, r
<1>4. HostKept /\ files' = {}
  BY <1>3, TypeInvParts, UnchangedHostKept DEF host
<1>5. TypeOK'
  BY <1>1, <1>2, <1>3, <1>4, TypeInvParts DEF TypeOK, HostKept, Steps
<1>6. RecordOK'
  <2>1. ValidStarting(r)
    BY <1>2 DEF ValidStarting
  <2>2. ValidState(r) /\ r.attempt <= attempts'
    BY <1>1, <1>2, <1>3, <2>1 DEF ValidState
  <2> QED
    BY <1>3, <2>2 DEF RecordOK, ValidState, ValidStarting, ValidActive, ValidStopping
<1>7. PhaseOK' /\ CandidateOK' /\ FilesOK'
  BY <1>2, <1>3, <1>4 DEF PhaseOK, CandidateOK, FilesOK
<1> QED
  BY <1>4, <1>5, <1>6, <1>7 DEF TypeInv, HostKept

LEMMA PublishKeeps ==
  ASSUME TypeInv, NEW k \in {"env", "args"}, PublishFile(k, rec.attempt, rec.binary), HostOnly,
         \/ pc = "publishEnv" /\ pc' = "publishArgs"
         \/ pc = "publishArgs" /\ pc' = "run",
         job' = job
  PROVE  TypeInv'
<1>1. /\ rec.phase = "starting" /\ rec \in MountStates /\ rec.attempt \in Attempts
      /\ rec.binary \in Binaries /\ rec.startup
  BY TypeInvParts, RecordInPhase DEF PhaseOK, TypeInv, RecordOK, ValidState, ValidStarting
<1>2. [kind |-> k, attempt |-> rec.attempt, binary |-> rec.binary] \in StartupFiles
  BY <1>1 DEF StartupFiles
<1>3. HostTypeOK' /\ UnitNamed' /\ rec' = rec /\ UNCHANGED <<attempts, expired, queued, faults>>
  BY <1>2, TypeInvParts
     DEF PublishFile, HostOnly, store, HostOK, HostTypeOK, UnitNamed, Running
<1>4. TypeOK' /\ RecordOK'
  BY <1>3 DEF TypeInv, TypeOK, RecordOK, ValidState, ValidStarting, ValidActive, ValidStopping, Steps
<1>5. PhaseOK' /\ CandidateOK' /\ ~FilesRemoved'
  BY <1>1, <1>3, TypeInvParts DEF PhaseOK, CandidateOK, FilesRemoved
<1>6. FilesOK'
  BY <1>1, <1>3 DEF PublishFile, TypeInv, FilesOK
<1> QED
  BY <1>3, <1>4, <1>5, <1>6 DEF TypeInv

LEMMA LaunchStepKeeps ==
  ASSUME TypeInv, LaunchStep
  PROVE  TypeInv'
<1> USE DEF Steps
<1>a. HostOK /\ TypeOK /\ job \in Jobs /\ PhaseOK /\ CandidateOK
  BY TypeInvParts
<1>1. CASE InspectNoState
  <2>1. HostOnly /\ HostKept /\ rec' = rec /\ rec = NoState
    BY <1>1, <1>a, NoEffectKeeps DEF InspectNoState, HostOnly, store, PhaseOK
  <2>2. CASE pc' = "noStateReset" /\ job' = [job EXCEPT !.failed = NoStateObserved.failed,
                                                        !.proc = NoStateObserved.proc]
    <3>1. NoStateObserved.failed \in BOOLEAN /\ NoStateObserved.proc \in {"absent", "dead"}
      BY DEF NoStateObserved
    <3>2. job' \in Jobs /\ job'.after = job.after
      BY <1>a, <2>2, <3>1 DEF Jobs
    <3>3. PhaseOK' /\ CandidateOK' /\ ~FilesRemoved'
      BY <1>1, <1>a, <2>1, <2>2, <3>2 DEF InspectNoState, PhaseOK, CandidateOK, FilesRemoved
    <3> QED
      BY <2>1, <2>2, <3>2, <3>3, HostOnlyGoes
  <2> QED
    BY <1>1, <2>1, <2>2, HostOnlyEnds DEF InspectNoState
<1>2. CASE ResetNoState \/ CleanNoState
  <2>1. HostOnly /\ HostKept /\ rec' = rec /\ rec = NoState
    BY <1>2, <1>a, ResetFailedKept, RemoveArtifactsKept, UnchangedHostKept
       DEF ResetNoState, CleanNoState, HostOnly, store, PhaseOK
  <2>2. CASE job' = job /\ \/ pc = "noStateReset" /\ pc' = "noStateArtifacts"
                           \/ pc = "noStateArtifacts" /\ pc' = "launch"
    <3>1. PhaseOK' /\ CandidateOK' /\ ~FilesRemoved'
      BY <1>a, <2>1, <2>2 DEF PhaseOK, CandidateOK, FilesRemoved
    <3> QED
      BY <1>a, <2>1, <2>2, <3>1, HostOnlyGoes
  <2> QED
    BY <1>2, <2>1, <2>2, HostOnlyEnds DEF ResetNoState, CleanNoState
<1>3. CASE CommitStage
  <2>1. PICK b \in Binaries : Commit(Starting("stage", attempts + 1, b, NoBinary))
    BY <1>3 DEF CommitStage
  <2> DEFINE j == [NoJob EXCEPT !.op = "launch", !.after = "launch", !.creds = TRUE]
  <2>2. j \in Jobs /\ j.after = "launch" /\ Go("publishEnv", j)
    BY <1>3 DEF CommitStage, NoJob, Jobs
  <2>3. files = {}
    BY <1>3, <1>a, StateFields DEF CommitStage, PhaseOK, TypeInv, FilesOK
  <2> HIDE DEF j
  <2> QED
    BY <2>1, <2>2, <2>3, CommitKeeps
<1>4. CASE NoAttempt
  BY <1>4, NoEffectKeeps, HostOnlyEnds DEF NoAttempt
<1>5. CASE PublishEnv \/ PublishArgs
  BY <1>5, PublishKeeps DEF PublishEnv, PublishArgs
<1>6. CASE RunUnit
  <2>1. rec.phase = "starting" /\ rec.attempt \in Attempts /\ HostOnly /\ rec' = rec
    BY <1>6, <1>a, RecordInPhase DEF RunUnit, PhaseOK, HostOnly, store
  <2>2. HostKept
    BY <1>6, <1>a, <2>1, SystemdRunKept, UnchangedHostKept DEF RunUnit
  <2>3. CASE job' = job /\ \/ pc' = "wait"
                           \/ pc' = "candidate" /\ job.after = "startDesired"
    <3>1. PhaseOK' /\ CandidateOK' /\ ~FilesRemoved'
      BY <1>6, <1>a, <2>1, <2>3 DEF RunUnit, PhaseOK, CandidateOK, FilesRemoved
    <3> QED
      BY <1>a, <2>1, <2>2, <2>3, <3>1, HostOnlyGoes
  <2>4. CASE End
    BY <2>1, <2>2, <2>4, HostOnlyEnds
  <2> QED
    BY <1>6, <2>3, <2>4 DEF RunUnit, StartFailed
<1>7. CASE WaitReady
  <2>1. HostOnly /\ HostKept /\ rec' = rec
    BY <1>7, NoEffectKeeps DEF WaitReady, HostOnly, store
  <2>2. pidfile \in {0} \union Identities /\ pidfile # 0
    BY <1>7, <1>a DEF WaitReady, Ready, ServiceOwns, HostOK, HostTypeOK
  <2>3. job' \in Jobs /\ job'.after = job.after /\ job'.owned # 0 /\ pc' = "promoteFiles"
    BY <1>7, <1>a, <2>2, JobOwned DEF WaitReady
  <2>4. PhaseOK' /\ CandidateOK' /\ ~FilesRemoved'
    BY <1>7, <1>a, <2>1, <2>3 DEF WaitReady, PhaseOK, CandidateOK, FilesRemoved
  <2> QED
    BY <2>1, <2>3, <2>4, HostOnlyGoes
<1>8. CASE WaitFails
  <2>1. HostOnly /\ HostKept /\ rec' = rec
    BY <1>8, NoEffectKeeps DEF WaitFails, HostOnly, store
  <2>2. CASE job' = job /\ \/ pc' = "observeStarting" /\ job.after # "startDesired"
                           \/ pc' = "candidate" /\ job.after = "startDesired"
    <3>1. PhaseOK' /\ CandidateOK' /\ ~FilesRemoved'
      BY <1>8, <1>a, <2>1, <2>2 DEF WaitFails, PhaseOK, CandidateOK, FilesRemoved
    <3> QED
      BY <1>a, <2>1, <2>2, <3>1, HostOnlyGoes
  <2> QED
    BY <1>8, <2>1, <2>2, HostOnlyEnds DEF WaitFails, AfterWait
<1>9. CASE PromoteFiles
  <2>1. HostOnly /\ HostKept /\ rec' = rec /\ pc' = "promote" /\ job' = job
    BY <1>9, <1>a, RemoveStartupFilesKept DEF PromoteFiles, HostOnly, store
  <2>2. files' = {}
    BY <1>9 DEF PromoteFiles, RemoveStartupFiles, TypeInv, FilesOK
  <2>3. PhaseOK' /\ CandidateOK'
    BY <1>9, <1>a, <2>1 DEF PromoteFiles, PhaseOK, CandidateOK
  <2> QED
    BY <1>a, <2>1, <2>2, <2>3, HostOnlyGoes
<1>10. CASE Promote
  <2>1. /\ rec \in MountStates /\ job.owned \in Identities /\ files = {}
        /\ rec.attempt <= attempts
    BY <1>10, <1>a, RecordInPhase, JobFields, TypeInvParts
       DEF Promote, PhaseOK, CandidateOK, FilesRemoved, TypeInv, RecordOK
  <2>2. /\ rec' \in MountStates /\ rec'.phase = "active" /\ rec'.reason = "none"
        /\ rec'.fallback = NoBinary /\ rec'.pid = job.owned /\ rec'.startup = FALSE
        /\ rec'.attempt = rec.attempt
    BY <1>10, <2>1 DEF Promote, MountStates
  <2>3. HostKept /\ files' = {}
    BY <1>10, <1>a, <2>1, UnchangedHostKept DEF Promote, host
  <2>4. pc' = "idle" /\ job' = NoJob /\ NoJob \in Jobs /\ NoJob.after = "none"
        /\ expired' = FALSE /\ UNCHANGED <<attempts, queued, faults>>
    BY <1>10, NoJobTyped DEF Promote, End
  <2>5. TypeOK'
    BY <1>a, <2>2, <2>3, <2>4 DEF TypeOK, HostKept
  <2>6. RecordOK'
    BY <2>1, <2>2, <2>4 DEF RecordOK, ValidState, ValidActive, Identities
  <2>7. PhaseOK' /\ CandidateOK' /\ FilesOK'
    BY <2>3, <2>4 DEF PhaseOK, CandidateOK, FilesOK
  <2> QED
    BY <2>3, <2>5, <2>6, <2>7 DEF TypeInv, HostKept
<1> QED
  BY <1>1, <1>2, <1>3, <1>4, <1>5, <1>6, <1>7, <1>8, <1>9, <1>10 DEF LaunchStep

-----------------------------------------------------------------------------
(* Steps within one operation *)

LEMMA SameWorkKeeps ==
  ASSUME TypeInv, HostOnly, HostKept, pc' \in Steps, job' \in Jobs,
         job'.after = "startDesired" <=> job.after = "startDesired",
         \/ pc \in ReconcileSteps /\ pc' \in ReconcileSteps \ {"switch"}
         \/ pc \in StopSteps /\ pc' \in StopSteps
         \/ pc \in CandidateSteps /\ pc' \in CandidateSteps \ {"commitFallback"}
         \/ pc \in CleanupSteps /\ pc' \in CleanupSteps
         \/ pc = "oldUnmount" /\ pc' = "oldAbsent"
         \/ pc \in AbsenceSteps /\ pc' \in AbsenceSteps /\ job' = job
  PROVE  TypeInv'
<1>1. rec' = rec /\ files' \subseteq files
  BY DEF HostOnly, HostKept, store
<1>2. PhaseOK' /\ CandidateOK'
  BY <1>1, TypeInvParts DEF PhaseOK, CandidateOK
<1>3. FilesRemoved' => FilesRemoved
  BY TypeInvParts DEF FilesRemoved, CandidateOK
<1> QED
  BY <1>1, <1>2, <1>3, TypeInvParts, HostOnlyGoes

(* A deleted record. *)
LEMMA ForgetKeeps ==
  ASSUME TypeInv, Forget
  PROVE  TypeInv'
<1>1. files = {} /\ NoJob \in Jobs
  BY TypeInvParts, NoJobTyped DEF Forget, FilesRemoved
<1>2. HostKept /\ files' = {}
  BY <1>1, TypeInvParts, UnchangedHostKept DEF Forget, host
<1>3. /\ job' \in Jobs /\ job'.after = "none"
      /\ pc' \in {"noState", "idle"}
  <2> DEFINE j == [NoJob EXCEPT !.op = "stage"]
  <2>1. j \in Jobs /\ j.after = "none"
    BY DEF NoJob, Jobs
  <2>2. (pc' = "noState" /\ job' = j) \/ (pc' = "idle" /\ job' = NoJob)
    BY DEF Forget, End, Go
  <2> HIDE DEF j
  <2> QED
    BY <2>1, <2>2, NoJobTyped
<1>4. rec' = NoState /\ expired' = FALSE /\ UNCHANGED <<attempts, queued, faults>>
  BY DEF Forget
<1>5. TypeOK'
  BY <1>2, <1>3, <1>4, TypeInvParts DEF TypeOK, HostKept, Steps
<1>6. RecordOK' /\ PhaseOK' /\ CandidateOK' /\ FilesOK'
  BY <1>2, <1>3, <1>4 DEF RecordOK, PhaseOK, CandidateOK, FilesOK
<1> QED
  BY <1>2, <1>5, <1>6 DEF TypeInv, HostKept

LEMMA StartingStepKeeps ==
  ASSUME TypeInv, StartingStep
  PROVE  TypeInv'
<1> USE DEF Steps
<1>a. HostOK /\ TypeOK /\ job \in Jobs /\ PhaseOK /\ CandidateOK
  BY TypeInvParts
<1>b. ASSUME NoEffect PROVE HostOnly /\ HostKept
  BY <1>b, NoEffectKeeps
<1>c. ASSUME HostOnly, HostKept, End PROVE TypeInv'
  BY <1>c, HostOnlyEnds
<1>d. pidfile \in {0} \union Identities /\ unit.main \in {0} \union Identities
      /\ job.owned \in {0} \union Identities
  BY <1>a, JobFields DEF HostOK, HostTypeOK, Units
<1>e. ASSUME pc \in ReconcileSteps
      PROVE  rec \in MountStates /\ rec.phase = "starting" /\ job.after # "startDesired"
             /\ rec.reason \in {"stage", "recovery"} /\ rec.attempt \in Attempts
  BY <1>a, <1>e, RecordInPhase
     DEF PhaseOK, CandidateOK, TypeInv, RecordOK, ValidState, ValidStarting
<1>1. CASE ObserveStarting
  <2>1. HostOnly /\ HostKept
    BY <1>1, <1>b DEF ObserveStarting
  <2> DEFINE o == IF ProcessObserved(rec) = "verified" THEN pidfile ELSE 0
             j == [job EXCEPT !.mounted = IsMountPoint, !.proc = ProcessObserved(rec),
                              !.owned = o, !.after = "reconcile", !.failed = FALSE]
  <2>2. CASE ProcessObserved(rec) # "mismatch" /\ pc' = "decideStarting" /\ job' = j
    <3>1. ProcessObserved(rec) \in {"absent", "dead", "verified"}
      BY <2>2 DEF ProcessObserved
    <3>2. IsMountPoint \in BOOLEAN
      BY DEF IsMountPoint
    <3>3. o \in {0} \union Identities
      BY <1>d
    <3> HIDE DEF o
    <3>4. j \in Jobs /\ j.after = "reconcile"
      <4>1. j \in Jobs
        BY <1>a, <3>1, <3>2, <3>3 DEF Jobs
      <4>2. j.after = "reconcile"
        BY <1>a DEF Jobs
      <4> QED
        BY <4>1, <4>2, Zenon
    <3> HIDE DEF j
    <3> QED
      BY <1>1, <1>e, <2>1, <2>2, <3>4, SameWorkKeeps DEF ObserveStarting
  <2> QED
    BY <1>1, <1>c, <2>1, <2>2 DEF ObserveStarting
<1>2. CASE DecideStarting
  <2>1. HostOnly /\ HostKept /\ rec' = rec /\ pc = "decideStarting"
    BY <1>2, <1>b DEF DecideStarting, HostOnly, store
  <2>2. CASE CanPromote /\ pc' = "promoteFiles" /\ job' = job
    <3>1. job.owned # 0
      BY <2>2 DEF CanPromote, ServiceOwns
    <3>2. PhaseOK' /\ CandidateOK' /\ ~FilesRemoved'
      BY <1>a, <1>e, <2>1, <2>2, <3>1 DEF PhaseOK, CandidateOK, FilesRemoved
    <3> QED
      BY <1>a, <2>1, <2>2, <3>2, HostOnlyGoes
  <2>3. CASE pc' = "wait" /\ job' = job
    <3>2. PhaseOK' /\ CandidateOK' /\ ~FilesRemoved'
      BY <1>a, <1>e, <2>1, <2>3 DEF PhaseOK, CandidateOK, FilesRemoved
    <3> QED
      BY <1>a, <2>1, <2>3, <3>2, HostOnlyGoes
  <2>4. CASE pc' = "expiredStop" /\ job' = [job EXCEPT !.owned = ServiceProcess(job.owned)]
    <3>1. ServiceProcess(job.owned) \in {0} \union Identities
      BY <1>d DEF ServiceProcess
    <3>2. job' \in Jobs /\ job'.after = job.after
      BY <1>a, <2>4, <3>1, JobOwned
    <3> QED
      BY <2>1, <2>4, <3>2, SameWorkKeeps
  <2>5. CASE StartCleaning
    <3> DEFINE exited == unit.state = "exited"
               j == [job EXCEPT !.failed = exited, !.late = expired,
                                !.gaveUp = IF exited THEN rec.attempt ELSE @]
    <3>1. j \in Jobs /\ j.after = job.after
      <4>1. exited \in BOOLEAN /\ expired \in BOOLEAN /\ rec.attempt \in Attempts
        BY <1>a, <1>e, <2>1 DEF TypeOK
      <4>2. (IF exited THEN rec.attempt ELSE job.gaveUp) \in {0} \union Attempts
        BY <1>a, <4>1, JobFields
      <4> HIDE DEF exited
      <4> QED
        BY <1>a, <4>1, <4>2 DEF Jobs
    <3>2. job' = j /\ pc' \in {"unmountStale", "resetStale", "absent"}
      BY <2>5 DEF StartCleaning
    <3> HIDE DEF j
    <3> QED
      BY <2>1, <3>1, <3>2, SameWorkKeeps
  <2>6. CASE End
    BY <1>c, <2>1, <2>6
  <2> QED
    BY <1>2, <2>2, <2>3, <2>4, <2>5, <2>6 DEF DecideStarting
<1>3. CASE UnmountStale
  <2>1. HostOnly /\ HostKept
    BY <1>3, <1>a, KernelUnmountKept DEF UnmountStale
  <2> QED
    BY <1>3, <1>a, <1>c, <2>1, SameWorkKeeps DEF UnmountStale
<1>4. CASE ResetStale
  <2>1. HostOnly /\ HostKept
    BY <1>4, <1>a, ResetFailedKept DEF ResetStale
  <2> QED
    BY <1>4, <1>a, <1>c, <2>1, SameWorkKeeps DEF ResetStale
<1>5. CASE AbsentArtifacts
  <2>1. HostOnly /\ HostKept
    BY <1>5, <1>a, RemoveArtifactsKept, UnchangedHostKept DEF AbsentArtifacts
  <2> QED
    BY <1>5, <1>a, <1>c, <2>1, SameWorkKeeps DEF AbsentArtifacts
<1>6. CASE AbsentFiles
  <2>1. HostOnly /\ HostKept /\ rec' = rec /\ pc = "absentFiles"
    BY <1>6, <1>a, RemoveStartupFilesKept DEF AbsentFiles, HostOnly, store
  <2>2. files' = {}
    BY <1>6 DEF AbsentFiles, RemoveStartupFiles, TypeInv, FilesOK
  <2>3. CASE /\ job' \in Jobs /\ job'.after # "startDesired"
             /\ \/ pc' \in {"forget", "credentials", "publishEnv"}
                \/ pc' = "switch" /\ rec.reason = "recovery" /\ rec.fallback # NoBinary
    <3>1. PhaseOK' /\ CandidateOK'
      BY <1>a, <1>e, <2>1, <2>3 DEF PhaseOK, CandidateOK
    <3> QED
      BY <2>1, <2>2, <2>3, <3>1, HostOnlyGoes
  <2>4. CASE End
    BY <1>c, <2>1, <2>4
  <2>5. [job EXCEPT !.after = "resume"] \in Jobs
        /\ [job EXCEPT !.after = "resume"].after = "resume"
    BY <1>a, JobAfter
  <2>6. NextCandidate
    BY <1>6 DEF AbsentFiles
  <2>7. job \in Jobs /\ job.after # "startDesired" /\ rec.reason \in {"stage", "recovery"}
    BY <1>a, <1>e, <2>1
  <2> QED
    BY <2>3, <2>4, <2>5, <2>6, <2>7 DEF NextCandidate
<1>7. CASE ResolveCredentials
  <2>1. job' \in Jobs /\ job'.after = job.after
    BY <1>7, <1>a, JobCreds DEF ResolveCredentials
  <2> QED
    BY <1>7, <1>b, <2>1, SameWorkKeeps DEF ResolveCredentials
<1>8. CASE SwitchToFallback
  <2>1. CASE unit.state = "notfound"
    <3>1. files = {} /\ rec.fallback \in Binaries
      BY <1>8, <1>a, <1>e, TypeInvParts, StateFields
         DEF SwitchToFallback, FilesRemoved, CandidateOK
    <3>2. [job EXCEPT !.after = "resume"] \in Jobs
          /\ [job EXCEPT !.after = "resume"].after = "resume"
      BY <1>a, JobAfter
    <3>3. Commit(Starting("recovery", attempts + 1, rec.fallback, NoBinary))
          /\ Go("publishEnv", [job EXCEPT !.after = "resume"])
      BY <1>8, <2>1 DEF SwitchToFallback, Fallback
    <3> QED
      BY <3>1, <3>2, <3>3, CommitKeeps
  <2>2. CASE unit.state # "notfound"
    BY <1>8, <1>b, <1>c, <2>2 DEF SwitchToFallback
  <2> QED
    BY <2>1, <2>2
<1>9. CASE Forget
  BY <1>9, ForgetKeeps
<1>10. CASE ExpiredStop \/ ExpiredUnmount \/ ExpiredKill
  <2>1. HostOnly /\ HostKept
    BY <1>10, <1>a, SystemctlStopKept, KernelUnmountKept, KillKept
       DEF ExpiredStop, ExpiredUnmount, ExpiredKill
  <2> QED
    BY <1>10, <1>a, <2>1, SameWorkKeeps DEF ExpiredStop, ExpiredUnmount, ExpiredKill
<1>11. CASE ExpiredReset
  <2>1. HostOnly /\ HostKept
    BY <1>11, <1>a, ResetFailedKept DEF ExpiredReset
  <2> QED
    BY <1>11, <1>a, <1>c, <2>1, SameWorkKeeps DEF ExpiredReset
<1>12. CASE ExpiredCheck
  BY <1>12, <1>a, <1>b, <1>c, SameWorkKeeps DEF ExpiredCheck
<1>13. CASE ExpiredFiles
  <2>1. HostOnly /\ HostKept
    BY <1>13, <1>a, DropArtifactsKept DEF ExpiredFiles
  <2> DEFINE j == [job EXCEPT !.proc = "absent", !.failed = TRUE, !.late = TRUE]
  <2>2. j \in Jobs /\ j.after = job.after
    BY <1>a DEF Jobs
  <2> HIDE DEF j
  <2>3. CASE pc' = "absent" /\ job' = j
    BY <1>13, <2>1, <2>2, <2>3, SameWorkKeeps DEF ExpiredFiles
  <2> QED
    BY <1>13, <1>c, <2>1, <2>3 DEF ExpiredFiles, j
<1> QED
  BY <1>1, <1>2, <1>3, <1>4, <1>5, <1>6, <1>7, <1>8, <1>9, <1>10, <1>11, <1>12, <1>13
     DEF StartingStep

-----------------------------------------------------------------------------
(* The stopper *)

LEMMA StoppingTyped ==
  ASSUME rec \in MountStates, NEW p \in {0} \union Identities
  PROVE  LET r == Stopping(rec, p) IN
         /\ r \in MountStates /\ r.phase = "stopping" /\ r.reason = "none" /\ r.fallback = NoBinary
         /\ r.attempt = rec.attempt /\ r.binary = rec.binary /\ r.startup = rec.startup
         /\ r.pid = IF p # 0 /\ Owned(p, rec) THEN p ELSE rec.pid
<1> DEFINE n == IF p # 0 /\ Owned(p, rec) THEN p ELSE rec.pid
<1>1. n \in {0} \union Identities
  BY DEF MountStates
<1>2. Stopping(rec, p) = [rec EXCEPT !.phase = "stopping", !.reason = "none",
                                      !.fallback = NoBinary, !.pid = n]
  BY DEF Stopping
<1> HIDE DEF n
<1> QED
  BY <1>1, <1>2 DEF MountStates, n

(* The process an observation speaks of is one, or none. *)
LEMMA ObservedProcess ==
  ASSUME TypeOK, rec \in MountStates
  PROVE  /\ StopProcess(rec) \in {0} \union Identities
         /\ \A p \in {0} \union Identities : ServiceProcess(p) \in {0} \union Identities
<1>1. /\ pidfile \in {0} \union Identities /\ unit.main \in {0} \union Identities
      /\ rec.pid \in {0} \union Identities
  BY StateFields DEF TypeOK, HostTypeOK, Units
<1> QED
  BY <1>1 DEF StopProcess, ServiceProcess

LEMMA IntendKeeps ==
  ASSUME TypeInv, Intend
  PROVE  TypeInv'
<1> DEFINE p == ServiceProcess(StopProcess(rec))
<1>a. HostOK /\ TypeOK /\ job \in Jobs /\ PhaseOK /\ CandidateOK
  BY TypeInvParts
<1>1. rec \in MountStates /\ rec.attempt <= attempts /\ job.after # "startDesired"
  BY <1>a, RecordInPhase DEF Intend, PhaseOK, CandidateOK, TypeInv, RecordOK
<1>2. CASE /\ rec' = Stopping(rec, p)
           /\ expired' = FALSE
           /\ pc' = "observeStopping" /\ job' = job
           /\ UNCHANGED <<host, attempts, queued, faults>>
  <2>1. p \in {0} \union Identities
    BY <1>a, <1>1, ObservedProcess
  <2> HIDE DEF p
  <2>2. /\ rec' \in MountStates /\ rec'.phase = "stopping" /\ rec'.reason = "none"
        /\ rec'.fallback = NoBinary /\ rec'.attempt = rec.attempt /\ rec'.binary = rec.binary
        /\ rec'.startup = rec.startup
    BY <1>1, <1>2, <2>1, StoppingTyped
  <2>3. HostKept /\ files' = files
    BY <1>2, <1>a, UnchangedHostKept DEF host
  <2>4. TypeOK'
    BY <1>2, <1>a, <2>2, <2>3 DEF TypeOK, HostKept, Steps
  <2>5. RecordOK'
    BY <1>1, <1>2, <2>2 DEF RecordOK, ValidState, ValidStopping
  <2>6. PhaseOK' /\ CandidateOK' /\ ~FilesRemoved'
    BY <1>1, <1>2, <2>2 DEF PhaseOK, CandidateOK, FilesRemoved
  <2>7. FilesOK'
    BY <2>2, <2>3 DEF TypeInv, FilesOK
  <2> QED
    BY <2>3, <2>4, <2>5, <2>6, <2>7 DEF TypeInv, HostKept
<1>3. CASE End /\ NoEffect
  BY <1>3, NoEffectKeeps, HostOnlyEnds
<1> QED
  BY <1>2, <1>3 DEF Intend

LEMMA StoppingStepKeeps ==
  ASSUME TypeInv, StoppingStep
  PROVE  TypeInv'
<1> USE DEF Steps
<1>a. HostOK /\ TypeOK /\ job \in Jobs /\ PhaseOK /\ CandidateOK
  BY TypeInvParts
<1>b. ASSUME NoEffect PROVE HostOnly /\ HostKept
  BY <1>b, NoEffectKeeps
<1>c. ASSUME HostOnly, HostKept, End PROVE TypeInv'
  BY <1>c, HostOnlyEnds
<1>d. ASSUME pc \in StopSteps
      PROVE  rec \in MountStates /\ rec.phase = "stopping"
  BY <1>a, <1>d, RecordInPhase DEF PhaseOK
<1>1. CASE Intend
  BY <1>1, IntendKeeps
<1>2. CASE ObserveStopping
  <2>1. HostOnly /\ HostKept /\ pc = "observeStopping"
    BY <1>2, <1>b DEF ObserveStopping
  <2>2. StopProcess(rec) \in {0} \union Identities
    BY <1>a, <1>d, <2>1, ObservedProcess
  <2>3. CASE pc' = "decideStopping" /\ job' = [job EXCEPT !.owned = StopProcess(rec)]
    <3>1. job' \in Jobs /\ job'.after = job.after
      BY <1>a, <2>2, <2>3, JobOwned
    <3> QED
      BY <2>1, <2>3, <3>1, SameWorkKeeps
  <2> QED
    BY <1>2, <1>c, <2>1, <2>3 DEF ObserveStopping
<1>3. CASE DecideStopping
  <2>1. HostOnly /\ HostKept /\ pc = "decideStopping"
    BY <1>3, <1>b DEF DecideStopping
  <2> DEFINE p == ServiceProcess(job.owned)
             b == unit.state = "exited"
             s == IF Running THEN {"stop"} ELSE {}
  <2>2. p \in {0} \union Identities /\ b \in BOOLEAN /\ s \in SUBSET {"stop", "kill", "unmount"}
    BY <1>a, <1>d, <2>1, ObservedProcess, JobFields
  <2>3. CASE /\ pc' \in {"stopUnit", "stopReset", "stopFiles"}
             /\ job' = [job EXCEPT !.owned = p, !.failed = b, !.plan = s]
    <3> HIDE DEF p, b, s
    <3>1. job' \in Jobs /\ job'.after = job.after
      BY <1>a, <2>2, <2>3 DEF Jobs
    <3> QED
      BY <2>1, <2>3, <3>1, SameWorkKeeps
  <2> QED
    BY <1>3, <1>c, <2>1, <2>3 DEF DecideStopping
<1>4. CASE StopReset \/ StopUnit
  <2>1. HostOnly /\ HostKept
    BY <1>4, <1>a, ResetFailedKept, SystemctlStopKept, UnchangedHostKept DEF StopReset, StopUnit
  <2> QED
    BY <1>4, <1>a, <1>c, <2>1, SameWorkKeeps DEF StopReset, StopUnit
<1>5. CASE StopUnmount \/ StopKill
  <2>1. HostOnly /\ HostKept
    BY <1>5, <1>a, KernelUnmountKept, KillKept DEF StopUnmount, StopKill
  <2> QED
    BY <1>5, <1>a, <2>1, SameWorkKeeps DEF StopUnmount, StopKill
<1>6. CASE StopCheckMount \/ StopCheckRest
  <2>1. HostOnly /\ HostKept
    BY <1>6, <1>b DEF StopCheckMount, StopCheckRest
  <2> QED
    BY <1>6, <1>a, <1>c, <2>1, SameWorkKeeps DEF StopCheckMount, StopCheckRest
<1>7. CASE StopFiles
  <2>1. HostOnly /\ HostKept /\ rec' = rec /\ pc = "stopFiles"
    BY <1>7, <1>a, DropArtifactsKept DEF StopFiles, HostOnly, store
  <2>2. CASE pc' = "forget" /\ job' = job
    <3>1. files' = {}
      BY <1>7 DEF StopFiles, TypeInv, FilesOK
    <3>2. PhaseOK' /\ CandidateOK'
      BY <1>a, <1>d, <2>1, <2>2 DEF PhaseOK, CandidateOK
    <3> QED
      BY <1>a, <2>1, <2>2, <3>1, <3>2, HostOnlyGoes
  <2> QED
    BY <1>7, <1>c, <2>1, <2>2 DEF StopFiles
<1> QED
  BY <1>1, <1>2, <1>3, <1>4, <1>5, <1>6, <1>7 DEF StoppingStep

-----------------------------------------------------------------------------
(* The recovery of an active mount *)

LEMMA RecoveryStepKeeps ==
  ASSUME TypeInv, RecoveryStep
  PROVE  TypeInv'
<1> USE DEF Steps
<1>a. HostOK /\ TypeOK /\ job \in Jobs /\ PhaseOK /\ CandidateOK
  BY TypeInvParts
<1>b. ASSUME NoEffect PROVE HostOnly /\ HostKept
  BY <1>b, NoEffectKeeps
<1>c. ASSUME HostOnly, HostKept, End PROVE TypeInv'
  BY <1>c, HostOnlyEnds
<1>d. ASSUME pc \in CleanupSteps \union CandidateSteps \union AbsenceSteps
      PROVE  rec \in MountStates
  BY <1>a, <1>d, RecordInPhase DEF PhaseOK, CandidateOK
<1>1. CASE Revalidate
  <2>1. HostOnly /\ HostKept /\ pc = "revalidate"
    BY <1>1, <1>b DEF Revalidate
  <2>2. ServiceProcess(StopProcess(rec)) \in {0} \union Identities
    BY <1>a, <1>d, <2>1, ObservedProcess
  <2>3. CASE pc' = "oldStop" /\ job' = [job EXCEPT !.owned = ServiceProcess(StopProcess(rec))]
    <3>1. job' \in Jobs /\ job'.after = job.after
      BY <1>a, <2>2, <2>3, JobOwned
    <3> QED
      BY <2>1, <2>3, <3>1, SameWorkKeeps
  <2> QED
    BY <1>1, <1>c, <2>1, <2>3 DEF Revalidate
<1>2. CASE OldStop \/ OldKill \/ OldUnmount
  <2>1. HostOnly /\ HostKept
    BY <1>2, <1>a, SystemctlStopKept, KillKept, KernelUnmountKept, UnchangedHostKept
       DEF OldStop, OldKill, OldUnmount
  <2> QED
    BY <1>2, <1>a, <2>1, SameWorkKeeps DEF OldStop, OldKill, OldUnmount
<1>3. CASE Candidate
  <2> DEFINE o == IF ProcessObserved(rec) = "verified" THEN pidfile ELSE 0
             p == ServiceProcess(o)
             s == IF Running THEN {"stop"} ELSE {}
  <2>1. HostOnly /\ HostKept /\ pc = "candidate"
    BY <1>3, <1>b DEF Candidate
  <2>2. p \in {0} \union Identities /\ s \in SUBSET {"stop", "kill", "unmount"}
    <3>1. o \in {0} \union Identities
      BY <1>a DEF HostOK, HostTypeOK
    <3> QED
      BY <1>a, <1>d, <2>1, <3>1, ObservedProcess
  <2>3. CASE /\ pc' = "candidateStop"
             /\ job' = [job EXCEPT !.owned = p, !.failed = FALSE, !.plan = s]
    <3> HIDE DEF p, s
    <3>1. job' \in Jobs /\ job'.after = job.after
      BY <1>a, <2>2, <2>3 DEF Jobs
    <3> QED
      BY <2>1, <2>3, <3>1, SameWorkKeeps
  <2>4. CASE End
    BY <1>c, <2>1, <2>4
  <2> QED
    BY <1>3, <2>3, <2>4 DEF Candidate
<1>4. CASE CandidateStop \/ CandidateUnmount \/ CandidateKill
  <2>1. HostOnly /\ HostKept
    BY <1>4, <1>a, SystemctlStopKept, KillKept, KernelUnmountKept, UnchangedHostKept
       DEF CandidateStop, CandidateUnmount, CandidateKill
  <2> QED
    BY <1>4, <1>a, <2>1, SameWorkKeeps DEF CandidateStop, CandidateUnmount, CandidateKill
<1>5. CASE CandidateFiles
  <2>1. HostOnly /\ HostKept /\ rec' = rec /\ pc = "candidateFiles" /\ pc' = "oldAbsent" /\ job' = job
    BY <1>5, <1>a, RemoveStartupFilesKept DEF CandidateFiles, HostOnly, store
  <2>2. files' = {}
    BY <1>5 DEF CandidateFiles, RemoveStartupFiles, TypeInv, FilesOK
  <2>3. PhaseOK' /\ CandidateOK'
    BY <1>a, <2>1 DEF PhaseOK, CandidateOK
  <2> QED
    BY <1>a, <2>1, <2>2, <2>3, HostOnlyGoes
<1>6. CASE OldAbsent
  BY <1>6, <1>a, <1>b, <1>c, SameWorkKeeps DEF OldAbsent
<1>7. CASE OldCollect
  <2>1. HostOnly /\ HostKept
    BY <1>7, <1>a, ResetFailedKept, UnchangedHostKept DEF OldCollect
  <2> QED
    BY <1>7, <1>a, <1>c, <2>1, SameWorkKeeps DEF OldCollect
<1>8. CASE OldArtifacts
  <2>1. HostOnly /\ HostKept /\ rec' = rec /\ pc = "oldArtifacts" /\ files' \subseteq files
    BY <1>8, <1>a, RemoveArtifactsKept DEF OldArtifacts, HostOnly, HostKept, store
  <2>2. CASE ~job.failed /\ pc' = "commitFallback" /\ job.after = "startDesired" /\ job' = job
    <3>1. files' = {}
      BY <2>1, <2>2, TypeInvParts DEF FilesRemoved
    <3>2. PhaseOK' /\ CandidateOK'
      BY <1>a, <2>1, <2>2 DEF PhaseOK, CandidateOK
    <3> QED
      BY <1>a, <2>1, <2>2, <3>1, <3>2, HostOnlyGoes
  <2>3. CASE pc' = "commitDesired" /\ job.after # "startDesired" /\ job' = job
    <3>2. PhaseOK' /\ CandidateOK' /\ ~FilesRemoved'
      BY <1>a, <2>1, <2>3 DEF PhaseOK, CandidateOK, FilesRemoved
    <3> QED
      BY <1>a, <2>1, <2>3, <3>2, HostOnlyGoes
  <2> QED
    BY <1>8, <1>c, <2>1, <2>2, <2>3 DEF OldArtifacts
<1>9. CASE CommitDesired
  <2>1. PICK b \in Binaries : Commit(Starting("recovery", attempts + 1, b, rec.binary))
    BY <1>9 DEF CommitDesired
  <2>2. files = {} /\ rec.binary \in Binaries
    BY <1>9, <1>a, <1>d, StateFields DEF CommitDesired, PhaseOK, TypeInv, FilesOK
  <2> DEFINE j == [job EXCEPT !.after = "startDesired", !.creds = TRUE, !.plan = {}]
  <2>3. j \in Jobs
    BY <1>a DEF Jobs
  <2>4. Go("publishEnv", j) /\ rec.binary # NoBinary
    BY <1>9, <2>2, HostAssumption DEF CommitDesired
  <2> HIDE DEF j, Go
  <2> QED
    BY <2>1, <2>2, <2>3, <2>4, CommitKeeps
<1>10. CASE CommitFallback
  <2>1. files = {} /\ rec.fallback \in Binaries
    BY <1>10, <1>a, <1>d, TypeInvParts, StateFields
       DEF CommitFallback, FilesRemoved, CandidateOK
  <2> DEFINE j == [job EXCEPT !.after = "startFallback", !.plan = {}]
  <2>2. j \in Jobs /\ j.after = "startFallback"
    BY <1>a DEF Jobs
  <2>3. Commit(Starting("recovery", attempts + 1, rec.fallback, NoBinary)) /\ Go("publishEnv", j)
    BY <1>10 DEF CommitFallback, Fallback
  <2> HIDE DEF j, Go
  <2> QED
    BY <2>1, <2>2, <2>3, CommitKeeps
<1> QED
  BY <1>1, <1>2, <1>3, <1>4, <1>5, <1>6, <1>7, <1>8, <1>9, <1>10 DEF RecoveryStep

-----------------------------------------------------------------------------
(* The host by itself, and faults *)

LEMMA EnvironmentKeeps ==
  ASSUME TypeInv, Systemd \/ LateStart \/ Supervisor \/ Exits \/ DeadlinePasses
  PROVE  TypeInv'
<1>a. HostOK /\ TypeOK
  BY TypeInvParts
<1>1. /\ UNCHANGED <<rec, attempts, pc, job>> /\ expired' \in BOOLEAN
      /\ queued' \in {0} \union Attempts /\ faults' \in 0 .. MaxFaults
  BY <1>a DEF Systemd, LateStart, Supervisor, Exits, DeadlinePasses, store, TypeOK
<1>2. HostKept
  <2>1. CASE LateStart
    <3>1. queued \in Attempts
      BY <1>a, <2>1 DEF LateStart, TypeOK
    <3> QED
      BY <1>a, <2>1, <3>1, SystemdRunKept, UnchangedHostKept DEF LateStart
  <2> QED
    BY <1>a, <2>1, UnitStepKept, SupervisorStepKept, ProcessExitsKept, UnchangedHostKept
       DEF Systemd, Supervisor, Exits, DeadlinePasses
<1> QED
  BY <1>1, <1>2, StayKeeps

LEMMA FaultKeeps ==
  ASSUME TypeInv, Fault
  PROVE  TypeInv'
<1> USE DEF Steps
<1>a. HostOK /\ TypeOK /\ job \in Jobs /\ PhaseOK /\ CandidateOK
  BY TypeInvParts
<1>b. faults' \in 0 .. MaxFaults
  BY <1>a, FaultAssumption DEF Fault, Faulty, TypeOK
<1>1. CASE Interrupted \/ RunGivenUp \/ Reboot
  <2>1. HostKept
    BY <1>1, <1>a, UnchangedHostKept, HostRebootedKept DEF Interrupted, RunGivenUp, Reboot
  <2>2. queued' \in {0} \union Attempts
    BY <1>1, <1>a, RecordInPhase DEF Interrupted, RunGivenUp, Reboot, TypeOK, PhaseOK
  <2>3. UNCHANGED <<rec, attempts>> /\ expired' \in BOOLEAN /\ End
    BY <1>1, <1>a DEF Interrupted, RunGivenUp, Reboot, store, TypeOK
  <2> QED
    BY <1>b, <2>1, <2>2, <2>3, EndKeeps
<1>2. CASE LosesPart
  BY <1>2, <1>a, <1>b, PartLostKept, StayKeeps DEF LosesPart, store, TypeOK
<1>3. CASE Tolerated
  <2>1. /\ HostKept /\ UNCHANGED <<rec, attempts>> /\ expired' \in BOOLEAN
        /\ queued' \in {0} \union Attempts /\ files' = files
    BY <1>3, <1>a, UnchangedHostKept DEF Tolerated, store, host, TypeOK
  <2>2. /\ [job EXCEPT !.failed = TRUE] \in Jobs
        /\ [job EXCEPT !.failed = TRUE].after = job.after
        /\ [job EXCEPT !.failed = TRUE].failed = TRUE
    BY <1>a, JobFailed
  <2>3. job' \in Jobs /\ job'.after = job.after /\ job' \in {job, [job EXCEPT !.failed = TRUE]}
    BY <1>3, <1>a, <2>2 DEF Tolerated
  <2>4. \/ pc = "stopUnit" /\ pc' = "stopUnmount"
        \/ pc = "stopUnmount" /\ pc' = "stopKill"
        \/ pc = "stopKill" /\ pc' = "stopCheckMount"
        \/ pc = "expiredUnmount" /\ pc' = "expiredKill"
        \/ pc = "oldStop" /\ pc' = "oldKill"
        \/ pc = "oldKill" /\ pc' = "oldUnmount"
        \/ pc = "oldUnmount" /\ pc' = "oldAbsent"
        \/ pc = "candidateUnmount" /\ pc' = "candidateKill"
        \/ pc = "candidateFiles" /\ pc' = "oldAbsent" /\ job'.failed = TRUE
        \/ pc \in LaunchSteps /\ job.after = "startDesired" /\ pc' = "candidate"
        \/ pc \in LaunchSteps /\ job.after = "launch" /\ pc' = "observeStarting"
    <3>1. CASE pc = "candidateFiles" /\ Go("oldAbsent", [job EXCEPT !.failed = TRUE])
      BY <2>2, <3>1
    <3> HIDE DEF Go
    <3>2. CASE \/ pc = "stopUnit" /\ Go("stopUnmount", job)
               \/ pc = "stopUnmount" /\ Go("stopKill", job)
               \/ pc = "stopKill" /\ Go("stopCheckMount", job)
               \/ pc = "expiredUnmount" /\ Go("expiredKill", job)
               \/ pc \in LaunchSteps /\ job.after = "startDesired" /\ Go("candidate", job)
               \/ pc \in LaunchSteps /\ job.after = "launch" /\ Go("observeStarting", job)
      BY <3>2, Zenon DEF Go
    <3>3. CASE \/ pc = "oldStop" /\ Go("oldKill", [job EXCEPT !.failed = TRUE])
               \/ pc = "oldKill" /\ Go("oldUnmount", [job EXCEPT !.failed = TRUE])
               \/ pc = "oldUnmount" /\ Go("oldAbsent", [job EXCEPT !.failed = TRUE])
               \/ pc = "candidateUnmount" /\ Go("candidateKill", [job EXCEPT !.failed = TRUE])
      BY <3>3, Zenon DEF Go
    <3> QED
      BY <1>3, <3>1, <3>2, <3>3, Zenon DEF Tolerated
  <2>5. PhaseOK' /\ CandidateOK' /\ ~FilesRemoved'
    <3>1. rec' = rec /\ job'.after = job.after
      BY <2>1, <2>3
    <3>2. PhaseOK'
      BY <1>a, <2>4, <3>1 DEF PhaseOK, CandidateOK
    <3>3. CandidateOK'
      BY <1>a, <2>4, <3>1 DEF PhaseOK, CandidateOK
    <3>4. ~FilesRemoved'
      BY <1>a, <2>4, <3>1 DEF CandidateOK, FilesRemoved
    <3> QED
      BY <3>2, <3>3, <3>4
  <2>6. pc' \in Steps
    BY <2>4
  <2> QED
    BY <1>b, <2>1, <2>3, <2>5, <2>6, GoKeeps
<1> QED
  BY <1>1, <1>2, <1>3 DEF Fault, Faulty

-----------------------------------------------------------------------------
(* Results *)

LEMMA InitTypeInv == Init => TypeInv
<1> SUFFICES ASSUME Init PROVE TypeInv
  OBVIOUS
<1>1. HostTypeOK /\ UnitNamed /\ files = {}
  BY HostAssumption, NoUnitTyped DEF Init, HostInit, HostTypeOK, UnitNamed, Running
<1>2. TypeOK
  <2>1. attempts \in 0 .. MaxAttempts /\ faults \in 0 .. MaxFaults
    BY HostAssumption, FaultAssumption DEF Init
  <2>2. rec \in MountStates \union {NoState} /\ expired \in BOOLEAN /\ pc \in Steps /\ job \in Jobs
        /\ queued \in {0} \union Attempts
    BY NoJobTyped DEF Init, Steps
  <2> QED
    BY <1>1, <2>1, <2>2 DEF TypeOK
<1>3. RecordOK /\ PhaseOK /\ CandidateOK /\ FilesOK
  BY <1>1, NoJobTyped DEF Init, RecordOK, PhaseOK, CandidateOK, FilesOK
<1> QED
  BY <1>1, <1>2, <1>3 DEF TypeInv

LEMMA NextKeepsTypeInv == TypeInv /\ [Next]_vars => TypeInv'
<1> SUFFICES ASSUME TypeInv, [Next]_vars PROVE TypeInv'
  OBVIOUS
<1>1. CASE UNCHANGED vars
  <2>1. HostKept
    BY <1>1, TypeInvParts, UnchangedHostKept DEF vars
  <2>2. UNCHANGED <<rec, attempts, pc, job, expired, queued, faults>>
    BY <1>1 DEF vars, store
  <2> QED
    BY <2>1, <2>2, TypeInvParts, StayKeeps
<1> QED
  BY <1>1, RequestKeeps, LaunchStepKeeps, StartingStepKeeps, StoppingStepKeeps,
     RecoveryStepKeeps, EnvironmentKeeps, FaultKeeps DEF Next, OperationStep

(* Each step of an operation works on the phase of the record it is meant  *)
(* for, and the record is one the store accepts.                           *)
THEOREM StepsFitRecord == Spec => []TypeInv
BY InitTypeInv, NextKeepsTypeInv, PTL DEF Spec

(* Type correctness. *)
THEOREM TypeCorrect == Spec => []TypeOK
<1>1. TypeInv => TypeOK
  BY DEF TypeInv
<1> QED
  BY <1>1, StepsFitRecord, PTL

(* The startup files, with the credentials, belong to the attempt on       *)
(* record while it may be launched or cleaned up; no other file is left    *)
(* behind, late starts or not.                                             *)
THEOREM NoFilesLeftBehind == Spec => []FilesOfAttempt
<1>1. TypeInv => FilesOfAttempt
  BY DEF TypeInv, FilesOK, FilesOfAttempt
<1> QED
  BY <1>1, StepsFitRecord, PTL

(* The steps that write or delete the record. *)
RecordStep ==
  \/ CommitStage \/ Promote \/ SwitchToFallback \/ Forget \/ Intend
  \/ CommitDesired \/ CommitFallback

LEMMA OthersKeepRecord ==
  ASSUME Next
  PROVE  RecordStep \/ UNCHANGED <<rec, attempts>>
<1> USE DEF HostOnly, NoEffect, store, RecordStep
<1>1. CASE Request
  BY <1>1 DEF Request, StageNew, Continue, StageElsewhere, Unstage, TakeDown, Begin
<1>2. CASE LaunchStep
  BY <1>2 DEF LaunchStep, InspectNoState, ResetNoState, CleanNoState, NoAttempt, PublishEnv,
              PublishArgs, RunUnit, WaitReady, WaitFails, PromoteFiles
<1>3. CASE StartingStep
  BY <1>3 DEF StartingStep, ObserveStarting, DecideStarting, UnmountStale, ResetStale,
              AbsentArtifacts, AbsentFiles, ResolveCredentials, ExpiredStop, ExpiredUnmount,
              ExpiredKill, ExpiredReset, ExpiredCheck, ExpiredFiles
<1>4. CASE StoppingStep
  BY <1>4 DEF StoppingStep, ObserveStopping, DecideStopping, StopReset, StopUnit, StopUnmount,
              StopKill, StopCheckMount, StopCheckRest, StopFiles
<1>5. CASE RecoveryStep
  BY <1>5 DEF RecoveryStep, Revalidate, OldStop, OldKill, OldUnmount, Candidate, CandidateStop,
              CandidateUnmount, CandidateKill, CandidateFiles, OldAbsent, OldCollect, OldArtifacts
<1>6. CASE Systemd \/ LateStart \/ Supervisor \/ Exits \/ DeadlinePasses
  BY <1>6 DEF Systemd, LateStart, Supervisor, Exits, DeadlinePasses
<1>7. CASE Fault
  BY <1>7 DEF Fault, Faulty, Interrupted, RunGivenUp, Tolerated, Reboot, LosesPart
<1> QED
  BY <1>1, <1>2, <1>3, <1>4, <1>5, <1>6, <1>7 DEF Next, OperationStep

(* Only the deletion leaves no record. *)
LEMMA OnlyForgetDeletes ==
  ASSUME TypeInv, RecordStep, rec' # rec, rec' = NoState
  PROVE  Forget
<1>1. ASSUME NEW r, Commit(r), r.phase = "starting" PROVE FALSE
  BY <1>1 DEF Commit, NoState
<1>2. Promote => FALSE
  <2>1. ASSUME Promote PROVE rec'.phase = "active"
    <3>1. rec \in MountStates
      BY <2>1, TypeInvParts, RecordInPhase DEF Promote, PhaseOK
    <3> QED
      BY <2>1, <3>1 DEF Promote, MountStates
  <2> QED
    BY <2>1 DEF NoState
<1>3. Intend => FALSE
  <2> SUFFICES ASSUME Intend PROVE FALSE
    OBVIOUS
  <2>1. rec \in MountStates
    BY TypeInvParts, RecordInPhase DEF Intend, PhaseOK
  <2>2. rec' = Stopping(rec, ServiceProcess(StopProcess(rec)))
    BY DEF Intend, NoEffect, store
  <2>3. ServiceProcess(StopProcess(rec)) \in {0} \union Identities
    BY <2>1, TypeInvParts, ObservedProcess
  <2>4. rec'.phase = "stopping"
    BY <2>1, <2>2, <2>3, StoppingTyped
  <2> QED
    BY <2>4 DEF NoState
<1>4. ~(CommitStage \/ SwitchToFallback \/ CommitDesired \/ CommitFallback)
  BY <1>1 DEF CommitStage, SwitchToFallback, CommitDesired, CommitFallback, Fallback,
              Starting, NoEffect, store
<1> QED
  BY <1>2, <1>3, <1>4 DEF RecordStep

(* What is written is a transition of the record's phases. *)
LEMMA WritesAreTransitions ==
  ASSUME TypeInv, RecordStep, rec' # rec, rec' # NoState
  PROVE  ValidTransition(rec, rec')
<1>a. PhaseOK /\ CandidateOK /\ TypeOK /\ RecordOK
  BY DEF TypeInv
<1>b. NoState.phase = "none" /\ attempts \in Nat
  BY <1>a, HostAssumption DEF NoState, TypeOK
<1>1. CASE CommitStage
  <2>1. rec = NoState /\ rec'.phase = "starting"
    BY <1>1, <1>a DEF CommitStage, PhaseOK, Commit, Starting
  <2> QED
    BY <1>b, <2>1 DEF ValidTransition
<1>2. CASE Promote
  <2>1. rec.phase = "starting" /\ rec \in MountStates /\ rec # NoState
    BY <1>2, <1>a, RecordInPhase DEF Promote, PhaseOK
  <2>2. rec'.phase = "active" /\ rec'.attempt = rec.attempt /\ rec'.binary = rec.binary
    BY <1>2, <2>1 DEF Promote, MountStates
  <2> QED
    BY <2>1, <2>2 DEF ValidTransition, SameAttempt
<1>3. CASE SwitchToFallback \/ CommitFallback
  <2>0. /\ rec.phase = "starting" /\ rec # NoState /\ rec.fallback # NoBinary
        /\ rec.attempt <= attempts /\ rec.attempt \in Nat /\ ValidState(rec)
    BY <1>3, <1>a, RecordInPhase
       DEF SwitchToFallback, CommitFallback, PhaseOK, CandidateOK, RecordOK, Attempts
  <2>1. /\ rec.phase = "starting" /\ rec # NoState /\ rec.fallback # NoBinary
        /\ rec.attempt <= attempts /\ rec.attempt \in Nat /\ rec.reason = "recovery"
    BY <2>0 DEF ValidState, ValidStarting
  <2>2. rec' = Starting("recovery", attempts + 1, rec.fallback, NoBinary)
    BY <1>3 DEF SwitchToFallback, CommitFallback, Commit, Fallback, NoEffect, store
  <2>3. /\ rec'.phase = "starting" /\ rec'.attempt = attempts + 1 /\ rec'.reason = "recovery"
        /\ rec'.binary = rec.fallback /\ rec'.fallback = NoBinary
    BY <2>2 DEF Starting
  <2>4. rec'.attempt # rec.attempt
    BY <1>b, <2>1, <2>3
  <2>5. StartingToStarting(rec, rec')
    BY <2>1, <2>3, <2>4 DEF StartingToStarting
  <2> QED
    BY <2>1, <2>3, <2>5 DEF ValidTransition
<1>4. CASE Intend
  <2> DEFINE p == ServiceProcess(StopProcess(rec))
  <2>1. rec \in MountStates /\ rec # NoState /\ rec.phase \in {"starting", "active"}
    BY <1>4, <1>a, RecordInPhase DEF Intend, PhaseOK
  <2>2. p \in {0} \union Identities
    BY <1>a, <2>1, ObservedProcess
  <2>3. rec' = Stopping(rec, p)
    BY <1>4 DEF Intend, NoEffect, store
  <2> HIDE DEF p
  <2>4. /\ rec'.phase = "stopping" /\ rec'.attempt = rec.attempt /\ rec'.binary = rec.binary
        /\ rec'.startup = rec.startup /\ (rec.pid # 0 => rec'.pid # 0)
    BY <2>1, <2>2, <2>3, StoppingTyped
  <2>5. rec.phase = "active" => rec.pid # 0
    BY <1>a, <2>1 DEF RecordOK, ValidState, ValidActive
  <2> QED
    BY <2>1, <2>4, <2>5 DEF ValidTransition, SameAttempt
<1>5. CASE CommitDesired
  <2>1. /\ rec.phase = "active" /\ rec # NoState /\ rec.attempt <= attempts /\ rec.attempt \in Nat
    BY <1>5, <1>a, RecordInPhase DEF CommitDesired, PhaseOK, RecordOK, Attempts
  <2>2. /\ rec'.phase = "starting" /\ rec'.attempt = attempts + 1 /\ rec'.reason = "recovery"
        /\ rec'.fallback = rec.binary
    BY <1>5 DEF CommitDesired, Commit, Starting
  <2>3. rec'.attempt # rec.attempt
    BY <1>b, <2>1, <2>2
  <2>4. ActiveToRecovery(rec, rec')
    BY <2>2, <2>3 DEF ActiveToRecovery
  <2> QED
    BY <2>1, <2>2, <2>4 DEF ValidTransition
<1>6. CASE Forget
  BY <1>6 DEF Forget
<1> QED
  BY <1>1, <1>2, <1>3, <1>4, <1>5, <1>6 DEF RecordStep

(* The store refuses none of the records that the operations write or      *)
(* delete, whatever happened on the host since the observation they follow *)
(* from.                                                                   *)
THEOREM StoreAcceptsWrites == Spec => WritesAccepted
<1> DEFINE Accepted == rec' # rec =>
             IF rec' = NoState THEN Deletable(rec)
             ELSE ValidState(rec') /\ ValidTransition(rec, rec')
<1>1. TypeInv /\ TypeInv' /\ [Next]_vars => Accepted
  <2> SUFFICES ASSUME TypeInv, TypeInv', [Next]_vars, rec' # rec PROVE Accepted
    OBVIOUS
  <2>1. Next /\ RecordStep
    BY OthersKeepRecord DEF vars, store
  <2>2. CASE rec' = NoState
    <3>1. Forget
      BY <2>1, <2>2, OnlyForgetDeletes
    <3>2. Deletable(rec)
      BY <3>1, TypeInvParts DEF Forget, PhaseOK, Deletable
    <3> QED
      BY <2>2, <3>2
  <2>3. CASE rec' # NoState
    <3>1. ValidState(rec)'
      BY <2>3 DEF TypeInv, RecordOK
    <3>2. ValidState(rec')
      BY <3>1 DEF ValidState, ValidStarting, ValidActive, ValidStopping
    <3> QED
      BY <2>1, <2>3, <3>2, WritesAreTransitions
  <2> QED
    BY <2>2, <2>3
<1>2. WritesAccepted <=> [][Accepted]_vars
  BY DEF WritesAccepted
<1> QED
  BY <1>1, <1>2, StepsFitRecord, PTL DEF Spec
=============================================================================
