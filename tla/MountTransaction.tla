--------------------------- MODULE MountTransaction ---------------------------
(***************************************************************************)
(* The durable mount transaction of one volume on a node.  NodeStageVolume *)
(* and the recovery at plugin start bring the staging mount up through a   *)
(* durable record that goes starting -> active, NodeUnstageVolume takes it *)
(* down through stopping; each of them resumes what a failed or killed     *)
(* operation left behind, from the record and from what the host shows.    *)
(*                                                                         *)
(* lockVolume lets one operation run at a time, so the interleavings are   *)
(* those of that operation with the host, with failures of its commands,   *)
(* with the end of the plugin at any step and with reboots.                *)
(***************************************************************************)
EXTENDS MountHost

CONSTANTS
  LateStarts,   \* may a start arrive after the systemd-run that asked for it was killed?
  MaxFaults     \* bound on failed operations, crashes, lost parts and reboots

ASSUME FaultAssumption == LateStarts \in BOOLEAN /\ MaxFaults \in Nat

VARIABLES
  rec,        \* the volume's durable mount state
  expired,    \* has the startup deadline of the starting attempt passed?
  attempts,   \* attempt identifiers generated so far
  pc,         \* next step of the operation that holds the volume's lock
  job,        \* its local variables
  queued,     \* attempt whose start systemd has yet to process, 0 without one
  faults

store == <<rec, expired, attempts>>
vars == <<host, store, pc, job, queued, faults>>

(* Mount states.  startup: the record names startup files.  fallback is    *)
(* the binary that was active before a recovery, pid the verified          *)
(* supervisor.                                                             *)
MountStates ==
  [phase : {"starting", "active", "stopping"}, reason : {"stage", "recovery", "none"},
   attempt : Attempts, binary : Binaries, fallback : Binaries \union {NoBinary},
   pid : {0} \union Identities, startup : BOOLEAN]

NoState == [phase |-> "none"]

(* initializeStartingMountState *)
Starting(reason, a, b, fb) ==
  [phase |-> "starting", reason |-> reason, attempt |-> a, binary |-> b,
   fallback |-> fb, pid |-> 0, startup |-> TRUE]

Steps ==
  {"idle",
   "noState", "noStateReset", "noStateArtifacts", "launch",
   "publishEnv", "publishArgs", "run", "wait", "promoteFiles", "promote",
   "observeStarting", "decideStarting", "unmountStale", "resetStale", "absent",
   "absentFiles", "credentials", "switch", "forget",
   "expiredStop", "expiredUnmount", "expiredKill", "expiredReset", "expiredCheck",
   "expiredFiles",
   "intend", "observeStopping", "decideStopping", "stopReset", "stopUnit",
   "stopUnmount", "stopKill", "stopCheckMount", "stopCheckRest", "stopFiles",
   "revalidate", "oldStop", "oldKill", "oldUnmount", "candidate", "candidateStop",
   "candidateUnmount", "candidateKill", "candidateFiles", "oldAbsent", "oldCollect",
   "oldArtifacts", "commitDesired", "commitFallback"}

(* op: the request; after: what an end of the readiness wait leads to;     *)
(* mounted, proc, owned: what was observed; late: the deadline had passed  *)
(* at that time; failed: a step failed or the unit was found exited; plan: *)
(* the cleanup decided on; gaveUp: the attempt found exited by this        *)
(* operation (history only).                                               *)
Jobs ==
  [op : {"none", "stage", "launch", "recover", "unstage"},
   after : {"none", "launch", "reconcile", "resume", "startDesired", "startFallback"},
   creds : BOOLEAN, mounted : BOOLEAN, proc : {"absent", "dead", "verified"},
   owned : {0} \union Identities, late : BOOLEAN, failed : BOOLEAN,
   plan : SUBSET {"stop", "kill", "unmount"}, gaveUp : {0} \union Attempts]

NoJob ==
  [op |-> "none", after |-> "none", creds |-> FALSE, mounted |-> FALSE,
   proc |-> "absent", owned |-> 0, late |-> FALSE, failed |-> FALSE,
   plan |-> {}, gaveUp |-> 0]

TypeOK ==
  /\ HostTypeOK
  /\ rec \in MountStates \union {NoState}
  /\ expired \in BOOLEAN
  /\ attempts \in 0 .. MaxAttempts
  /\ pc \in Steps
  /\ job \in Jobs
  /\ queued \in {0} \union Attempts
  /\ faults \in 0 .. MaxFaults

Init ==
  /\ HostInit
  /\ rec = NoState
  /\ expired = FALSE
  /\ attempts = 0
  /\ pc = "idle"
  /\ job = NoJob
  /\ queued = 0
  /\ faults = 0

-----------------------------------------------------------------------------
(* Shapes of steps.  An operation moves on with new local variables, or it *)
(* returns and its deferred unlock runs.                                   *)

Go(step, j) == pc' = step /\ job' = j
End == Go("idle", NoJob)

(* Only the host changes, by one command; only the operation moves on. *)
HostOnly == UNCHANGED <<store, queued, faults>>
NoEffect == UNCHANGED <<host, store, queued, faults>>

-----------------------------------------------------------------------------
(* Ownership *)

(* verifyHostPIDOwnership: the process lives in the unit and executes the  *)
(* recorded binary at the staging path.                                    *)
Owned(p, r) == \E q \in procs : q.id = p /\ q.binary = r.binary

(* verifyStartingLauncherPID: still the launcher of this attempt. *)
OwnedLauncher(p, r) == \E q \in procs : q.id = p /\ q.binary = NoBinary /\ q.attempt = r.attempt

(* observeStartingProcess: what the process-state file testifies to. *)
ProcessObserved(r) ==
  CASE pidfile = 0 -> "absent"
    [] pidfile # 0 /\ ~Alive(pidfile) -> "dead"
    [] Owned(pidfile, r) -> "verified"
    [] OTHER -> "mismatch"

(* verifyMountSystemdUnitDescription *)
DescriptionMatches(r) == unit.attempt = r.attempt

(* verifyStartingSystemdMainPIDOwnership *)
StartingMainVerified(r) ==
  /\ DescriptionMatches(r)
  /\ unit.main # 0 => Owned(unit.main, r) \/ OwnedLauncher(unit.main, r)

(* verifyStartingSystemdOwnership: the unit runs this very process. *)
ServiceOwns(p, r) == Running /\ StartingMainVerified(r) /\ unit.main = p /\ p # 0

(* observeStopProcess: the recorded process and the one of the process-    *)
(* state file, which must not contradict each other.                       *)
StopProcessClear(r) ==
  /\ Alive(r.pid) => Owned(r.pid, r)
  /\ ProcessObserved(r) # "mismatch"
  /\ Alive(r.pid) /\ ProcessObserved(r) = "verified" => r.pid = pidfile

StopProcessOfFile(r) == IF ProcessObserved(r) = "verified" THEN pidfile ELSE 0

StopProcess(r) ==
  IF ProcessObserved(r) = "verified" THEN pidfile ELSE IF Alive(r.pid) THEN r.pid ELSE 0

(* verifyStopServiceProcess: the main process of a running unit is ours    *)
(* and is the process found before, if one was.                            *)
ServiceClear(r, p) ==
  Running =>
    /\ DescriptionMatches(r)
    /\ IF r.startup THEN StartingMainVerified(r) ELSE unit.main # 0 /\ Owned(unit.main, r)
    /\ unit.main # 0 => p \in {0, unit.main}

ServiceProcess(p) == IF Running /\ unit.main # 0 THEN unit.main ELSE p

UnitIdentified(r) == unit.state # "notfound" => DescriptionMatches(r)

-----------------------------------------------------------------------------
(* What mountStateStore accepts: validateMountState of the new record, and *)
(* validateMountStateTransition from the old one.  The arguments of a      *)
(* mount go with its binary; the timestamps are left out.                  *)

ValidStarting(r) ==
  /\ r.reason \in {"stage", "recovery"}
  /\ r.startup
  /\ r.pid = 0
  /\ r.reason = "stage" => r.fallback = NoBinary

ValidActive(r) ==
  /\ r.reason = "none" /\ ~r.startup /\ r.fallback = NoBinary
  /\ r.pid # 0

ValidStopping(r) == r.reason = "none" /\ r.fallback = NoBinary

ValidState(r) ==
  CASE r.phase = "starting" -> ValidStarting(r)
    [] r.phase = "active" -> ValidActive(r)
    [] r.phase = "stopping" -> ValidStopping(r)

SameAttempt(r, s) == s.attempt = r.attempt /\ s.binary = r.binary

StartingToStarting(r, s) ==
  \/ s = r
  \/ /\ s.attempt # r.attempt
     /\ r.reason = "recovery" /\ s.reason = "recovery"
     /\ r.fallback # NoBinary
     /\ s.binary = r.fallback /\ s.fallback = NoBinary

ActiveToRecovery(r, s) ==
  s.reason = "recovery" /\ s.attempt # r.attempt /\ s.fallback = r.binary

ValidTransition(r, s) ==
  CASE r = NoState -> s.phase = "starting"
    [] r.phase = "starting" /\ s.phase = "starting" -> StartingToStarting(r, s)
    [] r.phase = "starting" /\ s.phase = "active" -> SameAttempt(r, s)
    [] r.phase = "starting" /\ s.phase = "stopping" ->
         SameAttempt(r, s) /\ s.startup = r.startup
    [] r.phase = "active" /\ s.phase = "starting" -> ActiveToRecovery(r, s)
    [] r.phase = "active" /\ s.phase = "stopping" ->
         SameAttempt(r, s) /\ s.pid # 0
    [] OTHER -> s = r

Deletable(r) == r.phase \in {"starting", "stopping"}

-----------------------------------------------------------------------------
(* The start of an operation *)

Begin(op, step, j) ==
  /\ pc = "idle"
  /\ Go(step, [j EXCEPT !.op = op])
  /\ NoEffect

(* observeActiveRecovery: an active record whose host side is not          *)
(* contradictory; healthy when every part is there.                        *)
ActiveObserved == StopProcessClear(rec) /\ ServiceClear(rec, StopProcess(rec))

Healthy == ActiveObserved /\ Running /\ ProcessObserved(rec) = "verified" /\ IsMountPoint

(* decideActiveRecovery, without the start and the artifacts. *)
CleanupPlan ==
  LET process == StopProcess(rec) # 0 IN
  CASE Running /\ process -> {"stop"} \union (IF IsMountPoint THEN {"unmount"} ELSE {})
    [] Running /\ ~process -> {"stop"}
    [] ~Running /\ process -> {"kill"} \union (IF IsMountPoint THEN {"unmount"} ELSE {})
    [] OTHER -> IF IsMountPoint THEN {"unmount"} ELSE {}

(* NodeStageVolume, and recoverOneNodeMount for a record found at plugin   *)
(* start.  A healthy active mount is a success without effect.             *)
StageNew == rec = NoState /\ Begin("stage", "noState", NoJob)

Continue(op) ==
  \/ rec.phase = "starting" /\ Begin(op, "observeStarting", NoJob)
  \/ rec.phase = "stopping" /\ Begin(op, "observeStopping", NoJob)
  \/ /\ rec.phase = "active"
     /\ ActiveObserved /\ ~Healthy
     /\ Begin(op, "revalidate", [NoJob EXCEPT !.plan = CleanupPlan])

(* Also a NodeStageVolume for another path, which the record's path must   *)
(* not occupy (reconcileStaleStageStateForMount).                          *)
TakeDown(op) ==
  /\ op = "stage" => ~IsMountPoint
  /\ \/ rec.phase \in {"starting", "active"} /\ Begin(op, "intend", NoJob)
     \/ rec.phase = "stopping" /\ Begin(op, "observeStopping", NoJob)

Unstage == TakeDown("unstage")
StageElsewhere == TakeDown("stage")

-----------------------------------------------------------------------------
(* No record: observeNoStateMount and reconcileNoStateMount *)

NoStateClear == ~IsMountPoint /\ ~Running /\ ~Alive(pidfile)

NoStateObserved == [failed |-> unit.state = "exited",
                    proc |-> IF pidfile = 0 THEN "absent" ELSE "dead"]

InspectNoState ==
  /\ pc = "noState"
  /\ IF NoStateClear
     THEN Go("noStateReset", [job EXCEPT !.failed = NoStateObserved.failed,
                                         !.proc = NoStateObserved.proc])
     ELSE End
  /\ NoEffect

ResetNoState ==
  /\ pc = "noStateReset"
  /\ IF NoStateClear /\ NoStateObserved = [failed |-> job.failed, proc |-> job.proc]
     THEN /\ ResetFailed
          /\ IF unit'.state = "notfound" THEN Go("noStateArtifacts", job) ELSE End
     ELSE End /\ UNCHANGED host
  /\ HostOnly

CleanNoState ==
  /\ pc = "noStateArtifacts"
  /\ IF NoStateClear /\ unit.state = "notfound"
     THEN RemoveArtifacts /\ Go("launch", job)
     ELSE End /\ UNCHANGED host
  /\ HostOnly

-----------------------------------------------------------------------------
(* Launch *)

(* A new record: NewAttemptID and the atomic write of a starting state. *)
Commit(r) ==
  /\ attempts < MaxAttempts
  /\ attempts' = attempts + 1
  /\ rec' = r
  /\ expired' = FALSE
  /\ UNCHANGED <<host, queued, faults>>

CommitStage ==
  /\ pc = "launch"
  /\ \E b \in Binaries : Commit(Starting("stage", attempts + 1, b, NoBinary))
  /\ Go("publishEnv", [NoJob EXCEPT !.op = "launch", !.after = "launch", !.creds = TRUE])

(* No identifier for another attempt. *)
NoAttempt ==
  /\ pc \in {"launch", "switch", "commitDesired", "commitFallback"}
  /\ attempts = MaxAttempts
  /\ End
  /\ NoEffect

PublishEnv ==
  /\ pc = "publishEnv"
  /\ PublishFile("env", rec.attempt, rec.binary)
  /\ Go("publishArgs", job)
  /\ HostOnly

PublishArgs ==
  /\ pc = "publishArgs"
  /\ PublishFile("args", rec.attempt, rec.binary)
  /\ Go("run", job)
  /\ HostOnly

(* A start that fails is cleaned up at once only in an active recovery. *)
StartFailed == IF job.after = "startDesired" THEN Go("candidate", job) ELSE End

RunUnit ==
  /\ pc = "run"
  /\ IF unit.state = "notfound"
     THEN SystemdRun(rec.attempt) /\ Go("wait", job)
     ELSE StartFailed /\ UNCHANGED host
  /\ HostOnly

Ready == IsMountPoint /\ ProcessObserved(rec) = "verified" /\ ServiceOwns(pidfile, rec)

(* waitForMountAndPromote *)
WaitReady ==
  /\ pc = "wait" /\ Ready
  /\ Go("promoteFiles", [job EXCEPT !.owned = pidfile])
  /\ NoEffect

AfterWaitWithoutCleanup ==
  CASE job.after = "launch" -> Go("observeStarting", job)
    [] job.after = "reconcile" -> IF expired THEN Go("observeStarting", job) ELSE End
    [] job.after = "startDesired" -> Go("commitFallback", job)
    [] OTHER -> End

AfterWait ==
  CASE job.after = "launch" -> Go("observeStarting", job)
    [] job.after = "reconcile" -> IF expired THEN Go("observeStarting", job) ELSE End
    [] job.after = "startDesired" -> Go("candidate", job)
    [] OTHER -> End

WaitFails ==
  /\ pc = "wait" /\ ~Ready
  /\ \/ expired
     \/ ProcessObserved(rec) \in {"dead", "mismatch"}
     \/ ProcessObserved(rec) = "verified" /\ IsMountPoint
  /\ AfterWait
  /\ NoEffect

(* promoteActive *)
PromoteFiles ==
  /\ pc = "promoteFiles"
  /\ RemoveStartupFiles(rec.attempt)
  /\ Go("promote", job)
  /\ HostOnly

PromoteWithoutIdentity ==
  /\ pc = "promote"
  /\ rec' = [rec EXCEPT !.phase = "active", !.reason = "none", !.fallback = NoBinary,
                        !.startup = FALSE]
  /\ expired' = FALSE
  /\ End
  /\ UNCHANGED <<host, attempts, queued, faults>>

Promote ==
  /\ pc = "promote"
  /\ rec' = [rec EXCEPT !.phase = "active", !.reason = "none", !.fallback = NoBinary,
                        !.pid = job.owned, !.startup = FALSE]
  /\ expired' = FALSE
  /\ End
  /\ UNCHANGED <<host, attempts, queued, faults>>

-----------------------------------------------------------------------------
(* startingReconciler.Reconcile *)

ObserveStarting ==
  /\ pc = "observeStarting"
  /\ IF ProcessObserved(rec) = "mismatch"
     THEN End
     ELSE Go("decideStarting",
             [job EXCEPT !.mounted = IsMountPoint, !.proc = ProcessObserved(rec),
                         !.owned = IF ProcessObserved(rec) = "verified" THEN pidfile ELSE 0,
                         !.after = "reconcile", !.failed = FALSE])
  /\ NoEffect

(* The unit is queried after the mount and the process were observed. *)
FoundReady == job.mounted /\ job.proc = "verified"

CanPromote == FoundReady /\ ServiceOwns(job.owned, rec)

CanWaitPastDeadline == ~FoundReady /\ Running /\ job.proc # "dead"

CanWait == ~FoundReady /\ Running /\ job.proc # "dead" /\ ~expired

(* failExpiredStarting starts with the ownership of what it will stop. *)
CanGiveUp ==
  /\ ~FoundReady /\ Running /\ job.proc # "dead" /\ expired
  /\ StartingMainVerified(rec)
  /\ unit.main # 0 => job.owned \in {0, unit.main}

(* The unit has exited or is gone: nothing of ours may live, and a mount   *)
(* must have a dead owner.                                                 *)
CanClean ==
  /\ ~FoundReady /\ ~Running /\ job.proc # "verified"
  /\ job.mounted => job.proc = "dead"
  /\ UnitIdentified(rec)

StartCleaning ==
  LET exited == unit.state = "exited" IN
  Go(IF job.mounted THEN "unmountStale" ELSE IF exited THEN "resetStale" ELSE "absent",
     [job EXCEPT !.failed = exited, !.late = expired,
                 !.gaveUp = IF exited THEN rec.attempt ELSE @])

DecideStarting ==
  /\ pc = "decideStarting"
  /\ CASE CanPromote -> Go("promoteFiles", job)
       [] CanWait -> Go("wait", job)
       [] CanGiveUp -> Go("expiredStop", [job EXCEPT !.owned = ServiceProcess(job.owned)])
       [] CanClean -> StartCleaning
       [] OTHER -> End
  /\ NoEffect

UnmountStale ==
  /\ pc = "unmountStale"
  /\ KernelUnmount
  /\ IF mounts' = {} THEN Go(IF job.failed THEN "resetStale" ELSE "absent", job) ELSE End
  /\ HostOnly

(* removeFailedUnit: reset-failed of a unit collected meanwhile is an      *)
(* error.                                                                  *)
ResetStale ==
  /\ pc = "resetStale"
  /\ ResetFailed
  /\ IF unit # NoUnit /\ unit'.state = "notfound" THEN Go("absent", job) ELSE End
  /\ HostOnly

(* handleAbsentStarting *)
AbsentArtifacts ==
  /\ pc = "absent"
  /\ IF job.proc = "dead"
     THEN /\ RemoveArtifacts
          /\ IF ArtifactsRemovable THEN Go("absentFiles", job) ELSE End
     ELSE Go("absentFiles", job) /\ UNCHANGED host
  /\ HostOnly

ResumeCandidate == ~job.failed /\ ~job.late

NextCandidateUnchecked ==
  CASE rec.reason = "stage" -> Go("forget", job)
    [] rec.reason # "stage" /\ ~job.creds -> Go("credentials", job)
    [] OTHER -> IF ResumeCandidate THEN Go("publishEnv", [job EXCEPT !.after = "resume"])
                                   ELSE Go("switch", job)

NextCandidate ==
  CASE rec.reason = "stage" -> Go("forget", job)
    [] rec.reason # "stage" /\ ~ResumeCandidate /\ rec.fallback = NoBinary -> End
    [] rec.reason # "stage" /\ (ResumeCandidate \/ rec.fallback # NoBinary) /\ ~job.creds ->
         Go("credentials", job)
    [] OTHER -> IF ResumeCandidate THEN Go("publishEnv", [job EXCEPT !.after = "resume"])
                                   ELSE Go("switch", job)

AbsentFilesKept ==
  /\ pc = "absentFiles"
  /\ NextCandidate
  /\ NoEffect

AbsentFiles ==
  /\ pc = "absentFiles"
  /\ RemoveStartupFiles(rec.attempt)
  /\ NextCandidate
  /\ HostOnly

(* The caller resolves the credentials it had not needed so far and        *)
(* reconciles from the start.                                              *)
ResolveCredentials ==
  /\ pc = "credentials"
  /\ Go("observeStarting", [job EXCEPT !.creds = TRUE])
  /\ NoEffect

FallbackOfSameAttempt == Starting("recovery", rec.attempt, rec.fallback, NoBinary)

Fallback == Starting("recovery", attempts + 1, rec.fallback, NoBinary)

SwitchToFallback ==
  /\ pc = "switch"
  /\ IF unit.state = "notfound"
     THEN Commit(Fallback) /\ Go("publishEnv", [job EXCEPT !.after = "resume"])
     ELSE End /\ NoEffect

(* mountStateStore.Delete; a stage request then starts anew, unless the    *)
(* deleted record was its own.                                             *)
Forget ==
  /\ pc = "forget"
  /\ rec' = NoState
  /\ expired' = FALSE
  /\ IF job.op = "stage" THEN Go("noState", [NoJob EXCEPT !.op = "stage"]) ELSE End
  /\ UNCHANGED <<host, attempts, queued, faults>>

(* failExpiredStarting *)
ExpiredStop ==
  /\ pc = "expiredStop"
  /\ SystemctlStop
  /\ Go("expiredUnmount", job)
  /\ HostOnly

ExpiredUnmount ==
  /\ pc = "expiredUnmount"
  /\ KernelUnmount
  /\ Go("expiredKill", job)
  /\ HostOnly

ExpiredKill ==
  /\ pc = "expiredKill"
  /\ Kill(job.owned)
  /\ Go("expiredReset", job)
  /\ HostOnly

ExpiredReset ==
  /\ pc = "expiredReset"
  /\ ResetFailed
  /\ IF unit'.state = "notfound" THEN Go("expiredCheck", job) ELSE End
  /\ HostOnly

ExpiredCheck ==
  /\ pc = "expiredCheck"
  /\ IF IsMountPoint \/ Alive(job.owned) THEN End ELSE Go("expiredFiles", job)
  /\ NoEffect

ExpiredFiles ==
  /\ pc = "expiredFiles"
  /\ files' = {f \in files : f.attempt # rec.attempt}
  /\ DropArtifacts
  /\ IF ArtifactsRemovable
     THEN Go("absent", [job EXCEPT !.proc = "absent", !.failed = TRUE, !.late = TRUE])
     ELSE End
  /\ UNCHANGED <<unit, procs, mounts, spawned>>
  /\ HostOnly

-----------------------------------------------------------------------------
(* mountStopper *)

(* The stopping record: what belongs to the start is cleared, a verified   *)
(* supervisor is noted.                                                    *)
StoppingWithReason(r, p) ==
  [r EXCEPT !.phase = "stopping", !.fallback = NoBinary,
            !.pid = IF p # 0 /\ Owned(p, r) THEN p ELSE @]

Stopping(r, p) ==
  [r EXCEPT !.phase = "stopping", !.reason = "none", !.fallback = NoBinary,
            !.pid = IF p # 0 /\ Owned(p, r) THEN p ELSE @]

(* Stop: the intent is written once the ownership is clear. *)
Intend ==
  /\ pc = "intend"
  /\ IF /\ StopProcessClear(rec)
        /\ UnitIdentified(rec)
        /\ ServiceClear(rec, StopProcess(rec))
     THEN /\ rec' = Stopping(rec, ServiceProcess(StopProcess(rec)))
          /\ expired' = FALSE
          /\ Go("observeStopping", job)
          /\ UNCHANGED <<host, attempts, queued, faults>>
     ELSE End /\ NoEffect

ObserveStopping ==
  /\ pc = "observeStopping"
  /\ IF StopProcessClear(rec)
     THEN Go("decideStopping", [job EXCEPT !.owned = StopProcess(rec)])
     ELSE End
  /\ NoEffect

DecideStopping ==
  /\ pc = "decideStopping"
  /\ IF UnitIdentified(rec) /\ ServiceClear(rec, job.owned)
     THEN LET p == ServiceProcess(job.owned) IN
          Go(CASE p # 0 \/ IsMountPoint \/ Running -> "stopUnit"
               [] p = 0 /\ ~IsMountPoint /\ unit.state = "exited" -> "stopReset"
               [] OTHER -> "stopFiles",
             [job EXCEPT !.owned = p, !.failed = unit.state = "exited",
                         !.plan = IF Running THEN {"stop"} ELSE {}])
     ELSE End
  /\ NoEffect

StopReset ==
  /\ pc = "stopReset"
  /\ ResetFailed
  /\ IF unit # NoUnit /\ unit'.state = "notfound" THEN Go("stopFiles", job) ELSE End
  /\ HostOnly

StopUnit ==
  /\ pc = "stopUnit"
  /\ CASE "stop" \in job.plan -> SystemctlStop
       [] "stop" \notin job.plan /\ job.failed -> ResetFailed
       [] OTHER -> UNCHANGED host
  /\ Go("stopUnmount", job)
  /\ HostOnly

StopUnmount ==
  /\ pc = "stopUnmount"
  /\ KernelUnmount
  /\ Go("stopKill", job)
  /\ HostOnly

StopWithoutKill ==
  /\ pc = "stopKill"
  /\ Go("stopCheckMount", job)
  /\ NoEffect

StopKill ==
  /\ pc = "stopKill"
  /\ Kill(job.owned)
  /\ Go("stopCheckMount", job)
  /\ HostOnly

(* stoppingResourcesAbsent looks at the mount first, then at the rest. *)
StopCheckMount ==
  /\ pc = "stopCheckMount"
  /\ IF IsMountPoint THEN End ELSE Go("stopCheckRest", job)
  /\ NoEffect

StopCheckRest ==
  /\ pc = "stopCheckRest"
  /\ IF Alive(job.owned) \/ unit.state # "notfound" THEN End ELSE Go("stopFiles", job)
  /\ NoEffect

(* removeStoppingArtifacts *)
StopFiles ==
  /\ pc = "stopFiles"
  /\ files' = {f \in files : ~(rec.startup /\ f.attempt = rec.attempt)}
  /\ DropArtifacts
  /\ IF ArtifactsRemovable THEN Go("forget", job) ELSE End
  /\ UNCHANGED <<unit, procs, mounts, spawned>>
  /\ HostOnly

-----------------------------------------------------------------------------
(* coordinateActiveRecovery *)

(* Cleanup: the plan must still be the one decided on. *)
Revalidate ==
  /\ pc = "revalidate"
  /\ IF ActiveObserved /\ CleanupPlan = job.plan /\ UnitIdentified(rec)
     THEN Go("oldStop", [job EXCEPT !.owned = ServiceProcess(StopProcess(rec))])
     ELSE End
  /\ NoEffect

OldStop ==
  /\ pc = "oldStop"
  /\ IF "stop" \in job.plan THEN SystemctlStop ELSE UNCHANGED host
  /\ Go("oldKill", job)
  /\ HostOnly

OldKill ==
  /\ pc = "oldKill"
  /\ IF "kill" \in job.plan THEN Kill(job.owned) ELSE UNCHANGED host
  /\ Go("oldUnmount", job)
  /\ HostOnly

OldUnmount ==
  /\ pc = "oldUnmount"
  /\ IF "unmount" \in job.plan THEN KernelUnmount ELSE UNCHANGED host
  /\ Go("oldAbsent", job)
  /\ HostOnly

(* CleanupCandidate *)
Candidate ==
  LET p == IF ProcessObserved(rec) = "verified" THEN pidfile ELSE 0 IN
  /\ pc = "candidate"
  /\ IF ProcessObserved(rec) # "mismatch" /\ UnitIdentified(rec) /\ ServiceClear(rec, p)
     THEN Go("candidateStop", [job EXCEPT !.owned = ServiceProcess(p), !.failed = FALSE,
                                          !.plan = IF Running THEN {"stop"} ELSE {}])
     ELSE End
  /\ NoEffect

CandidateStop ==
  /\ pc = "candidateStop"
  /\ IF "stop" \in job.plan THEN SystemctlStop ELSE UNCHANGED host
  /\ Go("candidateUnmount", job)
  /\ HostOnly

CandidateUnmount ==
  /\ pc = "candidateUnmount"
  /\ KernelUnmount
  /\ Go("candidateKill", job)
  /\ HostOnly

CandidateKill ==
  /\ pc = "candidateKill"
  /\ Kill(job.owned)
  /\ Go("candidateFiles", job)
  /\ HostOnly

CandidateFilesKept ==
  /\ pc = "candidateFiles"
  /\ Go("oldAbsent", job)
  /\ NoEffect

CandidateFiles ==
  /\ pc = "candidateFiles"
  /\ RemoveStartupFiles(rec.attempt)
  /\ Go("oldAbsent", job)
  /\ HostOnly

(* ensureOldRuntimeAbsent *)
OldAbsent ==
  /\ pc = "oldAbsent"
  /\ IF IsMountPoint \/ Alive(job.owned) THEN End ELSE Go("oldCollect", job)
  /\ NoEffect

(* waitForSystemdUnitCollection, which gives up after some rounds. *)
OldCollect ==
  /\ pc = "oldCollect"
  /\ CASE unit.state = "notfound" -> Go("oldArtifacts", job) /\ UNCHANGED host
       [] unit.state = "exited" /\ DescriptionMatches(rec) ->
            ResetFailed /\ (Go("oldCollect", job) \/ End)
       [] OTHER -> End /\ UNCHANGED host
  /\ HostOnly

(* The artifacts go; a step that failed before ends the recovery here. *)
OldArtifacts ==
  /\ pc = "oldArtifacts"
  /\ RemoveArtifacts
  /\ IF ArtifactsRemovable /\ ~job.failed
     THEN Go(IF job.after = "startDesired" THEN "commitFallback" ELSE "commitDesired", job)
     ELSE End
  /\ HostOnly

CommitDesired ==
  /\ pc = "commitDesired"
  /\ \E b \in Binaries : Commit(Starting("recovery", attempts + 1, b, rec.binary))
  /\ Go("publishEnv", [job EXCEPT !.after = "startDesired", !.creds = TRUE, !.plan = {}])

CommitFallback ==
  /\ pc = "commitFallback"
  /\ Commit(Fallback)
  /\ Go("publishEnv", [job EXCEPT !.after = "startFallback", !.plan = {}])

-----------------------------------------------------------------------------
(* Failures *)

Faulty(step) == faults < MaxFaults /\ faults' = faults + 1 /\ step

(* The plugin ends, the request is cancelled, or a step returns its error: *)
(* nothing is rolled back.                                                 *)
Interrupted == pc # "idle" /\ End /\ UNCHANGED <<host, store, queued>>

(* The request is cancelled, or the plugin ends, while systemd-run waits   *)
(* for its answer: the client is killed, what it asked for is not undone.  *)
RunGivenUp ==
  /\ pc = "run" /\ LateStarts /\ queued = 0
  /\ queued' = rec.attempt
  /\ End
  /\ UNCHANGED <<host, store>>

(* Errors that do not end the operation.  The stopper goes on with its     *)
(* next command, the cleanup before a recovery too but then refuses to     *)
(* start, a failed launch is reconciled, a failed recovery start cleaned.  *)
Tolerated ==
  /\ \/ pc = "stopUnit" /\ Go("stopUnmount", job)
     \/ pc = "stopUnmount" /\ Go("stopKill", job)
     \/ pc = "stopKill" /\ Go("stopCheckMount", job)
     \/ pc = "expiredUnmount" /\ Go("expiredKill", job)
     \/ pc = "oldStop" /\ "stop" \in job.plan /\ Go("oldKill", [job EXCEPT !.failed = TRUE])
     \/ pc = "oldKill" /\ "kill" \in job.plan /\ Go("oldUnmount", [job EXCEPT !.failed = TRUE])
     \/ pc = "oldUnmount" /\ "unmount" \in job.plan
        /\ Go("oldAbsent", [job EXCEPT !.failed = TRUE])
     \/ pc = "candidateUnmount" /\ Go("candidateKill", [job EXCEPT !.failed = TRUE])
     \/ pc = "candidateFiles" /\ Go("oldAbsent", [job EXCEPT !.failed = TRUE])
     \/ pc \in {"publishEnv", "publishArgs", "run", "wait", "promoteFiles", "promote"}
        /\ job.after = "startDesired" /\ Go("candidate", job)
     \/ pc \in {"wait", "promoteFiles", "promote"} /\ job.after = "launch"
        /\ Go("observeStarting", job)
  /\ UNCHANGED <<host, store, queued>>

Reboot ==
  /\ HostRebooted
  /\ End
  /\ queued' = 0
  /\ UNCHANGED store

(* A part of an active mount is lost while no operation is under way.  (In *)
(* the other phases the plugin refuses such a mount: it is left to manual  *)
(* repair.)                                                                *)
LosesPart ==
  /\ pc = "idle" /\ rec.phase = "active"
  /\ PartLost
  /\ UNCHANGED <<pc, job, store, queued>>

DeadlinePasses ==
  /\ rec.phase = "starting" /\ ~expired
  /\ expired' = TRUE
  /\ UNCHANGED <<host, rec, attempts, pc, job, queued, faults>>

-----------------------------------------------------------------------------
Request ==
  \/ StageNew
  \/ Continue("stage") \/ Continue("recover")
  \/ StageElsewhere
  \/ Unstage

LaunchStep ==
  \/ InspectNoState \/ ResetNoState \/ CleanNoState \/ CommitStage \/ NoAttempt
  \/ PublishEnv \/ PublishArgs \/ RunUnit \/ WaitReady \/ WaitFails
  \/ PromoteFiles \/ Promote

StartingStep ==
  \/ ObserveStarting \/ DecideStarting \/ UnmountStale \/ ResetStale
  \/ AbsentArtifacts \/ AbsentFiles \/ ResolveCredentials \/ SwitchToFallback \/ Forget
  \/ ExpiredStop \/ ExpiredUnmount \/ ExpiredKill \/ ExpiredReset \/ ExpiredCheck
  \/ ExpiredFiles

StoppingStep ==
  \/ Intend \/ ObserveStopping \/ DecideStopping \/ StopReset \/ StopUnit
  \/ StopUnmount \/ StopKill \/ StopCheckMount \/ StopCheckRest \/ StopFiles

RecoveryStep ==
  \/ Revalidate \/ OldStop \/ OldKill \/ OldUnmount
  \/ Candidate \/ CandidateStop \/ CandidateUnmount \/ CandidateKill \/ CandidateFiles
  \/ OldAbsent \/ OldCollect \/ OldArtifacts \/ CommitDesired \/ CommitFallback

OperationStep == LaunchStep \/ StartingStep \/ StoppingStep \/ RecoveryStep

Systemd == UnitStep /\ UNCHANGED <<store, pc, job, queued, faults>>

(* systemd gets to the start of a client that is gone. *)
LateStart ==
  /\ queued # 0
  /\ queued' = 0
  /\ IF unit.state = "notfound" THEN SystemdRun(queued) ELSE UNCHANGED host
  /\ UNCHANGED <<store, pc, job, faults>>

Supervisor == SupervisorStep /\ UNCHANGED <<store, pc, job, queued, faults>>

Exits == (\E q \in procs : ProcessExits(q)) /\ UNCHANGED <<store, pc, job, queued, faults>>

Fault ==
  \/ Faulty(Interrupted) \/ Faulty(RunGivenUp)
  \/ Faulty(Tolerated) \/ Faulty(Reboot) \/ Faulty(LosesPart)

Next ==
  \/ Request
  \/ OperationStep
  \/ Systemd
  \/ LateStart
  \/ Supervisor
  \/ Exits
  \/ DeadlinePasses
  \/ Fault

Spec == Init /\ [][Next]_vars

(* An operation that runs goes on running or fails, systemd and the        *)
(* launcher do their part, and time passes.  The supervisor may hang.      *)
Fairness ==
  /\ WF_vars(OperationStep)
  /\ WF_vars(Systemd)
  /\ WF_vars(LateStart)
  /\ WF_vars(DeadlinePasses)

FairSpec == Spec /\ Fairness

(* kubelet keeps asking to stage, or keeps asking to unstage. *)
StageRepeated == SF_vars(Continue("stage"))
UnstageRepeated == SF_vars(Unstage)

-----------------------------------------------------------------------------
(* Safety *)

(* No two supervisors, or launchers about to become one, ever run for the  *)
(* volume, and the one that runs is that of the attempt on record, with    *)
(* the binary on record: a retry, a recovery (coordinateActiveRecovery)    *)
(* and a switchToFallback commit their attempt and start only after the    *)
(* process before them is gone, and no record is deleted under a process.  *)
OneSupervisor ==
  /\ Cardinality(procs) <= 1
  /\ \A q \in procs :
       /\ rec # NoState
       /\ q.attempt = rec.attempt
       /\ q.binary \in {NoBinary, rec.binary}

(* The processes that have become Drive9. *)
Executing == {q \in procs : q.binary # NoBinary}

(* "it can never run desired and fallback processes concurrently", says    *)
(* docs/design/csi-rolling-upgrade-mount-survival-v2.md:718, nor any other *)
(* two processes of the volume: also when a start that a killed            *)
(* systemd-run asked for arrives during, or after, the cleanup of its      *)
(* attempt, the unit name and the removed startup files stand in its way.  *)
NeverTwoSupervisors == Cardinality(Executing) <= 1

(* A launcher becomes a supervisor only of the attempt and the binary on   *)
(* record, before that attempt is promoted, and while no other runs: the   *)
(* start of an earlier attempt, however late, finds no files to go by.  A  *)
(* launcher that has read its files before handleAbsentStarting removed    *)
(* them and deleted the record executes Drive9 under no record, never      *)
(* under a later one: its running unit keeps the next attempt away.        *)
SupervisesRecordedAttempt ==
  [][\A q \in Executing' :
       \/ \E p \in Executing : p.id = q.id
       \/ /\ Executing = {}
          /\ \/ rec = NoState
             \/ /\ rec.phase \in {"starting", "stopping"} /\ rec.startup
                /\ q.attempt = rec.attempt /\ q.binary = rec.binary]_vars

(* A unit that runs, and that may start its process at any moment, is the  *)
(* one of the attempt on record: mountStateStore.Delete and the commit of  *)
(* a new attempt find the unit of the old one gone.                        *)
UnitOfAttempt == Running => rec # NoState /\ unit.attempt = rec.attempt

(* Startup files, which hold the credentials, belong to the attempt on     *)
(* record, and only while it may still be launched or has to be cleaned    *)
(* up: no end of a launch, a cleanup or a fallback leaves them behind.     *)
FilesOfAttempt ==
  \A f \in files :
    rec.phase \in {"starting", "stopping"} /\ rec.startup /\ rec.attempt = f.attempt

(* While the record is active no process but the one that promoteActive    *)
(* recorded can live, also when the unit and the process-state file that   *)
(* would testify to it are lost.                                           *)
ActiveProcessRecorded == rec.phase = "active" => \A q \in procs : q.id = rec.pid

(* When the stopper deletes the record, nothing of the mount is left, at   *)
(* whatever step earlier unstage calls failed or were killed.              *)
StopLeavesNothing ==
  [][rec.phase = "stopping" /\ rec' = NoState =>
       procs = {} /\ mounts = {} /\ unit.state = "notfound" /\ pidfile = 0 /\ files = {}]_vars

(* The store refuses none of the records the operations write or delete.   *)
(* A refusal would come after the startup files were removed or the        *)
(* processes stopped, and would meet every retry again; what is written    *)
(* follows from observations that are several steps old.                   *)
WritesAccepted ==
  [][rec' # rec =>
       IF rec' = NoState THEN Deletable(rec)
       ELSE ValidState(rec') /\ ValidTransition(rec, rec')]_vars

(* "A state file is deleted only when a cancelled starting attempt or a    *)
(* stopping transaction has no remaining external resources.", says        *)
(* docs/design/csi-rolling-upgrade-mount-survival-v2.md:746; what          *)
(* handleAbsentStarting deletes rests on an observation that may be old.   *)
DeletionIsClean ==
  [][rec # NoState /\ rec' = NoState => procs = {} /\ mounts = {} /\ ~Running]_vars

(* A recovery whose desired service failed switches to the fallback, says  *)
(* docs/design/csi-rolling-upgrade-mount-survival-v2.md:706: the operation *)
(* that found the unit of the desired attempt ended does not start that    *)
(* attempt again (handleAbsentStarting).                                   *)
FailedCandidateFallsBack ==
  pc = "run" /\ rec.fallback # NoBinary => job.gaveUp # rec.attempt

-----------------------------------------------------------------------------
(* The contract: the durable state without its steps, and the attempt of   *)
(* the process that lives.                                                 *)

ContractState ==
  [phase |-> rec.phase,
   attempt |-> IF rec = NoState THEN 0 ELSE rec.attempt,
   binary |-> IF rec = NoState THEN NoBinary ELSE rec.binary,
   fallback |-> IF rec = NoState THEN NoBinary ELSE rec.fallback]

ContractLive == IF procs = {} THEN 0 ELSE (CHOOSE q \in procs : TRUE).attempt

Contract ==
  INSTANCE MountContract WITH state <- ContractState, used <- attempts, live <- ContractLive

(* The mount transaction implements MountContract: every write passes      *)
(* validateMountStateTransition, a candidate is replaced only by the       *)
(* candidate on record and under a new attempt, and neither a new attempt  *)
(* nor a deletion finds a live process.                                    *)
ImplementsContract == Contract!Spec

-----------------------------------------------------------------------------
(* Liveness *)

(* A record in any phase is eventually deleted when kubelet repeats the    *)
(* NodeUnstageVolume: the stopper gets by every state in which failures    *)
(* can leave the unit, the process and the mount, also by a mount that     *)
(* Reconcile refuses.                                                      *)
UnstageEnds == UnstageRepeated => (rec # NoState) ~> (rec = NoState)

StageAttempt == rec.phase = "starting" /\ rec.reason = "stage"

(* A dead supervisor has left its mount, and no process-state file that    *)
(* would tell whose it was.                                                *)
Unattributable == procs = {} /\ ~Running /\ IsMountPoint /\ pidfile = 0

(* A stage attempt does not stay in starting when kubelet repeats the      *)
(* NodeStageVolume: it becomes active, or the deadline passes and it is    *)
(* given up, stopped and forgotten.  The one exception is a supervisor     *)
(* that dies and leaves for good a mount that Reconcile refuses to touch.  *)
StartingEnds == StageRepeated => []<>~StageAttempt \/ <>[]Unattributable
=============================================================================
