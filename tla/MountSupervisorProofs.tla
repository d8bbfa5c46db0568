------------------------ MODULE MountSupervisorProofs ------------------------
(***************************************************************************)
(* Proofs about the supervisor of a volume: at most one runs, and it is    *)
(* the one the record speaks of.  They hold for any binaries and any       *)
(* number of attempts, processes and faults, but only when no start        *)
(* arrives late (LateStarts = FALSE): MountLateStart.cfg checks, and       *)
(* MountLateStartProofs proves, what is left otherwise.                    *)
(*                                                                         *)
(* A process belongs to the running unit, or it is an orphan that the      *)
(* record names by its PID, since a unit is lost only under an active      *)
(* record.  An operation therefore knows that nothing runs once the unit   *)
(* is gone and the process it observed is dead, however old that           *)
(* observation is: in the phases in which it was made nothing new starts.  *)
(***************************************************************************)
EXTENDS MountTransactionProofs, FiniteSetTheorems

-----------------------------------------------------------------------------
(* Invariants *)

(* The unit is that of the record, and so is its process. *)
UnitOK ==
  /\ Running => rec # NoState /\ unit.attempt = rec.attempt
  /\ ~Running => unit.main = 0
  /\ Running /\ unit.main = 0 => procs = {}
  /\ Running /\ unit.main # 0 => Alive(unit.main)

(* A process is the main process of the running unit, or, after the unit   *)
(* was lost, the one on record.                                            *)
ProcsOK ==
  /\ \A p, q \in procs : p = q
  /\ \A q \in procs :
       /\ rec # NoState
       /\ q.attempt = rec.attempt
       /\ q.binary \in {NoBinary, rec.binary} /\ q.input \in {NoBinary, rec.binary}
       /\ \/ Running /\ unit.main = q.id
          \/ rec.phase \in {"active", "stopping"} /\ rec.pid = q.id

OnlyProcess(p) == \A q \in procs : q.id = p

(* A unit that has started its process starts no other. *)
NoNewProcess == Running => unit.main # 0

ActiveOK == rec.phase = "active" => OnlyProcess(rec.pid) /\ NoNewProcess

HostInv == UnitOK /\ ProcsOK /\ ActiveOK

(* Steps after the unit was found, or made, not running. *)
StoppedSteps ==
  {"unmountStale", "resetStale", "absent", "absentFiles", "forget",
   "expiredUnmount", "expiredKill", "expiredReset", "expiredCheck", "expiredFiles",
   "candidateUnmount", "candidateKill", "candidateFiles", "commitFallback", "stopReset",
   "stopFiles"}

(* What an operation knows of the processes at its steps. *)
StepKnows ==
  /\ pc \in {"promoteFiles", "promote"} => OnlyProcess(job.owned) /\ NoNewProcess
  /\ pc \in StoppedSteps => ~Running
  /\ pc = "candidateStop" /\ "stop" \notin job.plan => ~Running
  /\ pc \in AbsenceSteps /\ OfCandidate => ~Running
  /\ pc \in {"oldStop", "oldKill", "oldUnmount"} => OnlyProcess(job.owned)
  /\ pc = "oldAbsent" /\ ~OfCandidate => OnlyProcess(job.owned)
  /\ pc \in {"oldCollect", "oldArtifacts", "commitDesired"} => procs = {}
  /\ pc \in {"decideStopping", "stopUnit", "stopUnmount", "stopKill", "stopCheckMount",
             "stopCheckRest"} => Running \/ OnlyProcess(job.owned)
  /\ pc \in {"stopReset", "stopFiles"} => procs = {}
  /\ pc = "stopFiles" \/ (pc = "forget" /\ rec.phase = "stopping") => unit.state = "notfound"
  /\ pc = "forget" /\ rec.phase = "stopping" => procs = {} /\ mounts = {} /\ pidfile = 0

IInv ==
  /\ TypeInv
  /\ queued = 0
  /\ HostInv
  /\ StepKnows

-----------------------------------------------------------------------------
(* Commands and events of the host that start nothing *)

(* No process is added, no unit started; without a process nothing is      *)
(* mounted or registered.                                                  *)
Dwindles ==
  /\ \A q \in procs' : \E p \in procs : p.id = q.id
  /\ Running' => Running /\ unit'.main = unit.main
  /\ Running => Running' \/ procs' = {} \/ rec.phase = "active"
  /\ unit.state = "notfound" => unit'.state = "notfound"
  /\ procs = {} /\ mounts = {} /\ pidfile = 0 => mounts' = {} /\ pidfile' = 0

HostSafe == HostInv' /\ Dwindles

(* The process of a running unit is the only one. *)
LEMMA RunningOnly ==
  ASSUME HostInv, Running
  PROVE  OnlyProcess(unit.main)
BY DEF HostInv, UnitOK, ProcsOK, OnlyProcess, Alive

(* The processes stay, and so does the unit unless it is gone already. *)
LEMMA SameProcesses ==
  ASSUME HostInv, rec' = rec, procs' = procs, unit' = unit \/ (~Running /\ unit' = NoUnit),
         procs = {} /\ mounts = {} /\ pidfile = 0 => mounts' = {} /\ pidfile' = 0
  PROVE  HostSafe
<1>1. CASE unit' = unit
  BY <1>1 DEF HostSafe, Dwindles, HostInv, UnitOK, ProcsOK, ActiveOK, OnlyProcess, NoNewProcess,
              Running, Alive
<1>2. CASE ~Running /\ unit' = NoUnit
  <2>1. ~Running' /\ unit'.main = 0 /\ unit'.state = "notfound"
    BY <1>2, NoUnitTyped DEF Running
  <2> QED
    BY <1>2, <2>1
       DEF HostSafe, Dwindles, HostInv, UnitOK, ProcsOK, ActiveOK, OnlyProcess, NoNewProcess
<1> QED
  BY <1>1, <1>2

(* Processes end, and the unit with its main process. *)
LEMMA ProcessesEnd ==
  ASSUME HostInv, HostOK, rec' = rec, procs' \subseteq procs,
         mounts' \subseteq mounts, pidfile' \in {0, pidfile},
         \/ unit' = unit /\ (Running /\ unit.main # 0 => Alive(unit.main)')
         \/ /\ unit'.state # "running" /\ unit'.main = 0
            /\ unit.state = "notfound" => unit'.state = "notfound"
            /\ \A q \in procs' : ~(Running /\ unit.main = q.id)
  PROVE  HostSafe
<1>1. CASE unit' = unit /\ (Running /\ unit.main # 0 => Alive(unit.main)')
  BY <1>1 DEF HostSafe, Dwindles, HostInv, UnitOK, ProcsOK, ActiveOK, OnlyProcess, NoNewProcess,
              Running, Alive
<1>2. CASE /\ unit'.state # "running" /\ unit'.main = 0
           /\ unit.state = "notfound" => unit'.state = "notfound"
           /\ \A q \in procs' : ~(Running /\ unit.main = q.id)
  <2>1. ~Running'
    BY <1>2 DEF Running
  <2>2. Running => procs' = {}
    BY <1>2, RunningOnly DEF OnlyProcess
  <2> QED
    BY <1>2, <2>1, <2>2
       DEF HostSafe, Dwindles, HostInv, UnitOK, ProcsOK, ActiveOK, OnlyProcess, NoNewProcess
<1> QED
  BY <1>1, <1>2

LEMMA UnchangedHostSafe ==
  ASSUME HostInv, rec' = rec, UNCHANGED host
  PROVE  HostSafe
BY SameProcesses DEF host

LEMMA FilesSafe ==
  ASSUME HostInv, rec' = rec, UNCHANGED <<unit, procs, mounts, pidfile>>
  PROVE  HostSafe
BY SameProcesses

LEMMA SystemctlStopSafe ==
  ASSUME HostInv, HostOK, rec' = rec, SystemctlStop
  PROVE  HostSafe /\ ~Running'
<1>1. CASE Running
  <2>1. unit'.state = "exited" /\ unit'.main = 0 /\ unit.state = "running"
    BY <1>1, UnitExits DEF SystemctlStop, HostOK, HostTypeOK, Running
  <2>2. /\ procs' = {q \in procs : q.id # unit.main} /\ mounts' \subseteq mounts
        /\ pidfile' \in {0, pidfile}
    BY <1>1 DEF SystemctlStop, Ends
  <2>3. HostSafe
    BY <2>1, <2>2, ProcessesEnd
  <2> QED
    BY <2>1, <2>3 DEF Running
<1>2. CASE ~Running
  <2>1. UNCHANGED <<unit, procs, mounts, pidfile>>
    BY <1>2 DEF SystemctlStop
  <2> QED
    BY <1>2, <2>1, FilesSafe DEF Running
<1> QED
  BY <1>1, <1>2

LEMMA ResetFailedSafe ==
  ASSUME HostInv, rec' = rec, ResetFailed
  PROVE  HostSafe
BY SameProcesses DEF ResetFailed, Running

LEMMA KernelUnmountSafe ==
  ASSUME HostInv, rec' = rec, KernelUnmount
  PROVE  HostSafe
BY SameProcesses DEF KernelUnmount

LEMMA DropArtifactsSafe ==
  ASSUME HostInv, rec' = rec, DropArtifacts, UNCHANGED <<unit, procs, mounts>>
  PROVE  HostSafe
BY SameProcesses DEF DropArtifacts

LEMMA KillSafe ==
  ASSUME HostInv, HostOK, rec' = rec, NEW p, Kill(p)
  PROVE  HostSafe /\ (OnlyProcess(p) => procs' = {})
<1>1. procs' = {q \in procs : q.id # p} /\ mounts' \subseteq mounts /\ pidfile' \in {0, pidfile}
  BY DEF Kill, Ends, Alive
<1>2. CASE Running /\ unit.main = p
  <2>1. unit'.state = "exited" /\ unit'.main = 0 /\ unit.state = "running"
    BY <1>2, UnitExits DEF Kill, HostOK, HostTypeOK, Running
  <2> QED
    BY <1>1, <1>2, <2>1, ProcessesEnd DEF OnlyProcess
<1>3. CASE ~(Running /\ unit.main = p)
  <2>1. unit' = unit
    BY <1>3 DEF Kill
  <2>2. Running /\ unit.main # 0 => Alive(unit.main)'
    BY <1>1, <1>3, <2>1 DEF HostInv, UnitOK, Alive
  <2> QED
    BY <1>1, <2>1, <2>2, ProcessesEnd DEF OnlyProcess
<1> QED
  BY <1>2, <1>3

LEMMA ProcessExitsSafe ==
  ASSUME HostInv, HostOK, rec' = rec, NEW q \in procs, ProcessExits(q)
  PROVE  HostSafe
<1>1. /\ procs' = {p \in procs : p.id # q.id} /\ mounts' \subseteq mounts
      /\ pidfile' \in {0, pidfile}
  BY DEF ProcessExits, Ends
<1>2. CASE Running /\ unit.main = q.id
  <2>1. unit'.state = "exited" /\ unit'.main = 0 /\ unit.state = "running"
    BY <1>2, UnitExits DEF ProcessExits, HostOK, HostTypeOK, Running
  <2> QED
    BY <1>1, <1>2, <2>1, ProcessesEnd
<1>3. CASE ~(Running /\ unit.main = q.id)
  <2>1. unit' = unit
    BY <1>3 DEF ProcessExits
  <2>2. Running /\ unit.main # 0 => Alive(unit.main)'
    BY <1>1, <1>3, <2>1 DEF HostInv, UnitOK, Alive
  <2> QED
    BY <1>1, <2>1, <2>2, ProcessesEnd
<1> QED
  BY <1>2, <1>3

(* What the launcher has read, and then executes, is the binary on record. *)
LEMMA LauncherGoesSafe ==
  ASSUME HostInv, HostOK, FilesOK, rec' = rec, NEW q \in procs,
         LauncherReads(q) \/ LauncherRemoves(q) \/ LauncherExecs(q)
  PROVE  HostSafe
<1>1. q \in Processes
  BY DEF HostOK, HostTypeOK
<1>2. PICK e : /\ procs' = (procs \ {q}) \union {e} /\ e.id = q.id /\ e.attempt = q.attempt
               /\ e.binary \in {q.binary, q.input} /\ e.input \in {q.input, rec.binary}
  <2>1. CASE LauncherReads(q)
    <3>1. PICK f \in StartupFile("args", q.attempt) :
            procs' = (procs \ {q}) \union {[q EXCEPT !.input = f.binary]}
      BY <2>1 DEF LauncherReads
    <3>2. f.binary \in Binaries /\ f.binary = rec.binary
      BY DEF StartupFile, FilesOK, HostOK, HostTypeOK, StartupFiles
    <3> DEFINE e == [q EXCEPT !.input = f.binary]
    <3>3. /\ e.id = q.id /\ e.attempt = q.attempt /\ e.binary = q.binary
          /\ e.input = rec.binary
      BY <1>1, <3>2, ReadFields
    <3> HIDE DEF e
    <3> QED
      BY <3>1, <3>3 DEF e
  <2>2. CASE LauncherRemoves(q)
    BY <1>1, <2>2, RemoveFields DEF LauncherRemoves
  <2>3. CASE LauncherExecs(q)
    BY <1>1, <2>3, ExecFields DEF LauncherExecs
  <2> QED
    BY <2>1, <2>2, <2>3
<1>3. procs' = {e}
  BY <1>2 DEF HostInv, ProcsOK
<1>4. UNCHANGED <<unit, mounts, pidfile>>
  BY DEF LauncherReads, LauncherRemoves, LauncherExecs
<1>5. procs = {q}
  BY DEF HostInv, ProcsOK
<1> QED
  BY <1>2, <1>3, <1>4, <1>5
     DEF HostSafe, Dwindles, HostInv, UnitOK, ProcsOK, ActiveOK, OnlyProcess, NoNewProcess,
         Running, Alive

LEMMA LauncherRefusesSafe ==
  ASSUME HostInv, HostOK, rec' = rec, NEW q \in procs, LauncherRefuses(q)
  PROVE  HostSafe
<1>1. procs' = {} /\ UNCHANGED <<mounts, pidfile>>
  BY DEF LauncherRefuses, HostInv, ProcsOK
<1>2. CASE unit.main = q.id
  <2>1. q.id # 0
    BY DEF HostOK, HostTypeOK, Processes, Identities
  <2>2. Running
    BY <1>2, <2>1 DEF HostInv, UnitOK
  <2>3. unit'.state = "exited" /\ unit'.main = 0 /\ unit.state = "running"
    BY <1>2, <2>2, UnitExits DEF LauncherRefuses, HostOK, HostTypeOK, Running
  <2> QED
    BY <1>1, <2>3, ProcessesEnd
<1>3. CASE unit.main # q.id
  <2>1. unit' = unit
    BY <1>3 DEF LauncherRefuses
  <2>2. ~Running
    BY <1>3, RunningOnly DEF OnlyProcess
  <2> QED
    BY <1>1, <2>1, <2>2, ProcessesEnd
<1> QED
  BY <1>2, <1>3

LEMMA ForkFailsSafe ==
  ASSUME HostInv, HostOK, rec' = rec, ForkFails
  PROVE  HostSafe
<1>1. /\ unit'.state = "exited" /\ unit'.main = 0 /\ unit.state = "running" /\ procs = {}
      /\ UNCHANGED <<procs, mounts, pidfile>>
  BY DEF ForkFails, HostOK, HostTypeOK, Units, Running, HostInv, UnitOK
<1> QED
  BY <1>1, ProcessesEnd

LEMMA CollectSafe ==
  ASSUME HostInv, rec' = rec, Collect
  PROVE  HostSafe
BY SameProcesses DEF Collect, Running

LEMMA SupervisorStepSafe ==
  ASSUME HostInv, rec' = rec, SupervisorStep
  PROVE  HostSafe
BY SameProcesses DEF SupervisorStep, Registers, MountsVolume

LEMMA HostRebootedSafe ==
  ASSUME HostInv, rec' = rec, HostRebooted
  PROVE  HostSafe
<1>1. unit'.state = "notfound" /\ unit'.main = 0 /\ procs' = {} /\ mounts' = {} /\ pidfile' = 0
  BY NoUnitTyped DEF HostRebooted
<1> QED
  BY <1>1 DEF HostSafe, Dwindles, HostInv, UnitOK, ProcsOK, ActiveOK, OnlyProcess, NoNewProcess,
              Running

LEMMA PartLostSafe ==
  ASSUME HostInv, rec' = rec, rec.phase = "active", PartLost
  PROVE  HostSafe
<1>1. CASE UnitLost
  <2>1. /\ unit'.state = "notfound" /\ unit'.main = 0 /\ UNCHANGED <<procs, mounts, pidfile>>
        /\ unit.state = "running"
    BY <1>1, NoUnitTyped DEF UnitLost, Running
  <2> QED
    BY <2>1 DEF HostSafe, Dwindles, HostInv, UnitOK, ProcsOK, ActiveOK, OnlyProcess,
                NoNewProcess, Running
<1>2. CASE ArtifactsLost \/ MountLost
  BY <1>2, SameProcesses DEF ArtifactsLost, MountLost, Alive
<1> QED
  BY <1>1, <1>2 DEF PartLost

-----------------------------------------------------------------------------
(* The two that start something *)

(* The unit starts its process only while no other lives. *)
LEMMA ForkSafe ==
  ASSUME HostInv, HostOK, rec' = rec, Fork
  PROVE  HostInv' /\ Running' /\ procs = {} /\ rec.phase # "active"
<1> DEFINE q == Launcher(spawned + 1, unit.attempt)
<1>1. procs = {} /\ rec # NoState /\ unit.attempt = rec.attempt /\ rec.phase # "active"
  BY DEF Fork, HostInv, UnitOK, ActiveOK, NoNewProcess
<1>2. unit'.state = "running" /\ unit'.main = spawned + 1 /\ unit'.attempt = unit.attempt
      /\ unit'.main # 0
  BY DEF Fork, Running, HostOK, HostTypeOK, Units
<1>3. /\ q.id = spawned + 1 /\ q.attempt = unit.attempt
      /\ q.binary = NoBinary /\ q.input = NoBinary
  BY DEF Launcher
<1>4. procs' = {q}
  BY <1>1 DEF Fork
<1> HIDE DEF q
<1> QED
  BY <1>1, <1>2, <1>3, <1>4
     DEF HostInv, UnitOK, ProcsOK, ActiveOK, OnlyProcess, NoNewProcess, Running, Alive

LEMMA SystemdRunSafe ==
  ASSUME HostInv, rec' = rec, rec # NoState, rec.phase = "starting", SystemdRun(rec.attempt)
  PROVE  HostInv'
<1>1. unit'.state = "running" /\ unit'.main = 0 /\ unit'.attempt = rec.attempt
      /\ procs' = procs
  BY DEF SystemdRun
<1>2. procs = {}
  BY DEF SystemdRun, Running, HostInv, ProcsOK
<1> QED
  BY <1>1, <1>2
     DEF HostInv, UnitOK, ProcsOK, ActiveOK, OnlyProcess, NoNewProcess, Running, Alive

-----------------------------------------------------------------------------
(* Shapes of steps *)

USE DEF Go, OfCandidate, NoStateSteps, LaunchSteps, ReconcileSteps, CandidateSteps, StopSteps,
        CleanupSteps, AbsenceSteps

Safe == HostInv' /\ StepKnows'

(* Nothing is started: an operation that waits knows what it knew. *)
LEMMA StaySafe ==
  ASSUME IInv, HostSafe, UNCHANGED <<rec, pc, job>>
  PROVE  Safe
<1>1. PhaseOK
  BY DEF IInv, TypeInv
<1> QED
  BY <1>1 DEF HostSafe, Dwindles, IInv, Safe, StepKnows, StoppedSteps, OnlyProcess, NoNewProcess,
              PhaseOK

LEMMA EndSafe ==
  ASSUME HostInv', End
  PROVE  Safe
BY DEF End, Safe, StepKnows, StoppedSteps

(* Steps at which an operation need not know anything of the processes. *)
PlainSteps ==
  {"idle", "noState", "noStateReset", "noStateArtifacts", "launch", "publishEnv",
   "publishArgs", "run", "wait", "observeStarting", "decideStarting", "credentials",
   "switch", "expiredStop", "intend", "observeStopping", "revalidate", "candidate"}

LEMMA PlainSafe ==
  ASSUME HostInv', pc' \in PlainSteps
  PROVE  Safe
BY DEF PlainSteps, Safe, StepKnows, StoppedSteps

(* A starting attempt without a running unit has no process. *)
LEMMA StartingGone ==
  ASSUME HostInv, rec.phase = "starting", ~Running
  PROVE  procs = {}
BY DEF HostInv, ProcsOK

LEMMA QuietSafe ==
  ASSUME HostInv', rec'.phase = "starting", ~Running', pc' # "stopFiles"
  PROVE  Safe
<1>1. procs' = {}
  BY DEF HostInv, ProcsOK
<1> QED
  BY <1>1 DEF Safe, StepKnows, StoppedSteps, OnlyProcess, NoNewProcess

(* A record is written while nothing runs. *)
LEMMA NewRecordSafe ==
  ASSUME HostInv, procs = {}, ~Running, UNCHANGED host
  PROVE  HostInv'
BY DEF HostInv, UnitOK, ProcsOK, ActiveOK, OnlyProcess, NoNewProcess, Running, host

LEMMA IInvParts ==
  ASSUME IInv
  PROVE  /\ TypeInv /\ HostInv /\ StepKnows /\ HostOK /\ TypeOK /\ job \in Jobs /\ PhaseOK
         /\ CandidateOK /\ FilesOK
BY TypeInvParts DEF IInv, TypeInv

(* A step without effect on the host or the record. *)
LEMMA NoEffectSafe ==
  ASSUME IInv, NoEffect
  PROVE  HostSafe /\ rec' = rec /\ HostInv'
BY IInvParts, UnchangedHostSafe DEF NoEffect, store, HostSafe

-----------------------------------------------------------------------------
(* Requests and the launch *)

LEMMA RequestSafe ==
  ASSUME IInv, Request
  PROVE  Safe
<1>1. pc' \in PlainSteps /\ NoEffect
  BY DEF PlainSteps, Request, StageNew, Continue, StageElsewhere, Unstage, TakeDown, Begin
<1> QED
  BY <1>1, NoEffectSafe, PlainSafe

LEMMA CommitStageSafe ==
  ASSUME IInv, CommitStage
  PROVE  Safe
<1>1. rec = NoState
  BY IInvParts DEF CommitStage, PhaseOK
<1>2. procs = {} /\ ~Running
  BY <1>1, IInvParts DEF HostInv, ProcsOK, UnitOK
<1>3. UNCHANGED host /\ pc' = "publishEnv"
  BY DEF CommitStage, Commit
<1> QED
  BY <1>2, <1>3, IInvParts, NewRecordSafe, PlainSafe DEF PlainSteps

LEMMA PromoteSafe ==
  ASSUME IInv, Promote
  PROVE  Safe
<1>1. rec.phase = "starting" /\ rec \in MountStates /\ rec # NoState
  BY IInvParts, RecordInPhase DEF Promote, PhaseOK
<1>2. /\ rec'.phase = "active" /\ rec'.pid = job.owned /\ rec'.attempt = rec.attempt
      /\ rec'.binary = rec.binary
  BY <1>1 DEF Promote, MountStates
<1>3. rec' # NoState
  BY <1>2 DEF NoState
<1>4. OnlyProcess(job.owned) /\ NoNewProcess /\ UNCHANGED <<unit, procs>>
  BY IInvParts DEF Promote, StepKnows, host
<1>5. HostInv'
  BY <1>1, <1>2, <1>3, <1>4, IInvParts
     DEF HostInv, UnitOK, ProcsOK, ActiveOK, OnlyProcess, NoNewProcess, Running, Alive
<1> QED
  BY <1>5, EndSafe DEF Promote

LEMMA LaunchStepSafe ==
  ASSUME IInv, LaunchStep
  PROVE  Safe
<1>a. HostInv /\ StepKnows /\ HostOK /\ TypeOK /\ job \in Jobs /\ PhaseOK
  BY IInvParts
<1>1. CASE InspectNoState \/ NoAttempt \/ WaitFails
  <2>1. pc' \in PlainSteps /\ NoEffect
    BY <1>1 DEF InspectNoState, NoAttempt, WaitFails, AfterWait, End, PlainSteps
  <2> QED
    BY <2>1, NoEffectSafe, PlainSafe
<1>2. CASE ResetNoState \/ CleanNoState
  <2>1. rec' = rec /\ pc' \in PlainSteps
    BY <1>2 DEF ResetNoState, CleanNoState, HostOnly, store, End, PlainSteps
  <2>2. HostSafe
    BY <1>2, <1>a, <2>1, ResetFailedSafe, DropArtifactsSafe, UnchangedHostSafe
       DEF ResetNoState, CleanNoState, RemoveArtifacts
  <2> QED
    BY <2>1, <2>2, PlainSafe DEF HostSafe
<1>3. CASE CommitStage
  BY <1>3, CommitStageSafe
<1>4. CASE PublishEnv \/ PublishArgs
  <2>1. rec' = rec /\ pc' \in PlainSteps /\ UNCHANGED <<unit, procs, mounts, pidfile>>
    BY <1>4 DEF PublishEnv, PublishArgs, PublishFile, HostOnly, store, PlainSteps
  <2> QED
    BY <1>a, <2>1, FilesSafe, PlainSafe DEF HostSafe
<1>5. CASE RunUnit
  <2>1. rec.phase = "starting" /\ rec # NoState /\ rec' = rec
    BY <1>5, <1>a, RecordInPhase DEF RunUnit, PhaseOK, HostOnly, store
  <2>2. HostInv'
    BY <1>5, <1>a, <2>1, SystemdRunSafe, UnchangedHostSafe DEF RunUnit, HostSafe
  <2>3. pc' \in PlainSteps
    BY <1>5 DEF RunUnit, StartFailed, End, PlainSteps
  <2> QED
    BY <2>2, <2>3, PlainSafe
<1>6. CASE WaitReady
  <2>1. HostSafe /\ HostInv' /\ UNCHANGED <<unit, procs>>
    BY <1>6, NoEffectSafe DEF WaitReady, NoEffect, host
  <2>2. Running /\ unit.main = pidfile /\ pidfile # 0
    BY <1>6 DEF WaitReady, Ready, ServiceOwns
  <2>3. OnlyProcess(pidfile)
    BY <1>a, <2>2, RunningOnly
  <2>4. pidfile \in {0} \union Identities
    BY <1>a DEF HostOK, HostTypeOK
  <2>5. pc' = "promoteFiles" /\ job'.owned = pidfile
    BY <1>6, <1>a, <2>4, JobOwned DEF WaitReady
  <2> QED
    BY <2>1, <2>2, <2>3, <2>5
       DEF Safe, StepKnows, StoppedSteps, OnlyProcess, NoNewProcess, Running
<1>7. CASE PromoteFiles
  <2>1. rec' = rec /\ UNCHANGED <<unit, procs, mounts, pidfile>> /\ pc' = "promote" /\ job' = job
    BY <1>7 DEF PromoteFiles, RemoveStartupFiles, HostOnly, store
  <2>2. HostInv'
    BY <1>a, <2>1, FilesSafe DEF HostSafe
  <2> QED
    BY <1>7, <1>a, <2>1, <2>2
       DEF PromoteFiles, Safe, StepKnows, StoppedSteps, OnlyProcess, NoNewProcess, Running
<1>8. CASE Promote
  BY <1>8, PromoteSafe
<1> QED
  BY <1>1, <1>2, <1>3, <1>4, <1>5, <1>6, <1>7, <1>8 DEF LaunchStep

-----------------------------------------------------------------------------
(* The reconciliation of a starting attempt *)

LEMMA ForgetSafe ==
  ASSUME IInv, Forget
  PROVE  Safe
<1>1. ~Running /\ procs = {}
  BY IInvParts, StartingGone DEF Forget, StepKnows, StoppedSteps, PhaseOK
<1>2. UNCHANGED host /\ pc' \in PlainSteps
  BY DEF Forget, End, PlainSteps
<1> QED
  BY <1>1, <1>2, IInvParts, NewRecordSafe, PlainSafe

LEMMA StartingStepSafe ==
  ASSUME IInv, StartingStep
  PROVE  Safe
<1>a. HostInv /\ StepKnows /\ HostOK /\ TypeOK /\ job \in Jobs /\ PhaseOK
  BY IInvParts
<1>b. ASSUME HostSafe, rec' = rec, ~Running, rec.phase = "starting", pc' # "stopFiles"
      PROVE  Safe
  BY <1>b, QuietSafe DEF HostSafe, Dwindles
<1>1. CASE ObserveStarting \/ ResolveCredentials
  <2>1. pc' \in PlainSteps /\ NoEffect
    BY <1>1 DEF ObserveStarting, ResolveCredentials, End, PlainSteps
  <2> QED
    BY <2>1, NoEffectSafe, PlainSafe
<1>2. CASE DecideStarting
  <2>1. HostSafe /\ HostInv' /\ rec' = rec /\ rec.phase = "starting" /\ UNCHANGED <<unit, procs>>
    BY <1>2, <1>a, NoEffectSafe DEF DecideStarting, NoEffect, host, PhaseOK
  <2>2. CASE CanPromote /\ pc' = "promoteFiles" /\ job' = job
    <3>1. Running /\ unit.main = job.owned /\ job.owned # 0
      BY <2>2 DEF CanPromote, ServiceOwns
    <3>2. OnlyProcess(job.owned)
      BY <1>a, <3>1, RunningOnly
    <3> QED
      BY <2>1, <2>2, <3>1, <3>2
         DEF Safe, StepKnows, StoppedSteps, OnlyProcess, NoNewProcess, Running
  <2>3. CASE pc' \in PlainSteps
    BY <2>1, <2>3, PlainSafe
  <2>4. CASE CanClean /\ StartCleaning
    BY <1>b, <2>1, <2>4 DEF CanClean, StartCleaning
  <2> QED
    BY <1>2, <2>2, <2>3, <2>4 DEF DecideStarting, End, PlainSteps
<1>3. CASE UnmountStale \/ ResetStale \/ AbsentArtifacts \/ AbsentFiles
  <2>1. rec' = rec /\ rec.phase = "starting" /\ ~Running
    BY <1>3, <1>a
       DEF UnmountStale, ResetStale, AbsentArtifacts, AbsentFiles, HostOnly, store, PhaseOK,
           StepKnows, StoppedSteps
  <2>2. HostSafe
    BY <1>3, <1>a, <2>1, KernelUnmountSafe, ResetFailedSafe, DropArtifactsSafe, FilesSafe,
       UnchangedHostSafe
       DEF UnmountStale, ResetStale, AbsentArtifacts, AbsentFiles, RemoveArtifacts,
           RemoveStartupFiles
  <2>3. pc' # "stopFiles"
    BY <1>3 DEF UnmountStale, ResetStale, AbsentArtifacts, AbsentFiles, NextCandidate, End
  <2> QED
    BY <1>b, <2>1, <2>2, <2>3
<1>4. CASE SwitchToFallback
  <2>1. CASE unit.state = "notfound"
    <3>1. ~Running /\ rec.phase = "starting"
      BY <1>4, <1>a, <2>1 DEF SwitchToFallback, PhaseOK, Running
    <3>2. UNCHANGED host /\ pc' = "publishEnv"
      BY <1>4, <2>1 DEF SwitchToFallback, Commit
    <3> QED
      BY <1>a, <3>1, <3>2, StartingGone, NewRecordSafe, PlainSafe DEF PlainSteps
  <2>2. CASE unit.state # "notfound"
    BY <1>4, <2>2, NoEffectSafe, EndSafe DEF SwitchToFallback
  <2> QED
    BY <2>1, <2>2
<1>5. CASE Forget
  BY <1>5, ForgetSafe
<1>6. CASE ExpiredStop
  <2>1. rec' = rec /\ rec.phase = "starting" /\ SystemctlStop /\ pc' = "expiredUnmount"
    BY <1>6, <1>a DEF ExpiredStop, PhaseOK, HostOnly, store
  <2>2. HostSafe /\ ~Running'
    BY <1>a, <2>1, SystemctlStopSafe
  <2> QED
    BY <2>1, <2>2, QuietSafe DEF HostSafe
<1>7. CASE ExpiredUnmount \/ ExpiredKill \/ ExpiredReset \/ ExpiredCheck \/ ExpiredFiles
  <2>1. rec' = rec /\ rec.phase = "starting" /\ ~Running
    BY <1>7, <1>a
       DEF ExpiredUnmount, ExpiredKill, ExpiredReset, ExpiredCheck, ExpiredFiles, HostOnly,
           NoEffect, store, PhaseOK, StepKnows, StoppedSteps
  <2>2. HostSafe
    BY <1>7, <1>a, <2>1, KernelUnmountSafe, KillSafe, ResetFailedSafe, DropArtifactsSafe,
       UnchangedHostSafe
       DEF ExpiredUnmount, ExpiredKill, ExpiredReset, ExpiredCheck, ExpiredFiles, NoEffect
  <2>3. pc' # "stopFiles"
    BY <1>7 DEF ExpiredUnmount, ExpiredKill, ExpiredReset, ExpiredCheck, ExpiredFiles, End
  <2> QED
    BY <1>b, <2>1, <2>2, <2>3
<1> QED
  BY <1>1, <1>2, <1>3, <1>4, <1>5, <1>6, <1>7 DEF StartingStep

-----------------------------------------------------------------------------
(* The stopper *)

(* Without a running unit the process that an observation names is the     *)
(* only one.                                                               *)
LEMMA StopProcessKnown ==
  ASSUME HostInv, ~Running, StopProcessClear(rec)
  PROVE  OnlyProcess(StopProcess(rec))
<1> SUFFICES ASSUME NEW q \in procs PROVE q.id = StopProcess(rec)
  BY DEF OnlyProcess
<1>1. rec.pid = q.id
  BY DEF HostInv, ProcsOK
<1>2. Alive(rec.pid)
  BY <1>1 DEF Alive
<1> QED
  BY <1>1, <1>2 DEF StopProcess, StopProcessClear

(* The stopping record keeps the process on record, or names it now. *)
LEMMA IntendSafe ==
  ASSUME IInv, Intend
  PROVE  Safe
<1> DEFINE p == ServiceProcess(StopProcess(rec))
<1>1. rec \in MountStates /\ rec # NoState /\ rec.phase \in {"starting", "active"}
  BY IInvParts, RecordInPhase DEF Intend, PhaseOK
<1>2. CASE rec' = Stopping(rec, p) /\ pc' = "observeStopping" /\ UNCHANGED host
  <2>1. p \in {0} \union Identities
    BY <1>1, IInvParts, ObservedProcess
  <2> HIDE DEF p
  <2>2. /\ rec'.phase = "stopping" /\ rec'.attempt = rec.attempt /\ rec'.binary = rec.binary
        /\ rec'.pid = IF p # 0 /\ Owned(p, rec) THEN p ELSE rec.pid
    BY <1>1, <1>2, <2>1, StoppingTyped
  <2>3. rec' # NoState
    BY <2>2 DEF NoState
  <2>4. UNCHANGED <<unit, procs>>
    BY <1>2 DEF host
  <2>5. \A q \in procs : rec.pid = q.id => rec'.pid = q.id
    BY <2>2, IInvParts DEF Owned, HostInv, ProcsOK
  <2>6. UnitOK'
    BY <2>2, <2>3, <2>4, IInvParts DEF HostInv, UnitOK, Running, Alive
  <2>7. ProcsOK'
    BY <2>2, <2>3, <2>4, <2>5, IInvParts DEF HostInv, ProcsOK, Running
  <2>8. HostInv'
    BY <2>2, <2>6, <2>7 DEF HostInv, ActiveOK
  <2> QED
    BY <1>2, <2>8, PlainSafe DEF PlainSteps
<1>3. CASE End /\ NoEffect
  BY <1>3, NoEffectSafe, EndSafe
<1> QED
  BY <1>2, <1>3 DEF Intend

(* The commands of the stopper, each of which may fail. *)
LEMMA StopGoes ==
  ASSUME IInv, HostSafe, rec' = rec, rec.phase = "stopping", job' = job,
         pc \in {"stopUnit", "stopUnmount", "stopKill", "stopCheckMount"},
         pc' \in {"stopUnmount", "stopKill", "stopCheckMount", "stopCheckRest"}
  PROVE  Safe
<1>1. Running \/ OnlyProcess(job.owned)
  BY IInvParts DEF StepKnows
<1>2. Running' \/ OnlyProcess(job.owned)'
  BY <1>1 DEF HostSafe, Dwindles, OnlyProcess
<1> QED
  BY <1>2 DEF HostSafe, Safe, StepKnows, StoppedSteps

LEMMA StoppingStepSafe ==
  ASSUME IInv, StoppingStep
  PROVE  Safe
<1>a. HostInv /\ StepKnows /\ HostOK /\ TypeOK /\ job \in Jobs /\ PhaseOK
  BY IInvParts
<1>b. ASSUME pc \in StopSteps PROVE rec.phase = "stopping" /\ rec \in MountStates
  BY <1>a, <1>b, RecordInPhase DEF PhaseOK
<1>c. \A q \in procs : q.id # 0
  BY <1>a DEF HostOK, HostTypeOK, Processes, Identities
<1>1. CASE Intend
  BY <1>1, IntendSafe
<1>2. CASE ObserveStopping
  <2>1. HostInv' /\ rec' = rec /\ UNCHANGED <<unit, procs>> /\ pc = "observeStopping"
    BY <1>2, NoEffectSafe DEF ObserveStopping, NoEffect, host
  <2>2. CASE StopProcessClear(rec) /\ pc' = "decideStopping"
             /\ job' = [job EXCEPT !.owned = StopProcess(rec)]
    <3>1. StopProcess(rec) \in {0} \union Identities
      BY <1>a, <1>b, <2>1, ObservedProcess
    <3>2. job'.owned = StopProcess(rec)
      BY <1>a, <2>2, <3>1, JobOwned
    <3>3. Running \/ OnlyProcess(StopProcess(rec))
      BY <1>a, <2>2, StopProcessKnown
    <3>4. Running' \/ OnlyProcess(job.owned)'
      BY <2>1, <3>2, <3>3 DEF Running, OnlyProcess
    <3> QED
      BY <2>1, <2>2, <3>4 DEF Safe, StepKnows, StoppedSteps
  <2>3. CASE End
    BY <2>1, <2>3, EndSafe
  <2> QED
    BY <1>2, <2>2, <2>3 DEF ObserveStopping
<1>3. CASE DecideStopping
  <2> DEFINE p == ServiceProcess(job.owned)
             b == unit.state = "exited"
             s == IF Running THEN {"stop"} ELSE {}
             j == [job EXCEPT !.owned = p, !.failed = b, !.plan = s]
  <2>1. HostInv' /\ rec' = rec /\ UNCHANGED <<unit, procs>> /\ pc = "decideStopping"
    BY <1>3, NoEffectSafe DEF DecideStopping, NoEffect, host
  <2>2. p \in {0} \union Identities
    BY <1>a, <1>b, <2>1, ObservedProcess, JobFields
  <2>3. ~Running => OnlyProcess(p)
    BY <1>a, <2>1 DEF StepKnows, ServiceProcess
  <2>4. unit.state \in {"notfound", "running", "exited"}
    BY <1>a DEF HostOK, HostTypeOK, Units
  <2>5. j.owned = p
    BY <1>a, <2>2 DEF Jobs
  <2> HIDE DEF j
  <2>6. CASE job' = j /\ pc' = "stopUnit"
    <3>1. Running' \/ OnlyProcess(job.owned)'
      BY <2>1, <2>3, <2>5, <2>6 DEF Running, OnlyProcess
    <3> QED
      BY <2>1, <2>6, <3>1 DEF Safe, StepKnows, StoppedSteps
  <2>7. CASE /\ job' = j /\ pc' \in {"stopReset", "stopFiles"} /\ p = 0 /\ ~Running
             /\ pc' = "stopFiles" => unit.state = "notfound"
    <3>1. procs' = {} /\ ~Running' /\ (pc' = "stopFiles" => unit'.state = "notfound")
      BY <1>c, <2>1, <2>3, <2>7 DEF OnlyProcess, Running
    <3> QED
      BY <2>1, <2>7, <3>1 DEF Safe, StepKnows, StoppedSteps
  <2>8. CASE End
    BY <2>1, <2>8, EndSafe
  <2> HIDE DEF p
  <2> QED
    BY <1>3, <2>4, <2>6, <2>7, <2>8 DEF DecideStopping, Running, p, j
<1>4. CASE StopReset
  <2>1. /\ rec' = rec /\ rec.phase = "stopping" /\ procs' = {} /\ ~Running /\ ResetFailed
    BY <1>4, <1>a, <1>b DEF StopReset, ResetFailed, HostOnly, store, StepKnows, StoppedSteps
  <2>2. HostSafe /\ ~Running'
    BY <1>a, <2>1, ResetFailedSafe DEF HostSafe, Dwindles
  <2>3. CASE pc' = "stopFiles" /\ unit'.state = "notfound"
    BY <2>1, <2>2, <2>3 DEF HostSafe, Safe, StepKnows, StoppedSteps
  <2>4. CASE End
    BY <2>2, <2>4, EndSafe DEF HostSafe
  <2> QED
    BY <1>4, <2>3, <2>4 DEF StopReset
<1>5. CASE StopUnit \/ StopUnmount \/ StopKill
  <2>1. rec' = rec /\ rec.phase = "stopping" /\ job' = job
    BY <1>5, <1>b DEF StopUnit, StopUnmount, StopKill, HostOnly, store
  <2>2. HostSafe
    BY <1>5, <1>a, <2>1, ResetFailedSafe, SystemctlStopSafe, KernelUnmountSafe, KillSafe,
       UnchangedHostSafe DEF StopUnit, StopUnmount, StopKill
  <2> QED
    BY <1>5, <2>1, <2>2, StopGoes DEF StopUnit, StopUnmount, StopKill
<1>6. CASE StopCheckMount
  <2>1. HostSafe /\ HostInv' /\ rec' = rec /\ rec.phase = "stopping"
    BY <1>6, <1>b, NoEffectSafe DEF StopCheckMount
  <2> QED
    BY <1>6, <2>1, StopGoes, EndSafe DEF StopCheckMount
<1>7. CASE StopCheckRest
  <2>1. HostInv' /\ rec' = rec /\ UNCHANGED <<unit, procs>>
    BY <1>7, NoEffectSafe DEF StopCheckRest, NoEffect, host
  <2>2. CASE ~Alive(job.owned) /\ unit.state = "notfound" /\ pc' = "stopFiles"
    <3>1. ~Running /\ procs = {}
      BY <1>7, <1>a, <2>2 DEF StopCheckRest, StepKnows, OnlyProcess, Running, Alive
    <3> QED
      BY <2>1, <2>2, <3>1 DEF Safe, StepKnows, StoppedSteps, Running
  <2>3. CASE End
    BY <2>1, <2>3, EndSafe
  <2> QED
    BY <1>7, <2>2, <2>3 DEF StopCheckRest
<1>8. CASE StopFiles
  <2>1. /\ rec' = rec /\ UNCHANGED <<unit, procs, mounts>> /\ DropArtifacts
        /\ procs = {} /\ unit.state = "notfound"
    BY <1>8, <1>a DEF StopFiles, HostOnly, store, StepKnows
  <2>2. HostInv'
    BY <1>a, <2>1, DropArtifactsSafe DEF HostSafe
  <2>3. CASE ArtifactsRemovable /\ pc' = "forget"
    <3>1. mounts' = {} /\ pidfile' = 0
      BY <2>1, <2>3 DEF ArtifactsRemovable, DropArtifacts, IsMountPoint
    <3> QED
      BY <2>1, <2>2, <2>3, <3>1 DEF Safe, StepKnows, StoppedSteps, Running
  <2>4. CASE End
    BY <2>2, <2>4, EndSafe
  <2> QED
    BY <1>8, <2>3, <2>4 DEF StopFiles
<1> QED
  BY <1>1, <1>2, <1>3, <1>4, <1>5, <1>6, <1>7, <1>8 DEF StoppingStep

-----------------------------------------------------------------------------
(* The recovery of an active mount *)

(* What the cleanup of an active mount will stop. *)
LEMMA RevalidateSafe ==
  ASSUME IInv, Revalidate
  PROVE  Safe
<1> DEFINE p == ServiceProcess(StopProcess(rec))
<1>1. HostInv' /\ rec' = rec /\ UNCHANGED <<unit, procs>> /\ rec.phase = "active"
      /\ rec \in MountStates
  BY IInvParts, NoEffectSafe, RecordInPhase DEF Revalidate, NoEffect, host, PhaseOK
<1>2. p \in {0} \union Identities
  BY <1>1, IInvParts, ObservedProcess
<1>3. CASE ActiveObserved /\ pc' = "oldStop" /\ job' = [job EXCEPT !.owned = p]
  <2>1. OnlyProcess(p)
    <3>1. CASE Running
      BY <1>1, <3>1, IInvParts, RunningOnly
         DEF ServiceProcess, HostInv, ActiveOK, NoNewProcess
    <3>2. CASE ~Running
      BY <1>3, <3>2, IInvParts, StopProcessKnown DEF ServiceProcess, ActiveObserved
    <3> QED
      BY <3>1, <3>2
  <2> HIDE DEF p
  <2>2. job'.owned = p
    BY <1>2, <1>3, IInvParts, JobOwned
  <2> QED
    BY <1>1, <1>3, <2>1, <2>2 DEF Safe, StepKnows, StoppedSteps, OnlyProcess
<1>4. CASE End
  BY <1>1, <1>4, EndSafe
<1> QED
  BY <1>3, <1>4 DEF Revalidate

(* The commands of the cleanup, each of which may fail. *)
LEMMA OldGoes ==
  ASSUME IInv, HostSafe, rec' = rec, job'.owned = job.owned, ~OfCandidate',
         pc \in {"oldStop", "oldKill", "oldUnmount"},
         pc' \in {"oldKill", "oldUnmount", "oldAbsent"}
  PROVE  Safe
<1>1. OnlyProcess(job.owned)
  BY IInvParts DEF StepKnows
<1>2. OnlyProcess(job.owned)'
  BY <1>1 DEF HostSafe, Dwindles, OnlyProcess
<1> QED
  BY <1>2 DEF HostSafe, Safe, StepKnows, StoppedSteps

LEMMA RecoveryStepSafe ==
  ASSUME IInv, RecoveryStep
  PROVE  Safe
<1>a. HostInv /\ StepKnows /\ HostOK /\ TypeOK /\ job \in Jobs /\ PhaseOK /\ CandidateOK
  BY IInvParts
<1>b. ASSUME HostSafe, rec' = rec, ~Running, rec.phase = "starting", pc' # "stopFiles"
      PROVE  Safe
  BY <1>b, QuietSafe DEF HostSafe, Dwindles
<1>1. CASE Revalidate
  BY <1>1, RevalidateSafe
<1>2. CASE OldStop \/ OldKill \/ OldUnmount
  <2>1. rec' = rec /\ job' = job /\ ~OfCandidate
    BY <1>2, <1>a DEF OldStop, OldKill, OldUnmount, HostOnly, store, CandidateOK
  <2>2. HostSafe
    BY <1>2, <1>a, <2>1, SystemctlStopSafe, KillSafe, KernelUnmountSafe, UnchangedHostSafe
       DEF OldStop, OldKill, OldUnmount
  <2> QED
    BY <1>2, <2>1, <2>2, OldGoes DEF OldStop, OldKill, OldUnmount
<1>3. CASE Candidate
  <2> DEFINE o == IF ProcessObserved(rec) = "verified" THEN pidfile ELSE 0
             p == ServiceProcess(o)
             s == IF Running THEN {"stop"} ELSE {}
             j == [job EXCEPT !.owned = p, !.failed = FALSE, !.plan = s]
  <2>1. HostInv' /\ UNCHANGED unit
    BY <1>3, NoEffectSafe DEF Candidate, NoEffect, host
  <2>2. CASE End
    BY <2>1, <2>2, EndSafe
  <2>3. CASE pc' = "candidateStop" /\ job' = j
    <3>1. j.plan = s
      BY <1>a DEF Jobs
    <3>2. "stop" \notin s => ~Running
      OBVIOUS
    <3> HIDE DEF j, s
    <3>3. "stop" \notin job'.plan => ~Running'
      BY <2>1, <2>3, <3>1, <3>2 DEF Running
    <3> QED
      BY <2>1, <2>3, <3>3 DEF Safe, StepKnows, StoppedSteps
  <2> QED
    BY <1>3, <2>2, <2>3 DEF Candidate
<1>4. CASE CandidateStop
  <2>1. rec' = rec /\ rec.phase = "starting" /\ pc' = "candidateUnmount"
    BY <1>4, <1>a DEF CandidateStop, PhaseOK, HostOnly, store
  <2>2. HostSafe /\ ~Running'
    <3>1. CASE "stop" \in job.plan
      BY <1>4, <1>a, <2>1, <3>1, SystemctlStopSafe DEF CandidateStop
    <3>2. CASE "stop" \notin job.plan
      BY <1>4, <1>a, <2>1, <3>2, UnchangedHostSafe
         DEF CandidateStop, StepKnows, HostSafe, Dwindles
    <3> QED
      BY <3>1, <3>2
  <2> QED
    BY <2>1, <2>2, QuietSafe DEF HostSafe
<1>5. CASE CandidateUnmount \/ CandidateKill \/ CandidateFiles
  <2>1. rec' = rec /\ rec.phase = "starting" /\ ~Running /\ pc' # "stopFiles"
    BY <1>5, <1>a
       DEF CandidateUnmount, CandidateKill, CandidateFiles, HostOnly, store, PhaseOK,
           StepKnows, StoppedSteps
  <2>2. HostSafe
    BY <1>5, <1>a, <2>1, KernelUnmountSafe, KillSafe, FilesSafe
       DEF CandidateUnmount, CandidateKill, CandidateFiles, RemoveStartupFiles
  <2> QED
    BY <1>b, <2>1, <2>2
<1>6. CASE OldAbsent \/ OldCollect \/ OldArtifacts
  <2>1. /\ rec' = rec /\ pc \in AbsenceSteps
        /\ End \/ (job' = job /\ pc' \in {"oldCollect", "oldArtifacts", "commitFallback", "commitDesired"})
    BY <1>6 DEF OldAbsent, OldCollect, OldArtifacts, HostOnly, NoEffect, store
  <2>2. HostSafe
    BY <1>6, <1>a, <2>1, ResetFailedSafe, DropArtifactsSafe, UnchangedHostSafe
       DEF OldAbsent, OldCollect, OldArtifacts, RemoveArtifacts, NoEffect
  <2>3. CASE End
    BY <2>2, <2>3, EndSafe DEF HostSafe
  <2>4. CASE OfCandidate /\ ~End
    <3>1. rec.phase = "starting" /\ ~Running
      BY <1>a, <2>1, <2>4 DEF CandidateOK, StepKnows
    <3> QED
      BY <1>b, <2>1, <2>2, <2>4, <3>1
  <2>5. CASE ~OfCandidate /\ ~End
    <3>1. procs = {}
      BY <1>6, <1>a, <2>5
         DEF OldAbsent, OldCollect, OldArtifacts, StepKnows, OnlyProcess, Alive
    <3>2. procs' = {}
      BY <2>2, <3>1 DEF HostSafe, Dwindles
    <3>3. pc' # "commitFallback"
      BY <1>6, <2>5 DEF OldAbsent, OldCollect, OldArtifacts
    <3> QED
      BY <2>1, <2>2, <2>5, <3>2, <3>3 DEF HostSafe, Safe, StepKnows, StoppedSteps
  <2> QED
    BY <2>3, <2>4, <2>5
<1>7. CASE CommitDesired
  <2>1. procs = {} /\ rec.phase = "active"
    BY <1>7, <1>a DEF CommitDesired, StepKnows, PhaseOK
  <2>2. ~Running
    BY <1>a, <2>1 DEF HostInv, UnitOK, ActiveOK, NoNewProcess, Alive
  <2>3. UNCHANGED host /\ pc' = "publishEnv"
    BY <1>7 DEF CommitDesired, Commit
  <2> QED
    BY <1>a, <2>1, <2>2, <2>3, NewRecordSafe, PlainSafe DEF PlainSteps
<1>8. CASE CommitFallback
  <2>1. ~Running /\ rec.phase = "starting"
    BY <1>8, <1>a DEF CommitFallback, StepKnows, StoppedSteps, PhaseOK
  <2>2. UNCHANGED host /\ pc' = "publishEnv"
    BY <1>8 DEF CommitFallback, Commit
  <2> QED
    BY <1>a, <2>1, <2>2, StartingGone, NewRecordSafe, PlainSafe DEF PlainSteps
<1> QED
  BY <1>1, <1>2, <1>3, <1>4, <1>5, <1>6, <1>7, <1>8 DEF RecoveryStep

-----------------------------------------------------------------------------
(* The host and failures *)

(* The unit starts its process: no operation counts on there being none. *)
LEMMA ForkStaysSafe ==
  ASSUME IInv, Fork, UNCHANGED <<rec, pc, job>>
  PROVE  Safe
<1>1. HostInv' /\ Running /\ Running' /\ ~NoNewProcess /\ rec.phase # "active"
  BY IInvParts, ForkSafe DEF Fork, NoNewProcess
<1>2. /\ pc \notin StoppedSteps /\ pc \notin {"promoteFiles", "promote"}
      /\ pc \in AbsenceSteps => ~OfCandidate
      /\ pc = "candidateStop" => "stop" \in job.plan
  BY <1>1, IInvParts DEF StepKnows
<1>3. pc \notin AbsenceSteps /\ pc \notin CleanupSteps
  BY <1>1, <1>2, IInvParts DEF PhaseOK
<1> QED
  BY <1>1, <1>2, <1>3 DEF Safe, StepKnows, StoppedSteps

LEMMA EnvironmentSafe ==
  ASSUME IInv, Systemd \/ LateStart \/ Supervisor \/ Exits \/ DeadlinePasses
  PROVE  Safe
<1>a. HostInv /\ HostOK /\ FilesOK
  BY IInvParts
<1>1. CASE Systemd
  <2>1. UNCHANGED <<rec, pc, job>> /\ UnitStep
    BY <1>1 DEF Systemd, store
  <2>2. CASE Fork
    BY <2>1, <2>2, ForkStaysSafe
  <2>3. CASE ~Fork
    BY <1>a, <2>1, <2>3, ForkFailsSafe, CollectSafe, LauncherGoesSafe, LauncherRefusesSafe,
       StaySafe DEF UnitStep
  <2> QED
    BY <2>2, <2>3
<1>2. CASE LateStart
  BY <1>2 DEF LateStart, IInv
<1>3. CASE Supervisor
  BY <1>3, <1>a, SupervisorStepSafe, StaySafe DEF Supervisor, store
<1>4. CASE Exits
  BY <1>4, <1>a, ProcessExitsSafe, StaySafe DEF Exits, store
<1>5. CASE DeadlinePasses
  BY <1>5, <1>a, UnchangedHostSafe, StaySafe DEF DeadlinePasses
<1> QED
  BY <1>1, <1>2, <1>3, <1>4, <1>5

LEMMA FaultSafe ==
  ASSUME IInv, Fault
  PROVE  Safe
<1>a. HostInv /\ StepKnows /\ HostOK /\ job \in Jobs /\ PhaseOK /\ CandidateOK
  BY IInvParts
<1>1. CASE Interrupted \/ RunGivenUp \/ Reboot
  <2>1. rec' = rec /\ End
    BY <1>1 DEF Interrupted, RunGivenUp, Reboot, store
  <2>2. HostSafe
    BY <1>1, <1>a, <2>1, UnchangedHostSafe, HostRebootedSafe DEF Interrupted, RunGivenUp, Reboot
  <2> QED
    BY <2>1, <2>2, EndSafe DEF HostSafe
<1>2. CASE LosesPart
  BY <1>2, <1>a, PartLostSafe, StaySafe DEF LosesPart, store
<1>3. CASE Tolerated
  <2>1. rec' = rec /\ UNCHANGED host
    BY <1>3 DEF Tolerated, store
  <2>2. HostSafe /\ HostInv' /\ UNCHANGED <<unit, procs>>
    BY <1>a, <2>1, UnchangedHostSafe DEF HostSafe, host
  <2>3. /\ [job EXCEPT !.failed = TRUE].after = job.after
        /\ [job EXCEPT !.failed = TRUE].owned = job.owned
    BY <1>a, JobFailed
  <2>4. CASE \/ pc = "stopUnit" /\ pc' = "stopUnmount" /\ job' = job
             \/ pc = "stopUnmount" /\ pc' = "stopKill" /\ job' = job
             \/ pc = "stopKill" /\ pc' = "stopCheckMount" /\ job' = job
    BY <1>a, <2>1, <2>2, <2>4, StopGoes DEF PhaseOK
  <2>5. CASE \/ pc = "expiredUnmount" /\ pc' = "expiredKill"
             \/ pc = "candidateUnmount" /\ pc' = "candidateKill"
             \/ pc = "candidateFiles" /\ pc' = "oldAbsent"
    <3>1. rec'.phase = "starting" /\ ~Running'
      BY <1>a, <2>1, <2>2, <2>5 DEF PhaseOK, StepKnows, StoppedSteps, Running
    <3> QED
      BY <2>2, <2>5, <3>1, QuietSafe
  <2>6. CASE /\ job' = [job EXCEPT !.failed = TRUE]
             /\ \/ pc = "oldStop" /\ pc' = "oldKill"
                \/ pc = "oldKill" /\ pc' = "oldUnmount"
                \/ pc = "oldUnmount" /\ pc' = "oldAbsent"
    <3>1. ~OfCandidate' /\ job'.owned = job.owned
      BY <1>a, <2>3, <2>6 DEF CandidateOK
    <3> QED
      BY <2>1, <2>2, <2>6, <3>1, OldGoes
  <2>7. CASE pc' \in {"candidate", "observeStarting"}
    BY <2>2, <2>7, PlainSafe DEF PlainSteps
  <2> QED
    BY <1>3, <2>4, <2>5, <2>6, <2>7 DEF Tolerated
<1> QED
  BY <1>1, <1>2, <1>3 DEF Fault, Faulty

-----------------------------------------------------------------------------
(* Results *)

LEMMA InitIInv == Init => IInv
<1> SUFFICES ASSUME Init PROVE IInv
  OBVIOUS
<1>1. TypeInv /\ queued = 0 /\ pc = "idle"
  BY InitTypeInv DEF Init
<1>2. procs = {} /\ unit.main = 0 /\ ~Running /\ rec.phase = "none"
  BY NoUnitTyped, StateFields DEF Init, HostInit, Running
<1>3. HostInv
  BY <1>2 DEF HostInv, UnitOK, ProcsOK, ActiveOK
<1>4. StepKnows
  BY <1>1 DEF StepKnows, StoppedSteps
<1> QED
  BY <1>1, <1>3, <1>4 DEF IInv

(* No start is left behind by a client that is gone. *)
LEMMA NothingQueued ==
  ASSUME LateStarts = FALSE, queued = 0, Next
  PROVE  queued' = 0
<1> USE DEF HostOnly, NoEffect
<1>1. CASE Request
  BY <1>1 DEF Request, StageNew, Continue, StageElsewhere, Unstage, TakeDown, Begin
<1>2. CASE LaunchStep
  BY <1>2 DEF LaunchStep, InspectNoState, ResetNoState, CleanNoState, CommitStage, Commit,
              NoAttempt, PublishEnv, PublishArgs, RunUnit, WaitReady, WaitFails, PromoteFiles,
              Promote
<1>3. CASE StartingStep
  BY <1>3 DEF StartingStep, ObserveStarting, DecideStarting, UnmountStale, ResetStale,
              AbsentArtifacts, AbsentFiles, ResolveCredentials, SwitchToFallback, Commit, Forget,
              ExpiredStop, ExpiredUnmount, ExpiredKill, ExpiredReset, ExpiredCheck, ExpiredFiles
<1>4. CASE StoppingStep
  BY <1>4 DEF StoppingStep, Intend, ObserveStopping, DecideStopping, StopReset, StopUnit,
              StopUnmount, StopKill, StopCheckMount, StopCheckRest, StopFiles
<1>5. CASE RecoveryStep
  BY <1>5 DEF RecoveryStep, Revalidate, OldStop, OldKill, OldUnmount, Candidate, CandidateStop,
              CandidateUnmount, CandidateKill, CandidateFiles, OldAbsent, OldCollect,
              OldArtifacts, CommitDesired, CommitFallback, Commit
<1>6. CASE Systemd \/ LateStart \/ Supervisor \/ Exits \/ DeadlinePasses
  BY <1>6 DEF Systemd, LateStart, Supervisor, Exits, DeadlinePasses
<1>7. CASE Fault
  BY <1>7 DEF Fault, Faulty, Interrupted, RunGivenUp, Tolerated, Reboot, LosesPart
<1> QED
  BY <1>1, <1>2, <1>3, <1>4, <1>5, <1>6, <1>7 DEF Next, OperationStep

LEMMA NextKeepsIInv == LateStarts = FALSE => (IInv /\ [Next]_vars => IInv')
<1> SUFFICES ASSUME LateStarts = FALSE, IInv, [Next]_vars PROVE IInv'
  OBVIOUS
<1>1. TypeInv'
  BY NextKeepsTypeInv DEF IInv
<1>2. queued' = 0
  BY NothingQueued DEF IInv, vars
<1>3. Safe
  <2>1. CASE UNCHANGED vars
    BY <2>1, IInvParts, UnchangedHostSafe, StaySafe DEF vars, store
  <2> QED
    BY <2>1, RequestSafe, LaunchStepSafe, StartingStepSafe, StoppingStepSafe, RecoveryStepSafe,
       EnvironmentSafe, FaultSafe DEF Next, OperationStep
<1> QED
  BY <1>1, <1>2, <1>3 DEF IInv, Safe

(* What an operation knows of the processes holds at each of its steps,    *)
(* whatever failed before and whatever the host did meanwhile.             *)
THEOREM InductiveInvariant == LateStarts = FALSE => (Spec => []IInv)
<1> SUFFICES ASSUME LateStarts = FALSE PROVE Spec => []IInv
  OBVIOUS
<1>1. IInv /\ [Next]_vars => IInv'
  BY NextKeepsIInv
<1> QED
  BY <1>1, InitIInv, PTL DEF Spec

LEMMA AtMostOne ==
  ASSUME NEW S, \A p, q \in S : p = q
  PROVE  Cardinality(S) <= 1
<1>1. CASE S = {}
  BY <1>1, FS_EmptySet
<1>2. ASSUME NEW p \in S PROVE Cardinality(S) <= 1
  <2>1. S = {p}
    BY <1>2
  <2>2. Cardinality(S) = 1
    BY <2>1, FS_Singleton, Zenon
  <2> QED
    BY <2>2
<1> QED
  BY <1>1, <1>2

(* No two processes of a volume run at a time, and the one that runs is    *)
(* that of the attempt on record with the binary on record: every attempt  *)
(* starts after the process before it is gone.                             *)
THEOREM SupervisorIsOne == LateStarts = FALSE => (Spec => []OneSupervisor)
<1> SUFFICES ASSUME LateStarts = FALSE PROVE Spec => []OneSupervisor
  OBVIOUS
<1>1. IInv => OneSupervisor
  <2> SUFFICES ASSUME IInv PROVE OneSupervisor
    OBVIOUS
  <2>1. ProcsOK
    BY DEF IInv, HostInv
  <2>2. Cardinality(procs) <= 1
    BY <2>1, AtMostOne DEF ProcsOK
  <2> QED
    BY <2>1, <2>2 DEF ProcsOK, OneSupervisor
<1> QED
  BY <1>1, InductiveInvariant, PTL

(* A running unit is that of the attempt on record. *)
THEOREM UnitIsOfAttempt == LateStarts = FALSE => (Spec => []UnitOfAttempt)
<1> SUFFICES ASSUME LateStarts = FALSE PROVE Spec => []UnitOfAttempt
  OBVIOUS
<1>1. IInv => UnitOfAttempt
  BY DEF IInv, HostInv, UnitOK, UnitOfAttempt
<1> QED
  BY <1>1, InductiveInvariant, PTL

(* Under an active record only the recorded process lives, also when the   *)
(* unit or the process-state file is lost.                                 *)
THEOREM RecordNamesProcess == LateStarts = FALSE => (Spec => []ActiveProcessRecorded)
<1> SUFFICES ASSUME LateStarts = FALSE PROVE Spec => []ActiveProcessRecorded
  OBVIOUS
<1>1. IInv => ActiveProcessRecorded
  BY DEF IInv, HostInv, ActiveOK, OnlyProcess, ActiveProcessRecorded
<1> QED
  BY <1>1, InductiveInvariant, PTL

(* When the stopper deletes the record, nothing of the mount is left, at   *)
(* whatever step earlier calls failed or were killed.                      *)
THEOREM StopperLeavesNothing == LateStarts = FALSE => (Spec => StopLeavesNothing)
<1> SUFFICES ASSUME LateStarts = FALSE PROVE Spec => StopLeavesNothing
  OBVIOUS
<1> DEFINE Clean == rec.phase = "stopping" /\ rec' = NoState =>
             procs = {} /\ mounts = {} /\ unit.state = "notfound" /\ pidfile = 0 /\ files = {}
<1>1. IInv /\ [Next]_vars => Clean
  <2> SUFFICES ASSUME IInv, [Next]_vars, rec.phase = "stopping", rec' = NoState PROVE Clean
    OBVIOUS
  <2>1. rec' # rec
    BY StateFields
  <2>2. Forget
    BY <2>1, IInvParts, OthersKeepRecord, OnlyForgetDeletes DEF vars, store
  <2>3. files = {}
    BY <2>2, IInvParts DEF Forget, TypeInv, FilesRemoved
  <2> QED
    BY <2>2, <2>3, IInvParts DEF Forget, StepKnows
<1>2. StopLeavesNothing <=> [][Clean]_vars
  BY DEF StopLeavesNothing
<1> QED
  BY <1>1, <1>2, InductiveInvariant, PTL DEF Spec

(* A record is deleted, by the stopper or by handleAbsentStarting, only    *)
(* when no process and no running unit of the volume is left, and the      *)
(* startup files with the credentials are gone: of what DeletionIsClean    *)
(* asks for, only the mount of a dead supervisor may be left.              *)
DeletionEndsProcesses ==
  [][rec # NoState /\ rec' = NoState => procs = {} /\ ~Running /\ files = {}]_vars

(* Every deletion is a Forget, which changes nothing on the host, and no   *)
(* process or running unit lives without a record.                         *)
THEOREM DeletionLeavesNoProcess == LateStarts = FALSE => (Spec => DeletionEndsProcesses)
<1> SUFFICES ASSUME LateStarts = FALSE PROVE Spec => DeletionEndsProcesses
  OBVIOUS
<1> DEFINE Gone == rec # NoState /\ rec' = NoState => procs = {} /\ ~Running /\ files = {}
<1>1. IInv /\ [Next]_vars => Gone
  <2> SUFFICES ASSUME IInv, [Next]_vars, rec # NoState, rec' = NoState
               PROVE  procs = {} /\ ~Running /\ files = {}
    OBVIOUS
  <2>1. Forget
    BY IInvParts, OthersKeepRecord, OnlyForgetDeletes DEF vars, store
  <2>2. files = {}
    BY <2>1, IInvParts DEF Forget, TypeInv, FilesRemoved
  <2>3. HostInv'
    BY NextKeepsIInv DEF IInv
  <2>4. procs' = {} /\ ~Running'
    BY <2>3 DEF HostInv, ProcsOK, UnitOK
  <2>5. procs' = procs /\ unit' = unit
    BY <2>1 DEF Forget, host
  <2> QED
    BY <2>2, <2>4, <2>5 DEF Running
<1>2. DeletionEndsProcesses <=> [][Gone]_vars
  BY DEF DeletionEndsProcesses
<1> QED
  BY <1>1, <1>2, InductiveInvariant, PTL DEF Spec

-----------------------------------------------------------------------------
(* Refinement of MountContract *)

(* The process that lives is of the attempt on record. *)
LEMMA LiveAttempt ==
  ASSUME IInv
  PROVE  ContractLive = IF procs = {} THEN 0 ELSE rec.attempt
<1>1. CASE procs # {}
  <2>1. (CHOOSE q \in procs : TRUE) \in procs
    BY <1>1
  <2>2. \A q \in procs : q.attempt = rec.attempt
    BY IInvParts DEF HostInv, ProcsOK
  <2> QED
    BY <1>1, <2>1, <2>2 DEF ContractLive
<1>2. CASE procs = {}
  BY <1>2 DEF ContractLive
<1> QED
  BY <1>1, <1>2

LEMMA LiveAttemptNext ==
  ASSUME IInv'
  PROVE  ContractLive' = IF procs' = {} THEN 0 ELSE rec'.attempt
<1>1. CASE procs' # {}
  <2>1. (CHOOSE q \in procs' : TRUE) \in procs'
    BY <1>1
  <2>2. \A q \in procs' : q.attempt = rec'.attempt
    BY DEF IInv, HostInv, ProcsOK
  <2> QED
    BY <1>1, <2>1, <2>2 DEF ContractLive
<1>2. CASE procs' = {}
  BY <1>2 DEF ContractLive
<1> QED
  BY <1>1, <1>2

(* Only the unit starts a process. *)
LEMMA OnlyForkStarts ==
  ASSUME IInv, Next, procs = {}, procs' # {}
  PROVE  Fork /\ UNCHANGED <<rec, attempts>>
<1> USE DEF HostOnly, NoEffect, host, SystemctlStop, ResetFailed, KernelUnmount, Kill, Ends,
            RemoveArtifacts, RemoveStartupFiles, PublishFile, SystemdRun, Commit
<1>1. CASE Request
  BY <1>1 DEF Request, StageNew, Continue, StageElsewhere, Unstage, TakeDown, Begin
<1>2. CASE LaunchStep
  BY <1>2 DEF LaunchStep, InspectNoState, ResetNoState, CleanNoState, CommitStage,
              NoAttempt, PublishEnv, PublishArgs, RunUnit, WaitReady, WaitFails, PromoteFiles,
              Promote
<1>3. CASE StartingStep
  BY <1>3 DEF StartingStep, ObserveStarting, DecideStarting, UnmountStale, ResetStale,
              AbsentArtifacts, AbsentFiles, ResolveCredentials, SwitchToFallback, Forget,
              ExpiredStop, ExpiredUnmount, ExpiredKill, ExpiredReset, ExpiredCheck, ExpiredFiles
<1>4. CASE StoppingStep
  BY <1>4 DEF StoppingStep, Intend, ObserveStopping, DecideStopping, StopReset, StopUnit,
              StopUnmount, StopKill, StopCheckMount, StopCheckRest, StopFiles
<1>5. CASE RecoveryStep
  BY <1>5 DEF RecoveryStep, Revalidate, OldStop, OldKill, OldUnmount, Candidate, CandidateStop,
              CandidateUnmount, CandidateKill, CandidateFiles, OldAbsent, OldCollect,
              OldArtifacts, CommitDesired, CommitFallback
<1>6. CASE Systemd
  BY <1>6 DEF Systemd, UnitStep, ForkFails, Collect, store
<1>7. CASE LateStart \/ Supervisor \/ Exits \/ DeadlinePasses
  BY <1>7 DEF LateStart, Supervisor, SupervisorStep, Exits, DeadlinePasses
<1>8. CASE Fault
  BY <1>8 DEF Fault, Faulty, Interrupted, RunGivenUp, Tolerated, Reboot, HostRebooted, LosesPart,
              PartLost, UnitLost, ArtifactsLost, MountLost
<1> QED
  BY <1>1, <1>2, <1>3, <1>4, <1>5, <1>6, <1>7, <1>8 DEF Next, OperationStep

(* The record stays: a process starts, ends or neither. *)
LEMMA ProcessStepAllowed ==
  ASSUME IInv, IInv', Next, UNCHANGED <<rec, attempts>>
  PROVE  Contract!Next \/ UNCHANGED Contract!vars
<1>1. ContractState' = ContractState /\ attempts' = attempts
  BY DEF ContractState
<1>2. ContractLive = IF procs = {} THEN 0 ELSE rec.attempt
  BY LiveAttempt
<1>3. ContractLive' = IF procs' = {} THEN 0 ELSE rec.attempt
  BY LiveAttemptNext
<1>4. CASE procs = {} /\ procs' # {}
  <2>1. Fork
    BY <1>4, OnlyForkStarts
  <2>2. rec.phase # "active" /\ rec # NoState
    BY <2>1, IInvParts, ForkSafe DEF Fork, HostInv, UnitOK
  <2>3. rec.phase \in {"starting", "stopping"}
    BY <2>2, IInvParts, StateFields DEF TypeOK
  <2>4. ContractState.phase = rec.phase /\ ContractState.attempt = rec.attempt
    BY <2>2 DEF ContractState
  <2>5. Contract!Start
    BY <1>1, <1>2, <1>3, <1>4, <2>3, <2>4 DEF Contract!Start
  <2> QED
    BY <2>5 DEF Contract!Next
<1>5. CASE procs # {} /\ procs' = {}
  <2>1. rec # NoState
    BY <1>5, IInvParts DEF HostInv, ProcsOK
  <2>2. rec.attempt # 0
    BY <2>1, IInvParts, StateFields DEF TypeOK, Attempts
  <2>3. Contract!Die
    BY <1>1, <1>2, <1>3, <1>5, <2>2 DEF Contract!Die
  <2> QED
    BY <2>3 DEF Contract!Next
<1>6. CASE procs = {} <=> procs' = {}
  BY <1>1, <1>2, <1>3, <1>6 DEF Contract!vars
<1> QED
  BY <1>4, <1>5, <1>6

(* A new attempt. *)
LEMMA CommitAllowed ==
  ASSUME IInv, IInv', procs = {}, NEW reason, NEW b \in Binaries,
         NEW fb \in Binaries \union {NoBinary},
         Commit(Starting(reason, attempts + 1, b, fb)),
         \/ rec = NoState /\ fb = NoBinary
         \/ rec.phase = "active" /\ fb = rec.binary
         \/ rec.phase = "starting" /\ b = rec.fallback /\ fb = NoBinary
  PROVE  Contract!Next
<1>1. rec' = Starting(reason, attempts + 1, b, fb) /\ attempts' = attempts + 1 /\ procs' = {}
  BY DEF Commit, host
<1>2. rec'.phase = "starting" /\ rec'.attempt = attempts + 1 /\ rec'.binary = b
      /\ rec'.fallback = fb
  BY <1>1 DEF Starting
<1>3. rec' # NoState
  BY <1>2, StateFields
<1>4. ContractState' = Contract!Starting(attempts', b, fb)
  BY <1>1, <1>2, <1>3 DEF ContractState, Contract!Starting
<1>5. ContractLive = 0 /\ ContractLive' = 0
  BY <1>1, LiveAttempt, LiveAttemptNext
<1>6. /\ ContractState.phase = rec.phase
      /\ rec # NoState => ContractState.binary = rec.binary /\ ContractState.fallback = rec.fallback
  BY DEF ContractState
<1>7. ContractState' \in Contract!NextCandidates(attempts')
  <2>1. CASE rec = NoState /\ fb = NoBinary
    BY <1>4, <1>6, <2>1, StateFields DEF Contract!NextCandidates
  <2>2. CASE rec.phase = "active" /\ fb = rec.binary
    BY <1>4, <1>6, <2>2, StateFields DEF Contract!NextCandidates
  <2>3. CASE rec.phase = "starting" /\ b = rec.fallback /\ fb = NoBinary
    BY <1>4, <1>6, <2>3, StateFields DEF Contract!NextCandidates
  <2> QED
    BY <2>1, <2>2, <2>3
<1>8. Contract!NewAttempt
  BY <1>1, <1>5, <1>7 DEF Contract!NewAttempt
<1> QED
  BY <1>8 DEF Contract!Next

(* The attempt stays, its phase changes. *)
LEMMA AdvanceAllowed ==
  ASSUME IInv, IInv', rec \in MountStates, rec # NoState, rec' # NoState,
         NEW phase, rec'.phase = phase, rec'.attempt = rec.attempt, rec'.binary = rec.binary,
         rec'.fallback = NoBinary, UNCHANGED <<host, attempts>>,
         \/ rec.phase = "starting" /\ phase = "active"
         \/ rec.phase = "starting" /\ phase = "stopping"
         \/ rec.phase = "active" /\ phase = "stopping"
  PROVE  Contract!Next
<1>1. ContractLive' = ContractLive
  BY LiveAttempt, LiveAttemptNext DEF host
<1>2. ContractState' = [ContractState EXCEPT !.phase = phase, !.fallback = NoBinary]
  <2> DEFINE c == ContractState
             e == [c EXCEPT !.phase = phase, !.fallback = NoBinary]
             States == [phase : {"starting", "active", "stopping"}, attempt : Attempts,
                        binary : Binaries, fallback : Binaries \union {NoBinary}]
  <2>1. c \in States /\ c.attempt = rec.attempt /\ c.binary = rec.binary
    BY StateFields DEF ContractState
  <2>2. c' = [phase |-> phase, attempt |-> rec.attempt, binary |-> rec.binary,
              fallback |-> NoBinary]
    BY DEF ContractState
  <2>3. phase \in {"starting", "active", "stopping"} /\ NoBinary \in Binaries \union {NoBinary}
    OBVIOUS
  <2> HIDE DEF c
  <2>4. /\ e \in States /\ e.phase = phase /\ e.attempt = rec.attempt /\ e.binary = rec.binary
        /\ e.fallback = NoBinary
    BY <2>1, <2>3
  <2> HIDE DEF e
  <2>5. e = [phase |-> phase, attempt |-> rec.attempt, binary |-> rec.binary,
             fallback |-> NoBinary]
    BY <2>4
  <2>6. c' = e
    BY <2>2, <2>5
  <2> QED
    BY <2>6 DEF c, e
<1>3. ContractState.phase = rec.phase
  BY DEF ContractState
<1>4. <<ContractState.phase, phase>> \in { <<"starting", "active">>, <<"starting", "stopping">>,
                                           <<"active", "stopping">> }
  BY <1>3
<1>5. Contract!Advance(phase)
  BY <1>1, <1>2, <1>4 DEF Contract!Advance
<1> QED
  BY <1>5 DEF Contract!Next

LEMMA RecordStepAllowed ==
  ASSUME IInv, IInv', RecordStep, rec' # rec
  PROVE  Contract!Next
<1>a. HostInv /\ StepKnows /\ TypeOK /\ PhaseOK /\ CandidateOK
  BY IInvParts
<1>1. CASE CommitStage
  <2>1. rec = NoState
    BY <1>1, <1>a DEF CommitStage, PhaseOK
  <2>2. procs = {}
    BY <1>a, <2>1 DEF HostInv, ProcsOK
  <2>3. PICK b \in Binaries : Commit(Starting("stage", attempts + 1, b, NoBinary))
    BY <1>1 DEF CommitStage
  <2> QED
    BY <2>1, <2>2, <2>3, CommitAllowed
<1>2. CASE CommitDesired
  <2>1. rec.phase = "active" /\ procs = {} /\ rec.binary \in Binaries
    BY <1>2, <1>a, RecordInPhase DEF CommitDesired, PhaseOK, StepKnows
  <2>2. PICK b \in Binaries : Commit(Starting("recovery", attempts + 1, b, rec.binary))
    BY <1>2 DEF CommitDesired
  <2> QED
    BY <2>1, <2>2, CommitAllowed
<1>3. CASE CommitFallback \/ SwitchToFallback
  <2>1. rec.phase = "starting" /\ rec.fallback # NoBinary /\ rec \in MountStates
    BY <1>3, <1>a, RecordInPhase DEF CommitFallback, SwitchToFallback, PhaseOK, CandidateOK
  <2>2. Commit(Fallback) /\ ~Running
    BY <1>3, <1>a
       DEF CommitFallback, SwitchToFallback, StepKnows, StoppedSteps, Running, NoEffect, store
  <2>3. procs = {}
    BY <1>a, <2>1, <2>2, StartingGone
  <2>4. rec.fallback \in Binaries
    BY <2>1, StateFields
  <2>5. Commit(Starting("recovery", attempts + 1, rec.fallback, NoBinary))
    BY <2>2 DEF Fallback
  <2> QED
    BY <2>1, <2>3, <2>4, <2>5, CommitAllowed
<1>4. CASE Promote
  <2>1. rec.phase = "starting" /\ rec \in MountStates /\ rec # NoState
    BY <1>4, <1>a, RecordInPhase DEF Promote, PhaseOK
  <2>2. /\ rec'.phase = "active" /\ rec'.attempt = rec.attempt /\ rec'.binary = rec.binary
        /\ rec'.fallback = NoBinary
    BY <1>4, <2>1 DEF Promote, MountStates
  <2>3. rec' # NoState /\ UNCHANGED <<host, attempts>>
    BY <1>4, <2>2, StateFields DEF Promote
  <2> QED
    BY <2>1, <2>2, <2>3, AdvanceAllowed
<1>5. CASE Intend
  <2> DEFINE p == ServiceProcess(StopProcess(rec))
  <2>1. rec \in MountStates /\ rec # NoState /\ rec.phase \in {"starting", "active"}
    BY <1>5, <1>a, RecordInPhase DEF Intend, PhaseOK
  <2>2. p \in {0} \union Identities
    BY <1>a, <2>1, ObservedProcess
  <2>3. rec' = Stopping(rec, p) /\ UNCHANGED <<host, attempts>>
    BY <1>5 DEF Intend, NoEffect, store
  <2> HIDE DEF p
  <2>4. /\ rec'.phase = "stopping" /\ rec'.attempt = rec.attempt /\ rec'.binary = rec.binary
        /\ rec'.fallback = NoBinary
    BY <2>1, <2>2, <2>3, StoppingTyped
  <2>5. rec' # NoState
    BY <2>4, StateFields
  <2> QED
    BY <2>1, <2>3, <2>4, <2>5, AdvanceAllowed
<1>6. CASE Forget
  <2>1. ~Running /\ procs = {} /\ rec.phase \in {"starting", "stopping"}
    BY <1>6, <1>a, StartingGone DEF Forget, StepKnows, StoppedSteps, PhaseOK
  <2>2. rec' = NoState /\ UNCHANGED <<procs, attempts>>
    BY <1>6 DEF Forget, host
  <2>3. ContractLive = 0 /\ ContractLive' = 0
    BY <2>1, <2>2, LiveAttempt, LiveAttemptNext
  <2>4. ContractState.phase = rec.phase /\ ContractState' = Contract!NoState
    BY <2>2, StateFields DEF ContractState, Contract!NoState
  <2>5. Contract!Forget
    BY <2>1, <2>2, <2>3, <2>4 DEF Contract!Forget
  <2> QED
    BY <2>5 DEF Contract!Next
<1> QED
  BY <1>1, <1>2, <1>3, <1>4, <1>5, <1>6 DEF RecordStep

(* A record step that writes nothing is a failed check or a refusal. *)
LEMMA StepAllowed ==
  ASSUME IInv, IInv', [Next]_vars
  PROVE  Contract!Next \/ UNCHANGED Contract!vars
<1>1. CASE UNCHANGED vars
  BY <1>1 DEF vars, store, host, Contract!vars, ContractState, ContractLive
<1>2. CASE Next /\ UNCHANGED <<rec, attempts>>
  BY <1>2, ProcessStepAllowed
<1>3. CASE Next /\ RecordStep /\ rec' # rec
  BY <1>3, RecordStepAllowed
<1>4. CASE Next /\ RecordStep /\ rec' = rec
  <2>1. attempts' = attempts
    <3>1. ASSUME NEW x, NEW b, NEW fb, Commit(Starting(x, attempts + 1, b, fb)) PROVE FALSE
      <4>1. rec = Starting(x, attempts + 1, b, fb)
        BY <1>4, <3>1 DEF Commit
      <4>2. rec.phase = "starting" /\ rec.attempt = attempts + 1
        BY <4>1 DEF Starting
      <4>3. rec.attempt <= attempts
        BY <4>2, IInvParts, StateFields DEF TypeInv, RecordOK
      <4>4. attempts \in Nat
        BY IInvParts, HostAssumption DEF TypeOK
      <4> QED
        BY <4>2, <4>3, <4>4
    <3>2. ~CommitStage /\ ~CommitDesired /\ ~CommitFallback
      BY <3>1 DEF CommitStage, CommitDesired, CommitFallback, Fallback
    <3>3. SwitchToFallback => NoEffect
      BY <3>1 DEF SwitchToFallback, Fallback
    <3> QED
      BY <1>4, <3>2, <3>3 DEF RecordStep, Promote, Forget, Intend, NoEffect, store
  <2> QED
    BY <1>2, <1>4, <2>1
<1> QED
  BY <1>1, <1>2, <1>3, <1>4, OthersKeepRecord

(* The mount transaction implements MountContract: a new attempt or a      *)
(* deletion finds no live process, and a process starts only for the       *)
(* attempt on record and never while that is active.                       *)
THEOREM TransactionImplementsContract == LateStarts = FALSE => (Spec => ImplementsContract)
<1> SUFFICES ASSUME LateStarts = FALSE PROVE Spec => ImplementsContract
  OBVIOUS
<1>1. Init => Contract!Init
  BY StateFields
     DEF Init, HostInit, Contract!Init, ContractState, ContractLive, Contract!NoState
<1>2. IInv /\ IInv' /\ [Next]_vars => [Contract!Next]_(Contract!vars)
  BY StepAllowed
<1>3. ImplementsContract <=> Contract!Init /\ [][Contract!Next]_(Contract!vars)
  BY DEF ImplementsContract, Contract!Spec
<1> QED
  BY <1>1, <1>2, <1>3, InductiveInvariant, PTL DEF Spec
=============================================================================
