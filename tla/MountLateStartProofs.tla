------------------------ MODULE MountLateStartProofs ------------------------
(***************************************************************************)
(* Proofs about the supervisors of a volume when starts may arrive late: a *)
(* start that a killed systemd-run asked for happens during or after the   *)
(* cleanup of its attempt, or under a later record.  Then a unit, with its *)
(* launcher, may run beside an orphaned supervisor, so what is proved is   *)
(* about the processes that execute Drive9.                                *)
(*                                                                         *)
(* A launcher becomes a supervisor only by the pair of startup files that  *)
(* it has read.  The files are published only while no process has read    *)
(* any, the launcher that has read them removes them before it executes    *)
(* Drive9, and before a record is given up whose files are gone the        *)
(* supervisor it names is dead.  The plugin may still remove the files and *)
(* delete the record between the launcher's reading and its execution: the *)
(* running unit then keeps every new attempt away.                         *)
(***************************************************************************)
EXTENDS MountTransactionProofs, FiniteSetTheorems

-----------------------------------------------------------------------------
(* Invariants *)

(* The supervisors, and with them the launchers that are about to become   *)
(* one since they have read their startup files.                           *)
Armed == {q \in procs : q.input # NoBinary}

OnlyRuns(p) == \A q \in Armed : q.id = p

(* Both startup files are there. *)
Launchable == \E f, g \in files : f.kind = "env" /\ g.kind = "args"

(* No launcher is about to become a supervisor, or could get there. *)
Settled == ~Launchable /\ Armed \subseteq Executing

(* A launcher reads, removes, executes. *)
LauncherOK ==
  \A q \in procs :
    /\ q.cleared => q.input # NoBinary
    /\ q.binary # NoBinary => q.cleared /\ q.binary = q.input

(* What it has read is of the record, unless that was deleted meanwhile. *)
ReadOK ==
  \A q \in Armed : rec = NoState \/ (q.attempt = rec.attempt /\ q.input = rec.binary)

(* Identities are not reused. *)
FreshOK ==
  /\ \A p, q \in procs : p.id = q.id => p = q
  /\ \A q \in procs : q.id <= spawned
  /\ \A m \in mounts : m <= spawned
  /\ pidfile <= spawned

(* A launcher neither registers nor mounts. *)
RegisteredOK == \A q \in procs : q.id \in mounts \/ q.id = pidfile => q.binary # NoBinary

(* The record was active: its startup files are gone for good. *)
Promoted == rec.phase \in {"active", "stopping"} /\ ~rec.startup

(* A process belongs to the running unit or is the supervisor on record. *)
PlaceOK ==
  \A q \in procs :
    \/ Running /\ unit.main = q.id
    \/ Promoted /\ rec.pid = q.id /\ q.binary # NoBinary

RecordedOK == Promoted => OnlyRuns(rec.pid) /\ Settled

(* The files of an attempt are not there again after its launcher has      *)
(* removed them.                                                           *)
PairOK == Launchable => \A q \in procs : ~q.cleared

HostInv ==
  FreshOK /\ LauncherOK /\ ReadOK /\ RegisteredOK /\ PlaceOK /\ RecordedOK /\ PairOK

(* A second pass over a recovery, with its credentials, starts without     *)
(* startup files: the first one removed them.                              *)
SecondPass == job.creds /\ rec.reason = "recovery"

(* What an operation knows of the startup files. *)
FilesKnown ==
  /\ pc \in {"publishEnv", "credentials"} => files = {}
  /\ pc = "publishArgs" => \A f \in files : f.kind = "env"
  /\ pc \in {"promoteFiles", "promote"} => Settled
  /\ pc = "decideStarting" /\ job.proc = "verified" => Settled
  /\ pc \in ReconcileSteps /\ SecondPass => files = {}
  /\ pc = "wait" /\ job.after = "reconcile" /\ SecondPass => files = {}
  /\ pc \in LaunchSteps \union ReconcileSteps /\ job.after = "launch" => rec.reason = "stage"
  /\ pc \in {"publishEnv", "publishArgs", "run"} => job.after # "reconcile"

(* What it knows of the supervisors. *)
StepKnows ==
  /\ pc \in {"launch", "publishEnv", "publishArgs", "commitDesired", "commitFallback"} =>
       Armed = {}
  /\ pc \in {"promoteFiles", "promote"} => OnlyRuns(job.owned)
  /\ pc \in {"unmountStale", "resetStale", "absent", "absentFiles"} /\ SecondPass
     /\ ResumeCandidate => Armed = {}
  /\ pc \in {"oldStop", "oldKill", "oldUnmount"} => OnlyRuns(job.owned)
  /\ pc = "oldAbsent" /\ ~OfCandidate => OnlyRuns(job.owned)
  /\ pc \in {"oldCollect", "oldArtifacts"} /\ ~OfCandidate => Armed = {}
  /\ pc = "oldArtifacts" /\ OfCandidate /\ ~job.failed => Armed = {}
  /\ pc \in {"decideStopping", "stopUnit", "stopUnmount", "stopKill", "stopCheckMount",
             "stopCheckRest"} /\ ~rec.startup => OnlyRuns(job.owned)
  /\ pc \in {"stopReset", "stopFiles"} /\ ~rec.startup => Armed = {}
  /\ pc = "forget" /\ rec.phase = "stopping" /\ ~rec.startup => Armed = {}

IInv ==
  /\ TypeInv
  /\ HostInv
  /\ FilesKnown
  /\ StepKnows

-----------------------------------------------------------------------------
(* Commands and events of the host *)

(* No process reads startup files, none is added. *)
Dwindles ==
  /\ \A q \in Armed' : \E p \in Armed :
       p.id = q.id /\ (p.binary # NoBinary => q.binary # NoBinary)
  /\ files' \subseteq files

HostSafe == HostInv' /\ Dwindles

LEMMA Identified ==
  ASSUME HostOK
  PROVE  /\ \A q \in procs : q.id \in Nat /\ q.id # 0
         /\ \A m \in mounts : m \in Nat
         /\ pidfile \in Nat /\ spawned \in Nat
BY HostAssumption DEF HostOK, HostTypeOK, Processes, Identities

(* Nothing starts; a unit that ends takes its process with it. *)
LEMMA NothingStarts ==
  ASSUME HostInv, HostOK, rec' = rec, procs' \subseteq procs, mounts' \subseteq mounts,
         pidfile' \in {0, pidfile}, files' \subseteq files, spawned' = spawned,
         \A q \in procs' : Running /\ unit.main = q.id => Running' /\ unit'.main = q.id
  PROVE  HostSafe
<1>1. Armed' \subseteq Armed
  BY DEF Armed
<1>2. FreshOK'
  BY Identified DEF HostInv, FreshOK
<1>3. RegisteredOK'
  BY Identified DEF HostInv, RegisteredOK
<1>4. PlaceOK'
  BY DEF HostInv, PlaceOK, Promoted
<1>5. RecordedOK' /\ PairOK'
  BY <1>1 DEF HostInv, RecordedOK, PairOK, Promoted, OnlyRuns, Settled, Launchable, Armed, Executing
<1>6. LauncherOK' /\ ReadOK'
  BY <1>1 DEF HostInv, LauncherOK, ReadOK
<1> QED
  BY <1>1, <1>2, <1>3, <1>4, <1>5, <1>6 DEF HostSafe, HostInv, Dwindles

LEMMA SameUnitSafe ==
  ASSUME HostInv, HostOK, rec' = rec, UNCHANGED <<unit, procs, spawned>>, mounts' \subseteq mounts,
         pidfile' \in {0, pidfile}, files' \subseteq files
  PROVE  HostSafe
BY NothingStarts DEF Running

LEMMA UnchangedHostSafe ==
  ASSUME HostInv, HostOK, rec' = rec, UNCHANGED host
  PROVE  HostSafe
BY SameUnitSafe DEF host

LEMMA RemoveStartupFilesSafe ==
  ASSUME HostInv, HostOK, rec' = rec, NEW a, RemoveStartupFiles(a)
  PROVE  HostSafe
BY SameUnitSafe DEF RemoveStartupFiles

LEMMA DropArtifactsSafe ==
  ASSUME HostInv, HostOK, rec' = rec, DropArtifacts, files' \subseteq files,
         UNCHANGED <<unit, procs, mounts, spawned>>
  PROVE  HostSafe
BY SameUnitSafe DEF DropArtifacts

LEMMA KernelUnmountSafe ==
  ASSUME HostInv, HostOK, rec' = rec, KernelUnmount
  PROVE  HostSafe
BY SameUnitSafe DEF KernelUnmount

(* The unit goes, or comes, while it does not run. *)
LEMMA IdleUnitSafe ==
  ASSUME HostInv, HostOK, rec' = rec, ~Running, UNCHANGED <<procs, mounts, pidfile, files, spawned>>
  PROVE  HostSafe
BY NothingStarts

LEMMA ResetFailedSafe ==
  ASSUME HostInv, HostOK, rec' = rec, ResetFailed
  PROVE  HostSafe
BY IdleUnitSafe, UnchangedHostSafe DEF ResetFailed, Running, host

LEMMA SystemdRunSafe ==
  ASSUME HostInv, HostOK, rec' = rec, NEW a, SystemdRun(a)
  PROVE  HostSafe
BY IdleUnitSafe DEF SystemdRun, Running

(* A process ends, and with it the unit it is the main process of. *)
LEMMA EndsSafe ==
  ASSUME HostInv, HostOK, rec' = rec, NEW p, Ends(p), UNCHANGED <<files, spawned>>,
         unit' = unit \/ (Running /\ unit.main = p)
  PROVE  HostSafe
<1>1. /\ procs' = {q \in procs : q.id # p} /\ mounts' \subseteq mounts
      /\ pidfile' \in {0, pidfile}
  BY DEF Ends
<1>2. \A q \in procs' : Running /\ unit.main = q.id => Running' /\ unit'.main = q.id
  BY <1>1 DEF Running
<1> QED
  BY <1>1, <1>2, NothingStarts

LEMMA SystemctlStopSafe ==
  ASSUME HostInv, HostOK, rec' = rec, SystemctlStop
  PROVE  HostSafe
BY EndsSafe, UnchangedHostSafe DEF SystemctlStop, host

LEMMA KillSafe ==
  ASSUME HostInv, HostOK, rec' = rec, NEW p, Kill(p)
  PROVE  HostSafe
<1>1. CASE Alive(p)
  BY <1>1, EndsSafe DEF Kill
<1>2. CASE ~Alive(p)
  <2>1. UNCHANGED <<procs, mounts, pidfile, files, spawned>>
    BY <1>2 DEF Kill
  <2>2. \A q \in procs' : Running /\ unit.main = q.id => Running' /\ unit'.main = q.id
    BY <1>2, <2>1 DEF Kill, Running, Alive
  <2> QED
    BY <2>1, <2>2, NothingStarts
<1> QED
  BY <1>1, <1>2

LEMMA ProcessExitsSafe ==
  ASSUME HostInv, HostOK, rec' = rec, NEW q \in procs, ProcessExits(q)
  PROVE  HostSafe
BY EndsSafe DEF ProcessExits

LEMMA HostRebootedSafe ==
  ASSUME HostInv, HostOK, rec' = rec, HostRebooted
  PROVE  HostSafe
BY NothingStarts DEF HostRebooted

(* A lost unit leaves the supervisor on record, not a launcher: that has   *)
(* no mount.                                                               *)
LEMMA PartLostSafe ==
  ASSUME HostInv, HostOK, rec' = rec, Promoted, PartLost
  PROVE  HostSafe
<1>1. CASE UnitLost
  <2>1. UNCHANGED <<procs, mounts, pidfile, files, spawned>> /\ unit.main \in mounts
    BY <1>1 DEF UnitLost
  <2>2. FreshOK' /\ RegisteredOK' /\ RecordedOK' /\ PairOK' /\ LauncherOK' /\ ReadOK' /\ Dwindles
    BY <2>1 DEF HostInv, FreshOK, RegisteredOK, RecordedOK, PairOK, LauncherOK, ReadOK, Promoted,
                OnlyRuns, Settled, Launchable, Armed, Executing, Dwindles
  <2>3. ASSUME NEW q \in procs PROVE rec.pid = q.id /\ q.binary # NoBinary
    BY <2>1, <2>3 DEF HostInv, PlaceOK, RegisteredOK, LauncherOK, RecordedOK, OnlyRuns, Armed
  <2>4. PlaceOK'
    BY <2>1, <2>3 DEF PlaceOK, Promoted
  <2> QED
    BY <2>2, <2>4 DEF HostSafe, HostInv
<1>2. CASE ArtifactsLost \/ MountLost
  BY <1>2, SameUnitSafe DEF ArtifactsLost, MountLost
<1> QED
  BY <1>1, <1>2 DEF PartLost

(* The new process is a launcher. *)
LEMMA ForkSafe ==
  ASSUME HostInv, HostOK, rec' = rec, Fork
  PROVE  HostSafe
<1> DEFINE l == Launcher(spawned + 1, unit.attempt)
<1>1. l.id = spawned + 1 /\ l.binary = NoBinary /\ l.input = NoBinary /\ l.cleared = FALSE
  BY DEF Launcher
<1>2. /\ procs' = procs \union {l} /\ unit'.main = spawned + 1 /\ unit'.state = "running"
      /\ UNCHANGED <<mounts, pidfile, files>> /\ spawned' = spawned + 1 /\ unit.main = 0
  BY DEF Fork, HostOK, HostTypeOK, Units, Running
<1> HIDE DEF l
<1>3. Armed' = Armed /\ Executing' = Executing
  BY <1>1, <1>2 DEF Armed, Executing
<1>4. FreshOK'
  BY <1>1, <1>2, Identified DEF HostInv, FreshOK
<1>5. RegisteredOK'
  BY <1>1, <1>2, Identified DEF HostInv, FreshOK, RegisteredOK
<1>6. PlaceOK'
  BY <1>1, <1>2, Identified DEF HostInv, PlaceOK, Promoted, Running
<1>7. RecordedOK' /\ PairOK' /\ Dwindles
  BY <1>1, <1>2, <1>3
     DEF HostInv, RecordedOK, PairOK, Promoted, OnlyRuns, Settled, Launchable, Dwindles
<1>8. LauncherOK' /\ ReadOK'
  BY <1>1, <1>2, <1>3 DEF HostInv, LauncherOK, ReadOK
<1> QED
  BY <1>4, <1>5, <1>6, <1>7, <1>8 DEF HostSafe, HostInv

(* A launcher is the main process of the running unit. *)
LEMMA LauncherPlace ==
  ASSUME HostInv, NEW q \in procs, q.binary = NoBinary
  PROVE  Running /\ unit.main = q.id
BY DEF HostInv, PlaceOK

LEMMA LauncherRefusesSafe ==
  ASSUME HostInv, HostOK, rec' = rec, NEW q \in procs, LauncherRefuses(q)
  PROVE  HostSafe
<1>1. Running /\ unit.main = q.id
  BY LauncherPlace DEF LauncherRefuses, HostInv, LauncherOK
<1>2. /\ procs' = procs \ {q} /\ files' \subseteq files /\ UNCHANGED <<mounts, pidfile, spawned>>
  BY DEF LauncherRefuses
<1>3. \A p \in procs' : unit.main # p.id
  BY <1>1, <1>2 DEF HostInv, FreshOK
<1> QED
  BY <1>2, <1>3, NothingStarts

LEMMA ForkFailsSafe ==
  ASSUME HostInv, HostOK, rec' = rec, ForkFails
  PROVE  HostSafe
<1>1. UNCHANGED <<procs, mounts, pidfile, files, spawned>> /\ unit.main = 0
  BY DEF ForkFails
<1> QED
  BY <1>1, Identified, NothingStarts

LEMMA CollectSafe ==
  ASSUME HostInv, HostOK, rec' = rec, Collect
  PROVE  HostSafe
BY IdleUnitSafe DEF Collect, Running

LEMMA SupervisorStepSafe ==
  ASSUME HostInv, HostOK, rec' = rec, SupervisorStep
  PROVE  HostSafe
<1>1. PICK q \in procs : Registers(q) \/ MountsVolume(q)
  BY DEF SupervisorStep
<1>2. UNCHANGED <<unit, procs, files, spawned>>
  BY <1>1 DEF Registers, MountsVolume
<1>3. PlaceOK' /\ RecordedOK' /\ PairOK' /\ LauncherOK' /\ ReadOK' /\ Dwindles
  BY <1>2 DEF HostInv, PlaceOK, RecordedOK, PairOK, LauncherOK, ReadOK, Promoted, OnlyRuns,
              Settled, Launchable, Dwindles, Running, Armed, Executing
<1>4. q.id <= spawned /\ q.binary # NoBinary
  BY <1>1 DEF HostInv, FreshOK, RegisteredOK, Registers, MountsVolume
<1>5. FreshOK'
  BY <1>1, <1>2, <1>4 DEF HostInv, FreshOK, Registers, MountsVolume
<1>6. RegisteredOK'
  BY <1>1, <1>2, <1>4 DEF HostInv, FreshOK, RegisteredOK, Registers, MountsVolume
<1> QED
  BY <1>3, <1>5, <1>6 DEF HostSafe, HostInv

(* A launcher that reads startup files is the only process. *)
LEMMA LauncherReadsSafe ==
  ASSUME HostInv, HostOK, FilesOK, rec' = rec, NEW q \in procs, LauncherReads(q)
  PROVE  HostInv' /\ Launchable /\ files' = files
<1>1. PICK f \in StartupFile("args", q.attempt) :
        procs' = (procs \ {q}) \union {[q EXCEPT !.input = f.binary]}
  BY DEF LauncherReads
<1>2. PICK g \in StartupFile("env", q.attempt) : TRUE
  BY DEF LauncherReads
<1>3. /\ Launchable /\ q.attempt = rec.attempt /\ f.binary = rec.binary /\ ~Promoted
  BY <1>1, <1>2 DEF StartupFile, Launchable, FilesOK, Promoted
<1> DEFINE e == [q EXCEPT !.input = f.binary]
<1>4. /\ e.id = q.id /\ e.attempt = q.attempt /\ e.binary = q.binary /\ e.input = f.binary
      /\ e.cleared = q.cleared /\ f.binary # NoBinary
  <2>1. q \in Processes /\ f.binary \in Binaries
    BY DEF HostOK, HostTypeOK, StartupFile, StartupFiles
  <2> QED
    BY <2>1, ReadFields, HostAssumption
<1>5. q.binary = NoBinary /\ q.cleared = FALSE
  <2>1. q.cleared \in BOOLEAN
    BY DEF HostOK, HostTypeOK, Processes
  <2> QED
    BY <2>1 DEF LauncherReads, HostInv, LauncherOK
<1>6. Running /\ unit.main = q.id
  BY <1>5, LauncherPlace
<1>7. procs' = {e}
  BY <1>1, <1>3, <1>6 DEF HostInv, PlaceOK, FreshOK
<1> HIDE DEF e
<1>8. UNCHANGED <<unit, mounts, pidfile, files, spawned>>
  BY DEF LauncherReads
<1>9. FreshOK' /\ RegisteredOK'
  BY <1>4, <1>7, <1>8 DEF HostInv, FreshOK, RegisteredOK
<1>10. PlaceOK' /\ LauncherOK' /\ ReadOK'
  BY <1>3, <1>4, <1>5, <1>6, <1>7, <1>8 DEF PlaceOK, LauncherOK, ReadOK, Running, Armed
<1>11. RecordedOK' /\ PairOK'
  BY <1>3, <1>4, <1>5, <1>7 DEF RecordedOK, PairOK, Promoted
<1> QED
  BY <1>3, <1>8, <1>9, <1>10, <1>11 DEF HostInv

(* A launcher that has read its files goes on with what it has read: it    *)
(* removes the pair, and executes after that.                              *)
LEMMA LauncherGoesSafe ==
  ASSUME HostInv, HostOK, FilesOK, rec' = rec, NEW q \in procs,
         LauncherRemoves(q) \/ LauncherExecs(q)
  PROVE  HostSafe
<1>1. q \in Processes
  BY DEF HostOK, HostTypeOK
<1>2. q.binary = NoBinary /\ q.input # NoBinary
  BY DEF LauncherRemoves, LauncherExecs, HostInv, LauncherOK
<1>3. PICK e : /\ procs' = (procs \ {q}) \union {e} /\ e.id = q.id /\ e.attempt = q.attempt
               /\ e.input = q.input /\ e.cleared = TRUE
               /\ e.binary \in {NoBinary, q.input}
  <2>1. CASE LauncherRemoves(q)
    BY <1>1, <1>2, <2>1, RemoveFields DEF LauncherRemoves
  <2>2. CASE LauncherExecs(q)
    <3>1. q.cleared = TRUE
      BY <1>1, <2>2 DEF LauncherExecs, Processes
    <3> QED
      BY <1>1, <2>2, <3>1, ExecFields DEF LauncherExecs
  <2> QED
    BY <2>1, <2>2
<1>4. Running /\ unit.main = q.id
  BY <1>2, LauncherPlace
<1>5. ~Promoted
  BY <1>2 DEF HostInv, RecordedOK, Settled, Armed, Executing
<1>6. procs = {q} /\ procs' = {e}
  BY <1>3, <1>4, <1>5 DEF HostInv, PlaceOK, FreshOK
<1>7. UNCHANGED <<unit, mounts, pidfile, spawned>> /\ files' \subseteq files
  BY DEF LauncherRemoves, LauncherExecs
<1>8. ~Launchable'
  <2>1. CASE LauncherRemoves(q)
    <3>1. files # {} => q.attempt = rec.attempt
      BY <1>2, StateFields DEF HostInv, ReadOK, FilesOK, Armed
    <3>2. files' = {}
      BY <2>1, <3>1 DEF LauncherRemoves, FilesOK
    <3> QED
      BY <3>2 DEF Launchable
  <2>2. CASE LauncherExecs(q)
    BY <2>2 DEF LauncherExecs, HostInv, PairOK, Launchable
  <2> QED
    BY <2>1, <2>2
<1>9. FreshOK' /\ RegisteredOK'
  BY <1>2, <1>3, <1>6, <1>7 DEF HostInv, FreshOK, RegisteredOK
<1>10. PlaceOK' /\ LauncherOK' /\ ReadOK'
  BY <1>2, <1>3, <1>4, <1>6, <1>7 DEF HostInv, PlaceOK, LauncherOK, ReadOK, Running, Armed
<1>11. RecordedOK' /\ PairOK'
  BY <1>5, <1>8 DEF RecordedOK, PairOK, Promoted
<1>12. Dwindles
  BY <1>2, <1>3, <1>6, <1>7 DEF Dwindles, Armed
<1> QED
  BY <1>9, <1>10, <1>11, <1>12 DEF HostSafe, HostInv

-----------------------------------------------------------------------------
(* Shapes of steps *)

USE DEF Go, OfCandidate, NoStateSteps, LaunchSteps, ReconcileSteps, CandidateSteps, StopSteps,
        CleanupSteps, AbsenceSteps

Safe == HostInv' /\ FilesKnown' /\ StepKnows'

LEMMA IInvParts ==
  ASSUME IInv
  PROVE  /\ TypeInv /\ HostInv /\ FilesKnown /\ StepKnows /\ HostOK /\ TypeOK /\ job \in Jobs
         /\ PhaseOK /\ CandidateOK /\ FilesOK /\ (FilesRemoved => files = {})
BY TypeInvParts DEF IInv, TypeInv

(* What a record in a phase says of its startup files. *)
LEMMA PhaseStartup ==
  ASSUME TypeInv
  PROVE  /\ rec.phase = "starting" => rec.startup /\ ~Promoted /\ rec.reason \in {"stage", "recovery"}
         /\ rec.phase = "active" => ~rec.startup /\ Promoted /\ files = {}
<1>1. rec.phase = "starting" => ValidStarting(rec)
  BY StateFields DEF TypeInv, RecordOK, ValidState
<1>2. rec.phase = "active" => ValidActive(rec)
  BY StateFields DEF TypeInv, RecordOK, ValidState
<1>3. rec.phase = "active" => files = {}
  BY DEF TypeInv, FilesOK
<1> QED
  BY <1>1, <1>2, <1>3 DEF ValidStarting, ValidActive, Promoted

(* What is gone stays gone while nothing starts. *)
LEMMA StaysGone ==
  ASSUME Dwindles
  PROVE  /\ Armed = {} => Armed' = {}
         /\ \A p : OnlyRuns(p) => \A q \in Armed' : q.id = p
         /\ Settled => Settled'
         /\ files = {} => files' = {}
<1>1. ~Launchable => ~Launchable'
  BY DEF Dwindles, Launchable
<1>2. Armed \subseteq Executing => Armed' \subseteq Executing'
  BY DEF Dwindles, Armed, Executing
<1> QED
  BY <1>1, <1>2 DEF Dwindles, OnlyRuns, Settled

(* An operation that waits knows what it knew. *)
LEMMA StaySafe ==
  ASSUME IInv, HostSafe, UNCHANGED <<rec, pc, job>>
  PROVE  Safe
<1>1. FilesKnown /\ StepKnows /\ Dwindles
  BY IInvParts DEF HostSafe
<1>2. FilesKnown'
  BY <1>1, StaysGone DEF Dwindles, FilesKnown, SecondPass
<1>3. StepKnows'
  BY <1>1, StaysGone DEF StepKnows, SecondPass, ResumeCandidate, OnlyRuns
<1> QED
  BY <1>2, <1>3 DEF HostSafe, Safe

LEMMA EndSafe ==
  ASSUME HostInv', End
  PROVE  Safe
BY DEF End, Safe, FilesKnown, StepKnows

(* Steps at which an operation need not know anything. *)
PlainSteps ==
  {"idle", "noState", "noStateReset", "noStateArtifacts", "intend", "observeStopping",
   "revalidate", "candidate", "candidateStop", "candidateUnmount", "candidateKill",
   "candidateFiles"}

LEMMA PlainSafe ==
  ASSUME HostInv', pc' \in PlainSteps
  PROVE  Safe
BY DEF PlainSteps, Safe, FilesKnown, StepKnows

(* A supervisor has read its startup files. *)
LEMMA ExecutingArmed ==
  ASSUME HostInv
  PROVE  Executing \subseteq Armed
BY DEF HostInv, LauncherOK, Executing, Armed

(* A record that was never active has no process without a running unit. *)
LEMMA UnitGone ==
  ASSUME HostInv, ~Promoted, ~Running
  PROVE  procs = {} /\ Armed = {}
BY DEF HostInv, PlaceOK, Armed

(* With a running unit its main process is the only one. *)
LEMMA MainOnly ==
  ASSUME HostInv, ~Promoted
  PROVE  OnlyRuns(unit.main)
BY DEF HostInv, PlaceOK, OnlyRuns, Armed

(* The same attempt in another phase, no record, or a new record after the *)
(* supervisor of an active one is gone.                                    *)
LEMMA NewRecordSafe ==
  ASSUME HostInv, UNCHANGED host, ~Promoted', ~Promoted \/ Armed = {},
         \/ Armed = {} \/ rec' = NoState
         \/ rec # NoState /\ rec'.attempt = rec.attempt /\ rec'.binary = rec.binary
  PROVE  HostInv'
<1>1. UNCHANGED <<unit, procs, mounts, pidfile, files, spawned>>
  BY DEF host
<1>2. FreshOK' /\ RegisteredOK' /\ PairOK' /\ LauncherOK'
  BY <1>1 DEF HostInv, FreshOK, RegisteredOK, PairOK, Launchable, LauncherOK
<1>3. PlaceOK'
  BY <1>1 DEF HostInv, PlaceOK, LauncherOK, Armed, Running
<1>4. ReadOK'
  BY <1>1 DEF HostInv, ReadOK, Armed
<1> QED
  BY <1>2, <1>3, <1>4 DEF HostInv, RecordedOK

(* A step without effect on the host or the record. *)
LEMMA NoEffectSafe ==
  ASSUME IInv, NoEffect
  PROVE  /\ HostSafe /\ HostInv' /\ rec' = rec /\ UNCHANGED <<unit, procs, files>>
         /\ Armed' = Armed /\ Settled' = Settled
<1>1. rec' = rec /\ UNCHANGED host
  BY DEF NoEffect, store
<1>2. UNCHANGED <<unit, procs, files>>
  BY <1>1 DEF host
<1>3. Armed' = Armed /\ Executing' = Executing /\ Launchable' = Launchable
  BY <1>2 DEF Armed, Executing, Launchable
<1> QED
  BY <1>1, <1>2, <1>3, IInvParts, UnchangedHostSafe DEF HostSafe, Settled

(* A process verified by the process-state file executes Drive9. *)
LEMMA VerifiedSettled ==
  ASSUME TypeOK, HostInv, rec.phase = "starting", ProcessObserved(rec) = "verified"
  PROVE  Settled
<1>1. Owned(pidfile, rec) /\ ~Promoted
  BY DEF ProcessObserved, Promoted
<1>2. PICK q \in procs : q.binary # NoBinary
  BY <1>1, RecordInPhase, HostAssumption DEF Owned
<1>3. procs = {q}
  BY <1>1 DEF HostInv, PlaceOK, FreshOK
<1>4. q.cleared
  BY <1>2 DEF HostInv, LauncherOK
<1> QED
  BY <1>2, <1>3, <1>4 DEF HostInv, PairOK, Settled, Armed, Executing

-----------------------------------------------------------------------------
(* Requests and the launch *)

LEMMA RequestSafe ==
  ASSUME IInv, Request
  PROVE  Safe
<1>1. HostInv' /\ NoEffect
  BY NoEffectSafe DEF Request, StageNew, Continue, StageElsewhere, Unstage, TakeDown, Begin
<1>2. CASE pc' \in PlainSteps
  BY <1>1, <1>2, PlainSafe
<1>3. CASE pc' = "observeStarting" /\ job'.after = "none" /\ job'.creds = FALSE
  BY <1>1, <1>3 DEF Safe, FilesKnown, StepKnows, SecondPass
<1>4. ASSUME NEW op PROVE /\ [NoJob EXCEPT !.op = op].after = "none"
                          /\ [NoJob EXCEPT !.op = op].creds = FALSE
  BY DEF NoJob
<1>5. ASSUME NEW op, NEW step, Begin(op, step, NoJob)
      PROVE  pc' = step /\ job'.after = "none" /\ job'.creds = FALSE
  BY <1>4, <1>5 DEF Begin, Go
<1>6. \/ pc' \in {"noState", "intend", "observeStopping", "revalidate"}
      \/ pc' = "observeStarting" /\ job'.after = "none" /\ job'.creds = FALSE
  <2>1. CASE StageNew
    BY <1>5, <2>1 DEF StageNew
  <2>2. ASSUME NEW op, Continue(op)
        PROVE  \/ pc' \in {"observeStopping", "revalidate"}
               \/ pc' = "observeStarting" /\ job'.after = "none" /\ job'.creds = FALSE
    <3>1. CASE Begin(op, "observeStarting", NoJob)
      BY <1>5, <3>1
    <3>2. CASE Begin(op, "observeStopping", NoJob)
      BY <1>5, <3>2
    <3>3. CASE Begin(op, "revalidate", [NoJob EXCEPT !.plan = CleanupPlan])
      BY <3>3 DEF Begin, Go
    <3> QED
      BY <2>2, <3>1, <3>2, <3>3 DEF Continue
  <2>3. ASSUME NEW op, TakeDown(op) PROVE pc' \in {"intend", "observeStopping"}
    BY <1>5, <2>3 DEF TakeDown
  <2> QED
    BY <2>1, <2>2, <2>3 DEF Request, StageElsewhere, Unstage
<1> QED
  BY <1>2, <1>3, <1>6 DEF PlainSteps

(* A new attempt begins with neither startup files nor supervisors. *)
LEMMA CommitSafe ==
  ASSUME IInv, NEW reason, NEW b, NEW fb, Commit(Starting(reason, attempts + 1, b, fb)),
         Armed = {}, files = {}, pc' = "publishEnv", job'.after # "reconcile",
         job'.after = "launch" => reason = "stage"
  PROVE  Safe
<1>1. UNCHANGED host /\ rec'.phase = "starting" /\ rec'.reason = reason
  BY DEF Commit, Starting
<1>2. HostInv'
  BY <1>1, IInvParts, NewRecordSafe DEF Promoted
<1>3. Armed' = {} /\ files' = {}
  BY <1>1 DEF host, Armed
<1>4. FilesKnown'
  BY <1>1, <1>3 DEF FilesKnown
<1>5. StepKnows'
  BY <1>3 DEF StepKnows
<1> QED
  BY <1>2, <1>4, <1>5 DEF Safe

(* Startup files are published while no supervisor runs. *)
LEMMA PublishSafe ==
  ASSUME IInv, PublishEnv \/ PublishArgs
  PROVE  Safe
<1>1. rec' = rec /\ job' = job /\ UNCHANGED <<unit, procs, mounts, pidfile, spawned>>
  BY DEF PublishEnv, PublishArgs, PublishFile, HostOnly, store
<1>2. Armed = {} /\ Armed' = {}
  BY <1>1, IInvParts DEF PublishEnv, PublishArgs, StepKnows, Armed
<1>3. HostInv'
  <2>1. ~Promoted /\ ~Promoted'
    BY <1>1, IInvParts DEF PublishEnv, PublishArgs, PhaseOK, Promoted
  <2>2. \A q \in procs : ~q.cleared
    BY <1>2, IInvParts DEF HostInv, LauncherOK, Armed
  <2> QED
    BY <1>1, <1>2, <2>1, <2>2, IInvParts
       DEF HostInv, FreshOK, LauncherOK, ReadOK, RegisteredOK, PlaceOK, RecordedOK, PairOK, Running
<1>4. FilesKnown'
  <2>1. CASE PublishEnv
    <3>1. files' = {[kind |-> "env", attempt |-> rec.attempt, binary |-> rec.binary]}
      BY <2>1, IInvParts DEF PublishEnv, PublishFile, FilesKnown
    <3>2. \A f \in files' : f.kind = "env"
      BY <3>1
    <3> QED
      BY <1>1, <2>1, <3>2, IInvParts DEF PublishEnv, FilesKnown
  <2>2. CASE PublishArgs
    BY <1>1, <2>2, IInvParts DEF PublishArgs, FilesKnown
  <2> QED
    BY <2>1, <2>2
<1>5. StepKnows'
  BY <1>2 DEF PublishEnv, PublishArgs, StepKnows
<1> QED
  BY <1>3, <1>4, <1>5 DEF Safe

LEMMA PromoteSafe ==
  ASSUME IInv, Promote
  PROVE  Safe
<1>1. rec.phase = "starting" /\ rec \in MountStates /\ ~Promoted
  BY IInvParts, RecordInPhase DEF Promote, PhaseOK, Promoted
<1>2. /\ rec'.phase = "active" /\ rec'.pid = job.owned /\ rec'.startup = FALSE
      /\ rec'.attempt = rec.attempt /\ rec'.binary = rec.binary
  BY <1>1 DEF Promote, MountStates
<1>3. /\ OnlyRuns(job.owned) /\ Settled
      /\ UNCHANGED <<unit, procs, mounts, pidfile, files, spawned>>
  BY IInvParts DEF Promote, FilesKnown, StepKnows, host
<1>4. FreshOK' /\ RegisteredOK' /\ PairOK' /\ LauncherOK'
  BY <1>3, IInvParts DEF HostInv, FreshOK, RegisteredOK, PairOK, LauncherOK, Launchable
<1>5. PlaceOK' /\ ReadOK'
  BY <1>1, <1>2, <1>3, IInvParts, StateFields DEF HostInv, PlaceOK, ReadOK, Armed, Running
<1>6. RecordedOK'
  BY <1>2, <1>3 DEF RecordedOK, OnlyRuns, Settled, Launchable, Armed, Executing
<1>7. HostInv'
  BY <1>4, <1>5, <1>6 DEF HostInv
<1> QED
  BY <1>7, EndSafe DEF Promote

(* An attempt that is not ready is reconciled. *)
LEMMA ReconcileSafe ==
  ASSUME IInv, HostInv', UNCHANGED <<rec, files>>, job' = job, pc' = "observeStarting",
         pc \in LaunchSteps,
         job.after = "launch" \/ (job.after = "reconcile" /\ pc = "wait")
  PROVE  Safe
<1>1. FilesKnown'
  BY IInvParts DEF FilesKnown, SecondPass
<1>2. StepKnows'
  BY DEF StepKnows
<1> QED
  BY <1>1, <1>2 DEF Safe

LEMMA LaunchStepSafe ==
  ASSUME IInv, LaunchStep
  PROVE  Safe
<1>a. HostInv /\ FilesKnown /\ StepKnows /\ HostOK /\ TypeOK /\ job \in Jobs /\ PhaseOK /\ FilesOK
  BY IInvParts
<1>b. rec = NoState => ~Promoted /\ files = {}
  BY <1>a, StateFields DEF Promoted, FilesOK
<1>c. rec.phase = "starting" => ~Promoted
  BY DEF Promoted
<1>1. CASE InspectNoState \/ NoAttempt
  <2>1. pc' \in PlainSteps /\ NoEffect
    BY <1>1 DEF InspectNoState, NoAttempt, End, PlainSteps
  <2> QED
    BY <2>1, NoEffectSafe, PlainSafe
<1>2. CASE ResetNoState \/ CleanNoState
  <2>1. rec' = rec /\ rec = NoState
    BY <1>2, <1>a DEF ResetNoState, CleanNoState, HostOnly, store, PhaseOK
  <2>2. HostSafe
    BY <1>2, <1>a, <2>1, ResetFailedSafe, DropArtifactsSafe, UnchangedHostSafe
       DEF ResetNoState, CleanNoState, RemoveArtifacts
  <2>3. CASE pc' \in PlainSteps
    BY <2>2, <2>3, PlainSafe DEF HostSafe
  <2>4. CASE pc' = "launch" /\ NoStateClear
    <3>1. Armed' = {}
      BY <1>a, <1>b, <2>1, <2>2, <2>4, UnitGone, StaysGone DEF HostSafe, NoStateClear
    <3> QED
      BY <2>2, <2>4, <3>1 DEF HostSafe, Safe, FilesKnown, StepKnows
  <2> QED
    BY <1>2, <2>3, <2>4 DEF ResetNoState, CleanNoState, End, PlainSteps
<1>3. CASE CommitStage
  <2>1. Armed = {} /\ files = {}
    BY <1>3, <1>a, <1>b DEF CommitStage, PhaseOK, StepKnows
  <2>2. PICK b \in Binaries : Commit(Starting("stage", attempts + 1, b, NoBinary))
    BY <1>3 DEF CommitStage
  <2>3. pc' = "publishEnv" /\ job'.after = "launch"
    BY <1>3 DEF CommitStage, NoJob
  <2> QED
    BY <2>1, <2>2, <2>3, CommitSafe
<1>4. CASE PublishEnv \/ PublishArgs
  BY <1>4, PublishSafe
<1>5. CASE RunUnit
  <2>1. rec' = rec /\ pc = "run"
    BY <1>5 DEF RunUnit, HostOnly, store
  <2>2. HostSafe
    BY <1>5, <1>a, <2>1, SystemdRunSafe, UnchangedHostSafe DEF RunUnit
  <2>3. CASE pc' = "wait" /\ job' = job
    BY <1>a, <2>1, <2>2, <2>3 DEF HostSafe, Safe, FilesKnown, StepKnows
  <2>4. CASE pc' \in PlainSteps
    BY <2>2, <2>4, PlainSafe DEF HostSafe
  <2> QED
    BY <1>5, <2>3, <2>4 DEF RunUnit, StartFailed, End, PlainSteps
<1>6. CASE WaitReady
  <2>1. /\ HostInv' /\ rec' = rec /\ Armed' = Armed /\ Settled' = Settled
        /\ rec.phase = "starting"
    BY <1>6, <1>a, NoEffectSafe DEF WaitReady, PhaseOK
  <2>2. unit.main = pidfile /\ ProcessObserved(rec) = "verified"
    BY <1>6 DEF WaitReady, Ready, ServiceOwns
  <2>3. OnlyRuns(pidfile) /\ Settled
    BY <1>a, <1>c, <2>1, <2>2, MainOnly, VerifiedSettled
  <2>4. pidfile \in {0} \union Identities
    BY <1>a DEF HostOK, HostTypeOK
  <2>5. pc' = "promoteFiles" /\ job'.owned = pidfile /\ job'.after = job.after /\ pc = "wait"
    BY <1>6, <1>a, <2>4, JobOwned DEF WaitReady
  <2> QED
    BY <1>a, <2>1, <2>3, <2>5 DEF Safe, FilesKnown, StepKnows, OnlyRuns
<1>7. CASE WaitFails
  <2>1. HostInv' /\ rec' = rec /\ files' = files /\ pc = "wait"
    BY <1>7, NoEffectSafe DEF WaitFails
  <2>2. CASE pc' \in PlainSteps
    BY <2>1, <2>2, PlainSafe
  <2>3. CASE pc' = "observeStarting" /\ job' = job /\ job.after \in {"launch", "reconcile"}
    BY <2>1, <2>3, ReconcileSafe
  <2> QED
    BY <1>7, <2>2, <2>3 DEF WaitFails, AfterWait, End, PlainSteps
<1>8. CASE PromoteFiles
  <2>1. rec' = rec /\ pc' = "promote" /\ job' = job /\ pc = "promoteFiles"
    BY <1>8 DEF PromoteFiles, HostOnly, store
  <2>2. HostSafe
    BY <1>8, <1>a, <2>1, RemoveStartupFilesSafe DEF PromoteFiles
  <2>3. Settled' /\ OnlyRuns(job.owned)'
    BY <1>a, <2>1, <2>2, StaysGone DEF HostSafe, FilesKnown, StepKnows, OnlyRuns
  <2> QED
    BY <1>a, <2>1, <2>2, <2>3 DEF HostSafe, Safe, FilesKnown, StepKnows
<1>9. CASE Promote
  BY <1>9, PromoteSafe
<1> QED
  BY <1>1, <1>2, <1>3, <1>4, <1>5, <1>6, <1>7, <1>8, <1>9 DEF LaunchStep

-----------------------------------------------------------------------------
(* The reconciliation of a starting attempt *)

(* The reconciliation goes on, and may restart the candidate only when no  *)
(* supervisor runs.                                                        *)
LEMMA ReconcileGoes ==
  ASSUME IInv, HostSafe, rec' = rec, pc \in ReconcileSteps,
         pc' \in ReconcileSteps \ {"credentials", "decideStarting"},
         job'.creds = job.creds, job'.after = job.after,
         SecondPass' /\ ResumeCandidate' /\ pc' \in {"unmountStale", "resetStale", "absent",
           "absentFiles"} => Armed' = {}
  PROVE  Safe
<1>1. FilesKnown /\ Dwindles
  BY IInvParts DEF HostSafe
<1>2. FilesKnown'
  BY <1>1, StaysGone DEF FilesKnown, SecondPass
<1>3. StepKnows'
  BY DEF StepKnows
<1> QED
  BY <1>2, <1>3 DEF HostSafe, Safe

(* The cleanup of what has exited. *)
LEMMA AbsentGoes ==
  ASSUME IInv, HostSafe, rec' = rec, job' = job,
         pc \in {"unmountStale", "resetStale", "absent"},
         pc' \in {"unmountStale", "resetStale", "absent", "absentFiles"}
  PROVE  Safe
<1>1. SecondPass /\ ResumeCandidate => Armed = {}
  BY IInvParts DEF StepKnows
<1>2. SecondPass' /\ ResumeCandidate' => Armed' = {}
  BY <1>1, StaysGone DEF HostSafe, SecondPass, ResumeCandidate
<1> QED
  BY <1>2, ReconcileGoes

LEMMA AbsentFilesSafe ==
  ASSUME IInv, AbsentFiles
  PROVE  Safe
<1>a. HostInv /\ FilesKnown /\ StepKnows /\ HostOK /\ FilesOK /\ job \in Jobs
  BY IInvParts
<1>1. /\ rec' = rec /\ pc = "absentFiles" /\ rec.phase = "starting"
      /\ rec.reason \in {"stage", "recovery"}
  BY IInvParts, PhaseStartup DEF AbsentFiles, HostOnly, store, PhaseOK
<1>2. HostSafe
  BY <1>a, <1>1, RemoveStartupFilesSafe DEF AbsentFiles
<1>3. files' = {}
  BY <1>a DEF AbsentFiles, RemoveStartupFiles, FilesOK
<1>4. CASE pc' = "forget"
  BY <1>1, <1>2, <1>4 DEF HostSafe, Safe, FilesKnown, StepKnows
<1>5. CASE pc' \in {"credentials", "switch"} /\ job' = job
  <2>1. FilesKnown'
    BY <1>a, <1>1, <1>3, <1>5 DEF FilesKnown
  <2> QED
    BY <1>2, <1>5, <2>1 DEF HostSafe, Safe, StepKnows
<1>6. CASE /\ pc' = "publishEnv" /\ job' = [job EXCEPT !.after = "resume"]
           /\ SecondPass /\ ResumeCandidate
  <2>1. job'.after = "resume"
    BY <1>a, <1>6, JobAfter
  <2>2. Armed' = {}
    BY <1>a, <1>1, <1>2, <1>6, StaysGone DEF HostSafe, StepKnows
  <2>3. FilesKnown'
    BY <1>3, <1>6, <2>1 DEF FilesKnown
  <2> QED
    BY <1>2, <1>6, <2>2, <2>3 DEF HostSafe, Safe, StepKnows
<1>7. CASE End
  BY <1>2, <1>7, EndSafe DEF HostSafe
<1> QED
  BY <1>1, <1>4, <1>5, <1>6, <1>7 DEF AbsentFiles, NextCandidate, SecondPass

LEMMA ForgetSafe ==
  ASSUME IInv, Forget
  PROVE  Safe
<1>1. ~Promoted \/ Armed = {}
  BY IInvParts DEF Forget, StepKnows, PhaseOK, Promoted
<1>2. UNCHANGED host /\ pc' \in PlainSteps /\ rec' = NoState
  BY DEF Forget, End, PlainSteps
<1>3. ~Promoted'
  BY <1>2, StateFields DEF Promoted
<1> QED
  BY <1>1, <1>2, <1>3, IInvParts, NewRecordSafe, PlainSafe

(* What the reconciliation sees of a verified process excludes a launch. *)
LEMMA ObserveStartingSafe ==
  ASSUME IInv, ObserveStarting
  PROVE  Safe
<1>a. HostInv /\ FilesKnown /\ HostOK /\ TypeOK /\ job \in Jobs /\ rec.phase = "starting"
  BY IInvParts DEF ObserveStarting, PhaseOK
<1>1. /\ HostInv' /\ rec' = rec /\ files' = files /\ Settled' = Settled
      /\ pc = "observeStarting"
  BY NoEffectSafe DEF ObserveStarting
<1>2. CASE End
  BY <1>1, <1>2, EndSafe
<1>3. CASE ~End
  <2> DEFINE o == IF ProcessObserved(rec) = "verified" THEN pidfile ELSE 0
             j == [job EXCEPT !.mounted = IsMountPoint, !.proc = ProcessObserved(rec),
                              !.owned = o, !.after = "reconcile", !.failed = FALSE]
  <2>1. pc' = "decideStarting" /\ job' = j
    BY <1>3 DEF ObserveStarting
  <2>2. j.after = "reconcile" /\ j.proc = ProcessObserved(rec) /\ j.creds = job.creds
    BY <1>a DEF Jobs
  <2> HIDE DEF j
  <2>3. job'.proc = "verified" => Settled
    BY <1>a, <2>1, <2>2, VerifiedSettled
  <2>4. FilesKnown'
    BY <1>a, <1>1, <2>1, <2>2, <2>3 DEF FilesKnown, SecondPass
  <2> QED
    BY <1>1, <2>1, <2>4 DEF Safe, StepKnows
<1> QED
  BY <1>2, <1>3

LEMMA DecideStartingSafe ==
  ASSUME IInv, DecideStarting
  PROVE  Safe
<1>a. HostInv /\ FilesKnown /\ HostOK /\ TypeOK /\ job \in Jobs /\ rec.phase = "starting"
      /\ ~Promoted
  BY IInvParts DEF DecideStarting, PhaseOK, Promoted
<1>1. /\ HostSafe /\ HostInv' /\ rec' = rec /\ files' = files /\ Settled' = Settled
      /\ Armed' = Armed /\ pc = "decideStarting"
  BY NoEffectSafe DEF DecideStarting
<1>2. CASE CanPromote /\ pc' = "promoteFiles" /\ job' = job
  <2>1. unit.main = job.owned /\ job.proc = "verified"
    BY <1>2 DEF CanPromote, FoundReady, ServiceOwns
  <2>2. OnlyRuns(job.owned)
    BY <1>a, <2>1, MainOnly
  <2>3. FilesKnown'
    BY <1>a, <1>1, <1>2, <2>1 DEF FilesKnown
  <2> QED
    BY <1>1, <1>2, <2>2, <2>3 DEF Safe, StepKnows, OnlyRuns
<1>3. CASE pc' = "wait" /\ job' = job
  <2>1. FilesKnown'
    BY <1>a, <1>1, <1>3 DEF FilesKnown, SecondPass
  <2> QED
    BY <1>1, <1>3, <2>1 DEF Safe, StepKnows
<1>4. CASE pc' = "expiredStop" /\ job' = [job EXCEPT !.owned = ServiceProcess(job.owned)]
  <2>1. job'.creds = job.creds /\ job'.after = job.after
    BY <1>a, <1>4 DEF Jobs
  <2> QED
    BY <1>1, <1>4, <2>1, ReconcileGoes
<1>5. CASE CanClean /\ StartCleaning
  <2> DEFINE x == unit.state = "exited"
             g == IF x THEN rec.attempt ELSE job.gaveUp
             j == [job EXCEPT !.failed = x, !.late = expired, !.gaveUp = g]
  <2>1. job' = j /\ pc' \in {"unmountStale", "resetStale", "absent"}
    BY <1>5 DEF StartCleaning
  <2>2. j.creds = job.creds /\ j.after = job.after
    BY <1>a DEF Jobs
  <2> HIDE DEF j
  <2>3. Armed' = {}
    BY <1>a, <1>1, <1>5, UnitGone DEF CanClean
  <2> QED
    BY <1>1, <2>1, <2>2, <2>3, ReconcileGoes
<1>6. CASE End
  BY <1>1, <1>6, EndSafe
<1> QED
  BY <1>2, <1>3, <1>4, <1>5, <1>6 DEF DecideStarting

LEMMA StartingStepSafe ==
  ASSUME IInv, StartingStep
  PROVE  Safe
<1>a. HostInv /\ FilesKnown /\ StepKnows /\ HostOK /\ TypeOK /\ job \in Jobs /\ PhaseOK /\ FilesOK
  BY IInvParts
<1>1. CASE ObserveStarting
  BY <1>1, ObserveStartingSafe
<1>2. CASE DecideStarting
  BY <1>2, DecideStartingSafe
<1>3. CASE UnmountStale \/ ResetStale \/ AbsentArtifacts
  <2>1. rec' = rec /\ pc \in {"unmountStale", "resetStale", "absent"}
    BY <1>3 DEF UnmountStale, ResetStale, AbsentArtifacts, HostOnly, store
  <2>2. HostSafe
    BY <1>3, <1>a, <2>1, KernelUnmountSafe, ResetFailedSafe, DropArtifactsSafe, UnchangedHostSafe
       DEF UnmountStale, ResetStale, AbsentArtifacts, RemoveArtifacts
  <2>3. CASE End
    BY <2>2, <2>3, EndSafe DEF HostSafe
  <2>4. CASE job' = job /\ pc' \in {"resetStale", "absent", "absentFiles"}
    BY <2>1, <2>2, <2>4, AbsentGoes
  <2> QED
    BY <1>3, <2>3, <2>4 DEF UnmountStale, ResetStale, AbsentArtifacts
<1>4. CASE AbsentFiles
  BY <1>4, AbsentFilesSafe
<1>5. CASE ResolveCredentials
  <2>1. HostInv' /\ rec' = rec /\ files' = {} /\ pc = "credentials" /\ pc' = "observeStarting"
    BY <1>5, <1>a, NoEffectSafe DEF ResolveCredentials, FilesKnown
  <2>2. job'.after = job.after
    BY <1>5, <1>a, JobCreds DEF ResolveCredentials
  <2>3. FilesKnown'
    BY <1>a, <2>1, <2>2 DEF FilesKnown
  <2> QED
    BY <2>1, <2>3 DEF Safe, StepKnows
<1>6. CASE SwitchToFallback
  <2>1. CASE unit.state = "notfound"
    <3>1. Commit(Starting("recovery", attempts + 1, rec.fallback, NoBinary))
      BY <1>6, <2>1 DEF SwitchToFallback, Fallback
    <3>2. pc' = "publishEnv" /\ job' = [job EXCEPT !.after = "resume"]
      BY <1>6, <2>1 DEF SwitchToFallback
    <3>3. job'.after = "resume"
      BY <1>a, <3>2, JobAfter
    <3>4. ~Promoted /\ ~Running /\ files = {}
      BY <1>6, <2>1, IInvParts DEF SwitchToFallback, PhaseOK, Promoted, Running, FilesRemoved
    <3>5. Armed = {}
      BY <1>a, <3>4, UnitGone
    <3> QED
      BY <3>1, <3>2, <3>3, <3>4, <3>5, CommitSafe
  <2>2. CASE unit.state # "notfound"
    BY <1>6, <2>2, NoEffectSafe, EndSafe DEF SwitchToFallback
  <2> QED
    BY <2>1, <2>2
<1>7. CASE Forget
  BY <1>7, ForgetSafe
<1>8. CASE ExpiredStop \/ ExpiredUnmount \/ ExpiredKill \/ ExpiredReset \/ ExpiredCheck
  <2>1. rec' = rec /\ pc \in ReconcileSteps
    BY <1>8
       DEF ExpiredStop, ExpiredUnmount, ExpiredKill, ExpiredReset, ExpiredCheck, HostOnly,
           NoEffect, store
  <2>2. HostSafe
    BY <1>8, <1>a, <2>1, SystemctlStopSafe, KernelUnmountSafe, KillSafe, ResetFailedSafe,
       UnchangedHostSafe
       DEF ExpiredStop, ExpiredUnmount, ExpiredKill, ExpiredReset, ExpiredCheck, NoEffect
  <2>3. CASE End
    BY <2>2, <2>3, EndSafe DEF HostSafe
  <2>4. CASE job' = job /\ pc' \in {"expiredUnmount", "expiredKill", "expiredReset",
                                     "expiredCheck", "expiredFiles"}
    BY <2>1, <2>2, <2>4, ReconcileGoes
  <2> QED
    BY <1>8, <2>3, <2>4
       DEF ExpiredStop, ExpiredUnmount, ExpiredKill, ExpiredReset, ExpiredCheck
<1>9. CASE ExpiredFiles
  <2>1. rec' = rec /\ pc = "expiredFiles"
    BY <1>9 DEF ExpiredFiles, HostOnly, store
  <2>2. HostSafe
    BY <1>9, <1>a, <2>1, DropArtifactsSafe DEF ExpiredFiles
  <2>3. CASE End
    BY <2>2, <2>3, EndSafe DEF HostSafe
  <2>4. CASE /\ pc' = "absent"
             /\ job' = [job EXCEPT !.proc = "absent", !.failed = TRUE, !.late = TRUE]
    <3>1. job'.creds = job.creds /\ job'.after = job.after /\ job'.failed = TRUE
      BY <1>a, <2>4 DEF Jobs
    <3>2. ~ResumeCandidate'
      BY <3>1 DEF ResumeCandidate
    <3> QED
      BY <2>1, <2>2, <2>4, <3>1, <3>2, ReconcileGoes
  <2> QED
    BY <1>9, <2>3, <2>4 DEF ExpiredFiles
<1> QED
  BY <1>1, <1>2, <1>3, <1>4, <1>5, <1>6, <1>7, <1>8, <1>9 DEF StartingStep

-----------------------------------------------------------------------------
(* The stopper *)

(* What was active is stopped by the process on record, ... *)
LEMMA StopProcessKnown ==
  ASSUME HostInv, Promoted, StopProcessClear(rec)
  PROVE  OnlyRuns(StopProcess(rec))
<1> SUFFICES ASSUME NEW q \in Armed PROVE q.id = StopProcess(rec)
  BY DEF OnlyRuns
<1>1. rec.pid = q.id
  BY DEF HostInv, RecordedOK, OnlyRuns
<1>2. Alive(rec.pid)
  BY <1>1 DEF Alive, Armed
<1> QED
  BY <1>1, <1>2 DEF StopProcess, StopProcessClear

(* ... which is that of the unit, if the unit has one. *)
LEMMA ServiceProcessKnown ==
  ASSUME HostOK, NEW r, NEW p, OnlyRuns(p), ServiceClear(r, p)
  PROVE  OnlyRuns(ServiceProcess(p))
<1>1. CASE Running /\ unit.main # 0
  <2>1. p \in {0, unit.main}
    BY <1>1 DEF ServiceClear
  <2> QED
    BY <1>1, <2>1, Identified DEF ServiceProcess, OnlyRuns, Armed
<1>2. CASE ~(Running /\ unit.main # 0)
  BY <1>2 DEF ServiceProcess
<1> QED
  BY <1>1, <1>2

LEMMA NobodyRuns ==
  ASSUME HostOK, OnlyRuns(0)
  PROVE  Armed = {}
BY Identified DEF OnlyRuns, Armed

(* The stopping record keeps the process on record. *)
LEMMA IntendSafe ==
  ASSUME IInv, Intend
  PROVE  Safe
<1> DEFINE p == ServiceProcess(StopProcess(rec))
<1>1. rec \in MountStates /\ rec.phase \in {"starting", "active"}
  BY IInvParts, RecordInPhase DEF Intend, PhaseOK
<1>2. CASE rec' = Stopping(rec, p) /\ pc' = "observeStopping" /\ UNCHANGED host
  <2>1. p \in {0} \union Identities
    BY <1>1, IInvParts, ObservedProcess
  <2> HIDE DEF p
  <2>2. /\ rec'.phase = "stopping" /\ rec'.startup = rec.startup
        /\ rec'.attempt = rec.attempt /\ rec'.binary = rec.binary
        /\ rec'.pid = IF p # 0 /\ Owned(p, rec) THEN p ELSE rec.pid
    BY <1>1, <1>2, <2>1, StoppingTyped
  <2>3. CASE rec.phase = "starting"
    <3>1. ~Promoted /\ ~Promoted'
      BY <2>2, <2>3, IInvParts, PhaseStartup DEF Promoted
    <3>2. HostInv'
      BY <1>1, <1>2, <2>2, <3>1, IInvParts, StateFields, NewRecordSafe
    <3> QED
      BY <1>2, <3>2, PlainSafe DEF PlainSteps
  <2>4. CASE rec.phase = "active"
    <3>1. Promoted /\ Promoted' /\ HostInv
      BY <2>2, <2>4, IInvParts, PhaseStartup DEF Promoted
    <3>2. Owned(p, rec) => p = rec.pid
      BY <1>1, <3>1, StateFields, HostAssumption
         DEF Owned, HostInv, LauncherOK, RecordedOK, OnlyRuns, Armed
    <3>3. rec'.pid = rec.pid
      BY <2>2, <3>2
    <3>4. UNCHANGED <<unit, procs, mounts, pidfile, files, spawned>>
      BY <1>2 DEF host
    <3>5. FreshOK' /\ RegisteredOK' /\ PairOK' /\ LauncherOK' /\ ReadOK'
      BY <1>1, <2>2, <3>1, <3>4, StateFields
         DEF HostInv, FreshOK, RegisteredOK, PairOK, LauncherOK, ReadOK, Launchable, Armed
    <3>6. PlaceOK' /\ RecordedOK'
      BY <3>1, <3>3, <3>4
         DEF HostInv, PlaceOK, RecordedOK, OnlyRuns, Settled, Launchable, Armed, Executing, Running
    <3>7. HostInv'
      BY <3>5, <3>6 DEF HostInv
    <3> QED
      BY <1>2, <3>7, PlainSafe DEF PlainSteps
  <2> QED
    BY <1>1, <2>3, <2>4
<1>3. CASE End /\ NoEffect
  BY <1>3, NoEffectSafe, EndSafe
<1> QED
  BY <1>2, <1>3 DEF Intend

(* Steps between the observation and the deletion. *)
StopperSteps ==
  {"decideStopping", "stopUnit", "stopUnmount", "stopKill", "stopCheckMount", "stopCheckRest"}

LEMMA StopperSafe ==
  ASSUME HostInv', pc' \in StopperSteps, ~rec'.startup => OnlyRuns(job.owned)'
  PROVE  Safe
BY DEF Safe, FilesKnown, StepKnows, StopperSteps

LEMMA StoppedSafe ==
  ASSUME HostInv', pc' \in {"stopReset", "stopFiles", "forget"}, ~rec'.startup => Armed' = {}
  PROVE  Safe
BY DEF Safe, FilesKnown, StepKnows

(* The commands of the stopper, each of which may fail. *)
LEMMA StopGoes ==
  ASSUME IInv, HostSafe, rec' = rec, job' = job, pc \in StopperSteps, pc' \in StopperSteps
  PROVE  Safe
<1>1. ~rec.startup => OnlyRuns(job.owned)
  BY IInvParts DEF StepKnows, StopperSteps
<1>2. ~rec'.startup => OnlyRuns(job.owned)'
  BY <1>1, StaysGone DEF HostSafe, OnlyRuns
<1> QED
  BY <1>2, StopperSafe DEF HostSafe

LEMMA DecideStoppingSafe ==
  ASSUME IInv, DecideStopping
  PROVE  Safe
<1> DEFINE p == ServiceProcess(job.owned)
           b == unit.state = "exited"
           s == IF Running THEN {"stop"} ELSE {}
           j == [job EXCEPT !.owned = p, !.failed = b, !.plan = s]
<1>a. StepKnows /\ HostOK /\ TypeOK /\ job \in Jobs /\ rec \in MountStates
  BY IInvParts, RecordInPhase DEF DecideStopping, PhaseOK
<1>1. HostInv' /\ rec' = rec /\ Armed' = Armed /\ pc = "decideStopping"
  BY NoEffectSafe DEF DecideStopping
<1>2. p \in {0} \union Identities
  BY <1>a, ObservedProcess, JobFields
<1>3. j.owned = p
  BY <1>a, <1>2 DEF Jobs
<1> HIDE DEF j
<1>4. CASE End
  BY <1>1, <1>4, EndSafe
<1>5. CASE ~End
  <2>1. /\ ServiceClear(rec, job.owned) /\ job' = j
        /\ pc' \in {"stopUnit", "stopReset", "stopFiles"}
        /\ pc' # "stopUnit" => p = 0
    BY <1>5 DEF DecideStopping, j
  <2>2. ~rec.startup => OnlyRuns(p)
    BY <1>a, <1>1, <2>1, ServiceProcessKnown DEF StepKnows
  <2> HIDE DEF p
  <2>3. CASE pc' = "stopUnit"
    <3>1. ~rec'.startup => OnlyRuns(job.owned)'
      BY <1>1, <1>3, <2>1, <2>2 DEF OnlyRuns
    <3> QED
      BY <1>1, <2>3, <3>1, StopperSafe DEF StopperSteps
  <2>4. CASE pc' \in {"stopReset", "stopFiles"}
    <3>1. ~rec.startup => Armed = {}
      BY <1>a, <2>1, <2>2, <2>4, NobodyRuns
    <3> QED
      BY <1>1, <2>4, <3>1, StoppedSafe
  <2> QED
    BY <2>1, <2>3, <2>4
<1> QED
  BY <1>4, <1>5

LEMMA StoppingStepSafe ==
  ASSUME IInv, StoppingStep
  PROVE  Safe
<1>a. HostInv /\ StepKnows /\ HostOK /\ TypeOK /\ job \in Jobs /\ PhaseOK
  BY IInvParts
<1>1. CASE Intend
  BY <1>1, IntendSafe
<1>2. CASE ObserveStopping
  <2>1. HostInv' /\ rec' = rec /\ Armed' = Armed /\ rec.phase = "stopping"
        /\ rec \in MountStates
    BY <1>2, <1>a, NoEffectSafe, RecordInPhase DEF ObserveStopping, PhaseOK
  <2>2. CASE StopProcessClear(rec) /\ pc' = "decideStopping"
             /\ job' = [job EXCEPT !.owned = StopProcess(rec)]
    <3>1. StopProcess(rec) \in {0} \union Identities
      BY <1>a, <2>1, ObservedProcess
    <3>2. job'.owned = StopProcess(rec)
      BY <1>a, <2>2, <3>1, JobOwned
    <3>3. ~rec.startup => OnlyRuns(StopProcess(rec))
      BY <1>a, <2>1, <2>2, StopProcessKnown DEF Promoted
    <3>4. ~rec'.startup => OnlyRuns(job.owned)'
      BY <2>1, <3>2, <3>3 DEF OnlyRuns
    <3> QED
      BY <2>1, <2>2, <3>4, StopperSafe DEF StopperSteps
  <2>3. CASE End
    BY <2>1, <2>3, EndSafe
  <2> QED
    BY <1>2, <2>2, <2>3 DEF ObserveStopping
<1>3. CASE DecideStopping
  BY <1>3, DecideStoppingSafe
<1>4. CASE StopReset
  <2>1. rec' = rec /\ (~rec.startup => Armed = {}) /\ ResetFailed
    BY <1>4, <1>a DEF StopReset, HostOnly, store, StepKnows
  <2>2. HostSafe
    BY <1>a, <2>1, ResetFailedSafe
  <2>3. ~rec'.startup => Armed' = {}
    BY <2>1, <2>2, StaysGone DEF HostSafe
  <2>4. CASE pc' = "stopFiles"
    BY <2>2, <2>3, <2>4, StoppedSafe DEF HostSafe
  <2>5. CASE End
    BY <2>2, <2>5, EndSafe DEF HostSafe
  <2> QED
    BY <1>4, <2>4, <2>5 DEF StopReset
<1>5. CASE StopUnit \/ StopUnmount \/ StopKill
  <2>1. rec' = rec /\ job' = job
    BY <1>5 DEF StopUnit, StopUnmount, StopKill, HostOnly, store
  <2>2. HostSafe
    BY <1>5, <1>a, <2>1, ResetFailedSafe, SystemctlStopSafe, KernelUnmountSafe, KillSafe,
       UnchangedHostSafe DEF StopUnit, StopUnmount, StopKill
  <2> QED
    BY <1>5, <2>1, <2>2, StopGoes DEF StopUnit, StopUnmount, StopKill, StopperSteps
<1>6. CASE StopCheckMount
  <2>1. HostSafe /\ HostInv' /\ rec' = rec
    BY <1>6, NoEffectSafe DEF StopCheckMount
  <2> QED
    BY <1>6, <2>1, StopGoes, EndSafe DEF StopCheckMount, StopperSteps
<1>7. CASE StopCheckRest
  <2>1. HostInv' /\ rec' = rec /\ Armed' = Armed
    BY <1>7, NoEffectSafe DEF StopCheckRest
  <2>2. CASE ~Alive(job.owned) /\ pc' = "stopFiles"
    <3>1. ~rec.startup => Armed = {}
      BY <1>7, <1>a, <2>2 DEF StopCheckRest, StepKnows, OnlyRuns, Alive, Armed
    <3> QED
      BY <2>1, <2>2, <3>1, StoppedSafe
  <2>3. CASE End
    BY <2>1, <2>3, EndSafe
  <2> QED
    BY <1>7, <2>2, <2>3 DEF StopCheckRest
<1>8. CASE StopFiles
  <2>1. rec' = rec /\ (~rec.startup => Armed = {})
    BY <1>8, <1>a DEF StopFiles, HostOnly, store, StepKnows
  <2>2. HostSafe
    BY <1>8, <1>a, <2>1, DropArtifactsSafe DEF StopFiles
  <2>3. ~rec'.startup => Armed' = {}
    BY <2>1, <2>2, StaysGone DEF HostSafe
  <2>4. CASE pc' = "forget"
    BY <2>2, <2>3, <2>4, StoppedSafe DEF HostSafe
  <2>5. CASE End
    BY <2>2, <2>5, EndSafe DEF HostSafe
  <2> QED
    BY <1>8, <2>4, <2>5 DEF StopFiles
<1> QED
  BY <1>1, <1>2, <1>3, <1>4, <1>5, <1>6, <1>7, <1>8 DEF StoppingStep

-----------------------------------------------------------------------------
(* The recovery of an active mount *)

(* What the cleanup of an active mount will stop. *)
LEMMA RevalidateSafe ==
  ASSUME IInv, Revalidate
  PROVE  Safe
<1> DEFINE p == ServiceProcess(StopProcess(rec))
<1>1. /\ HostInv' /\ rec' = rec /\ Armed' = Armed /\ rec.phase = "active"
      /\ rec \in MountStates /\ Promoted
  BY IInvParts, NoEffectSafe, RecordInPhase, PhaseStartup DEF Revalidate, PhaseOK
<1>2. p \in {0} \union Identities
  BY <1>1, IInvParts, ObservedProcess
<1>3. CASE ActiveObserved /\ pc' = "oldStop" /\ job' = [job EXCEPT !.owned = p]
  <2>1. OnlyRuns(p)
    BY <1>1, <1>3, IInvParts, StopProcessKnown, ServiceProcessKnown DEF ActiveObserved
  <2> HIDE DEF p
  <2>2. job'.owned = p
    BY <1>2, <1>3, IInvParts, JobOwned
  <2> QED
    BY <1>1, <1>3, <2>1, <2>2 DEF Safe, FilesKnown, StepKnows, OnlyRuns
<1>4. CASE End
  BY <1>1, <1>4, EndSafe
<1> QED
  BY <1>3, <1>4 DEF Revalidate

(* The commands of the cleanup, each of which may fail. *)
LEMMA OldGoes ==
  ASSUME IInv, HostSafe, rec' = rec, job'.owned = job.owned,
         pc \in {"oldStop", "oldKill", "oldUnmount"},
         pc' \in {"oldKill", "oldUnmount", "oldAbsent"}
  PROVE  Safe
<1>1. OnlyRuns(job.owned)
  BY IInvParts DEF StepKnows
<1>2. OnlyRuns(job.owned)'
  BY <1>1, StaysGone DEF HostSafe, OnlyRuns
<1> QED
  BY <1>2 DEF HostSafe, Safe, FilesKnown, StepKnows

(* The absence of the candidate's process is checked later, by its unit. *)
LEMMA CandidateGoes ==
  ASSUME HostInv', pc' = "oldAbsent", OfCandidate'
  PROVE  Safe
BY DEF Safe, FilesKnown, StepKnows

LEMMA OldAbsentSafe ==
  ASSUME IInv, OldAbsent \/ OldCollect \/ OldArtifacts
  PROVE  Safe
<1>a. HostInv /\ StepKnows /\ HostOK /\ CandidateOK
  BY IInvParts
<1>1. rec' = rec
  BY DEF OldAbsent, OldCollect, OldArtifacts, HostOnly, NoEffect, store
<1>2. HostSafe
  BY <1>a, <1>1, ResetFailedSafe, DropArtifactsSafe, UnchangedHostSafe
     DEF OldAbsent, OldCollect, OldArtifacts, RemoveArtifacts, NoEffect
<1>3. CASE End
  BY <1>2, <1>3, EndSafe DEF HostSafe
<1>4. CASE OldAbsent /\ ~End
  <2>1. job' = job /\ pc' = "oldCollect" /\ ~Alive(job.owned)
    BY <1>4 DEF OldAbsent
  <2>2. ~OfCandidate => Armed = {}
    BY <1>4, <1>a, <2>1 DEF OldAbsent, StepKnows, OnlyRuns, Alive, Armed
  <2>3. ~OfCandidate' => Armed' = {}
    BY <1>2, <2>1, <2>2, StaysGone DEF HostSafe
  <2> QED
    BY <1>2, <2>1, <2>3 DEF HostSafe, Safe, FilesKnown, StepKnows
<1>5. CASE OldCollect /\ ~End
  <2>1. /\ job' = job /\ pc' \in {"oldCollect", "oldArtifacts"}
        /\ pc' = "oldArtifacts" => ~Running
    BY <1>5 DEF OldCollect, Running
  <2>2. ~OfCandidate => Armed = {}
    BY <1>5, <1>a DEF OldCollect, StepKnows
  <2>3. OfCandidate /\ ~Running => Armed = {}
    BY <1>a, UnitGone DEF CandidateOK, Promoted
  <2>4. /\ ~OfCandidate' => Armed' = {}
        /\ pc' = "oldArtifacts" => Armed' = {}
    BY <1>2, <2>1, <2>2, <2>3, StaysGone DEF HostSafe
  <2> QED
    BY <1>2, <2>1, <2>4 DEF HostSafe, Safe, FilesKnown, StepKnows
<1>6. CASE OldArtifacts /\ ~End
  <2>1. pc' \in {"commitDesired", "commitFallback"} /\ ~job.failed
    BY <1>6 DEF OldArtifacts
  <2>2. Armed = {}
    BY <1>6, <1>a, <2>1 DEF OldArtifacts, StepKnows
  <2>3. Armed' = {}
    BY <1>2, <2>2, StaysGone DEF HostSafe
  <2> QED
    BY <1>2, <2>1, <2>3 DEF HostSafe, Safe, FilesKnown, StepKnows
<1> QED
  BY <1>3, <1>4, <1>5, <1>6

LEMMA RecoveryStepSafe ==
  ASSUME IInv, RecoveryStep
  PROVE  Safe
<1>a. HostInv /\ StepKnows /\ HostOK /\ TypeOK /\ job \in Jobs /\ PhaseOK /\ CandidateOK
  BY IInvParts
<1>1. CASE Revalidate
  BY <1>1, RevalidateSafe
<1>2. CASE OldStop \/ OldKill \/ OldUnmount
  <2>1. rec' = rec /\ job' = job
    BY <1>2 DEF OldStop, OldKill, OldUnmount, HostOnly, store
  <2>2. HostSafe
    BY <1>2, <1>a, <2>1, SystemctlStopSafe, KillSafe, KernelUnmountSafe, UnchangedHostSafe
       DEF OldStop, OldKill, OldUnmount
  <2> QED
    BY <1>2, <2>1, <2>2, OldGoes DEF OldStop, OldKill, OldUnmount
<1>3. CASE Candidate
  <2>1. pc' \in PlainSteps /\ NoEffect
    BY <1>3 DEF Candidate, End, PlainSteps
  <2> QED
    BY <2>1, NoEffectSafe, PlainSafe
<1>4. CASE CandidateStop \/ CandidateUnmount \/ CandidateKill
  <2>1. rec' = rec /\ pc' \in PlainSteps
    BY <1>4 DEF CandidateStop, CandidateUnmount, CandidateKill, HostOnly, store, PlainSteps
  <2>2. HostSafe
    BY <1>4, <1>a, <2>1, SystemctlStopSafe, KernelUnmountSafe, KillSafe, UnchangedHostSafe
       DEF CandidateStop, CandidateUnmount, CandidateKill
  <2> QED
    BY <2>1, <2>2, PlainSafe DEF HostSafe
<1>5. CASE CandidateFiles
  <2>1. rec' = rec /\ pc' = "oldAbsent" /\ OfCandidate'
    BY <1>5, <1>a DEF CandidateFiles, HostOnly, store, CandidateOK
  <2>2. HostSafe
    BY <1>5, <1>a, <2>1, RemoveStartupFilesSafe DEF CandidateFiles
  <2> QED
    BY <2>1, <2>2, CandidateGoes DEF HostSafe
<1>6. CASE OldAbsent \/ OldCollect \/ OldArtifacts
  BY <1>6, OldAbsentSafe
<1>7. CASE CommitDesired
  <2>1. Armed = {} /\ files = {}
    BY <1>7, IInvParts, PhaseStartup DEF CommitDesired, StepKnows, PhaseOK
  <2>2. PICK b \in Binaries : Commit(Starting("recovery", attempts + 1, b, rec.binary))
    BY <1>7 DEF CommitDesired
  <2>3. /\ pc' = "publishEnv"
        /\ job' = [job EXCEPT !.after = "startDesired", !.creds = TRUE, !.plan = {}]
    BY <1>7 DEF CommitDesired
  <2>4. job'.after = "startDesired"
    BY <1>a, <2>3 DEF Jobs
  <2> QED
    BY <2>1, <2>2, <2>3, <2>4, CommitSafe
<1>8. CASE CommitFallback
  <2>1. Armed = {} /\ files = {}
    BY <1>8, IInvParts DEF CommitFallback, StepKnows, FilesRemoved
  <2>2. Commit(Starting("recovery", attempts + 1, rec.fallback, NoBinary))
    BY <1>8 DEF CommitFallback, Fallback
  <2>3. pc' = "publishEnv" /\ job' = [job EXCEPT !.after = "startFallback", !.plan = {}]
    BY <1>8 DEF CommitFallback
  <2>4. job'.after = "startFallback"
    BY <1>a, <2>3 DEF Jobs
  <2> QED
    BY <2>1, <2>2, <2>3, <2>4, CommitSafe
<1> QED
  BY <1>1, <1>2, <1>3, <1>4, <1>5, <1>6, <1>7, <1>8 DEF RecoveryStep

-----------------------------------------------------------------------------
(* The host and failures *)

(* A launcher, however late, reads the pair of startup files: no operation *)
(* that counts on there being no supervisor left a pair.                   *)
LEMMA LaunchStaysSafe ==
  ASSUME IInv, NEW q \in procs, LauncherReads(q), UNCHANGED <<rec, pc, job>>
  PROVE  Safe
<1>a. /\ HostInv /\ FilesKnown /\ StepKnows /\ HostOK /\ PhaseOK /\ CandidateOK /\ FilesOK
      /\ (FilesRemoved => files = {})
  BY IInvParts
<1>1. HostInv' /\ Launchable /\ files' = files
  BY <1>a, LauncherReadsSafe
<1>2. files # {} /\ rec.phase \in {"starting", "stopping"} /\ rec.startup /\ ~FilesRemoved
  BY <1>a, <1>1 DEF Launchable, FilesOK
<1>3. FilesKnown'
  BY <1>a, <1>1 DEF FilesKnown, SecondPass, Settled
<1>4. /\ pc \notin {"launch", "commitDesired", "oldStop", "oldKill", "oldUnmount"}
      /\ pc \in AbsenceSteps => OfCandidate /\ job.failed
      /\ pc \notin {"commitFallback", "promote", "forget"}
  BY <1>a, <1>2, StateFields DEF PhaseOK, FilesRemoved
<1>5. /\ pc \notin {"publishEnv", "publishArgs", "promoteFiles"}
      /\ pc \in ReconcileSteps => ~SecondPass
  BY <1>a, <1>1, <1>2 DEF FilesKnown, Launchable, Settled
<1>6. StepKnows'
  BY <1>2, <1>4, <1>5 DEF StepKnows, SecondPass
<1> QED
  BY <1>1, <1>3, <1>6 DEF Safe

LEMMA EnvironmentSafe ==
  ASSUME IInv, Systemd \/ LateStart \/ Supervisor \/ Exits \/ DeadlinePasses
  PROVE  Safe
<1>a. HostInv /\ HostOK /\ FilesOK
  BY IInvParts
<1>1. CASE Systemd
  <2>1. UNCHANGED <<rec, pc, job>> /\ UnitStep
    BY <1>1 DEF Systemd, store
  <2>2. CASE Fork \/ ForkFails \/ Collect
    BY <1>a, <2>1, <2>2, ForkSafe, ForkFailsSafe, CollectSafe, StaySafe
  <2>3. ASSUME NEW q \in procs, LauncherReads(q) PROVE Safe
    BY <2>1, <2>3, LaunchStaysSafe
  <2>4. ASSUME NEW q \in procs, LauncherRemoves(q) \/ LauncherExecs(q) \/ LauncherRefuses(q)
        PROVE  Safe
    BY <1>a, <2>1, <2>4, LauncherGoesSafe, LauncherRefusesSafe, StaySafe
  <2> QED
    BY <2>1, <2>2, <2>3, <2>4 DEF UnitStep
<1>2. CASE LateStart
  BY <1>2, <1>a, SystemdRunSafe, UnchangedHostSafe, StaySafe DEF LateStart, store
<1>3. CASE Supervisor
  BY <1>3, <1>a, SupervisorStepSafe, StaySafe DEF Supervisor, store
<1>4. CASE Exits
  BY <1>4, <1>a, ProcessExitsSafe, StaySafe DEF Exits, store
<1>5. CASE DeadlinePasses
  BY <1>5, <1>a, UnchangedHostSafe, StaySafe DEF DeadlinePasses
<1> QED
  BY <1>1, <1>2, <1>3, <1>4, <1>5

LEMMA ToleratedSafe ==
  ASSUME IInv, Tolerated
  PROVE  Safe
<1>a. HostInv /\ HostOK /\ job \in Jobs /\ PhaseOK /\ CandidateOK
  BY IInvParts
<1>1. rec' = rec /\ UNCHANGED host
  BY DEF Tolerated, store
<1>2. HostSafe /\ HostInv' /\ files' = files
  BY <1>a, <1>1, UnchangedHostSafe DEF HostSafe, host
<1>3. /\ [job EXCEPT !.failed = TRUE].after = job.after
      /\ [job EXCEPT !.failed = TRUE].owned = job.owned
  BY <1>a, JobFailed
<1>4. CASE \/ pc = "stopUnit" /\ pc' = "stopUnmount" /\ job' = job
           \/ pc = "stopUnmount" /\ pc' = "stopKill" /\ job' = job
           \/ pc = "stopKill" /\ pc' = "stopCheckMount" /\ job' = job
  BY <1>1, <1>2, <1>4, StopGoes DEF StopperSteps
<1>5. CASE pc = "expiredUnmount" /\ pc' = "expiredKill" /\ job' = job
  BY <1>1, <1>2, <1>5, ReconcileGoes
<1>6. CASE /\ job' = [job EXCEPT !.failed = TRUE]
           /\ \/ pc = "oldStop" /\ pc' = "oldKill"
              \/ pc = "oldKill" /\ pc' = "oldUnmount"
              \/ pc = "oldUnmount" /\ pc' = "oldAbsent"
  BY <1>1, <1>2, <1>3, <1>6, OldGoes
<1>7. CASE pc = "candidateFiles" /\ pc' = "oldAbsent" /\ job' = [job EXCEPT !.failed = TRUE]
  <2>1. OfCandidate'
    BY <1>a, <1>3, <1>7 DEF CandidateOK
  <2> QED
    BY <1>2, <1>7, <2>1, CandidateGoes
<1>8. CASE pc' \in {"candidate", "candidateKill"}
  BY <1>2, <1>8, PlainSafe DEF PlainSteps
<1>9. CASE /\ pc \in {"wait", "promoteFiles", "promote"} /\ job.after = "launch"
           /\ pc' = "observeStarting" /\ job' = job
  BY <1>1, <1>2, <1>9, ReconcileSafe
<1> QED
  BY <1>4, <1>5, <1>6, <1>7, <1>8, <1>9 DEF Tolerated

LEMMA FaultSafe ==
  ASSUME IInv, Fault
  PROVE  Safe
<1>a. HostInv /\ HostOK
  BY IInvParts
<1>1. CASE Interrupted \/ RunGivenUp \/ Reboot
  <2>1. rec' = rec /\ End
    BY <1>1 DEF Interrupted, RunGivenUp, Reboot, store
  <2>2. HostSafe
    BY <1>1, <1>a, <2>1, UnchangedHostSafe, HostRebootedSafe DEF Interrupted, RunGivenUp, Reboot
  <2> QED
    BY <2>1, <2>2, EndSafe DEF HostSafe
<1>2. CASE LosesPart
  <2>1. UNCHANGED <<rec, pc, job>> /\ Promoted /\ PartLost
    BY <1>2, IInvParts, PhaseStartup DEF LosesPart, store
  <2> QED
    BY <1>a, <2>1, PartLostSafe, StaySafe
<1>3. CASE Tolerated
  BY <1>3, ToleratedSafe
<1> QED
  BY <1>1, <1>2, <1>3 DEF Fault, Faulty

-----------------------------------------------------------------------------
(* Results *)

LEMMA InitIInv == Init => IInv
<1> SUFFICES ASSUME Init PROVE IInv
  OBVIOUS
<1>1. TypeInv /\ pc = "idle"
  BY InitTypeInv DEF Init
<1>2. procs = {} /\ mounts = {} /\ pidfile = 0 /\ spawned = 0 /\ files = {}
  BY DEF Init, HostInit
<1>3. HostInv
  <2>1. ~Promoted
    BY StateFields DEF Init, Promoted
  <2> QED
    BY <1>2, <2>1
       DEF HostInv, FreshOK, LauncherOK, ReadOK, RegisteredOK, PlaceOK, RecordedOK, PairOK, Armed
<1>4. FilesKnown /\ StepKnows
  BY <1>1 DEF FilesKnown, StepKnows
<1> QED
  BY <1>1, <1>3, <1>4 DEF IInv

LEMMA NextKeepsIInv == IInv /\ [Next]_vars => IInv'
<1> SUFFICES ASSUME IInv, [Next]_vars PROVE IInv'
  OBVIOUS
<1>1. TypeInv'
  BY NextKeepsTypeInv DEF IInv
<1>2. Safe
  <2>1. CASE UNCHANGED vars
    BY <2>1, IInvParts, UnchangedHostSafe, StaySafe DEF vars, store
  <2> QED
    BY <2>1, RequestSafe, LaunchStepSafe, StartingStepSafe, StoppingStepSafe, RecoveryStepSafe,
       EnvironmentSafe, FaultSafe DEF Next, OperationStep
<1> QED
  BY <1>1, <1>2 DEF IInv, Safe

(* What an operation knows of the startup files and of the supervisors     *)
(* holds at each of its steps, whenever a start arrives.                   *)
THEOREM InductiveInvariant == Spec => []IInv
BY InitIInv, NextKeepsIInv, PTL DEF Spec

(* Desired and fallback processes, or any other two supervisors of a       *)
(* volume, never run concurrently: also when a start that a killed         *)
(* systemd-run asked for arrives during or after the cleanup of its        *)
(* attempt.                                                                *)
THEOREM NoTwoSupervisors == Spec => []NeverTwoSupervisors
<1>1. IInv => NeverTwoSupervisors
  <2> SUFFICES ASSUME IInv PROVE Cardinality(Executing) <= 1
    BY DEF NeverTwoSupervisors
  <2>1. ASSUME NEW p \in Executing, NEW q \in Executing PROVE p = q
    <3>1. p \in Armed /\ q \in Armed
      BY IInvParts, ExecutingArmed
    <3>2. p.id = q.id
      BY <3>1, IInvParts, MainOnly DEF HostInv, RecordedOK, OnlyRuns
    <3> QED
      BY <3>2, IInvParts DEF HostInv, FreshOK, Executing
  <2>2. CASE Executing = {}
    BY <2>2, FS_EmptySet
  <2>3. ASSUME NEW p \in Executing PROVE Cardinality(Executing) <= 1
    <3>1. Executing = {p}
      BY <2>1, <2>3
    <3>2. Cardinality(Executing) = 1
      BY <3>1, FS_Singleton, Zenon
    <3> QED
      BY <3>2
  <2> QED
    BY <2>2, <2>3
<1> QED
  BY <1>1, InductiveInvariant, PTL

(* A new attempt is written only while no supervisor runs, and no launcher *)
(* that has read its startup files: neither a stage request, nor a         *)
(* recovery, nor a fallback goes on under a process that a late start      *)
(* brought up meanwhile.                                                   *)
NewAttemptIsAlone == [][rec' # rec /\ rec'.phase = "starting" => Armed = {}]_vars

(* The commits of all three find none: each is preceded by a check of the  *)
(* process it stopped, or of the unit that could have started one.         *)
THEOREM NewAttemptFindsNoSupervisor == Spec => NewAttemptIsAlone
<1> DEFINE Alone == rec' # rec /\ rec'.phase = "starting" => Armed = {}
<1>1. IInv /\ [Next]_vars => Alone
  <2> SUFFICES ASSUME IInv, [Next]_vars, rec' # rec, rec'.phase = "starting" PROVE Armed = {}
    OBVIOUS
  <2>1. RecordStep
    BY IInvParts, OthersKeepRecord DEF vars, store
  <2>2. CASE CommitStage \/ CommitDesired \/ CommitFallback
    BY <2>2, IInvParts DEF CommitStage, CommitDesired, CommitFallback, StepKnows
  <2>3. CASE SwitchToFallback
    <3>1. ~Running /\ ~Promoted
      BY <2>3, IInvParts DEF SwitchToFallback, NoEffect, store, Running, PhaseOK, Promoted
    <3> QED
      BY <3>1, IInvParts, UnitGone
  <2>4. CASE Promote
    <3>1. rec \in MountStates
      BY <2>4, IInvParts, RecordInPhase DEF Promote, PhaseOK
    <3> QED
      BY <2>4, <3>1 DEF Promote, MountStates
  <2>5. CASE Intend
    <3>1. rec \in MountStates /\ ServiceProcess(StopProcess(rec)) \in {0} \union Identities
      BY <2>5, IInvParts, RecordInPhase, ObservedProcess DEF Intend, PhaseOK
    <3>2. rec'.phase = "stopping"
      BY <2>5, <3>1, StoppingTyped DEF Intend, NoEffect, store
    <3> QED
      BY <3>2
  <2>6. CASE Forget
    BY <2>6, StateFields DEF Forget
  <2> QED
    BY <2>1, <2>2, <2>3, <2>4, <2>5, <2>6 DEF RecordStep
<1>2. NewAttemptIsAlone <=> [][Alone]_vars
  BY DEF NewAttemptIsAlone
<1> QED
  BY <1>1, <1>2, InductiveInvariant, PTL DEF Spec

(* Under an active record the only supervisor is the recorded one, so the  *)
(* stopper and the recovery, which go by the recorded process, miss none:  *)
(* a late unit beside it has only a launcher that found nothing to read.   *)
ActiveSupervisorRecorded == rec.phase = "active" => OnlyRuns(rec.pid)

(* ActiveProcessRecorded, for supervisors and whenever a start arrives.    *)
THEOREM RecordNamesSupervisor == Spec => []ActiveSupervisorRecorded
<1>1. IInv => ActiveSupervisorRecorded
  BY IInvParts, PhaseStartup DEF HostInv, RecordedOK, ActiveSupervisorRecorded
<1> QED
  BY <1>1, InductiveInvariant, PTL

(* Every step but that of a launcher leaves the supervisors, or fewer. *)
LEMMA UnitStepExecutes ==
  ASSUME IInv, UnitStep, ~\E q \in procs : LauncherExecs(q)
  PROVE  \A q \in Executing' : \E p \in Executing : p.id = q.id
<1>1. CASE Fork
  <2> DEFINE l == Launcher(spawned + 1, unit.attempt)
  <2>1. l.binary = NoBinary
    BY DEF Launcher
  <2>2. procs' = procs \union {l}
    BY <1>1 DEF Fork
  <2> HIDE DEF l
  <2> QED
    BY <2>1, <2>2 DEF Executing
<1>2. CASE ForkFails \/ Collect \/ \E q \in procs : LauncherRefuses(q)
  BY <1>2 DEF ForkFails, Collect, LauncherRefuses, Executing
<1>3. ASSUME NEW q \in procs, LauncherReads(q) \/ LauncherRemoves(q)
      PROVE  \A p \in Executing' : p \in Executing
  <2>1. q \in Processes /\ q.binary = NoBinary
    BY <1>3, IInvParts DEF HostOK, HostTypeOK, HostInv, LauncherOK, LauncherReads, LauncherRemoves
  <2>2. PICK e : procs' = (procs \ {q}) \union {e} /\ e.binary = NoBinary
    <3>1. CASE LauncherReads(q)
      <4>1. PICK f \in StartupFile("args", q.attempt) :
              procs' = (procs \ {q}) \union {[q EXCEPT !.input = f.binary]}
        BY <3>1 DEF LauncherReads
      <4>2. [q EXCEPT !.input = f.binary].binary = NoBinary
        BY <2>1 DEF Processes
      <4> QED
        BY <4>1, <4>2
    <3>2. CASE LauncherRemoves(q)
      BY <2>1, <3>2, RemoveFields DEF LauncherRemoves
    <3> QED
      BY <1>3, <3>1, <3>2
  <2> QED
    BY <2>2 DEF Executing
<1> QED
  BY <1>1, <1>2, <1>3 DEF UnitStep

LEMMA OnlyLaunchersExec ==
  ASSUME IInv, Next, ~\E q \in procs : LauncherExecs(q)
  PROVE  \A q \in Executing' : \E p \in Executing : p.id = q.id
<1> USE DEF HostOnly, NoEffect, host, SystemctlStop, ResetFailed, KernelUnmount, Kill, Ends,
            RemoveArtifacts, RemoveStartupFiles, PublishFile, SystemdRun, Commit
<1> SUFFICES procs' \subseteq procs \/ UnitStep
  <2>1. CASE procs' \subseteq procs
    BY <2>1 DEF Executing
  <2>2. CASE UnitStep
    BY <2>2, UnitStepExecutes
  <2> QED
    BY <2>1, <2>2
<1>1. CASE Request
  BY <1>1 DEF Request, StageNew, Continue, StageElsewhere, Unstage, TakeDown, Begin
<1>2. CASE LaunchStep
  BY <1>2 DEF LaunchStep, InspectNoState, ResetNoState, CleanNoState, CommitStage,
              NoAttempt, PublishEnv, PublishArgs, RunUnit, WaitReady, WaitFails, PromoteFiles,
              Promote
<1>3. CASE StartingStep
  BY <1>3 DEF StartingStep, ObserveStarting, DecideStarting, UnmountStale, ResetStale,
              AbsentArtifacts, AbsentFiles, ResolveCredentials, SwitchToFallback, Forget,
              ExpiredStop, ExpiredUnmount, ExpiredKill, ExpiredReset, ExpiredCheck, ExpiredFiles
<1>4. CASE StoppingStep
  BY <1>4 DEF StoppingStep, Intend, ObserveStopping, DecideStopping, StopReset, StopUnit,
              StopUnmount, StopKill, StopCheckMount, StopCheckRest, StopFiles
<1>5. CASE RecoveryStep
  BY <1>5 DEF RecoveryStep, Revalidate, OldStop, OldKill, OldUnmount, Candidate, CandidateStop,
              CandidateUnmount, CandidateKill, CandidateFiles, OldAbsent, OldCollect,
              OldArtifacts, CommitDesired, CommitFallback
<1>6. CASE Systemd
  BY <1>6 DEF Systemd
<1>7. CASE LateStart \/ Supervisor \/ Exits \/ DeadlinePasses
  BY <1>7 DEF LateStart, Supervisor, SupervisorStep, Registers, MountsVolume, Exits, ProcessExits,
              DeadlinePasses
<1>8. CASE Fault
  BY <1>8 DEF Fault, Faulty, Interrupted, RunGivenUp, Tolerated, Reboot, HostRebooted, LosesPart,
              PartLost, UnitLost, ArtifactsLost, MountLost
<1> QED
  BY <1>1, <1>2, <1>3, <1>4, <1>5, <1>6, <1>7, <1>8 DEF Next, OperationStep

(* The files it has read are those of the record, and it is the only       *)
(* process.                                                                *)
LEMMA ExecsRecorded ==
  ASSUME IInv, NEW p \in procs, LauncherExecs(p), NEW q \in procs', q \notin procs
  PROVE  /\ Executing = {}
         /\ \/ rec = NoState
            \/ /\ rec.phase \in {"starting", "stopping"} /\ rec.startup
               /\ q.attempt = rec.attempt /\ q.binary = rec.binary
<1>1. p \in Processes
  BY IInvParts DEF HostOK, HostTypeOK
<1>2. q.attempt = p.attempt /\ q.binary = p.input
  BY <1>1, ExecFields DEF LauncherExecs
<1>3. p.binary = NoBinary /\ p \in Armed
  BY IInvParts DEF LauncherExecs, HostInv, LauncherOK, Armed
<1>4. ~Promoted
  BY <1>3, IInvParts DEF HostInv, RecordedOK, Settled, Executing
<1>5. Executing = {}
  BY <1>3, <1>4, IInvParts DEF HostInv, PlaceOK, FreshOK, Executing
<1>6. rec = NoState \/ (p.attempt = rec.attempt /\ p.input = rec.binary)
  BY <1>3, IInvParts DEF HostInv, ReadOK
<1>7. rec = NoState \/ (rec.phase \in {"starting", "stopping"} /\ rec.startup)
  <2>1. rec = NoState \/ rec \in MountStates
    BY IInvParts DEF TypeOK
  <2> QED
    BY <1>4, <2>1, IInvParts, StateFields, PhaseStartup DEF Promoted
<1> QED
  BY <1>2, <1>5, <1>6, <1>7

(* What a late start may do comes down to the record that its launcher     *)
(* finds, and that nothing but a deletion takes away under it.             *)
THEOREM LateSupervisorIsRecorded == Spec => SupervisesRecordedAttempt
<1> DEFINE Recorded ==
      \A q \in Executing' :
        \/ \E p \in Executing : p.id = q.id
        \/ /\ Executing = {}
           /\ \/ rec = NoState
              \/ /\ rec.phase \in {"starting", "stopping"} /\ rec.startup
                 /\ q.attempt = rec.attempt /\ q.binary = rec.binary
<1>1. IInv /\ [Next]_vars => Recorded
  <2> SUFFICES ASSUME IInv, [Next]_vars, NEW q \in Executing',
                      ~\E p \in Executing : p.id = q.id
               PROVE  /\ Executing = {}
                      /\ \/ rec = NoState
                         \/ /\ rec.phase \in {"starting", "stopping"} /\ rec.startup
                            /\ q.attempt = rec.attempt /\ q.binary = rec.binary
    OBVIOUS
  <2>1. q \in procs' /\ q \notin procs
    BY DEF Executing
  <2>2. Next
    BY <2>1 DEF vars, host
  <2>3. PICK p \in procs : LauncherExecs(p)
    BY <2>2, OnlyLaunchersExec
  <2> QED
    BY <2>1, <2>3, ExecsRecorded
<1>2. SupervisesRecordedAttempt <=> [][Recorded]_vars
  BY DEF SupervisesRecordedAttempt
<1> QED
  BY <1>1, <1>2, InductiveInvariant, PTL DEF Spec

-----------------------------------------------------------------------------
(* The stopper, with late starts *)

(* What is left of StopLeavesNothing when starts may be late: once a mount *)
(* was active its startup files are gone for good, and when the stopper    *)
(* deletes its record there is no supervisor, no launcher that has read    *)
(* its files, no mount and no file.  (A launch that never became active    *)
(* may be deleted under the supervisor that its late start brings up.)     *)
ActiveStopLeavesNothing ==
  [][rec.phase = "stopping" /\ ~rec.startup /\ rec' = NoState =>
       Armed = {} /\ mounts = {} /\ pidfile = 0 /\ files = {}]_vars

(* removeStoppingArtifacts has found the path unmounted. *)
StopCleared ==
  pc = "forget" /\ rec.phase = "stopping" /\ ~rec.startup => mounts = {} /\ pidfile = 0

(* The two steps before a deletion. *)
LEMMA ForgetReached ==
  ASSUME Next, pc # "forget", pc' = "forget"
  PROVE  StopFiles \/ AbsentFiles
<1>1. CASE Request
  BY <1>1 DEF Request, StageNew, Continue, StageElsewhere, Unstage, TakeDown, Begin, Go
<1>2. CASE LaunchStep
  <2>1. ~WaitFails
    BY DEF WaitFails, AfterWait, Go, End
  <2>2. ~RunUnit
    BY DEF RunUnit, StartFailed, Go, End
  <2> QED
    BY <1>2, <2>1, <2>2
       DEF LaunchStep, InspectNoState, ResetNoState, CleanNoState, CommitStage, NoAttempt,
           PublishEnv, PublishArgs, WaitReady, PromoteFiles, Promote, Go, End
<1>3. CASE StartingStep
  <2>1. ~DecideStarting
    BY Zenon DEF DecideStarting, StartCleaning, Go, End
  <2> QED
    BY <1>3, <2>1
       DEF StartingStep, ObserveStarting, UnmountStale, ResetStale, AbsentArtifacts,
           ResolveCredentials, SwitchToFallback, Forget, ExpiredStop, ExpiredUnmount,
           ExpiredKill, ExpiredReset, ExpiredCheck, ExpiredFiles, Go, End
<1>4. CASE StoppingStep
  BY <1>4 DEF StoppingStep, Intend, ObserveStopping, DecideStopping, StopReset, StopUnit,
              StopUnmount, StopKill, StopCheckMount, StopCheckRest, Go, End
<1>5. CASE RecoveryStep
  BY <1>5 DEF RecoveryStep, Revalidate, OldStop, OldKill, OldUnmount, Candidate, CandidateStop,
              CandidateUnmount, CandidateKill, CandidateFiles, OldAbsent, OldCollect,
              OldArtifacts, CommitDesired, CommitFallback, Go, End
<1>6. CASE Systemd \/ LateStart \/ Supervisor \/ Exits \/ DeadlinePasses
  BY <1>6 DEF Systemd, LateStart, Supervisor, Exits, DeadlinePasses
<1>7. CASE Fault
  BY <1>7 DEF Fault, Faulty, Interrupted, RunGivenUp, Tolerated, Reboot, LosesPart, Go, End
<1> QED
  BY <1>1, <1>2, <1>3, <1>4, <1>5, <1>6, <1>7 DEF Next, OperationStep

(* Until the deletion nothing of the operation moves, and without a        *)
(* supervisor nothing registers or mounts.                                 *)
LEMMA ClearedStays ==
  ASSUME IInv, Next, pc = "forget", pc' = "forget", Armed = {}, mounts = {}, pidfile = 0
  PROVE  mounts' = {} /\ pidfile' = 0
<1>1. \A q \in procs : q.binary = NoBinary /\ q.id # 0
  BY IInvParts, Identified, ExecutingArmed DEF Executing
<1>2. CASE Systemd
  BY <1>2 DEF Systemd, UnitStep, Fork, ForkFails, Collect, LauncherReads, LauncherRemoves,
              LauncherExecs, LauncherRefuses
<1>3. CASE LateStart
  BY <1>3 DEF LateStart, SystemdRun, host
<1>4. CASE Supervisor
  BY <1>1, <1>4 DEF Supervisor, SupervisorStep, Registers, MountsVolume
<1>5. CASE Exits
  BY <1>1, <1>5 DEF Exits, ProcessExits, Ends
<1>6. CASE DeadlinePasses
  BY <1>6 DEF DeadlinePasses, host
<1>7. ~(Request \/ OperationStep)
  <2>1. ~Request
    BY DEF Request, StageNew, Continue, StageElsewhere, Unstage, TakeDown, Begin
  <2>2. ~LaunchStep
    BY DEF LaunchStep, InspectNoState, ResetNoState, CleanNoState, CommitStage, NoAttempt,
           PublishEnv, PublishArgs, RunUnit, WaitReady, WaitFails, PromoteFiles, Promote
  <2>3. ~StartingStep
    BY DEF StartingStep, ObserveStarting, DecideStarting, UnmountStale, ResetStale,
           AbsentArtifacts, AbsentFiles, ResolveCredentials, SwitchToFallback, Forget,
           ExpiredStop, ExpiredUnmount, ExpiredKill, ExpiredReset, ExpiredCheck, ExpiredFiles,
           Go, End
  <2>4. ~StoppingStep
    BY DEF StoppingStep, Intend, ObserveStopping, DecideStopping, StopReset, StopUnit,
           StopUnmount, StopKill, StopCheckMount, StopCheckRest, StopFiles
  <2>5. ~RecoveryStep
    BY DEF RecoveryStep, Revalidate, OldStop, OldKill, OldUnmount, Candidate, CandidateStop,
           CandidateUnmount, CandidateKill, CandidateFiles, OldAbsent, OldCollect,
           OldArtifacts, CommitDesired, CommitFallback
  <2> QED
    BY <2>1, <2>2, <2>3, <2>4, <2>5 DEF OperationStep
<1>8. ~Fault
  BY DEF Fault, Faulty, Interrupted, RunGivenUp, Tolerated, Reboot, LosesPart, Go, End
<1> QED
  BY <1>2, <1>3, <1>4, <1>5, <1>6, <1>7, <1>8 DEF Next

LEMMA NextKeepsCleared == IInv /\ StopCleared /\ [Next]_vars => StopCleared'
<1> SUFFICES ASSUME IInv, StopCleared, [Next]_vars, pc' = "forget", rec'.phase = "stopping",
                    ~rec'.startup
             PROVE  mounts' = {} /\ pidfile' = 0
  BY DEF StopCleared
<1>1. CASE UNCHANGED vars
  BY <1>1 DEF vars, host, store, StopCleared
<1>2. CASE Next /\ pc # "forget"
  <2>1. CASE StopFiles
    <3>1. ArtifactsRemovable
      BY <2>1 DEF StopFiles, End, Go
    <3> QED
      BY <2>1, <3>1 DEF StopFiles, DropArtifacts, ArtifactsRemovable, IsMountPoint
  <2>2. ~AbsentFiles
    <3> SUFFICES ASSUME AbsentFiles PROVE FALSE
      OBVIOUS
    <3>1. rec' = rec /\ pc = "absentFiles"
      BY DEF AbsentFiles, HostOnly, store
    <3>2. rec.phase = "starting"
      BY <3>1, IInvParts DEF PhaseOK, ReconcileSteps
    <3> QED
      BY <3>1, <3>2
  <2> QED
    BY <1>2, <2>1, <2>2, ForgetReached
<1>3. CASE Next /\ pc = "forget"
  <2>1. rec' = rec
    <3>1. ~RecordStep
      BY <1>3 DEF RecordStep, CommitStage, Promote, SwitchToFallback, Forget, Intend,
                  CommitDesired, CommitFallback, Go, End
    <3> QED
      BY <1>3, <3>1, OthersKeepRecord
  <2>2. mounts = {} /\ pidfile = 0 /\ Armed = {}
    BY <1>3, <2>1, IInvParts DEF StopCleared, StepKnows
  <2> QED
    BY <1>3, <2>2, ClearedStays
<1> QED
  BY <1>1, <1>2, <1>3

(* The stopper's deletion of a mount that was active is clean however late *)
(* a start arrives.                                                        *)
THEOREM ActiveStopIsClean == Spec => ActiveStopLeavesNothing
<1> DEFINE Clean == rec.phase = "stopping" /\ ~rec.startup /\ rec' = NoState =>
             Armed = {} /\ mounts = {} /\ pidfile = 0 /\ files = {}
<1>1. IInv /\ StopCleared /\ [Next]_vars => Clean
  <2> SUFFICES ASSUME IInv, StopCleared, [Next]_vars, rec.phase = "stopping", ~rec.startup,
                      rec' = NoState
               PROVE  Armed = {} /\ mounts = {} /\ pidfile = 0 /\ files = {}
    OBVIOUS
  <2>1. rec' # rec
    BY StateFields
  <2>2. Forget
    BY <2>1, IInvParts, OthersKeepRecord, OnlyForgetDeletes DEF vars, store
  <2>3. files = {}
    BY <2>2, IInvParts DEF Forget, TypeInv, FilesRemoved
  <2> QED
    BY <2>2, <2>3, IInvParts DEF Forget, StepKnows, StopCleared
<1>2. ActiveStopLeavesNothing <=> [][Clean]_vars
  BY DEF ActiveStopLeavesNothing
<1>3. Init => StopCleared
  BY DEF Init, StopCleared
<1> QED
  BY <1>1, <1>2, <1>3, NextKeepsCleared, InductiveInvariant, PTL DEF Spec
=============================================================================
