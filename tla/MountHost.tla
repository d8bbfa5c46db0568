------------------------------ MODULE MountHost ------------------------------
(***************************************************************************)
(* The host side of one volume's staging mount, as the node plugin sees it *)
(* through systemd, /proc, mountinfo and the runtime directory: the        *)
(* transient unit, the launcher and the Drive9 supervisor it executes, the *)
(* FUSE mounts at the staging path, the supervisor's process-state file    *)
(* with its control socket, and the attempt-scoped startup files.          *)
(*                                                                         *)
(* The first part is what the commands of the plugin do, the second what   *)
(* the host does by itself at any time.                                    *)
(***************************************************************************)
EXTENDS Naturals, FiniteSets

CONSTANTS
  Binaries,       \* content-addressed Drive9 binaries
  NoBinary,       \* the launcher has not executed one yet
  MaxAttempts,    \* bound on mount attempts
  MaxProcesses    \* bound on processes the unit ever starts

ASSUME HostAssumption ==
  /\ NoBinary \notin Binaries
  /\ MaxAttempts \in Nat
  /\ MaxProcesses \in Nat

VARIABLES
  unit,       \* the volume's transient unit: state, attempt in its description, MainPID
  procs,      \* live processes of the unit
  mounts,     \* supervisors whose mounts lie at the staging path
  pidfile,    \* supervisor named by the process-state file, 0 without the file
  files,      \* startup files in the runtime directory
  spawned     \* processes started so far; identities are never reused

host == <<unit, procs, mounts, pidfile, files, spawned>>

Attempts == 1 .. MaxAttempts
Identities == 1 .. MaxProcesses

(* Activating and active are alike to the plugin, and so are inactive and  *)
(* failed: the unit runs, has exited, or is unknown to systemd.            *)
Units == [state : {"notfound", "running", "exited"},
          attempt : {0} \union Attempts, main : {0} \union Identities]

NoUnit == [state |-> "notfound", attempt |-> 0, main |-> 0]

(* A process keeps its PID and start time when the launcher executes       *)
(* Drive9.  input: the binary in the argument file that the launcher has   *)
(* read; cleared: it has removed both startup files.                       *)
Processes ==
  [id : Identities, attempt : Attempts, binary : Binaries \union {NoBinary},
   input : Binaries \union {NoBinary}, cleared : BOOLEAN]

Launcher(p, a) ==
  [id |-> p, attempt |-> a, binary |-> NoBinary, input |-> NoBinary, cleared |-> FALSE]

StartupFiles == [kind : {"env", "args"}, attempt : Attempts, binary : Binaries]

HostTypeOK ==
  /\ unit \in Units
  /\ procs \subseteq Processes
  /\ mounts \subseteq Identities
  /\ pidfile \in {0} \union Identities
  /\ files \subseteq StartupFiles
  /\ spawned \in 0 .. MaxProcesses

HostInit ==
  /\ unit = NoUnit
  /\ procs = {}
  /\ mounts = {}
  /\ pidfile = 0
  /\ files = {}
  /\ spawned = 0

Running == unit.state = "running"
Alive(p) == \E q \in procs : q.id = p
IsMountPoint == mounts # {}

-----------------------------------------------------------------------------
(* Commands of the plugin *)

(* publishStartupFile; the same attempt always publishes the same bodies. *)
PublishFile(k, a, b) ==
  /\ files' = files \union {[kind |-> k, attempt |-> a, binary |-> b]}
  /\ UNCHANGED <<unit, procs, mounts, pidfile, spawned>>

(* removeAttemptStartupFiles *)
RemoveStartupFiles(a) ==
  /\ files' = {f \in files : f.attempt # a}
  /\ UNCHANGED <<unit, procs, mounts, pidfile, spawned>>

(* systemd-run refuses a unit name that is loaded. *)
SystemdRun(a) ==
  /\ unit.state = "notfound"
  /\ unit' = [state |-> "running", attempt |-> a, main |-> 0]
  /\ UNCHANGED <<procs, mounts, pidfile, files, spawned>>

(* A process ends.  Drive9 unmounts and drops its process-state file;      *)
(* killed, it may leave either or both.                                    *)
Ends(p) ==
  /\ procs' = {q \in procs : q.id # p}
  /\ mounts' \in {mounts, mounts \ {p}}
  /\ pidfile' \in {pidfile} \union (IF pidfile = p THEN {0} ELSE {})

(* systemctl stop ends the processes of the unit. *)
SystemctlStop ==
  /\ IF Running
     THEN /\ unit' = [unit EXCEPT !.state = "exited", !.main = 0]
          /\ Ends(unit.main)
     ELSE UNCHANGED <<unit, procs, mounts, pidfile>>
  /\ UNCHANGED <<files, spawned>>

(* systemctl reset-failed unloads a failed unit; an inactive one stays     *)
(* until systemd collects it.                                              *)
ResetFailed ==
  /\ unit' \in IF unit.state = "exited" THEN {unit, NoUnit} ELSE {unit}
  /\ UNCHANGED <<procs, mounts, pidfile, files, spawned>>

(* The launcher's host-unmount, and a lazy one if the path is still        *)
(* mounted: one mount goes, or two.                                        *)
KernelUnmount ==
  /\ \E m \in {mounts} \union (SUBSET mounts \ {{}}) :
       mounts' = mounts \ m /\ Cardinality(m) <= 2
  /\ UNCHANGED <<unit, procs, pidfile, files, spawned>>

(* kill -KILL of a verified process; its unit, if any, exits with it. *)
Kill(p) ==
  /\ IF Alive(p) THEN Ends(p) ELSE UNCHANGED <<procs, mounts, pidfile>>
  /\ unit' = IF Running /\ unit.main = p THEN [unit EXCEPT !.state = "exited", !.main = 0]
                                         ELSE unit
  /\ UNCHANGED <<files, spawned>>

(* removeVerifiedDeadRuntimeArtifacts refuses while the staging path is    *)
(* mounted or the process named by the file lives.                         *)
ArtifactsRemovable == ~IsMountPoint /\ ~Alive(pidfile)

ArtifactsKept == pidfile' = pidfile

DropArtifacts == pidfile' = IF ArtifactsRemovable THEN 0 ELSE pidfile

RemoveArtifacts ==
  /\ DropArtifacts
  /\ UNCHANGED <<unit, procs, mounts, files, spawned>>

-----------------------------------------------------------------------------
(* What happens on the host *)

(* The unit starts its main process, the launcher. *)
Fork ==
  /\ Running /\ unit.main = 0
  /\ spawned < MaxProcesses
  /\ spawned' = spawned + 1
  /\ procs' = procs \union {Launcher(spawned + 1, unit.attempt)}
  /\ unit' = [unit EXCEPT !.main = spawned + 1]
  /\ UNCHANGED <<mounts, pidfile, files>>

ForkFails ==
  /\ Running /\ unit.main = 0
  /\ unit' = [unit EXCEPT !.state = "exited"]
  /\ UNCHANGED <<procs, mounts, pidfile, files, spawned>>

StartupFile(k, a) == {f \in files : f.kind = k /\ f.attempt = a}

(* runLauncher: both startup files are read, then removed if they are      *)
(* still there, then the process becomes the Drive9 binary of the argument *)
(* file.  The plugin may move in between.                                  *)
LauncherReads(q) ==
  /\ q.input = NoBinary
  /\ StartupFile("env", q.attempt) # {}
  /\ \E f \in StartupFile("args", q.attempt) :
       procs' = (procs \ {q}) \union {[q EXCEPT !.input = f.binary]}
  /\ UNCHANGED <<unit, mounts, pidfile, files, spawned>>

LauncherRemoves(q) ==
  /\ q.input # NoBinary /\ ~q.cleared
  /\ procs' = (procs \ {q}) \union {[q EXCEPT !.cleared = TRUE]}
  /\ files' = {f \in files : f.attempt # q.attempt}
  /\ UNCHANGED <<unit, mounts, pidfile, spawned>>

LauncherExecs(q) ==
  /\ q.cleared /\ q.binary = NoBinary
  /\ procs' = (procs \ {q}) \union {[q EXCEPT !.binary = q.input]}
  /\ UNCHANGED <<unit, mounts, pidfile, files, spawned>>

(* A launcher that finds no environment file ends; one that finds no       *)
(* argument file removes the environment file first.                       *)
LauncherRefuses(q) ==
  /\ q.input = NoBinary
  /\ \/ StartupFile("env", q.attempt) = {} /\ UNCHANGED files
     \/ /\ StartupFile("env", q.attempt) # {}
        /\ StartupFile("args", q.attempt) = {}
        /\ files' = files \ StartupFile("env", q.attempt)
  /\ procs' = procs \ {q}
  /\ unit' = IF unit.main = q.id THEN [unit EXCEPT !.state = "exited", !.main = 0] ELSE unit
  /\ UNCHANGED <<mounts, pidfile, spawned>>

(* The supervisor writes its process-state file, and its worker mounts, in *)
(* either order: docs/design/csi-rolling-upgrade-mount-survival-v2.md:585  *)
(* has the file written after the mount.                                   *)
Registers(q) ==
  /\ q.binary # NoBinary /\ pidfile # q.id
  /\ pidfile' = q.id
  /\ UNCHANGED <<unit, procs, mounts, files, spawned>>

MountsVolume(q) ==
  /\ q.binary # NoBinary /\ q.id \notin mounts
  /\ mounts' = mounts \union {q.id}
  /\ UNCHANGED <<unit, procs, pidfile, files, spawned>>

(* A process ends by itself; Restart=no. *)
ProcessExits(q) ==
  /\ Ends(q.id)
  /\ unit' = IF Running /\ unit.main = q.id THEN [unit EXCEPT !.state = "exited", !.main = 0]
                                            ELSE unit
  /\ UNCHANGED <<files, spawned>>

(* systemd-run --collect unloads a unit that has ended. *)
Collect ==
  /\ unit.state = "exited"
  /\ unit' = NoUnit
  /\ UNCHANGED <<procs, mounts, pidfile, files, spawned>>

(* Everything on the host but the durable state is gone; the runtime       *)
(* directory is on tmpfs.                                                  *)
HostRebooted ==
  /\ unit' = NoUnit
  /\ procs' = {}
  /\ mounts' = {}
  /\ pidfile' = 0
  /\ files' = {}
  /\ UNCHANGED spawned

(* Faults of single parts: a supervisor outlives its unit, its process-    *)
(* state file and socket are deleted, its mount is taken away.             *)
UnitLost ==
  /\ Running /\ unit.main \in mounts
  /\ unit' = NoUnit
  /\ UNCHANGED <<procs, mounts, pidfile, files, spawned>>

ArtifactsLost ==
  /\ Alive(pidfile) /\ pidfile \in mounts
  /\ pidfile' = 0
  /\ UNCHANGED <<unit, procs, mounts, files, spawned>>

MountLost ==
  /\ Alive(pidfile) /\ pidfile \in mounts
  /\ mounts' = mounts \ {pidfile}
  /\ UNCHANGED <<unit, procs, pidfile, files, spawned>>

(* systemd and the launcher *)
UnitStep ==
  \/ Fork \/ ForkFails \/ Collect
  \/ \E q \in procs :
       LauncherReads(q) \/ LauncherRemoves(q) \/ LauncherExecs(q) \/ LauncherRefuses(q)

SupervisorStep == \E q \in procs : Registers(q) \/ MountsVolume(q)

PartLost == UnitLost \/ ArtifactsLost \/ MountLost
=============================================================================
