---------------------------- MODULE VolumeRegistry ----------------------------
(***************************************************************************)
(* The controller service for managed-directory volumes.  CreateVolume and *)
(* DeleteVolume keep no state of their own and take no lock: what exists   *)
(* is in the Drive9 workspace, as a name index entry, a directory with a   *)
(* marker in it and an index entry, which they read and write by one HTTP  *)
(* request after another.  Any request may fail, applied or not, and the   *)
(* caller may give up on a call whose last write still arrives later.      *)
(*                                                                         *)
(* A volume is its remote root, which the prefix and the name determine;   *)
(* the volume ID and the content of a marker follow from it.               *)
(***************************************************************************)
EXTENDS Naturals, FiniteSets

CONSTANTS
  Names,       \* CSI volume names
  Prefixes,    \* remoteRootPrefix parameters
  NoVolume,
  Handlers,    \* calls that the controller runs at a time
  MaxLate,     \* bound on calls given up while their last write is on its way
  MaxFaults    \* bound on failed requests and on interference by users

Volumes == Names \X Prefixes
NameOf(v) == v[1]

ASSUME RegistryAssumption ==
  /\ NoVolume \notin Volumes
  /\ MaxLate \in Nat
  /\ MaxFaults \in Nat

VARIABLES
  name,      \* name index: the volume that owns a name
  dir,       \* volumes whose remote root exists
  marker,    \* volumes whose remote root holds the marker
  index,     \* volumes with an index entry
  call,      \* the call each handler executes
  status,    \* what the caller has asked for and been told of each volume
  touched,   \* volumes whose remote root a user has removed
  late,      \* calls given up so far
  faults

workspace == <<name, dir, marker, index>>
client == <<status, touched, late, faults>>
vars == <<workspace, call, client>>

Reads == {"checkName", "nameExists", "matchName", "rootExists", "readMarker",
          "indexExists", "matchIndex", "readIndex", "rootFound", "readOwner"}

Writes == {"writeName", "makeRoot", "writeMarker", "writeIndex",
           "dropName", "dropIndex", "dropMarker"}

(* root: DeleteVolume has found the directory.  given: the caller has      *)
(* given the call up.                                                      *)
Calls == [op : {"create", "delete"}, vol : Volumes, pc : Reads \union Writes,
          root : BOOLEAN, given : BOOLEAN]

NoCall == [op |-> "none", vol |-> NoVolume, pc |-> "idle", root |-> FALSE, given |-> FALSE]

TypeOK ==
  /\ name \in [Names -> Volumes \union {NoVolume}]
  /\ dir \subseteq Volumes
  /\ marker \subseteq Volumes
  /\ index \subseteq Volumes
  /\ call \in [Handlers -> Calls \union {NoCall}]
  /\ status \in [Volumes -> {"none", "wanted", "provisioned", "unwanted", "deleted"}]
  /\ touched \subseteq Volumes
  /\ late \in 0 .. MaxLate
  /\ faults \in 0 .. MaxFaults

Init ==
  /\ name = [n \in Names |-> NoVolume]
  /\ dir = {}
  /\ marker = {}
  /\ index = {}
  /\ call = [h \in Handlers |-> NoCall]
  /\ status = [v \in Volumes |-> "none"]
  /\ touched = {}
  /\ late = 0
  /\ faults = 0

-----------------------------------------------------------------------------
(* The caller, external-provisioner: one call per name at a time, repeated *)
(* until it succeeds.                                                      *)

Others(v) == {u \in Volumes : NameOf(u) = NameOf(v) /\ u # v}

NameIdle(n) ==
  \A h \in Handlers : call[h].pc # "idle" /\ NameOf(call[h].vol) = n => call[h].given

(* Handlers are interchangeable: any idle one will do. *)
Idle == {h \in Handlers : call[h] = NoCall}

Start(h, op, step, v) ==
  /\ h \in Idle /\ h = CHOOSE g \in Idle : TRUE
  /\ NameIdle(NameOf(v))
  /\ call' = [call EXCEPT ![h] = [NoCall EXCEPT !.op = op, !.vol = v, !.pc = step]]
  /\ UNCHANGED <<workspace, touched, late, faults>>

(* A name is provisioned again after its volume was deleted, with other    *)
(* parameters maybe, only when no call has been given up: what such a call *)
(* has under way may arrive after the delete and occupy the name.          *)
CallCreate(h, v) ==
  /\ \/ status[v] = "wanted"
     \/ /\ status[v] = "none" \/ (status[v] = "deleted" /\ late = 0)
        /\ \A u \in Others(v) : status[u] = "none" \/ (status[u] = "deleted" /\ late = 0)
  /\ Start(h, "create", "checkName", v)
  /\ status' = [status EXCEPT ![v] = "wanted"]

(* resolveDeleteCredentials needs the persistent volume, which exists once *)
(* CreateVolume has succeeded.                                             *)
CallDelete(h, v) ==
  /\ status[v] \in {"provisioned", "unwanted"}
  /\ Start(h, "delete", "readIndex", v)
  /\ status' = [status EXCEPT ![v] = "unwanted"]

-----------------------------------------------------------------------------
(* Shapes of steps.  A handler goes on at a step, fails, or succeeds and   *)
(* the caller that still waits learns of it.  A call that was given up has *)
(* a cancelled context: it ends after the request on its way.              *)

Vol(h) == call[h].vol
At(h, step) == call[h].pc = step

Fails(h) == call' = [call EXCEPT ![h] = NoCall] /\ UNCHANGED status

Succeeds(h) ==
  /\ call' = [call EXCEPT ![h] = NoCall]
  /\ status' = IF call[h].given THEN status
               ELSE [status EXCEPT ![Vol(h)] =
                       IF call[h].op = "create" THEN "provisioned" ELSE "deleted"]

Goes(h, step) ==
  IF call[h].given THEN Fails(h)
  ELSE call' = [call EXCEPT ![h].pc = step] /\ UNCHANGED status

Read(h, step) == At(h, step) /\ ~call[h].given /\ UNCHANGED <<workspace, touched, late, faults>>
Write(h, step) == At(h, step) /\ UNCHANGED <<touched, late, faults>>

(* The effect of each write: PUT replaces, mkdir and DELETE accept that    *)
(* there is nothing to do.  The marker is in the directory.                *)
Applied(v, step) ==
  CASE step = "writeName" -> name' = [name EXCEPT ![NameOf(v)] = v] /\ UNCHANGED <<dir, marker, index>>
    [] step = "dropName" ->
         name' = [name EXCEPT ![NameOf(v)] = NoVolume] /\ UNCHANGED <<dir, marker, index>>
    [] step = "makeRoot" -> dir' = dir \union {v} /\ UNCHANGED <<name, marker, index>>
    [] step = "writeMarker" ->
         marker' = marker \union {v} /\ dir' = dir \union {v} /\ UNCHANGED <<name, index>>
    [] step = "dropMarker" -> marker' = marker \ {v} /\ UNCHANGED <<name, dir, index>>
    [] step = "writeIndex" -> index' = index \union {v} /\ UNCHANGED <<name, dir, marker>>
    [] step = "dropIndex" -> index' = index \ {v} /\ UNCHANGED <<name, dir, marker>>

-----------------------------------------------------------------------------
(* createManagedDirectoryVolume *)

(* validateVolumeNameIndex *)
CheckName(h) ==
  /\ Read(h, "checkName")
  /\ IF name[NameOf(Vol(h))] \in {NoVolume, Vol(h)} THEN Goes(h, "nameExists") ELSE Fails(h)

(* upsertIndex of the name: HEAD, then GET and compare, or PUT *)
NameExists(h) ==
  /\ Read(h, "nameExists")
  /\ Goes(h, IF name[NameOf(Vol(h))] = NoVolume THEN "writeName" ELSE "matchName")

MatchName(h) ==
  /\ Read(h, "matchName")
  /\ IF name[NameOf(Vol(h))] = Vol(h) THEN Goes(h, "rootExists") ELSE Fails(h)

WriteName(h) ==
  /\ Write(h, "writeName")
  /\ Applied(Vol(h), "writeName")
  /\ Goes(h, "rootExists")

RootExists(h) ==
  /\ Read(h, "rootExists")
  /\ Goes(h, IF Vol(h) \in dir THEN "readMarker" ELSE "makeRoot")

AdoptUnmarked(h) ==
  /\ Read(h, "readMarker")
  /\ Goes(h, "indexExists")

RefuseUnmarked(h) ==
  /\ Read(h, "readMarker")
  /\ IF Vol(h) \in marker THEN Goes(h, "indexExists") ELSE Fails(h)

(* A directory without a marker is adopted; a marker in this directory is  *)
(* this volume's.                                                          *)
ReadMarker(h) ==
  /\ Read(h, "readMarker")
  /\ Goes(h, IF Vol(h) \in marker THEN "indexExists" ELSE "writeMarker")

MakeRoot(h) ==
  /\ Write(h, "makeRoot")
  /\ Applied(Vol(h), "makeRoot")
  /\ Goes(h, "writeMarker")

WriteMarker(h) ==
  /\ Write(h, "writeMarker")
  /\ Applied(Vol(h), "writeMarker")
  /\ Goes(h, "indexExists")

IndexExists(h) ==
  /\ Read(h, "indexExists")
  /\ Goes(h, IF Vol(h) \in index THEN "matchIndex" ELSE "writeIndex")

(* validateMarker of the index fails if it is gone by then. *)
MatchIndex(h) ==
  /\ Read(h, "matchIndex")
  /\ IF Vol(h) \in index THEN Succeeds(h) ELSE Fails(h)

WriteIndex(h) ==
  /\ Write(h, "writeIndex")
  /\ Applied(Vol(h), "writeIndex")
  /\ Succeeds(h)

-----------------------------------------------------------------------------
(* DeleteVolume *)

ReadIndexUnchecked(h) ==
  /\ Read(h, "readIndex")
  /\ call' = [call EXCEPT ![h].pc = "rootFound", ![h].vol = IF @ \in index THEN @ ELSE NoVolume]
  /\ UNCHANGED status

(* Without an index entry there is nothing left to delete. *)
ReadIndex(h) ==
  /\ Read(h, "readIndex")
  /\ IF Vol(h) \in index THEN Goes(h, "rootFound") ELSE Succeeds(h)

RootRequired(h) ==
  /\ Read(h, "rootFound")
  /\ IF Vol(h) \in dir
     THEN call' = [call EXCEPT ![h].root = TRUE, ![h].pc = "readOwner"] /\ UNCHANGED status
     ELSE Fails(h)

(* Without a directory only the entries are removed. *)
RootFound(h) ==
  /\ Read(h, "rootFound")
  /\ call' = [call EXCEPT ![h].root = Vol(h) \in dir,
                          ![h].pc = IF Vol(h) \in dir THEN "readOwner" ELSE "dropName"]
  /\ UNCHANGED status

(* A marker in the directory is this volume's, a missing one is no         *)
(* obstacle.                                                               *)
ReadOwner(h) ==
  /\ Read(h, "readOwner")
  /\ Goes(h, "dropName")

DropName(h) ==
  /\ Write(h, "dropName")
  /\ Applied(Vol(h), "dropName")
  /\ Goes(h, "dropIndex")

DropIndex(h) ==
  /\ Write(h, "dropIndex")
  /\ Applied(Vol(h), "dropIndex")
  /\ IF call[h].root THEN Goes(h, "dropMarker") ELSE Succeeds(h)

DropMarker(h) ==
  /\ Write(h, "dropMarker")
  /\ Applied(Vol(h), "dropMarker")
  /\ Succeeds(h)

Step(h) ==
  \/ CheckName(h) \/ NameExists(h) \/ MatchName(h) \/ WriteName(h)
  \/ RootExists(h) \/ ReadMarker(h) \/ MakeRoot(h) \/ WriteMarker(h)
  \/ IndexExists(h) \/ MatchIndex(h) \/ WriteIndex(h)
  \/ ReadIndex(h) \/ RootFound(h) \/ ReadOwner(h)
  \/ DropName(h) \/ DropIndex(h) \/ DropMarker(h)

-----------------------------------------------------------------------------
(* Faults *)

Faulty == faults < MaxFaults /\ faults' = faults + 1

NameFailureIgnored(h) ==
  /\ call[h] # NoCall
  /\ Faulty
  /\ UNCHANGED workspace \/ (call[h].pc \in Writes /\ Applied(Vol(h), call[h].pc))
  /\ CASE At(h, "dropMarker") -> Fails(h) \/ Succeeds(h)
       [] At(h, "dropName") -> Goes(h, "dropIndex")
       [] OTHER -> Fails(h)
  /\ UNCHANGED <<touched, late>>

(* A request fails, times out or finds the server overloaded, or the       *)
(* controller ends.  A write may have been applied.  Only the removal of   *)
(* the marker is not taken for a failure of the call.                      *)
RequestFails(h) ==
  /\ call[h] # NoCall
  /\ Faulty
  /\ UNCHANGED workspace \/ (call[h].pc \in Writes /\ Applied(Vol(h), call[h].pc))
  /\ Fails(h) \/ (call[h].pc = "dropMarker" /\ Succeeds(h))
  /\ UNCHANGED <<touched, late>>

(* The caller's deadline passes, or it is replaced by a new leader, while  *)
(* a write is on its way.                                                  *)
GivenUp(h) ==
  /\ call[h].pc \in Writes /\ ~call[h].given
  /\ late < MaxLate
  /\ late' = late + 1
  /\ call' = [call EXCEPT ![h].given = TRUE]
  /\ UNCHANGED <<workspace, status, touched, faults>>

(* A user of the workspace removes the directory. *)
UserRemovesRoot(v) ==
  /\ v \in dir
  /\ Faulty
  /\ dir' = dir \ {v}
  /\ marker' = marker \ {v}
  /\ touched' = touched \union {v}
  /\ UNCHANGED <<name, index, call, status, late>>

Next ==
  \/ \E h \in Handlers : Step(h) \/ RequestFails(h) \/ GivenUp(h)
  \/ \E h \in Handlers, v \in Volumes : CallCreate(h, v) \/ CallDelete(h, v)
  \/ \E v \in Volumes : UserRemovesRoot(v)

(* Handlers run; external-provisioner repeats a call that has failed. *)
Retry(v) ==
  \E h \in Handlers :
    \/ status[v] = "wanted" /\ CallCreate(h, v)
    \/ status[v] = "unwanted" /\ CallDelete(h, v)

Fairness ==
  /\ \A h \in Handlers : WF_vars(Step(h))
  /\ \A v \in Volumes : SF_vars(Retry(v))

Spec == Init /\ [][Next]_vars
FairSpec == Spec /\ Fairness

-----------------------------------------------------------------------------
(* Properties *)

(* A volume that CreateVolume has reported, and whose deletion has not     *)
(* begun, is complete: it owns its name, DeleteVolume will find it, and    *)
(* unless a user removed its directory NodeStageVolume accepts its marker  *)
(* (validateRemoteVolumeMarker).                                           *)
ProvisionedIsComplete ==
  \A v \in Volumes : status[v] = "provisioned" =>
    /\ name[NameOf(v)] = v
    /\ v \in index
    /\ v \notin touched => v \in dir /\ v \in marker

(* A volume that DeleteVolume has reported deleted owns neither its name   *)
(* nor an index entry, however many of its requests failed before: the     *)
(* name index goes first, so that a retry still finds the index.  (Writes  *)
(* of calls that were given up may put them back.)                         *)
DeletedIsFree ==
  late = 0 =>
    \A v \in Volumes : status[v] = "deleted" => name[NameOf(v)] # v /\ v \notin index

(* A repeated CreateVolume and a repeated DeleteVolume get done, whatever  *)
(* earlier failed attempts have left in the workspace.                     *)
CreateEnds == \A v \in Volumes : status[v] = "wanted" ~> status[v] = "provisioned"
DeleteEnds == \A v \in Volumes : status[v] = "unwanted" ~> status[v] = "deleted"
=============================================================================
