------------------------ MODULE PluginLifecycleProofs ------------------------
(***************************************************************************)
(* Proofs about PluginLifecycle, for any sets of volumes and handlers and  *)
(* any bound on faults.                                                    *)
(*                                                                         *)
(* What a handler or the recovery does to a volume it does while it holds  *)
(* the volume's mutex (LockHeld), although processes end, calls are        *)
(* cancelled and commands hang at any time.  From that and from what each  *)
(* operation makes of a stopped volume follows that only a stage revives   *)
(* one.                                                                    *)
(***************************************************************************)
EXTENDS PluginLifecycle, TLAPS

(* A handler at work holds the mutex of its volume. *)
HandlerHolds ==
  \A h \in Handlers : rpc[h].step \in {"work", "answer"} => holder[rpc[h].vol] = h

(* So does the recovery at work, and it works on a volume. *)
RecoveryHolds ==
  /\ pass.step \in {"lock", "work", "release"} => pass.vol \in Volumes
  /\ pass.step \in {"work", "release"} => holder[pass.vol] = Recovery

LockHeld == TypeOK /\ HandlerHolds /\ RecoveryHolds

-----------------------------------------------------------------------------
LEMMA NoCallIsNone ==
  /\ NoCall \notin Calls
  /\ NoCall.step = "none"
  /\ \A c \in Calls : c.vol \in Volumes /\ c.step \in {"lock", "work", "answer"}
BY DEF NoCall, Calls

LEMMA NoPassIsOff == NoPass \in Passes /\ NoPass.step = "off"
BY DEF NoPass, Passes, Records

LEMMA InitLockHeld == Init => LockHeld
<1> SUFFICES ASSUME Init PROVE LockHeld
  OBVIOUS
<1>1. TypeOK
  BY NoPassIsOff, LifecycleAssumption DEF Init, TypeOK, Levels
<1> QED
  BY <1>1, NoPassIsOff, NoCallIsNone DEF Init, LockHeld, HandlerHolds, RecoveryHolds

(* Whatever ends the process leaves no holder and nobody at work. *)
LEMMA ProcessGoneKeeps ==
  ASSUME LockHeld, ProcessGone, socket' \in {"none", "stale", "open"},
         faults' \in 0 .. MaxFaults
  PROVE  LockHeld'
BY NoPassIsOff, NoCallIsNone DEF ProcessGone, LockHeld, TypeOK, HandlerHolds, RecoveryHolds

(* Faults are counted up to their bound. *)
LEMMA FaultyCounts == TypeOK /\ Faulty => faults' \in 0 .. MaxFaults
BY LifecycleAssumption DEF TypeOK, Faulty

(* What an operation makes of a record is a record. *)
LEMMA OutcomesAreRecords ==
  ASSUME NEW r \in Records
  PROVE  StageOutcomes(r) \subseteq Records /\ UnstageOutcomes(r) \subseteq Records
         /\ RecoverOutcomes(r) \subseteq Records
BY DEF StageOutcomes, UnstageOutcomes, RecoverOutcomes, Records

(* Neither an unstage nor the recovery revives a stopped volume. *)
LEMMA OnlyStageRevives ==
  ASSUME NEW r \in {"none", "stopping"}, NEW s
  PROVE  s \in UnstageOutcomes(r) \/ s \in RecoverOutcomes(r) => s \in {"none", "stopping"}
BY DEF UnstageOutcomes, RecoverOutcomes

-----------------------------------------------------------------------------
(* The steps of the process, of the recovery and of a handler keep the     *)
(* discipline of the mutexes.                                              *)

LEMMA ProcessKeeps ==
  ASSUME LockHeld,
         \/ Start \/ Preflight \/ Listen \/ StartFails
         \/ Terminate \/ DrainTimeout \/ Exit \/ GracePeriodEnds \/ Killed
  PROVE  LockHeld'
<1> USE DEF LockHeld
<1>1. CASE Start
  BY <1>1 DEF Start, TypeOK, HandlerHolds, RecoveryHolds
<1>2. CASE Preflight
  <2>1. caps' \in Levels /\ faults' \in 0 .. MaxFaults
    BY <1>2, FaultyCounts DEF Preflight, TypeOK, Levels, Launch
  <2> QED
    BY <1>2, <2>1 DEF Preflight, TypeOK, HandlerHolds, RecoveryHolds
<1>3. CASE Listen
  <2>1. pass' \in Passes /\ pass'.step = "list"
    BY <1>3 DEF Listen, NoPass, Passes, Records
  <2> QED
    BY <1>3, <2>1 DEF Listen, TypeOK, HandlerHolds, RecoveryHolds
<1>4. CASE StartFails
  BY <1>4, FaultyCounts DEF StartFails, TypeOK, HandlerHolds, RecoveryHolds
<1>5. CASE Terminate
  <2>1. pass' \in Passes /\ pass'.step = pass.step /\ pass'.vol = pass.vol
    BY <1>5 DEF Terminate, TypeOK, Passes
  <2> QED
    BY <1>5, <2>1 DEF Terminate, TypeOK, HandlerHolds, RecoveryHolds
<1>6. CASE DrainTimeout
  <2>1. \A h \in Handlers : /\ rpc'[h] \in Calls \union {NoCall}
                            /\ rpc'[h].step = rpc[h].step /\ rpc'[h].vol = rpc[h].vol
    BY <1>6 DEF DrainTimeout, TypeOK, Calls
  <2>2. rpc' \in [Handlers -> Calls \union {NoCall}]
    BY <1>6, <2>1 DEF DrainTimeout
  <2> QED
    BY <1>6, <2>1, <2>2 DEF DrainTimeout, TypeOK, HandlerHolds, RecoveryHolds
<1>7. CASE Exit
  BY <1>7, ProcessGoneKeeps DEF Exit, TypeOK
<1>8. CASE GracePeriodEnds
  BY <1>8, ProcessGoneKeeps DEF GracePeriodEnds, TypeOK
<1>9. CASE Killed
  BY <1>9, ProcessGoneKeeps, FaultyCounts DEF Killed, TypeOK
<1> QED
  BY <1>1, <1>2, <1>3, <1>4, <1>5, <1>6, <1>7, <1>8, <1>9

LEMMA RecoveryKeeps ==
  ASSUME LockHeld, RecoveryStep \/ RecoveryHangsUp
  PROVE  LockHeld'
<1> USE DEF LockHeld
<1>1. CASE ListRecords
  <2>1. pass' \in Passes /\ pass'.step = "next"
    BY <1>1 DEF ListRecords, TypeOK, Passes
  <2> QED
    BY <1>1, <2>1 DEF ListRecords, TypeOK, volatile, HandlerHolds, RecoveryHolds
<1>2. CASE NextVolume
  <2>1. CASE pass.cancelled \/ pass.left = {}
    <3>1. pass' = [NoPass EXCEPT !.step = "done", !.cancelled = pass.cancelled]
      BY <1>2, <2>1 DEF NextVolume
    <3>2. pass.cancelled \in BOOLEAN
      BY DEF TypeOK, Passes
    <3>3. pass' \in Passes /\ pass'.step = "done"
      BY <3>1, <3>2 DEF Passes, NoPass, Records
    <3> QED
      BY <1>2, <3>3 DEF NextVolume, TypeOK, volatile, HandlerHolds, RecoveryHolds
  <2>2. CASE ~(pass.cancelled \/ pass.left = {})
    <3>1. PICK v \in pass.left :
            pass' = [pass EXCEPT !.step = "lock", !.vol = v, !.left = @ \ {v}]
      BY <1>2, <2>2 DEF NextVolume
    <3>2. pass' \in Passes /\ pass'.step = "lock" /\ pass'.vol \in Volumes
      BY <3>1 DEF TypeOK, Passes
    <3> QED
      BY <1>2, <3>2 DEF NextVolume, TypeOK, volatile, HandlerHolds, RecoveryHolds
  <2> QED
    BY <2>1, <2>2
<1>3. CASE RecoveryLocks
  <2>1. /\ pass' \in Passes /\ pass'.vol = pass.vol /\ pass.vol \in Volumes
        /\ holder[pass.vol] = Nobody
        /\ holder' = [holder EXCEPT ![pass.vol] = Recovery]
    BY <1>3 DEF RecoveryLocks, TypeOK, Passes, RecoveryHolds
  <2>2. HandlerHolds'
    BY <1>3, <2>1, LifecycleAssumption, NoCallIsNone DEF RecoveryLocks, HandlerHolds, TypeOK
  <2>3. RecoveryHolds'
    BY <2>1 DEF RecoveryHolds, TypeOK
  <2> QED
    BY <1>3, <2>1, <2>2, <2>3 DEF RecoveryLocks, TypeOK, volatile
<1>4. CASE RecoverOneNodeMount
  <2>1. /\ pass' \in Passes /\ pass'.vol = pass.vol /\ pass.vol \in Volumes
        /\ holder[pass.vol] = Recovery
    BY <1>4 DEF RecoverOneNodeMount, TypeOK, Passes, RecoveryHolds, Records
  <2>2. record' \in [Volumes -> Records]
    BY <1>4, <2>1, OutcomesAreRecords DEF RecoverOneNodeMount, TypeOK
  <2> QED
    BY <1>4, <2>1, <2>2 DEF RecoverOneNodeMount, TypeOK, volatile, HandlerHolds, RecoveryHolds
<1>5. CASE RecoveryReleases
  <2>1. /\ pass' \in Passes /\ pass'.step = "next" /\ pass.vol \in Volumes
        /\ holder[pass.vol] = Recovery
        /\ holder' = [holder EXCEPT ![pass.vol] = Nobody]
    BY <1>5 DEF RecoveryReleases, TypeOK, Passes, RecoveryHolds
  <2>2. HandlerHolds'
    BY <1>5, <2>1, LifecycleAssumption, NoCallIsNone DEF RecoveryReleases, HandlerHolds, TypeOK
  <2> QED
    BY <1>5, <2>1, <2>2 DEF RecoveryReleases, TypeOK, volatile, RecoveryHolds
<1>6. CASE RecoveryHangsUp
  <2>1. pass' \in Passes /\ pass'.vol = pass.vol /\ pass'.step = pass.step
    BY <1>6 DEF RecoveryHangsUp, TypeOK, Passes
  <2> QED
    BY <1>6, <2>1, FaultyCounts DEF RecoveryHangsUp, TypeOK, volatile, HandlerHolds, RecoveryHolds
<1> QED
  BY <1>1, <1>2, <1>3, <1>4, <1>5, <1>6 DEF RecoveryStep

LEMMA HandlerKeeps ==
  ASSUME LockHeld, NEW h \in Handlers,
         \/ \E v \in Volumes : Call(h, "stage", v) \/ Call(h, "unstage", v)
         \/ Lock(h) \/ Work(h) \/ Answer(h) \/ HandlerHangs(h) \/ Deadline(h)
  PROVE  LockHeld'
<1> USE DEF LockHeld
<1>1. ASSUME NEW v \in Volumes, NEW op \in {"stage", "unstage"}, Call(h, op, v)
      PROVE  LockHeld'
  <2>1. rpc' \in [Handlers -> Calls \union {NoCall}] /\ rpc'[h].step = "lock"
        /\ \A g \in Handlers \ {h} : rpc'[g] = rpc[g]
    BY <1>1 DEF Call, TypeOK, Calls, NoCall
  <2> QED
    BY <1>1, <2>1 DEF Call, TypeOK, volatile, HandlerHolds, RecoveryHolds
<1>2. CASE Lock(h)
  <2>1. /\ rpc[h] \in Calls /\ rpc[h].vol \in Volumes /\ holder[rpc[h].vol] = Nobody
        /\ rpc' \in [Handlers -> Calls \union {NoCall}]
        /\ rpc'[h].vol = rpc[h].vol
        /\ \A g \in Handlers \ {h} : rpc'[g] = rpc[g]
    BY <1>2, NoCallIsNone DEF Lock, TypeOK, Calls
  <2>2. HandlerHolds'
    BY <1>2, <2>1, LifecycleAssumption, NoCallIsNone DEF Lock, HandlerHolds, TypeOK
  <2>3. RecoveryHolds'
    BY <1>2, <2>1, LifecycleAssumption DEF Lock, RecoveryHolds, TypeOK
  <2> QED
    BY <1>2, <2>1, <2>2, <2>3 DEF Lock, TypeOK, volatile
<1>3. CASE Work(h)
  <2>0. rpc[h] \in Calls /\ rpc[h].vol \in Volumes /\ holder[rpc[h].vol] = h
    BY <1>3, NoCallIsNone DEF Work, TypeOK, HandlerHolds
  <2>1. /\ rpc' \in [Handlers -> Calls \union {NoCall}]
        /\ rpc'[h].vol = rpc[h].vol
        /\ \A g \in Handlers \ {h} : rpc'[g] = rpc[g]
    <3>1. rpc' = [rpc EXCEPT ![h] = [rpc[h] EXCEPT !.step = "answer", !.hung = FALSE]]
      BY <1>3 DEF Work, TypeOK
    <3>2. [rpc[h] EXCEPT !.step = "answer", !.hung = FALSE] \in Calls
          /\ [rpc[h] EXCEPT !.step = "answer", !.hung = FALSE].vol = rpc[h].vol
      BY <2>0 DEF Calls
    <3> QED
      BY <3>1, <3>2 DEF TypeOK
  <2>2. record' \in [Volumes -> Records]
    BY <1>3, <2>0, OutcomesAreRecords DEF Work, TypeOK
  <2> QED
    BY <1>3, <2>0, <2>1, <2>2 DEF Work, TypeOK, volatile, HandlerHolds, RecoveryHolds
<1>4. CASE Answer(h)
  <2>1. /\ rpc[h] \in Calls /\ rpc[h].vol \in Volumes /\ holder[rpc[h].vol] = h
        /\ rpc' = [rpc EXCEPT ![h] = NoCall]
    BY <1>4, NoCallIsNone DEF Answer, TypeOK, HandlerHolds
  <2>2. HandlerHolds'
    BY <1>4, <2>1, NoCallIsNone DEF Answer, HandlerHolds, TypeOK
  <2>3. RecoveryHolds'
    BY <1>4, <2>1, LifecycleAssumption DEF Answer, RecoveryHolds, TypeOK
  <2> QED
    BY <1>4, <2>1, <2>2, <2>3 DEF Answer, TypeOK, volatile
<1>5. CASE HandlerHangs(h)
  <2>1. /\ rpc' \in [Handlers -> Calls \union {NoCall}]
        /\ \A g \in Handlers : rpc'[g].step = rpc[g].step /\ rpc'[g].vol = rpc[g].vol
    <3> DEFINE c == [rpc[h] EXCEPT !.hung = TRUE]
    <3>1. rpc[h] \in Calls
      BY <1>5, NoCallIsNone DEF HandlerHangs, TypeOK
    <3>2. c \in Calls /\ c.step = rpc[h].step /\ c.vol = rpc[h].vol
      BY <3>1 DEF Calls
    <3>3. rpc' = [rpc EXCEPT ![h] = c]
      BY <1>5 DEF HandlerHangs
    <3> HIDE DEF c
    <3> QED
      BY <3>2, <3>3 DEF TypeOK
  <2>2. TypeOK'
    BY <1>5, <2>1, FaultyCounts DEF HandlerHangs, TypeOK, volatile
  <2> QED
    BY <1>5, <2>1, <2>2 DEF HandlerHangs, HandlerHolds, RecoveryHolds
<1>6. CASE Deadline(h)
  <2>1. /\ rpc' \in [Handlers -> Calls \union {NoCall}]
        /\ \A g \in Handlers : rpc'[g].step = rpc[g].step /\ rpc'[g].vol = rpc[g].vol
    <3> DEFINE c == [rpc[h] EXCEPT !.cancelled = TRUE]
    <3>1. rpc[h] \in Calls
      BY <1>6 DEF Deadline, TypeOK
    <3>2. c \in Calls /\ c.step = rpc[h].step /\ c.vol = rpc[h].vol
      BY <3>1 DEF Calls
    <3>3. rpc' = [rpc EXCEPT ![h] = c]
      BY <1>6 DEF Deadline
    <3> HIDE DEF c
    <3> QED
      BY <3>2, <3>3 DEF TypeOK
  <2>2. TypeOK'
    BY <1>6, <2>1 DEF Deadline, TypeOK, volatile
  <2> QED
    BY <1>6, <2>1, <2>2 DEF Deadline, HandlerHolds, RecoveryHolds
<1> QED
  BY <1>1, <1>2, <1>3, <1>4, <1>5, <1>6

LEMMA NextKeeps == LockHeld /\ [Next]_vars => LockHeld'
<1> SUFFICES ASSUME LockHeld, [Next]_vars PROVE LockHeld'
  OBVIOUS
<1>1. CASE \/ Start \/ Preflight \/ Listen \/ StartFails
           \/ Terminate \/ DrainTimeout \/ Exit \/ GracePeriodEnds \/ Killed
  BY <1>1, ProcessKeeps
<1>2. CASE RecoveryStep \/ RecoveryHangsUp
  BY <1>2, RecoveryKeeps
<1>3. ASSUME NEW h \in Handlers,
             \/ \E v \in Volumes : Call(h, "stage", v) \/ Call(h, "unstage", v)
             \/ Lock(h) \/ Work(h) \/ Answer(h) \/ HandlerHangs(h) \/ Deadline(h)
      PROVE  LockHeld'
  BY <1>3, HandlerKeeps
<1>4. CASE MountBreaks
  BY <1>4, FaultyCounts
     DEF MountBreaks, LockHeld, TypeOK, volatile, HandlerHolds, RecoveryHolds, Records
<1>5. CASE UNCHANGED vars
  BY <1>5 DEF vars, volatile, LockHeld, TypeOK, HandlerHolds, RecoveryHolds
<1> QED
  BY <1>1, <1>2, <1>3, <1>4, <1>5 DEF Next

-----------------------------------------------------------------------------
(* Whoever works on a volume, a handler or the recovery pass, holds its    *)
(* mutex from lockVolume to the release, through kills, restarts, hangs    *)
(* and cancelled contexts.                                                 *)
THEOREM MutexesAreHeld == Spec => []LockHeld
BY InitLockHeld, NextKeeps, PTL DEF Spec

(* The variables of Run, of its handlers and of its recovery keep their    *)
(* types.                                                                  *)
THEOREM TypeCorrect == Spec => []TypeOK
<1>1. LockHeld => TypeOK
  BY DEF LockHeld
<1> QED
  BY <1>1, MutexesAreHeld, PTL

(* No two of the handlers and the recovery are at work on one volume at a  *)
(* time (lockVolume).                                                      *)
OneAtWork ==
  /\ \A g, h \in Handlers :
       /\ rpc[g].step \in {"work", "answer"} /\ rpc[h].step \in {"work", "answer"}
       /\ rpc[g].vol = rpc[h].vol
       => g = h
  /\ \A h \in Handlers :
       rpc[h].step \in {"work", "answer"} /\ pass.step \in {"work", "release"} =>
         rpc[h].vol # pass.vol

(* Handlers and recovery exclude each other on every volume. *)
THEOREM VolumesAreExclusive == Spec => []OneAtWork
<1>1. LockHeld => OneAtWork
  BY LifecycleAssumption DEF LockHeld, HandlerHolds, RecoveryHolds, OneAtWork
<1> QED
  BY <1>1, MutexesAreHeld, PTL

(* A step that takes a stopped volume up again is the work of a stage that *)
(* holds its mutex.                                                        *)
LEMMA RevivalIsStage ==
  ASSUME LockHeld, [Next]_vars, NEW v \in Volumes,
         record[v] \in {"none", "stopping"}, record'[v] \in {"starting", "up"}
  PROVE  \E h \in Handlers : holder[v] = h /\ rpc[h].op = "stage" /\ rpc[h].vol = v
<1>1. record' # record
  OBVIOUS
<1>2. ~RecoverOneNodeMount
  <2> SUFFICES ASSUME RecoverOneNodeMount PROVE FALSE
    OBVIOUS
  <2>1. pass.vol \in Volumes
    BY DEF RecoverOneNodeMount, LockHeld, RecoveryHolds
  <2>2. PICK r \in RecoverOutcomes(record[pass.vol]) : record' = [record EXCEPT ![pass.vol] = r]
    BY DEF RecoverOneNodeMount
  <2>3. pass.vol = v /\ record'[v] = r
    BY <2>1, <2>2 DEF LockHeld, TypeOK
  <2> QED
    BY <2>2, <2>3, OnlyStageRevives
<1>3. ~MountBreaks
  BY DEF MountBreaks, LockHeld, TypeOK
<1>4. \E h \in Handlers : Work(h)
  BY <1>1, <1>2, <1>3
     DEF Next, Start, Preflight, Listen, StartFails, Terminate, DrainTimeout, Exit,
         GracePeriodEnds, Killed, ProcessGone, RecoveryStep, RecoveryHangsUp, ListRecords,
         NextVolume, RecoveryLocks, RecoveryReleases, Call, Lock, Answer, HandlerHangs,
         Deadline, vars
<1>5. PICK h \in Handlers : Work(h)
  BY <1>4
<1>6. rpc[h].vol \in Volumes /\ holder[rpc[h].vol] = h
  BY <1>5, NoCallIsNone DEF Work, LockHeld, TypeOK, HandlerHolds
<1>7. PICK r : /\ r \in IF rpc[h].op = "stage" THEN StageOutcomes(record[rpc[h].vol])
                                              ELSE UnstageOutcomes(record[rpc[h].vol])
               /\ record' = [record EXCEPT ![rpc[h].vol] = r]
  BY <1>5 DEF Work
<1>8. rpc[h].vol = v /\ record'[v] = r
  BY <1>6, <1>7 DEF LockHeld, TypeOK
<1>9. rpc[h].op = "stage"
  BY <1>7, <1>8, OnlyStageRevives
<1> QED
  BY <1>6, <1>8, <1>9

(* The recovery, whose list of states is old when it gets to a volume,     *)
(* does not revive one that kubelet has unstaged, and neither does         *)
(* anything but a NodeStageVolume.                                         *)
THEOREM StoppedVolumesStayDown == Spec => StoppedStaysDown
<1>1. LockHeld /\ [Next]_vars =>
        [\A v \in Volumes :
           record[v] \in {"none", "stopping"} /\ record'[v] \in {"starting", "up"} =>
             \E h \in Handlers : holder[v] = h /\ rpc[h].op = "stage" /\ rpc[h].vol = v]_vars
  BY RevivalIsStage
<1> QED
  BY <1>1, MutexesAreHeld, PTL DEF Spec, StoppedStaysDown
=============================================================================
