------------------------ MODULE VolumeRegistryProofs ------------------------
(***************************************************************************)
(* Proofs about VolumeRegistry, for any names, prefixes and handlers and   *)
(* any bounds on faults and on calls given up.                             *)
(*                                                                         *)
(* The controller takes no lock, so the argument rests on its caller: one  *)
(* call per name at a time, except for those given up, of which only a     *)
(* single write is still on its way.  IInv says for each call which part   *)
(* of its volume is in place, and that calls of other volumes of the name  *)
(* are over, but for deletes and creates that nobody builds on any more.   *)
(***************************************************************************)
EXTENDS VolumeRegistry, TLAPS

Settled == {"none", "deleted"}

CreateSteps == {"checkName", "nameExists", "matchName", "writeName", "rootExists",
                "readMarker", "makeRoot", "writeMarker", "indexExists", "matchIndex",
                "writeIndex"}
DeleteSteps == {"readIndex", "rootFound", "readOwner", "dropName", "dropIndex", "dropMarker"}

(* The steps of CreateVolume once it owns the name, and once it has seen   *)
(* to the marker.                                                          *)
NameOwned == {"rootExists", "readMarker", "makeRoot", "writeMarker", "indexExists",
              "matchIndex", "writeIndex"}
RootMarked == {"indexExists", "matchIndex", "writeIndex"}

StepOfCall(h) == call[h].pc \in IF call[h].op = "create" THEN CreateSteps ELSE DeleteSteps

(* What the status of the volume of a call says. *)
StatusOfCall(h) ==
  IF call[h].given
  THEN /\ call[h].pc \in Writes
       /\ late > 0
       /\ status[Vol(h)] # "none"
       /\ call[h].op = "delete" => status[Vol(h)] \in {"unwanted", "deleted"}
       /\ \A u \in Others(Vol(h)) : status[u] \in Settled
  ELSE status[Vol(h)] = IF call[h].op = "create" THEN "wanted" ELSE "unwanted"

Marked(v) == v \notin touched => v \in dir /\ v \in marker

(* What a call that the caller waits for has achieved. *)
ProgressOfCall(h) ==
  /\ call[h].op = "create" =>
       /\ call[h].pc \in NameOwned => name[NameOf(Vol(h))] = Vol(h)
       /\ call[h].pc \in RootMarked => Marked(Vol(h))
  /\ call[h].op = "delete" /\ late = 0 =>
       /\ call[h].pc \in {"dropIndex", "dropMarker"} => name[NameOf(Vol(h))] # Vol(h)
       /\ call[h].pc = "dropMarker" => Vol(h) \notin index

CallOK(h) ==
  call[h] # NoCall => StepOfCall(h) /\ StatusOfCall(h) /\ (~call[h].given => ProgressOfCall(h))

(* The caller waits for one call of a name at a time ... *)
OneCall ==
  \A g, h \in Handlers :
    /\ call[g] # NoCall /\ ~call[g].given
    /\ call[h] # NoCall /\ ~call[h].given
    /\ NameOf(call[g].vol) = NameOf(call[h].vol)
    => g = h

(* ... and has one volume of a name at a time. *)
OneVolume ==
  \A v \in Volumes : status[v] \notin Settled => \A u \in Others(v) : status[u] \in Settled

(* A delete that removed the index has removed the name before. *)
NameGoesFirst ==
  late = 0 =>
    \A v \in Volumes : status[v] = "unwanted" /\ v \notin index => name[NameOf(v)] # v

IInv ==
  /\ TypeOK
  /\ marker \subseteq dir
  /\ \A h \in Handlers : CallOK(h)
  /\ OneCall
  /\ OneVolume
  /\ NameGoesFirst
  /\ ProvisionedIsComplete
  /\ DeletedIsFree

-----------------------------------------------------------------------------
(* Facts about the operators *)

LEMMA NoCallIsNone ==
  /\ NoCall \notin Calls /\ NoCall.pc = "idle" /\ ~NoCall.given
  /\ \A c \in Calls : c.pc \in Reads \union Writes /\ c.pc # "idle" /\ c.vol \in Volumes
                      /\ c.op \in {"create", "delete"} /\ c.given \in BOOLEAN
BY DEF NoCall, Calls, Reads, Writes

LEMMA NamesOfVolumes == \A v \in Volumes : NameOf(v) \in Names
BY DEF Volumes, NameOf

LEMMA CallTaken ==
  ASSUME TypeOK, NEW h \in Handlers, call[h] # NoCall
  PROVE  call[h] \in Calls /\ Vol(h) \in Volumes /\ NameOf(Vol(h)) \in Names
BY NoCallIsNone, NamesOfVolumes DEF TypeOK, Vol

(* A write touches nothing but its own volume and name, and a create only  *)
(* adds, a delete only removes.                                            *)
LEMMA WriteEffect ==
  ASSUME TypeOK, marker \subseteq dir, NEW v \in Volumes, NEW step \in Writes, Applied(v, step)
  PROVE  /\ name' \in [Names -> Volumes \union {NoVolume}]
         /\ dir' \subseteq Volumes /\ marker' \subseteq Volumes /\ index' \subseteq Volumes
         /\ marker' \subseteq dir' /\ dir \subseteq dir'
         /\ \A n \in Names : n # NameOf(v) => name'[n] = name[n]
         /\ \A u \in Volumes : u # v =>
              (u \in marker' <=> u \in marker) /\ (u \in index' <=> u \in index)
         /\ step \in CreateSteps =>
              /\ name'[NameOf(v)] \in {name[NameOf(v)], v}
              /\ marker \subseteq marker' /\ index \subseteq index'
         /\ step \in DeleteSteps =>
              /\ name'[NameOf(v)] \in {name[NameOf(v)], NoVolume}
              /\ step # "dropIndex" => index' = index
<1>1. NameOf(v) \in Names
  BY NamesOfVolumes
<1>2. CASE step = "writeName"
  BY <1>1, <1>2 DEF Applied, TypeOK, CreateSteps, DeleteSteps
<1>3. CASE step = "dropName"
  BY <1>1, <1>3 DEF Applied, TypeOK, CreateSteps, DeleteSteps
<1>4. CASE step = "makeRoot"
  BY <1>1, <1>4 DEF Applied, TypeOK, CreateSteps, DeleteSteps
<1>5. CASE step = "writeMarker"
  BY <1>1, <1>5 DEF Applied, TypeOK, CreateSteps, DeleteSteps
<1>6. CASE step = "dropMarker"
  BY <1>1, <1>6 DEF Applied, TypeOK, CreateSteps, DeleteSteps
<1>7. CASE step = "writeIndex"
  BY <1>1, <1>7 DEF Applied, TypeOK, CreateSteps, DeleteSteps
<1>8. CASE step = "dropIndex"
  BY <1>1, <1>8 DEF Applied, TypeOK, CreateSteps, DeleteSteps
<1> QED
  BY <1>2, <1>3, <1>4, <1>5, <1>6, <1>7, <1>8 DEF Writes

(* A volume that is wanted, there or being deleted has its name to itself: *)
(* a call of the name is a call of the volume.                             *)
LEMMA NameToItself ==
  ASSUME IInv, NEW h \in Handlers, call[h] # NoCall,
         NEW v \in Volumes, status[v] \notin Settled, NameOf(v) = NameOf(Vol(h))
  PROVE  Vol(h) = v
<1> SUFFICES ASSUME Vol(h) # v PROVE FALSE
  OBVIOUS
<1>1. v \in Others(Vol(h)) /\ Vol(h) \in Volumes /\ CallOK(h) /\ call[h] \in Calls
  BY CallTaken DEF Others, IInv
<1>2. CASE call[h].given
  BY <1>1, <1>2 DEF CallOK, StatusOfCall, Vol
<1>3. CASE ~call[h].given
  <2>1. status[Vol(h)] \notin Settled
    BY <1>1, <1>3 DEF CallOK, StatusOfCall, Vol, Settled
  <2> QED
    BY <1>1, <2>1 DEF IInv, OneVolume
<1> QED
  BY <1>2, <1>3

-----------------------------------------------------------------------------
(* A step of a handler: its write, if any, is applied or not; the call     *)
(* ends, or succeeds having achieved what it reports, or goes on with what *)
(* its next step relies on.                                                *)
Achieved(h) ==
  LET v == Vol(h) IN
  IF call[h].op = "create"
  THEN name'[NameOf(v)] = v /\ v \in index' /\ (v \notin touched' => v \in dir' /\ v \in marker')
  ELSE late = 0 => name'[NameOf(v)] # v /\ v \notin index'

EndsQuietly(h) == call' = [call EXCEPT ![h] = NoCall] /\ status' = status

Reports(h) ==
  /\ ~call[h].given
  /\ call' = [call EXCEPT ![h] = NoCall]
  /\ status' = [status EXCEPT ![Vol(h)] =
                  IF call[h].op = "create" THEN "provisioned" ELSE "deleted"]
  /\ Achieved(h)

GoesOn(h) ==
  /\ ~call[h].given
  /\ call' = [call EXCEPT ![h] = call'[h]] /\ status' = status
  /\ call'[h] \in Calls
  /\ call'[h].op = call[h].op /\ call'[h].vol = call[h].vol /\ ~call'[h].given
  /\ StepOfCall(h)' /\ ProgressOfCall(h)'

HandlerStep(h) ==
  /\ call[h] # NoCall
  /\ UNCHANGED <<touched, late>>
  /\ faults' \in 0 .. MaxFaults
  /\ UNCHANGED workspace \/ (call[h].pc \in Writes /\ Applied(Vol(h), call[h].pc))
  /\ EndsQuietly(h) \/ Reports(h) \/ GoesOn(h)

(* What the workspace may look like after such a step. *)
LEMMA StepEffect ==
  ASSUME IInv, NEW h \in Handlers, HandlerStep(h)
  PROVE  LET v == Vol(h) IN
         /\ name' \in [Names -> Volumes \union {NoVolume}]
         /\ dir' \subseteq Volumes /\ marker' \subseteq Volumes /\ index' \subseteq Volumes
         /\ marker' \subseteq dir' /\ dir \subseteq dir'
         /\ \A n \in Names : n # NameOf(v) => name'[n] = name[n]
         /\ \A u \in Volumes : u # v =>
              (u \in marker' <=> u \in marker) /\ (u \in index' <=> u \in index)
         /\ call[h].op = "create" =>
              /\ name'[NameOf(v)] \in {name[NameOf(v)], v}
              /\ marker \subseteq marker' /\ index \subseteq index'
         /\ call[h].op = "delete" =>
              /\ name'[NameOf(v)] \in {name[NameOf(v)], NoVolume}
              /\ call[h].pc # "dropIndex" => index' = index
<1>1. /\ TypeOK /\ marker \subseteq dir /\ Vol(h) \in Volumes
      /\ call[h].op = "create" => call[h].pc \in CreateSteps
      /\ call[h].op = "delete" => call[h].pc \in DeleteSteps
  BY CallTaken DEF IInv, HandlerStep, CallOK, StepOfCall
<1>2. CASE UNCHANGED workspace
  BY <1>1, <1>2 DEF workspace, TypeOK
<1>3. CASE call[h].pc \in Writes /\ Applied(Vol(h), call[h].pc)
  BY <1>1, <1>3, WriteEffect
<1> QED
  BY <1>2, <1>3 DEF HandlerStep

(* The status changes, if at all, for the volume of a call that the caller *)
(* waits for.                                                              *)
LEMMA StatusEffect ==
  ASSUME IInv, NEW h \in Handlers, HandlerStep(h)
  PROVE  /\ status' \in [Volumes -> {"none", "wanted", "provisioned", "unwanted", "deleted"}]
         /\ \A u \in Volumes : u # Vol(h) => status'[u] = status[u]
         /\ call[h].given => status' = status
         /\ ~call[h].given /\ call[h].op = "create" =>
              status[Vol(h)] = "wanted" /\ status'[Vol(h)] \in {"wanted", "provisioned"}
         /\ ~call[h].given /\ call[h].op = "delete" =>
              status[Vol(h)] = "unwanted" /\ status'[Vol(h)] \in {"unwanted", "deleted"}
<1>1. CallOK(h) /\ call[h] \in Calls /\ Vol(h) \in Volumes /\ TypeOK
  BY CallTaken DEF IInv, HandlerStep
<1>2. ~call[h].given => status[Vol(h)] = IF call[h].op = "create" THEN "wanted" ELSE "unwanted"
  BY <1>1, NoCallIsNone DEF CallOK, StatusOfCall, Vol
<1>3. status' = status \/ (~call[h].given /\ status' = [status EXCEPT ![Vol(h)] =
                  IF call[h].op = "create" THEN "provisioned" ELSE "deleted"])
  BY DEF HandlerStep, EndsQuietly, Reports, GoesOn
<1> QED
  BY <1>1, <1>2, <1>3 DEF TypeOK

LEMMA HandlerStepKeeps ==
  ASSUME IInv, NEW h \in Handlers, HandlerStep(h)
  PROVE  IInv'
<1> DEFINE v == Vol(h)
<1>1. /\ call[h] # NoCall /\ call[h] \in Calls /\ v \in Volumes /\ NameOf(v) \in Names
      /\ call[h].op \in {"create", "delete"} /\ TypeOK /\ CallOK(h)
  BY CallTaken, NoCallIsNone DEF IInv, HandlerStep
<1>2. /\ \A g \in Handlers : g # h => call'[g] = call[g]
      /\ call' \in [Handlers -> Calls \union {NoCall}]
      /\ call'[h] # NoCall => /\ call'[h].vol = v /\ call'[h].op = call[h].op
                              /\ ~call'[h].given /\ ~call[h].given
                              /\ StepOfCall(h)' /\ ProgressOfCall(h)'
                              /\ status' = status
  <2>1. CASE call' = [call EXCEPT ![h] = NoCall]
    BY <1>1, <2>1 DEF TypeOK
  <2>2. CASE GoesOn(h)
    BY <1>1, <2>2 DEF TypeOK, GoesOn, Vol
  <2> QED
    BY <2>1, <2>2 DEF HandlerStep, EndsQuietly, Reports
<1>3. touched' = touched /\ late' = late
  BY DEF HandlerStep
<1>4. TypeOK'
  BY <1>1, <1>2, <1>3, StepEffect, StatusEffect DEF HandlerStep, TypeOK
<1>5. marker' \subseteq dir'
  BY StepEffect
<1>6. ASSUME NEW g \in Handlers PROVE CallOK(g)'
  <2>1. CASE g = h
    <3> SUFFICES ASSUME call'[h] # NoCall PROVE CallOK(h)'
      BY <2>1 DEF CallOK
    <3>1. status'[v] = IF call[h].op = "create" THEN "wanted" ELSE "unwanted"
      BY <1>1, <1>2, StatusEffect
    <3> QED
      BY <1>2, <2>1, <3>1 DEF CallOK, StatusOfCall, Vol
  <2>2. CASE g # h
    <3> SUFFICES ASSUME call[g] # NoCall PROVE CallOK(g)'
      BY <1>2, <2>2 DEF CallOK
    <3>1. /\ CallOK(g) /\ call[g] \in Calls /\ Vol(g) \in Volumes /\ call[g].given \in BOOLEAN
          /\ call[g].op \in {"create", "delete"} /\ NameOf(Vol(g)) \in Names
      BY CallTaken, NoCallIsNone DEF IInv
    <3>0. call'[g] = call[g] /\ Vol(g)' = Vol(g)
      BY <1>2, <2>2 DEF Vol
    <3>2. CASE call[g].given
      <4>1. \A u \in Others(Vol(g)) : u \in Volumes /\ status[u] \in Settled
        BY <3>1, <3>2 DEF CallOK, StatusOfCall, Vol, Others
      <4>2. \A u \in Others(Vol(g)) : status'[u] \in Settled
        BY <1>1, <4>1, StatusEffect DEF Settled
      <4>3. status'[Vol(g)] # "none"
        BY <3>1, <3>2, <1>1, StatusEffect DEF CallOK, StatusOfCall, Vol
      <4>4. call[g].op = "delete" => status'[Vol(g)] \in {"unwanted", "deleted"}
        BY <3>1, <3>2, <1>1, StatusEffect DEF CallOK, StatusOfCall, Vol
      <4> QED
        BY <1>3, <3>0, <3>1, <3>2, <4>2, <4>3, <4>4 DEF CallOK, StepOfCall, StatusOfCall, Others
    <3>3. CASE ~call[g].given
      <4>1. status[Vol(g)] = IF call[g].op = "create" THEN "wanted" ELSE "unwanted"
        BY <3>1, <3>3 DEF CallOK, StatusOfCall, Vol
      <4>2. status[Vol(g)] \notin Settled
        BY <4>1 DEF Settled
      <4>3. CASE NameOf(Vol(g)) # NameOf(v)
        <5>1. /\ status'[Vol(g)] = status[Vol(g)]
              /\ name'[NameOf(Vol(g))] = name[NameOf(Vol(g))]
              /\ Vol(g) \in dir => Vol(g) \in dir'
              /\ Vol(g) \in marker' <=> Vol(g) \in marker
              /\ Vol(g) \in index' <=> Vol(g) \in index
          BY <3>1, <4>3, StepEffect, StatusEffect
        <5> QED
          BY <1>3, <3>0, <3>1, <3>3, <4>1, <5>1
             DEF CallOK, StepOfCall, StatusOfCall, ProgressOfCall, Marked
      <4>4. CASE NameOf(Vol(g)) = NameOf(v)
        <5>1. Vol(g) = v
          BY <1>1, <3>1, <4>2, <4>4, NameToItself
        <5>2. call[h].given
          BY <1>1, <2>2, <3>3, <4>4 DEF IInv, OneCall, Vol
        <5>3. /\ status' = status /\ late > 0
              /\ call[g].op = "create" => call[h].op = "create"
          BY <1>1, <4>1, <5>1, <5>2, StatusEffect DEF CallOK, StatusOfCall, Vol
        <5>4. call[g].op = "create" =>
                /\ name'[NameOf(v)] \in {name[NameOf(v)], v}
                /\ Marked(Vol(g)) => (v \notin touched => v \in dir' /\ v \in marker')
          BY <1>1, <5>1, <5>3, StepEffect DEF Marked
        <5>5. late # 0
          BY <5>3, <1>1 DEF TypeOK
        <5>6. ProgressOfCall(g)'
          BY <1>3, <3>0, <3>1, <3>3, <5>1, <5>4, <5>5 DEF CallOK, ProgressOfCall, Marked
        <5> QED
          BY <3>0, <3>1, <3>3, <4>1, <5>3, <5>6 DEF CallOK, StepOfCall, StatusOfCall
      <4> QED
        BY <4>3, <4>4
    <3> QED
      BY <3>1, <3>2, <3>3
  <2> QED
    BY <2>1, <2>2
<1>7. OneCall'
  BY <1>1, <1>2 DEF IInv, OneCall, Vol
<1>8. OneVolume'
  <2>1. \A u \in Volumes : status'[u] \notin Settled => status[u] \notin Settled
    BY <1>1, StatusEffect DEF Settled
  <2>2. \A u \in Volumes : status[u] \in Settled => status'[u] \in Settled
    BY <1>1, StatusEffect DEF Settled
  <2>3. \A u \in Volumes : Others(u) \subseteq Volumes
    BY DEF Others
  <2> QED
    BY <2>1, <2>2, <2>3 DEF IInv, OneVolume
<1>9. late = 0 => ~call[h].given
  BY <1>1 DEF CallOK, StatusOfCall
<1>10. NameGoesFirst'
  <2> SUFFICES ASSUME late = 0, NEW u \in Volumes, status'[u] = "unwanted", u \notin index'
               PROVE  name'[NameOf(u)] # u
    BY <1>3 DEF NameGoesFirst
  <2>1. ~call[h].given
    BY <1>9
  <2>2. status[u] = "unwanted" /\ status[u] \notin Settled /\ NameOf(u) \in Names
    BY <1>1, <2>1, StatusEffect, NamesOfVolumes DEF Settled
  <2>3. CASE u = v
    <3>1. call[h].op = "delete"
      BY <1>1, <2>1, <2>2, <2>3, StatusEffect
    <3>2. name[NameOf(u)] # u
      <4>1. CASE u \notin index
        BY <2>2, <4>1 DEF IInv, NameGoesFirst
      <4>2. CASE u \in index
        <5>1. call[h].pc = "dropIndex"
          BY <4>2, <3>1, StepEffect
        <5> QED
          BY <1>1, <2>1, <2>3, <3>1, <5>1 DEF CallOK, ProgressOfCall, Vol
      <4> QED
        BY <4>1, <4>2
    <3> QED
      BY <2>3, <3>1, <3>2, <1>1, StepEffect, RegistryAssumption
  <2>4. CASE u # v
    <3>1. NameOf(u) # NameOf(v)
      BY <1>1, <2>2, <2>4, NameToItself
    <3>2. name'[NameOf(u)] = name[NameOf(u)] /\ u \notin index
      BY <2>2, <2>4, <3>1, StepEffect
    <3> QED
      BY <2>2, <3>2 DEF IInv, NameGoesFirst
  <2> QED
    BY <2>3, <2>4
<1>11. ProvisionedIsComplete'
  <2> SUFFICES ASSUME NEW u \in Volumes, status'[u] = "provisioned"
               PROVE  name'[NameOf(u)] = u /\ u \in index' /\ (u \notin touched' => u \in dir' /\ u \in marker')
    BY DEF ProvisionedIsComplete
  <2>1. CASE status[u] = "provisioned"
    <3>1. name[NameOf(u)] = u /\ u \in index /\ Marked(u)
      BY <2>1 DEF IInv, ProvisionedIsComplete, Marked
    <3>2. CASE NameOf(u) # NameOf(v)
      BY <1>3, <3>1, <3>2, StepEffect, NamesOfVolumes DEF Marked
    <3>3. CASE NameOf(u) = NameOf(v)
      <4>1. u = v
        BY <1>1, <2>1, <3>3, NameToItself DEF Settled
      <4>2. call[h].op = "create"
        BY <1>1, <2>1, <4>1 DEF CallOK, StatusOfCall, Vol
      <4> QED
        BY <1>3, <3>1, <4>1, <4>2, StepEffect DEF Marked
    <3> QED
      BY <3>2, <3>3
  <2>2. CASE status[u] # "provisioned"
    <3>1. u = v /\ ~call[h].given /\ call[h].op = "create" /\ status' # status
      BY <1>1, <2>2, StatusEffect
    <3>2. Reports(h)
      BY <3>1 DEF HandlerStep, EndsQuietly, GoesOn
    <3> QED
      BY <3>1, <3>2 DEF Reports, Achieved
  <2> QED
    BY <2>1, <2>2
<1>12. DeletedIsFree'
  <2> SUFFICES ASSUME late = 0, NEW u \in Volumes, status'[u] = "deleted"
               PROVE  name'[NameOf(u)] # u /\ u \notin index'
    BY <1>3 DEF DeletedIsFree
  <2>1. ~call[h].given
    BY <1>9
  <2>2. CASE status[u] = "deleted"
    <3>1. u # v
      BY <1>1, <2>1, <2>2, StatusEffect
    <3>2. name[NameOf(u)] # u /\ u \notin index
      BY <2>2 DEF IInv, DeletedIsFree
    <3> QED
      BY <1>1, <3>1, <3>2, StepEffect, NamesOfVolumes, RegistryAssumption
  <2>3. CASE status[u] # "deleted"
    <3>1. u = v /\ call[h].op = "delete" /\ status' # status
      BY <1>1, <2>1, <2>3, StatusEffect
    <3>2. Reports(h)
      BY <3>1 DEF HandlerStep, EndsQuietly, GoesOn
    <3> QED
      BY <3>1, <3>2 DEF Reports, Achieved
  <2> QED
    BY <2>2, <2>3
<1> QED
  BY <1>4, <1>5, <1>6, <1>7, <1>8, <1>10, <1>11, <1>12 DEF IInv

-----------------------------------------------------------------------------
(* Every action of a handler is such a step. *)

(* The part of a step that does not depend on how the call goes on. *)
Undisturbed(h) ==
  /\ call[h] # NoCall
  /\ UNCHANGED <<touched, late>>
  /\ faults' \in 0 .. MaxFaults
  /\ UNCHANGED workspace \/ (call[h].pc \in Writes /\ Applied(Vol(h), call[h].pc))

LEMMA FailsIsStep ==
  ASSUME NEW h \in Handlers, Undisturbed(h), Fails(h)
  PROVE  HandlerStep(h)
BY DEF Undisturbed, Fails, HandlerStep, EndsQuietly

LEMMA SucceedsIsStep ==
  ASSUME NEW h \in Handlers, Undisturbed(h), Succeeds(h), ~call[h].given => Achieved(h)
  PROVE  HandlerStep(h)
BY DEF Undisturbed, Succeeds, HandlerStep, EndsQuietly, Reports

(* What the next step of the call relies on. *)
Relied(h, step) ==
  LET v == Vol(h) IN
  /\ call[h].op = "create" =>
       /\ step \in CreateSteps
       /\ step \in NameOwned => name'[NameOf(v)] = v
       /\ step \in RootMarked /\ v \notin touched => v \in dir' /\ v \in marker'
  /\ call[h].op = "delete" =>
       /\ step \in DeleteSteps
       /\ late = 0 /\ step \in {"dropIndex", "dropMarker"} => name'[NameOf(v)] # v
       /\ late = 0 /\ step = "dropMarker" => v \notin index'

LEMMA GoesOnIsStep ==
  ASSUME IInv, NEW h \in Handlers, Undisturbed(h), ~call[h].given, status' = status,
         NEW c \in Calls, call' = [call EXCEPT ![h] = c],
         c.op = call[h].op, c.vol = call[h].vol, ~c.given, Relied(h, c.pc)
  PROVE  HandlerStep(h)
<1>1. /\ call'[h] = c /\ Vol(h)' = Vol(h) /\ call[h].op \in {"create", "delete"}
      /\ touched' = touched /\ late' = late
  BY NoCallIsNone DEF IInv, TypeOK, Vol, Undisturbed
<1>2. StepOfCall(h)'
  BY <1>1 DEF StepOfCall, Relied
<1>3. ProgressOfCall(h)'
  BY <1>1 DEF ProgressOfCall, Relied, Marked
<1>4. GoesOn(h)
  BY <1>1, <1>2, <1>3 DEF GoesOn
<1> QED
  BY <1>4 DEF HandlerStep, Undisturbed

LEMMA GoesIsStep ==
  ASSUME IInv, NEW h \in Handlers, Undisturbed(h), NEW step \in Reads \union Writes,
         Goes(h, step), ~call[h].given => Relied(h, step)
  PROVE  HandlerStep(h)
<1>1. CASE call[h].given
  BY <1>1, FailsIsStep DEF Goes
<1>2. CASE ~call[h].given
  <2>1. call[h] \in Calls
    BY CallTaken DEF Undisturbed, IInv
  <2> DEFINE c == [call[h] EXCEPT !.pc = step]
  <2>2. c \in Calls /\ c.op = call[h].op /\ c.vol = call[h].vol /\ ~c.given /\ c.pc = step
    BY <1>2, <2>1 DEF Calls
  <2>3. call' = [call EXCEPT ![h] = c] /\ status' = status
    BY <1>2 DEF Goes, IInv, TypeOK
  <2> QED
    BY <1>2, <2>2, <2>3, GoesOnIsStep
<1> QED
  BY <1>1, <1>2

(* What an action finds of its call. *)
LEMMA AtStep ==
  ASSUME IInv, NEW h \in Handlers, NEW step \in Reads \union Writes, At(h, step)
  PROVE  /\ call[h] # NoCall /\ call[h] \in Calls /\ Vol(h) \in Volumes
         /\ NameOf(Vol(h)) \in Names
         /\ call[h].op = IF step \in CreateSteps THEN "create" ELSE "delete"
         /\ ~call[h].given => ProgressOfCall(h)
<1>1. call[h] # NoCall
  BY NoCallIsNone DEF At, Reads, Writes
<1> QED
  BY <1>1, CallTaken, NoCallIsNone
     DEF IInv, CallOK, StepOfCall, CreateSteps, DeleteSteps, At

LEMMA ReadUndisturbed ==
  ASSUME IInv, NEW h \in Handlers, NEW step \in Reads, Read(h, step)
  PROVE  Undisturbed(h) /\ ~call[h].given /\ UNCHANGED workspace
BY AtStep DEF Read, Undisturbed, IInv, TypeOK

LEMMA WriteUndisturbed ==
  ASSUME IInv, NEW h \in Handlers, NEW step \in Writes, Write(h, step), Applied(Vol(h), step)
  PROVE  Undisturbed(h)
BY AtStep DEF Write, Undisturbed, IInv, TypeOK, At

LEMMA CreateIsStep ==
  ASSUME IInv, NEW h \in Handlers,
         \/ CheckName(h) \/ NameExists(h) \/ MatchName(h) \/ WriteName(h)
         \/ RootExists(h) \/ ReadMarker(h) \/ MakeRoot(h) \/ WriteMarker(h)
         \/ IndexExists(h) \/ MatchIndex(h) \/ WriteIndex(h)
  PROVE  HandlerStep(h)
<1> USE DEF Reads, Writes, CreateSteps, NameOwned, RootMarked
<1>1. CASE CheckName(h)
  <2>1. Undisturbed(h) /\ call[h].op = "create"
    BY <1>1, ReadUndisturbed, AtStep DEF CheckName, Read
  <2>2. CASE Fails(h)
    BY <2>1, <2>2, FailsIsStep
  <2>3. CASE Goes(h, "nameExists")
    BY <2>1, <2>3, GoesIsStep DEF Relied
  <2> QED
    BY <1>1, <2>2, <2>3 DEF CheckName
<1>2. CASE NameExists(h)
  <2>1. Undisturbed(h) /\ call[h].op = "create"
    BY <1>2, ReadUndisturbed, AtStep DEF NameExists, Read
  <2>2. CASE Goes(h, "writeName")
    BY <2>1, <2>2, GoesIsStep DEF Relied
  <2>3. CASE Goes(h, "matchName")
    BY <2>1, <2>3, GoesIsStep DEF Relied
  <2> QED
    BY <1>2, <2>2, <2>3 DEF NameExists
<1>3. CASE MatchName(h)
  <2>1. Undisturbed(h) /\ call[h].op = "create" /\ name' = name
    BY <1>3, ReadUndisturbed, AtStep DEF MatchName, Read, workspace
  <2>2. CASE Fails(h)
    BY <2>1, <2>2, FailsIsStep
  <2>3. CASE name[NameOf(Vol(h))] = Vol(h) /\ Goes(h, "rootExists")
    BY <2>1, <2>3, GoesIsStep DEF Relied
  <2> QED
    BY <1>3, <2>2, <2>3 DEF MatchName
<1>4. CASE WriteName(h)
  <2>1. Undisturbed(h) /\ call[h].op = "create" /\ NameOf(Vol(h)) \in Names
    BY <1>4, WriteUndisturbed, AtStep DEF WriteName, Write
  <2>2. name'[NameOf(Vol(h))] = Vol(h)
    BY <1>4, <2>1 DEF WriteName, Applied, IInv, TypeOK
  <2>3. Relied(h, "rootExists")
    BY <2>1, <2>2 DEF Relied
  <2> QED
    BY <1>4, <2>1, <2>3, GoesIsStep DEF WriteName
<1>5. CASE RootExists(h)
  <2>1. /\ Undisturbed(h) /\ call[h].op = "create" /\ name' = name
        /\ name[NameOf(Vol(h))] = Vol(h)
    BY <1>5, ReadUndisturbed, AtStep DEF RootExists, Read, workspace, ProgressOfCall, At
  <2>2. CASE Goes(h, "readMarker")
    BY <2>1, <2>2, GoesIsStep DEF Relied
  <2>3. CASE Goes(h, "makeRoot")
    BY <2>1, <2>3, GoesIsStep DEF Relied
  <2> QED
    BY <1>5, <2>2, <2>3 DEF RootExists
<1>6. CASE ReadMarker(h)
  <2>1. /\ Undisturbed(h) /\ call[h].op = "create" /\ name' = name /\ dir' = dir
        /\ marker' = marker /\ marker \subseteq dir /\ name[NameOf(Vol(h))] = Vol(h)
    BY <1>6, ReadUndisturbed, AtStep DEF ReadMarker, Read, workspace, ProgressOfCall, At, IInv
  <2>2. CASE Vol(h) \in marker /\ Goes(h, "indexExists")
    BY <2>1, <2>2, GoesIsStep DEF Relied
  <2>3. CASE Goes(h, "writeMarker")
    BY <2>1, <2>3, GoesIsStep DEF Relied
  <2> QED
    BY <1>6, <2>2, <2>3 DEF ReadMarker
<1>7. CASE MakeRoot(h)
  <2>1. /\ Undisturbed(h) /\ call[h].op = "create" /\ name' = name
        /\ ~call[h].given => name[NameOf(Vol(h))] = Vol(h)
    BY <1>7, WriteUndisturbed, AtStep DEF MakeRoot, Write, Applied, ProgressOfCall, At
  <2> QED
    BY <1>7, <2>1, GoesIsStep DEF MakeRoot, Relied
<1>8. CASE WriteMarker(h)
  <2>1. /\ Undisturbed(h) /\ call[h].op = "create" /\ name' = name
        /\ ~call[h].given => name[NameOf(Vol(h))] = Vol(h)
        /\ Vol(h) \in dir' /\ Vol(h) \in marker'
    BY <1>8, WriteUndisturbed, AtStep DEF WriteMarker, Write, Applied, ProgressOfCall, At
  <2> QED
    BY <1>8, <2>1, GoesIsStep DEF WriteMarker, Relied
<1>9. CASE IndexExists(h)
  <2>1. /\ Undisturbed(h) /\ call[h].op = "create" /\ name' = name /\ dir' = dir
        /\ marker' = marker /\ name[NameOf(Vol(h))] = Vol(h) /\ Marked(Vol(h))
    BY <1>9, ReadUndisturbed, AtStep DEF IndexExists, Read, workspace, ProgressOfCall, At
  <2>2. CASE Goes(h, "matchIndex")
    BY <2>1, <2>2, GoesIsStep DEF Relied, Marked
  <2>3. CASE Goes(h, "writeIndex")
    BY <2>1, <2>3, GoesIsStep DEF Relied, Marked
  <2> QED
    BY <1>9, <2>2, <2>3 DEF IndexExists
<1>10. CASE MatchIndex(h)
  <2>1. /\ Undisturbed(h) /\ call[h].op = "create" /\ name' = name /\ dir' = dir
        /\ marker' = marker /\ index' = index /\ touched' = touched
        /\ name[NameOf(Vol(h))] = Vol(h) /\ Marked(Vol(h))
    BY <1>10, ReadUndisturbed, AtStep
       DEF MatchIndex, Read, workspace, ProgressOfCall, At, Undisturbed
  <2>2. CASE Fails(h)
    BY <2>1, <2>2, FailsIsStep
  <2>3. CASE Vol(h) \in index /\ Succeeds(h)
    BY <2>1, <2>3, SucceedsIsStep DEF Achieved, Marked
  <2> QED
    BY <1>10, <2>2, <2>3 DEF MatchIndex
<1>11. CASE WriteIndex(h)
  <2>1. /\ Undisturbed(h) /\ call[h].op = "create" /\ name' = name /\ dir' = dir
        /\ marker' = marker /\ Vol(h) \in index' /\ touched' = touched
        /\ ~call[h].given => name[NameOf(Vol(h))] = Vol(h) /\ Marked(Vol(h))
    BY <1>11, WriteUndisturbed, AtStep
       DEF WriteIndex, Write, Applied, ProgressOfCall, At, Undisturbed
  <2> QED
    BY <1>11, <2>1, SucceedsIsStep DEF WriteIndex, Achieved, Marked
<1> QED
  BY <1>1, <1>2, <1>3, <1>4, <1>5, <1>6, <1>7, <1>8, <1>9, <1>10, <1>11

LEMMA DeleteIsStep ==
  ASSUME IInv, NEW h \in Handlers,
         \/ ReadIndex(h) \/ RootFound(h) \/ ReadOwner(h)
         \/ DropName(h) \/ DropIndex(h) \/ DropMarker(h)
  PROVE  HandlerStep(h)
<1> USE DEF Reads, Writes, CreateSteps, DeleteSteps
<1>1. CASE ReadIndex(h)
  <2>1. /\ Undisturbed(h) /\ call[h].op = "delete" /\ name' = name /\ index' = index
        /\ ~call[h].given /\ Vol(h) \in Volumes
    BY <1>1, ReadUndisturbed, AtStep DEF ReadIndex, Read, workspace
  <2>2. CASE Goes(h, "rootFound")
    BY <2>1, <2>2, GoesIsStep DEF Relied
  <2>3. CASE Vol(h) \notin index /\ Succeeds(h)
    <3>1. status[Vol(h)] = "unwanted"
      BY <2>1 DEF IInv, CallOK, StatusOfCall, Undisturbed
    <3>2. late = 0 => name[NameOf(Vol(h))] # Vol(h)
      BY <2>1, <2>3, <3>1 DEF IInv, NameGoesFirst
    <3> QED
      BY <2>1, <2>3, <3>2, SucceedsIsStep DEF Achieved
  <2> QED
    BY <1>1, <2>2, <2>3 DEF ReadIndex
<1>2. CASE RootFound(h)
  <2>1. /\ Undisturbed(h) /\ call[h].op = "delete" /\ ~call[h].given /\ call[h] \in Calls
    BY <1>2, ReadUndisturbed, AtStep DEF RootFound, Read
  <2> DEFINE c == [call[h] EXCEPT !.root = Vol(h) \in dir,
                                  !.pc = IF Vol(h) \in dir THEN "readOwner" ELSE "dropName"]
  <2>2. call' = [call EXCEPT ![h] = c] /\ status' = status
    BY <1>2 DEF RootFound, IInv, TypeOK
  <2>3. c \in Calls /\ c.op = call[h].op /\ c.vol = call[h].vol /\ ~c.given
        /\ c.pc \in {"readOwner", "dropName"}
    <3>1. \A b \in BOOLEAN, st \in {"readOwner", "dropName"} :
            LET d == [call[h] EXCEPT !.root = b, !.pc = st] IN
            d \in Calls /\ d.op = call[h].op /\ d.vol = call[h].vol /\ ~d.given /\ d.pc = st
      BY <2>1 DEF Calls
    <3>3. CASE Vol(h) \in dir
      BY <3>1, <3>3
    <3>4. CASE Vol(h) \notin dir
      <4>1. (Vol(h) \in dir) = FALSE
        BY <3>4
      <4>2. c = [call[h] EXCEPT !.root = FALSE, !.pc = "dropName"]
        BY <3>4, <4>1, Zenon
      <4> QED
        BY <3>1, <4>2
    <3> QED
      BY <3>3, <3>4
  <2>4. Relied(h, c.pc)
    BY <2>1, <2>3 DEF Relied
  <2> QED
    BY <2>1, <2>2, <2>3, <2>4, GoesOnIsStep
<1>3. CASE ReadOwner(h)
  <2>1. /\ Undisturbed(h) /\ call[h].op = "delete"
    BY <1>3, ReadUndisturbed, AtStep DEF ReadOwner, Read
  <2> QED
    BY <1>3, <2>1, GoesIsStep DEF ReadOwner, Relied
<1>4. CASE DropName(h)
  <2>1. /\ Undisturbed(h) /\ call[h].op = "delete" /\ Vol(h) \in Volumes
        /\ NameOf(Vol(h)) \in Names
    BY <1>4, WriteUndisturbed, AtStep DEF DropName, Write
  <2>2. name'[NameOf(Vol(h))] # Vol(h)
    BY <1>4, <2>1, RegistryAssumption DEF DropName, Applied, IInv, TypeOK
  <2> QED
    BY <1>4, <2>1, <2>2, GoesIsStep DEF DropName, Relied
<1>5. CASE DropIndex(h)
  <2>1. /\ Undisturbed(h) /\ call[h].op = "delete" /\ name' = name /\ Vol(h) \notin index'
        /\ ~call[h].given /\ late = 0 => name[NameOf(Vol(h))] # Vol(h)
    BY <1>5, WriteUndisturbed, AtStep DEF DropIndex, Write, Applied, ProgressOfCall, At
  <2>2. CASE Goes(h, "dropMarker")
    BY <2>1, <2>2, GoesIsStep DEF Relied
  <2>3. CASE Succeeds(h)
    BY <2>1, <2>3, SucceedsIsStep DEF Achieved
  <2> QED
    BY <1>5, <2>2, <2>3 DEF DropIndex
<1>6. CASE DropMarker(h)
  <2>1. /\ Undisturbed(h) /\ call[h].op = "delete" /\ name' = name /\ index' = index
        /\ ~call[h].given /\ late = 0 => name[NameOf(Vol(h))] # Vol(h) /\ Vol(h) \notin index
    BY <1>6, WriteUndisturbed, AtStep DEF DropMarker, Write, Applied, ProgressOfCall, At
  <2> QED
    BY <1>6, <2>1, SucceedsIsStep DEF DropMarker, Achieved
<1> QED
  BY <1>1, <1>2, <1>3, <1>4, <1>5, <1>6

(* A failed request too, even one whose write was applied. *)
LEMMA RequestFailsIsStep ==
  ASSUME IInv, NEW h \in Handlers, RequestFails(h)
  PROVE  HandlerStep(h)
<1>1. Undisturbed(h)
  BY RegistryAssumption DEF RequestFails, Undisturbed, Faulty, IInv, TypeOK
<1>2. CASE Fails(h)
  BY <1>1, <1>2, FailsIsStep
<1>3. CASE call[h].pc = "dropMarker" /\ Succeeds(h)
  <2>1. call[h].op = "delete" /\ (~call[h].given => ProgressOfCall(h))
    BY <1>3, AtStep DEF At, Writes, CreateSteps
  <2>2. name' = name /\ index' = index
    BY <1>3 DEF RequestFails, workspace, Applied
  <2>3. ~call[h].given => Achieved(h)
    BY <1>3, <2>1, <2>2 DEF Achieved, ProgressOfCall
  <2> QED
    BY <1>1, <1>3, <2>3, SucceedsIsStep
<1> QED
  BY <1>2, <1>3 DEF RequestFails

-----------------------------------------------------------------------------
(* The caller and the users of the workspace *)

LEMMA InitIInv == Init => IInv
<1> SUFFICES ASSUME Init PROVE IInv
  OBVIOUS
<1>1. TypeOK
  BY RegistryAssumption DEF Init, TypeOK
<1> QED
  BY <1>1 DEF Init, IInv, CallOK, OneCall, OneVolume, NameGoesFirst, ProvisionedIsComplete,
              DeletedIsFree, Settled

(* A new call starts from what the caller has been told. *)
LEMMA StartKeepsCalls ==
  ASSUME IInv, NEW h \in Handlers, NEW v \in Volumes,
         NEW op \in {"create", "delete"}, NEW step \in Reads, Start(h, op, step, v)
  PROVE  /\ call[h] = NoCall
         /\ call' \in [Handlers -> Calls \union {NoCall}]
         /\ call'[h] \in Calls /\ call'[h].op = op /\ call'[h].vol = v /\ call'[h].pc = step
         /\ ~call'[h].given
         /\ \A g \in Handlers : g # h => call'[g] = call[g]
         /\ \A g \in Handlers : call[g] # NoCall /\ ~call[g].given => NameOf(Vol(g)) # NameOf(v)
         /\ OneCall'
         /\ UNCHANGED <<name, dir, marker, index, touched, late, faults>>
<1> DEFINE c == [NoCall EXCEPT !.op = op, !.vol = v, !.pc = step]
<1>1. c \in Calls /\ c.op = op /\ c.vol = v /\ c.pc = step /\ ~c.given
  BY DEF NoCall, Calls
<1>2. call[h] = NoCall /\ call' = [call EXCEPT ![h] = c]
  BY DEF Start, Idle
<1>3. call \in [Handlers -> Calls \union {NoCall}]
  BY DEF IInv, TypeOK
<1>4. ASSUME NEW g \in Handlers, call[g] # NoCall, ~call[g].given
      PROVE  NameOf(Vol(g)) # NameOf(v)
  BY <1>3, <1>4, NoCallIsNone DEF Start, NameIdle, Vol
<1>5. call'[h] = c /\ \A g \in Handlers : g # h => call'[g] = call[g]
  BY <1>2, <1>3
<1>6. OneCall'
  <2>1. OneCall
    BY DEF IInv
  <2>2. call'[h].vol = v /\ ~call'[h].given
    BY <1>1, <1>5
  <2>3. \A g \in Handlers : call[g] # NoCall /\ ~call[g].given => NameOf(call[g].vol) # NameOf(v)
    BY <1>4 DEF Vol
  <2> HIDE DEF c
  <2> QED
    BY <1>5, <2>1, <2>2, <2>3, Zenon DEF OneCall
<1> QED
  BY <1>1, <1>2, <1>3, <1>4, <1>5, <1>6 DEF Start, workspace

LEMMA CallCreateKeeps ==
  ASSUME IInv, NEW h \in Handlers, NEW v \in Volumes, CallCreate(h, v)
  PROVE  IInv'
<1>1. /\ call[h] = NoCall
      /\ call' \in [Handlers -> Calls \union {NoCall}]
      /\ call'[h] \in Calls /\ call'[h].op = "create" /\ call'[h].vol = v
      /\ call'[h].pc = "checkName" /\ ~call'[h].given
      /\ \A g \in Handlers : g # h => call'[g] = call[g]
      /\ \A g \in Handlers : call[g] # NoCall /\ ~call[g].given => NameOf(Vol(g)) # NameOf(v)
      /\ OneCall'
      /\ UNCHANGED <<name, dir, marker, index, touched, late, faults>>
  BY StartKeepsCalls DEF CallCreate, Reads
<1>2. status' = [status EXCEPT ![v] = "wanted"] /\ TypeOK
  BY DEF CallCreate, IInv
<1>3. TypeOK'
  BY <1>1, <1>2 DEF TypeOK
<1>4. \A u \in Others(v) : u \in Volumes /\ u # v /\ status[u] \in Settled
  <2>1. CASE status[v] = "wanted"
    BY <2>1 DEF IInv, OneVolume, Settled, Others
  <2>2. CASE status[v] # "wanted"
    BY <2>2 DEF CallCreate, Settled, Others
  <2> QED
    BY <2>1, <2>2
<1>5. ASSUME NEW g \in Handlers PROVE CallOK(g)'
  <2>1. CASE g = h
    <3>1. StatusOfCall(h)' /\ StepOfCall(h)' /\ ProgressOfCall(h)'
      BY <1>1, <1>2 DEF StatusOfCall, StepOfCall, ProgressOfCall, CreateSteps, NameOwned,
                        RootMarked, Vol, TypeOK
    <3> QED
      BY <2>1, <3>1 DEF CallOK
  <2>2. CASE g # h
    <3> SUFFICES ASSUME call[g] # NoCall PROVE CallOK(g)'
      BY <1>1, <2>2 DEF CallOK
    <3>1. /\ CallOK(g) /\ Vol(g) \in Volumes /\ Vol(g)' = Vol(g) /\ call'[g] = call[g]
          /\ late' = late
      BY <1>1, <2>2, CallTaken DEF IInv, Vol
    <3>2. CASE call[g].given
      <4>1. /\ late > 0 /\ late # 0 /\ status[Vol(g)] # "none"
            /\ \A u \in Others(Vol(g)) : u \in Volumes /\ status[u] \in Settled
        BY <3>1, <3>2, <1>2 DEF CallOK, StatusOfCall, TypeOK, Others
      <4>2. CASE Vol(g) = v
        <5>1. status[v] = "wanted"
          BY <4>1, <4>2 DEF CallCreate
        <5> QED
          BY <1>2, <3>1, <3>2, <4>2, <5>1 DEF CallOK, StatusOfCall, StepOfCall, Others, TypeOK
      <4>3. CASE Vol(g) # v
        <5>1. v \notin Others(Vol(g))
          <6> SUFFICES ASSUME v \in Others(Vol(g)) PROVE FALSE
            OBVIOUS
          <6>1. Vol(g) \in Others(v)
            BY <3>1, <4>3 DEF Others
          <6>2. status[v] # "wanted"
            BY <4>1 DEF Settled
          <6> QED
            BY <4>1, <6>1, <6>2 DEF CallCreate
        <5>2. status'[Vol(g)] = status[Vol(g)]
              /\ \A u \in Others(Vol(g)) : status'[u] = status[u]
          BY <1>2, <3>1, <4>1, <4>3, <5>1 DEF TypeOK
        <5> QED
          BY <3>1, <3>2, <5>2 DEF CallOK, StatusOfCall, StepOfCall, Others
      <4> QED
        BY <4>2, <4>3
    <3>3. CASE ~call[g].given
      <4>1. Vol(g) # v
        BY <1>1, <3>3
      <4>2. status'[Vol(g)] = status[Vol(g)]
        BY <1>2, <3>1, <4>1 DEF TypeOK
      <4> QED
        BY <1>1, <3>1, <3>3, <4>2
           DEF CallOK, StatusOfCall, StepOfCall, ProgressOfCall, Marked
    <3> QED
      BY <3>2, <3>3
  <2> QED
    BY <2>1, <2>2
<1>6. OneVolume'
  <2> SUFFICES ASSUME NEW x \in Volumes, status'[x] \notin Settled, NEW u \in Others(x)
               PROVE  status'[u] \in Settled
    BY DEF OneVolume, Others
  <2>1. CASE x = v
    BY <1>2, <1>4, <2>1 DEF TypeOK
  <2>2. CASE x # v
    <3>1. u # v
      <4> SUFFICES ASSUME u = v PROVE FALSE
        OBVIOUS
      <4>1. x \in Others(v)
        BY <2>2 DEF Others
      <4> QED
        BY <1>2, <1>4, <2>2, <4>1 DEF TypeOK
    <3> QED
      BY <1>2, <2>2, <3>1 DEF IInv, OneVolume, Others, TypeOK
  <2> QED
    BY <2>1, <2>2
<1>7. NameGoesFirst' /\ ProvisionedIsComplete' /\ DeletedIsFree' /\ (marker \subseteq dir)'
  <2>1. \A u \in Volumes : status'[u] # "wanted" => status'[u] = status[u]
    BY <1>2 DEF TypeOK
  <2> QED
    BY <1>1, <2>1 DEF IInv, NameGoesFirst, ProvisionedIsComplete, DeletedIsFree
<1> QED
  BY <1>1, <1>3, <1>5, <1>6, <1>7 DEF IInv

LEMMA CallDeleteKeeps ==
  ASSUME IInv, NEW h \in Handlers, NEW v \in Volumes, CallDelete(h, v)
  PROVE  IInv'
<1>1. /\ call[h] = NoCall
      /\ call' \in [Handlers -> Calls \union {NoCall}]
      /\ call'[h] \in Calls /\ call'[h].op = "delete" /\ call'[h].vol = v
      /\ call'[h].pc = "readIndex" /\ ~call'[h].given
      /\ \A g \in Handlers : g # h => call'[g] = call[g]
      /\ \A g \in Handlers : call[g] # NoCall /\ ~call[g].given => NameOf(Vol(g)) # NameOf(v)
      /\ OneCall'
      /\ UNCHANGED <<name, dir, marker, index, touched, late, faults>>
  BY StartKeepsCalls DEF CallDelete, Reads
<1>2. /\ status' = [status EXCEPT ![v] = "unwanted"] /\ TypeOK
      /\ status[v] \in {"provisioned", "unwanted"}
  BY DEF CallDelete, IInv
<1>3. TypeOK'
  BY <1>1, <1>2 DEF TypeOK
<1>4. \A u \in Volumes : (status'[u] \in Settled <=> status[u] \in Settled)
                         /\ (u # v => status'[u] = status[u])
  BY <1>2 DEF TypeOK, Settled
<1>5. ASSUME NEW g \in Handlers PROVE CallOK(g)'
  <2>1. CASE g = h
    <3>1. StatusOfCall(h)' /\ StepOfCall(h)' /\ ProgressOfCall(h)'
      BY <1>1, <1>2 DEF StatusOfCall, StepOfCall, ProgressOfCall, DeleteSteps, Vol, TypeOK
    <3> QED
      BY <2>1, <3>1 DEF CallOK
  <2>2. CASE g # h
    <3> SUFFICES ASSUME call[g] # NoCall PROVE CallOK(g)'
      BY <1>1, <2>2 DEF CallOK
    <3>1. /\ CallOK(g) /\ Vol(g) \in Volumes /\ Vol(g)' = Vol(g) /\ call'[g] = call[g]
          /\ late' = late /\ Others(Vol(g)) \subseteq Volumes
      BY <1>1, <2>2, CallTaken DEF IInv, Vol, Others
    <3>2. CASE call[g].given
      <4>1. status'[Vol(g)] = status[Vol(g)] \/ status'[Vol(g)] = "unwanted"
        BY <1>2, <3>1 DEF TypeOK
      <4> QED
        BY <1>4, <3>1, <3>2, <4>1 DEF CallOK, StatusOfCall, StepOfCall, Others
    <3>3. CASE ~call[g].given
      <4>1. Vol(g) # v
        BY <1>1, <3>3
      <4>2. status'[Vol(g)] = status[Vol(g)]
        BY <1>2, <3>1, <4>1 DEF TypeOK
      <4> QED
        BY <1>1, <3>1, <3>3, <4>2
           DEF CallOK, StatusOfCall, StepOfCall, ProgressOfCall, Marked
    <3> QED
      BY <3>2, <3>3
  <2> QED
    BY <2>1, <2>2
<1>6. OneVolume'
  BY <1>4 DEF IInv, OneVolume, Others
<1>7. NameGoesFirst'
  <2>1. status[v] = "provisioned" => v \in index
    BY DEF IInv, ProvisionedIsComplete
  <2> QED
    BY <1>1, <1>2, <1>4, <2>1 DEF IInv, NameGoesFirst
<1>8. ProvisionedIsComplete' /\ DeletedIsFree' /\ (marker \subseteq dir)'
  <2>1. \A u \in Volumes : status'[u] # "unwanted" => status'[u] = status[u]
    BY <1>2 DEF TypeOK
  <2> QED
    BY <1>1, <2>1 DEF IInv, ProvisionedIsComplete, DeletedIsFree
<1> QED
  BY <1>1, <1>3, <1>5, <1>6, <1>7, <1>8 DEF IInv

(* A call that is given up keeps its write under way, and the name of its  *)
(* volume is not used for another one any more.                            *)
LEMMA GivenUpKeeps ==
  ASSUME IInv, NEW h \in Handlers, GivenUp(h)
  PROVE  IInv'
<1>1. call[h] # NoCall /\ call[h] \in Calls /\ Vol(h) \in Volumes /\ ~call[h].given
      /\ CallOK(h) /\ TypeOK /\ call[h].op \in {"create", "delete"}
  BY CallTaken, NoCallIsNone DEF GivenUp, IInv, Writes
<1> DEFINE c == [call[h] EXCEPT !.given = TRUE]
<1>2. c \in Calls /\ c.op = call[h].op /\ c.vol = call[h].vol /\ c.pc = call[h].pc /\ c.given
  BY <1>1 DEF Calls
<1>3. /\ call' = [call EXCEPT ![h] = c]
      /\ late' = late + 1 /\ late' \in 0 .. MaxLate /\ late' > 0 /\ late' # 0
      /\ UNCHANGED <<name, dir, marker, index, status, touched, faults>>
  BY <1>1, RegistryAssumption DEF GivenUp, TypeOK, workspace
<1>4. /\ call'[h] = c /\ Vol(h)' = Vol(h)
      /\ \A g \in Handlers : g # h => call'[g] = call[g] /\ Vol(g)' = Vol(g)
      /\ call' \in [Handlers -> Calls \union {NoCall}]
  BY <1>1, <1>2, <1>3 DEF TypeOK, Vol
<1>5. TypeOK'
  BY <1>1, <1>3, <1>4 DEF TypeOK
<1>6. ASSUME NEW g \in Handlers PROVE CallOK(g)'
  <2>1. CASE g = h
    <3>1. StepOfCall(h)'
      BY <1>1, <1>2, <1>4 DEF CallOK, StepOfCall
    <3>2. status[Vol(h)] = IF call[h].op = "create" THEN "wanted" ELSE "unwanted"
      BY <1>1 DEF CallOK, StatusOfCall
    <3>3. \A u \in Others(Vol(h)) : status[u] \in Settled
      BY <1>1, <3>2 DEF IInv, OneVolume, Settled
    <3>4. StatusOfCall(h)'
      BY <1>2, <1>3, <1>4, <3>2, <3>3 DEF StatusOfCall, GivenUp, Others
    <3> QED
      BY <1>2, <1>4, <2>1, <3>1, <3>4 DEF CallOK
  <2>2. CASE g # h
    <3>1. CallOK(g) /\ call'[g] = call[g] /\ Vol(g)' = Vol(g)
      BY <1>4, <2>2 DEF IInv
    <3> QED
      BY <1>3, <3>1 DEF CallOK, StepOfCall, StatusOfCall, ProgressOfCall, Marked, Others
  <2> QED
    BY <2>1, <2>2
<1>7. OneCall'
  <2>1. OneCall
    BY DEF IInv
  <2>2. call'[h].given /\ \A g \in Handlers : g # h => call'[g] = call[g]
    BY <1>2, <1>4
  <2> HIDE DEF c
  <2> QED
    BY <2>1, <2>2, Zenon DEF OneCall
<1>8. OneVolume' /\ NameGoesFirst' /\ ProvisionedIsComplete' /\ DeletedIsFree'
  BY <1>3 DEF IInv, OneVolume, NameGoesFirst, ProvisionedIsComplete, DeletedIsFree, Others
<1> QED
  BY <1>3, <1>5, <1>6, <1>7, <1>8 DEF IInv

LEMMA UserRemovesRootKeeps ==
  ASSUME IInv, NEW v \in Volumes, UserRemovesRoot(v)
  PROVE  IInv'
<1>1. /\ dir' = dir \ {v} /\ marker' = marker \ {v} /\ touched' = touched \union {v}
      /\ UNCHANGED <<name, index, call, status, late>>
  BY DEF UserRemovesRoot
<1>2. TypeOK'
  BY <1>1, RegistryAssumption DEF UserRemovesRoot, Faulty, IInv, TypeOK
<1>3. ASSUME NEW g \in Handlers PROVE CallOK(g)'
  <2>1. CallOK(g) /\ Vol(g)' = Vol(g)
    BY <1>1 DEF IInv, Vol
  <2> QED
    BY <1>1, <2>1 DEF CallOK, StepOfCall, StatusOfCall, ProgressOfCall, Marked, Others
<1>4. OneCall' /\ OneVolume' /\ NameGoesFirst' /\ DeletedIsFree' /\ (marker \subseteq dir)'
  BY <1>1 DEF IInv, OneCall, OneVolume, NameGoesFirst, DeletedIsFree, Others
<1>5. ProvisionedIsComplete'
  BY <1>1 DEF IInv, ProvisionedIsComplete
<1> QED
  BY <1>2, <1>3, <1>4, <1>5 DEF IInv

LEMMA NextKeeps == IInv /\ [Next]_vars => IInv'
<1> SUFFICES ASSUME IInv, [Next]_vars PROVE IInv'
  OBVIOUS
<1>1. ASSUME NEW h \in Handlers, Step(h) \/ RequestFails(h) PROVE IInv'
  BY <1>1, CreateIsStep, DeleteIsStep, RequestFailsIsStep, HandlerStepKeeps DEF Step
<1>2. ASSUME NEW h \in Handlers, GivenUp(h) PROVE IInv'
  BY <1>2, GivenUpKeeps
<1>3. ASSUME NEW h \in Handlers, NEW v \in Volumes, CallCreate(h, v) \/ CallDelete(h, v)
      PROVE  IInv'
  BY <1>3, CallCreateKeeps, CallDeleteKeeps
<1>4. ASSUME NEW v \in Volumes, UserRemovesRoot(v) PROVE IInv'
  BY <1>4, UserRemovesRootKeeps
<1>5. CASE UNCHANGED vars
  BY <1>5 DEF vars, workspace, client, IInv, TypeOK, CallOK, StepOfCall, StatusOfCall,
              ProgressOfCall, Marked, Others, Vol, OneCall, OneVolume, NameGoesFirst,
              ProvisionedIsComplete, DeletedIsFree
<1> QED
  BY <1>1, <1>2, <1>3, <1>4, <1>5 DEF Next

-----------------------------------------------------------------------------
(* Theorems *)

(* Every call of CreateVolume and DeleteVolume finds in the workspace what *)
(* its earlier requests have put there, however many requests failed and   *)
(* whatever calls were given up.                                           *)
THEOREM InductiveInvariant == Spec => []IInv
BY InitIInv, NextKeeps, PTL DEF Spec

(* The workspace and the calls keep their types. *)
THEOREM TypeCorrect == Spec => []TypeOK
<1>1. IInv => TypeOK
  BY DEF IInv
<1> QED
  BY <1>1, InductiveInvariant, PTL

(* A volume reported by CreateVolume is complete until its deletion, for   *)
(* any number of requests that fail or arrive late.                        *)
THEOREM ProvisionedStaysComplete == Spec => []ProvisionedIsComplete
<1>1. IInv => ProvisionedIsComplete
  BY DEF IInv
<1> QED
  BY <1>1, InductiveInvariant, PTL

(* A volume that DeleteVolume has reported deleted holds neither its name  *)
(* nor an index entry, unless calls were given up.                         *)
THEOREM DeletedStaysFree == Spec => []DeletedIsFree
<1>1. IInv => DeletedIsFree
  BY DEF IInv
<1> QED
  BY <1>1, InductiveInvariant, PTL
=============================================================================
