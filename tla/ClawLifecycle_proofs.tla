------------------------- MODULE ClawLifecycle_proofs --------------------------
(***************************************************************************)
(* Proofs about ClawLifecycle for any set of versions, input states and    *)
(* bounds: the state is well typed, an idled Claw's status is consistent   *)
(* and the high-water mark of deployed versions never goes down.           *)
(*                                                                         *)
(* The inductive invariant adds to the type invariant that a copy with the *)
(* server's resourceVersion is the server's object, and that the copy has  *)
(* no Idle condition from the point where Reconcile has resumed the Claw.  *)
(* A second one tracks what a Reconcile in progress has still to do, or    *)
(* that another is owed, from which metric and Deployments agree with the  *)
(* spec once the operator is at rest.                                      *)
(***************************************************************************)
EXTENDS ClawLifecycle, TLAPS

CacheExact == cacheFresh => cache = claw
InstExact  == instFresh => inst = claw

\* Past the Unidle write the copy in hand has no Idle condition, so no later
\* write of this Reconcile can bring it back.
Resumed ==
    pc \in {"validate", "applyGateway", "applyProxy", "updateStatus"}
        => ~ inst.idleCond

\* IdleStatusConsistent for any copy of the Claw.
Consistent(c) == c.idleCond => c.ready \in {"Idle", "ValidationFailed"} /\ ~ c.url

Inv ==
    /\ TypeOK
    /\ CacheExact
    /\ InstExact
    /\ Resumed
    /\ IdleStatusConsistent

-----------------------------------------------------------------------------
(* The values Reconcile computes *)

\* The version after defaulting is one the gateway can be asked to run.
LEMMA SpecVersionType ==
  ASSUME NEW i \in Claws
  PROVE  SpecVersion(i) \in EffectiveVersions
  BY DEF SpecVersion, EffectiveVersions, Claws

\* updateStatus produces a well typed Claw with the copy's Idle condition.
LEMMA UpdatedStatusType ==
  ASSUME NEW i \in Claws, NEW r \in BOOLEAN,
         NEW reason \in {"Provisioning", "InitContainerFailure"}
  PROVE  /\ UpdatedStatus(i, r, reason) \in Claws
         /\ UpdatedStatus(i, r, reason).idleCond = i.idleCond
         /\ UpdatedStatus(i, r, reason).last = lastDeployedVersion(i, r)
  <1>1. lastDeployedVersion(i, r) \in EffectiveVersions \cup {Unset}
    <2>1. SpecVersion(i) \in EffectiveVersions
      BY SpecVersionType
    <2>2. i.last \in EffectiveVersions \cup {Unset}
      BY DEF Claws
    <2> QED
      BY <2>1, <2>2 DEF lastDeployedVersion
  <1>2. versionDowngrade(i) \in BOOLEAN
    BY DEF versionDowngrade
  <1>3. (r /\ route = "admitted") \in BOOLEAN
    OBVIOUS
  <1>4. (IF r THEN "Ready" ELSE reason) \in ReadyReasons
    BY DEF ReadyReasons
  <1> QED
    BY <1>1, <1>2, <1>3, <1>4 DEF UpdatedStatus, Claws

\* The label is one of those claw_instance_status has.
LEMMA StatusLabelType ==
  ASSUME NEW reason \in ReadyReasons
  PROVE  conditionReasonToStatus(reason) \in Labels
  BY DEF conditionReasonToStatus, Labels, ReadyReasons

\* An accepted status write was based on the current object.
LEMMA StatusUpdateFacts ==
  ASSUME Inv, NEW new, StatusUpdate(new), cache' = cache
  PROVE  /\ claw' = new /\ inst = claw /\ instFresh
         /\ cacheFresh' \in BOOLEAN
         /\ CacheExact'
  <1>1. claw' = new /\ inst = claw /\ instFresh
    BY DEF StatusUpdate, Inv, InstExact
  <1>2. cacheFresh' = (cacheFresh /\ new = claw)
    BY DEF StatusUpdate
  <1>3. cacheFresh' \in BOOLEAN /\ (cacheFresh' => cacheFresh /\ new = claw)
    BY <1>2
  <1> QED
    BY <1>1, <1>3 DEF Inv, CacheExact

\* The Deployment CreateOrUpdate writes is well typed.
LEMMA DesiredType ==
  ASSUME TypeOK, NEW d \in Deployments
  PROVE  Desired(d) \in Deploys
  <1>1. DesiredVersion(d) \in EffectiveVersions \cup {Tag}
    BY SpecVersionType DEF DesiredVersion, TypeOK
  <1>2. depCache[d].avail \in BOOLEAN
    BY DEF TypeOK, Deploys
  <1> QED
    BY <1>1, <1>2 DEF Desired, Deploys

\* Applying a Deployment keeps the cluster state well typed.
LEMMA ApplyType ==
  ASSUME TypeOK, NEW d \in Deployments, applyDeployment(d)
  PROVE  /\ dep' \in [Deployments -> Deploys]
         /\ depFresh' \in [Deployments -> BOOLEAN]
  <1>1. Desired(d) \in Deploys
    BY DesiredType
  <1> QED
    BY <1>1 DEF applyDeployment, TypeOK

\* ... and so does scaling one to zero.
LEMMA ScaleType ==
  ASSUME TypeOK, NEW d \in Deployments, scaleDeploymentToZero(d)
  PROVE  /\ dep' \in [Deployments -> Deploys]
         /\ depFresh' \in [Deployments -> BOOLEAN]
  <1>1. CASE depCache[d].replicas \in {Absent, 0}
    BY <1>1 DEF scaleDeploymentToZero, TypeOK
  <1>2. CASE depCache[d].replicas \notin {Absent, 0}
    <2>1. /\ dep' = [dep EXCEPT ![d].replicas = 0]
          /\ depFresh' = [depFresh EXCEPT ![d] = @ /\ dep[d].replicas = 0]
      BY <1>2 DEF scaleDeploymentToZero
    <2>2. dep' \in [Deployments -> Deploys]
      BY <2>1 DEF TypeOK, Deploys
    <2>3. depFresh' \in [Deployments -> BOOLEAN]
      BY <2>1 DEF TypeOK
    <2> QED
      BY <2>2, <2>3
  <1> QED
    BY <1>1, <1>2

-----------------------------------------------------------------------------
(* The inductive invariant *)

\* A new Claw satisfies it.
LEMMA InitInv == Init => Inv
  <1> SUFFICES ASSUME Init PROVE Inv
    OBVIOUS
  <1>1. PICK i \in BOOLEAN, v \in Versions, u \in UserConfigs :
          claw = [alive |-> TRUE, idle |-> i, version |-> v, userConfig |-> u,
                  idleCond |-> FALSE,
                  ready |-> "None", url |-> FALSE, last |-> Unset,
                  downgrade |-> FALSE]
    BY DEF Init
  <1>2. claw \in Claws
    BY <1>1 DEF Claws, ReadyReasons
  <1>3. NoDeployment \in Deploys
    BY DEF NoDeployment, Deploys
  <1>4. TypeOK
    <2>1. /\ dep \in [Deployments -> Deploys]
          /\ depFresh \in [Deployments -> BOOLEAN]
      BY <1>3 DEF Init
    <2>2. restarts \in 0..MaxRestarts /\ changes \in 0..MaxChanges
          /\ failures \in 0..MaxFailures
      BY ConstantsAssumption DEF Init
    <2>3. inputs \in InputStates /\ route \in {"none", "pending", "admitted"}
      BY ConstantsAssumption DEF Init
    <2>4. cache = claw /\ inst = claw /\ depCache = dep
      BY DEF Init
    <2>5. /\ cacheFresh \in BOOLEAN /\ instFresh \in BOOLEAN /\ queued \in BOOLEAN
          /\ started \in BOOLEAN /\ pc \in Steps /\ metric \in Labels
      BY DEF Init, Steps, Labels
    <2> QED
      BY <1>2, <2>1, <2>2, <2>3, <2>4, <2>5 DEF TypeOK
  <1> QED
    BY <1>1, <1>4 DEF Init, Inv, CacheExact, InstExact, Resumed, IdleStatusConsistent

\* Returning from Reconcile without a write.
LEMMA EndInv ==
  ASSUME Inv, EndReconcile, UNCHANGED <<claw, cacheFresh, cluster, world>>,
         queued' \in BOOLEAN, metric' \in Labels, failures' \in 0..MaxFailures
  PROVE  Inv'
  BY DEF EndReconcile, cluster, world, Inv, TypeOK, Steps, CacheExact, InstExact,
         Resumed, IdleStatusConsistent

\* Returning from Reconcile with a status write.
LEMMA EndWithWriteInv ==
  ASSUME Inv, EndReconcile, NEW new \in Claws, StatusUpdate(new),
         Consistent(new),
         UNCHANGED <<cluster, world>>,
         queued' \in BOOLEAN, metric' \in Labels, failures' \in 0..MaxFailures
  PROVE  Inv'
  <1>1. cache' = cache
    BY DEF EndReconcile
  <1>2. claw' = new /\ cacheFresh' \in BOOLEAN /\ CacheExact'
    BY <1>1, StatusUpdateFacts
  <1> QED
    BY <1>2 DEF EndReconcile, cluster, world, Inv, TypeOK, Steps, InstExact, Resumed,
                IdleStatusConsistent, Consistent

\* A failed call leaves the count of failures within its bound.
LEMMA FailureCount ==
  ASSUME Inv, NEW stale, CallFails(stale)
  PROVE  failures' \in 0..MaxFailures
  BY ConstantsAssumption DEF CallFails, Inv, TypeOK

\* PublishStatus and PublishRefused preserve the invariant for a consistent
\* new status.
LEMMA PublishInv ==
  ASSUME Inv, NEW new \in Claws, Consistent(new),
         PublishStatus(new) \/ PublishRefused(new)
  PROVE  Inv'
  <1>1. conditionReasonToStatus(new.ready) \in Labels
    BY StatusLabelType DEF Claws
  <1>2. CASE PublishStatus(new)
    BY <1>1, <1>2, EndWithWriteInv DEF PublishStatus, Inv, TypeOK
  <1>3. CASE PublishRefused(new)
    BY <1>1, <1>3, EndInv, FailureCount DEF PublishRefused
  <1> QED
    BY <1>2, <1>3

\* A rejection preserves it when the status it may write is consistent.
LEMMA RejectInv ==
  ASSUME Inv, NEW new \in Claws, StatusUpdate(new) => Consistent(new), Reject(new)
  PROVE  Inv'
  <1>1. CASE StatusUpdate(new) /\ UNCHANGED failures
    BY <1>1, EndWithWriteInv DEF Reject, Inv, TypeOK
  <1>2. CASE CallFails(~ instFresh) /\ UNCHANGED <<claw, cacheFresh>>
    BY <1>2, EndInv, FailureCount DEF Reject, Inv, TypeOK
  <1> QED
    BY <1>1, <1>2 DEF Reject

\* Every step of Reconcile preserves the invariant.
LEMMA ReconcileInv == Inv /\ Reconcile => Inv'
  <1> SUFFICES ASSUME Inv, Reconcile PROVE Inv'
    OBVIOUS
  <1>a. inst \in Claws /\ cache \in Claws /\ claw \in Claws
    BY DEF Inv, TypeOK
  <1>1. CASE ReconcileNotFound
    BY <1>1 DEF ReconcileNotFound, Dequeue, cluster, world, Inv, TypeOK, Labels,
                CacheExact, InstExact, Resumed, IdleStatusConsistent
  <1>2. CASE ReconcileFound
    <2>1. /\ inst' = cache /\ instFresh' = cacheFresh /\ queued' = FALSE
          /\ UNCHANGED <<claw, cache, cacheFresh, cluster, world, failures, metric>>
      BY <1>2 DEF ReconcileFound, Dequeue
    <2>2. /\ pc' \in Steps
          /\ pc' \in {"validate", "applyGateway", "applyProxy", "updateStatus"}
               => ~ cache.idleCond
      BY <1>2 DEF ReconcileFound, Steps
    <2> QED
      BY <2>1, <2>2 DEF cluster, world, Inv, TypeOK, CacheExact, InstExact, Resumed,
                        IdleStatusConsistent
  <1>3. CASE ScaleGateway
    BY <1>3, ScaleType DEF ScaleGateway, Deployments, world, Inv, TypeOK, Steps,
                CacheExact, InstExact, Resumed, IdleStatusConsistent
  <1>4. CASE ScaleProxy
    BY <1>4, ScaleType DEF ScaleProxy, Deployments, world, Inv, TypeOK, Steps,
                CacheExact, InstExact, Resumed, IdleStatusConsistent
  <1>5. CASE IdleUnchanged
    BY <1>5, EndInv DEF IdleUnchanged, Inv, TypeOK
  <1>6. CASE IdleStatus \/ IdleStatusRefused
    <2>1. /\ Idled(inst) \in Claws
          /\ Idled(inst).ready = "Idle" /\ Idled(inst).url = FALSE
      BY <1>a DEF Idled, Claws, ReadyReasons
    <2> QED
      BY <1>6, <2>1, PublishInv DEF Consistent, IdleStatus, IdleStatusRefused
  <1>7. CASE Unidle
    <2> DEFINE new == [inst EXCEPT !.idleCond = FALSE]
    <2>1. StatusUpdate(new) /\ cache' = cache
      BY <1>7 DEF Unidle
    <2>2. claw' = new /\ cacheFresh' \in BOOLEAN /\ CacheExact'
      BY <2>1, StatusUpdateFacts
    <2>3. new \in Claws /\ ~ new.idleCond
      BY <1>a DEF Claws
    <2> HIDE DEF new
    <2> QED
      BY <1>7, <2>2, <2>3 DEF Unidle, cluster, world, Inv, TypeOK, Steps, InstExact,
                              Resumed, IdleStatusConsistent
  <1>8. CASE rejectValidation
    <2>1. /\ [inst EXCEPT !.ready = "ValidationFailed"] \in Claws
          /\ ~ [inst EXCEPT !.ready = "ValidationFailed"].idleCond
      BY <1>8, <1>a DEF rejectValidation, Claws, ReadyReasons, Inv, Resumed
    <2> QED
      BY <1>8, <2>1, RejectInv DEF Consistent, rejectValidation
  <1>9. CASE RejectProxyConfig
    <2>1. /\ [inst EXCEPT !.ready = "ConfigFailed"] \in Claws
          /\ ~ [inst EXCEPT !.ready = "ConfigFailed"].idleCond
      BY <1>9, <1>a DEF RejectProxyConfig, Claws, ReadyReasons, Inv, Resumed
    <2> QED
      BY <1>9, <2>1, RejectInv DEF Consistent, RejectProxyConfig
  <1>10. CASE AwaitRoute
    BY <1>10, EndInv DEF AwaitRoute, Inv, TypeOK
  <1>11. CASE RejectPassword
    <2> DEFINE new == [inst EXCEPT !.ready = "ValidationFailed", !.url = FALSE]
    <2>1. new \in Claws /\ ~ new.idleCond
      BY <1>11, <1>a DEF RejectPassword, Claws, ReadyReasons, Inv, Resumed
    <2> QED
      BY <1>11, <2>1, RejectInv DEF Consistent, RejectPassword
  <1>12. CASE Validated
    BY <1>12 DEF Validated, cluster, world, Inv, TypeOK, Steps, CacheExact, InstExact,
                 Resumed, IdleStatusConsistent
  <1>13. CASE ApplyGateway
    BY <1>13, ApplyType DEF ApplyGateway, Deployments, world, Inv, TypeOK, Steps,
                 CacheExact, InstExact, Resumed, IdleStatusConsistent
  <1>14. CASE ApplyProxy
    BY <1>14, ApplyType DEF ApplyProxy, Deployments, world, Inv, TypeOK, Steps,
                 CacheExact, InstExact, Resumed, IdleStatusConsistent
  <1>15. CASE UpdateStatus
    <2>1. PICK reason \in {"Provisioning", "InitContainerFailure"} :
            PublishStatus(UpdatedStatus(inst, checkDeploymentsReady, reason))
      BY <1>15 DEF UpdateStatus
    <2>2. checkDeploymentsReady \in BOOLEAN
      BY DEF checkDeploymentsReady
    <2>3. ~ inst.idleCond
      BY <1>15 DEF UpdateStatus, Inv, Resumed
    <2> QED
      BY <2>1, <2>2, <2>3, <1>a, UpdatedStatusType, PublishInv DEF Consistent
  <1>16. CASE UpdateStatusRefused
    <2>1. checkDeploymentsReady \in BOOLEAN
      BY DEF checkDeploymentsReady
    <2>2. ~ inst.idleCond
      BY <1>16 DEF UpdateStatusRefused, Inv, Resumed
    <2> QED
      BY <1>16, <2>1, <2>2, <1>a, UpdatedStatusType, PublishInv
      DEF Consistent, UpdateStatusRefused
  <1>17. CASE RejectUserConfig
    <2> DEFINE new == [inst EXCEPT !.ready = "ValidationFailed"]
    <2>1. new \in Claws /\ new.ready = "ValidationFailed" /\ new.url = inst.url
          /\ new.idleCond = inst.idleCond
      BY <1>a DEF Claws, ReadyReasons
    <2>2. Reject(new)
      BY <1>17 DEF RejectUserConfig
    <2>3. ASSUME StatusUpdate(new) PROVE inst = claw
      BY <2>3 DEF StatusUpdate, Inv, InstExact
    <2> HIDE DEF new
    <2>4. StatusUpdate(new) => Consistent(new)
      BY <2>1, <2>3 DEF Consistent, Inv, IdleStatusConsistent
    <2> QED
      BY <2>1, <2>2, <2>4, RejectInv
  <1>18. CASE Fail
    BY <1>18, EndInv, FailureCount DEF Fail, Inv, TypeOK
  <1> QED
    BY <1>1, <1>2, <1>3, <1>4, <1>5, <1>6, <1>7, <1>8, <1>9, <1>10, <1>11, <1>12,
       <1>13, <1>14, <1>15, <1>16, <1>17, <1>18 DEF Reconcile

\* So does every step of the informers, the process, the user and the cluster.
LEMMA NextInv == Inv /\ [Next]_vars => Inv'
  <1> SUFFICES ASSUME Inv, [Next]_vars PROVE Inv'
    OBVIOUS
  <1> USE DEF Inv, CacheExact, InstExact, Resumed, IdleStatusConsistent
  <1>1. CASE Reconcile
    BY <1>1, ReconcileInv
  <1>2. CASE ClawSync
    BY <1>2 DEF ClawSync, cluster, world, TypeOK
  <1>3. ASSUME NEW d \in Deployments, DeploymentSync(d) PROVE Inv'
    BY <1>3 DEF DeploymentSync, world, TypeOK
  <1>4. CASE Restart
    <2>1. /\ restarts' \in 0..MaxRestarts /\ pc' \in Steps /\ metric' \in Labels
          /\ pc' = "idle" /\ depFresh' \in [Deployments -> BOOLEAN]
      BY <1>4, ConstantsAssumption DEF Restart, TypeOK, Steps, Labels
    <2> QED
      BY <1>4, <2>1 DEF Restart, TypeOK
  <1>5. CASE Start
    <2>1. metric' \in Labels
      BY <1>5, StatusLabelType DEF Start, TypeOK, Claws
    <2> QED
      BY <1>5, <2>1 DEF Start, cluster, TypeOK
  <1>6. CASE EditSpec
    <2>1. claw' \in Claws /\ claw'.idleCond = claw.idleCond
          /\ claw'.ready = claw.ready /\ claw'.url = claw.url
      BY <1>6 DEF EditSpec, TypeOK, Claws
    <2>2. changes' \in 0..MaxChanges
      BY <1>6, ConstantsAssumption DEF EditSpec, Change, TypeOK
    <2> QED
      BY <1>6, <2>1, <2>2 DEF EditSpec, cluster, TypeOK
  <1>7. CASE Delete
    <2>1. claw' \in Claws /\ claw'.idleCond = claw.idleCond
          /\ claw'.ready = claw.ready /\ claw'.url = claw.url
      BY <1>7 DEF Delete, TypeOK, Claws
    <2>2. changes' \in 0..MaxChanges
      BY <1>7, ConstantsAssumption DEF Delete, Change, TypeOK
    <2> QED
      BY <1>7, <2>1, <2>2 DEF Delete, cluster, TypeOK
  <1>8. CASE InputsChange
    BY <1>8, ConstantsAssumption DEF InputsChange, Change, cluster, TypeOK
  <1>9. CASE RouteAdmitted
    BY <1>9 DEF RouteAdmitted, cluster, TypeOK
  <1>10. ASSUME NEW d \in Deployments, NEW a \in BOOLEAN, DeploymentStatus(d, a)
         PROVE  Inv'
    <2>1. dep' \in [Deployments -> Deploys] /\ depFresh' \in [Deployments -> BOOLEAN]
      BY <1>10 DEF DeploymentStatus, TypeOK, Deploys
    <2> QED
      BY <1>10, <2>1 DEF DeploymentStatus, world, TypeOK
  <1>11. CASE UNCHANGED vars
    BY <1>11 DEF vars, TypeOK
  <1> QED
    BY <1>1, <1>2, <1>3, <1>4, <1>5, <1>6, <1>7, <1>8, <1>9, <1>10, <1>11
    DEF Next, Environment

-----------------------------------------------------------------------------
(* Theorems *)

\* The inductive invariant holds in every reachable state.
THEOREM Invariance == Spec => []Inv
  BY InitInv, NextInv, PTL DEF Spec

\* The state of the Claw controller stays well typed.
THEOREM TypeCorrect == Spec => []TypeOK
  <1>1. Inv => TypeOK
    BY DEF Inv
  <1> QED
    BY <1>1, Invariance, PTL

\* A Claw with the Idle condition is never shown as ready, failed or
\* reachable, whatever fails or restarts between idling and resuming.
THEOREM IdleConsistent == Spec => []IdleStatusConsistent
  <1>1. Inv => IdleStatusConsistent
    BY DEF Inv
  <1> QED
    BY <1>1, Invariance, PTL

\* lastDeployedVersion never moves from one CalVer to a smaller one.
THEOREM HighWater == Spec => HighWaterMark
  <1>1. Inv /\ [Next]_vars =>
          [claw.last > Tag /\ claw'.last > Tag => claw'.last >= claw.last]_vars
    <2> SUFFICES ASSUME Inv, Next, claw.last > Tag, claw'.last > Tag
                 PROVE  claw'.last >= claw.last
      BY DEF vars
    <2>0. claw \in Claws /\ claw.last \in Nat
      <3>1. claw \in Claws
        BY DEF Inv, TypeOK
      <3>2. claw.last \in EffectiveVersions \cup {Unset}
        BY <3>1 DEF Claws
      <3>3. EffectiveVersions \cup {Unset} \subseteq Nat
        BY ConstantsAssumption DEF EffectiveVersions, Unset
      <3> QED
        BY <3>1, <3>2, <3>3
    <2>1. ASSUME NEW r \in BOOLEAN, NEW reason, PublishStatus(UpdatedStatus(inst, r, reason))
          PROVE  claw'.last >= claw.last
      <3>1. inst = claw /\ claw' = UpdatedStatus(claw, r, reason)
        BY <2>1 DEF PublishStatus, StatusUpdate, Inv, InstExact
      <3>2. claw'.last = lastDeployedVersion(claw, r)
        BY <3>1, <2>0 DEF UpdatedStatus, Claws
      <3>3. SpecVersion(claw) \in Nat
        BY <2>0, SpecVersionType, ConstantsAssumption DEF EffectiveVersions
      <3> QED
        BY <2>0, <3>2, <3>3 DEF lastDeployedVersion, compareCalver, Tag, Unset
    <2>2. ASSUME claw'.last = claw.last PROVE claw'.last >= claw.last
      BY <2>0, <2>2
    <2>3. ASSUME NEW new, StatusUpdate(new), new.last = inst.last
          PROVE  claw'.last = claw.last
      BY <2>3 DEF StatusUpdate, Inv, InstExact
    <2>4. inst \in Claws
      BY DEF Inv, TypeOK
    <2>5. CASE UpdateStatus
      <3>1. checkDeploymentsReady \in BOOLEAN
        BY DEF checkDeploymentsReady
      <3> QED
        BY <2>1, <2>5, <3>1 DEF UpdateStatus
    <2>6. CASE IdleStatus
      <3>1. Idled(inst).last = inst.last
        BY <2>4 DEF Idled, Claws
      <3> QED
        BY <2>2, <2>3, <2>6, <3>1 DEF IdleStatus, PublishStatus
    <2>7. CASE Unidle
      <3>1. [inst EXCEPT !.idleCond = FALSE].last = inst.last
        BY <2>4 DEF Claws
      <3> QED
        BY <2>2, <2>3, <2>7, <3>1 DEF Unidle
    <2>8. CASE rejectValidation \/ RejectProxyConfig \/ RejectPassword \/ RejectUserConfig
      <3>1. /\ [inst EXCEPT !.ready = "ValidationFailed"].last = inst.last
            /\ [inst EXCEPT !.ready = "ConfigFailed"].last = inst.last
            /\ [inst EXCEPT !.ready = "ValidationFailed", !.url = FALSE].last = inst.last
        BY <2>4 DEF Claws
      <3>2. ASSUME NEW new, Reject(new), new.last = inst.last
            PROVE  claw'.last = claw.last
        BY <2>3, <3>2 DEF Reject
      <3> QED
        BY <2>2, <2>8, <3>1, <3>2 DEF rejectValidation, RejectProxyConfig, RejectPassword,
           RejectUserConfig
    <2>9. CASE EditSpec \/ Delete
      BY <2>0, <2>2, <2>9 DEF EditSpec, Delete, Claws
    <2>10. CASE UNCHANGED claw
      BY <2>2, <2>10
    <2> QED
      BY <2>5, <2>6, <2>7, <2>8, <2>9, <2>10
      DEF Next, Reconcile, Environment, ReconcileNotFound, ReconcileFound, Dequeue,
          ScaleGateway, ScaleProxy, IdleUnchanged, IdleStatusRefused, AwaitRoute,
          Validated, ApplyGateway, ApplyProxy, UpdateStatusRefused, PublishRefused,
          Fail, ClawSync, DeploymentSync, Restart, Start, InputsChange,
          RouteAdmitted, DeploymentStatus
  <1> QED
    BY <1>1, Invariance, PTL DEF Spec, HighWaterMark
-----------------------------------------------------------------------------
(* The operator at rest *)

\* The steps of handleIdle, and those of a Claw that runs or resumes.
IdlePath == {"scaleGateway", "scaleProxy", "idleStatus"}
ApplyPath == {"validate", "applyGateway", "applyProxy", "updateStatus"}

\* The copies of the Deployments are exact once their events are delivered.
DepExact == \A d \in Deployments : depFresh[d] => depCache[d] = dep[d]

\* Another Reconcile will follow: the key is queued, or an event that enqueues
\* it is on its way.
Pending == queued \/ ~ cacheFresh \/ \E d \in Deployments : ~ depFresh[d]

\* A Reconcile that nothing will follow works on the current Claw.
InstCurrent == pc # "idle" => Pending \/ instFresh

\* The branch Reconcile takes is the one its copy asks for.
OnBranch ==
    /\ pc \in IdlePath => inst.idle /\ (instFresh => cacheFresh)
    /\ pc \in ApplyPath \cup {"unidle"} => ~ inst.idle

\* A deleted Claw does not come back, and a process that is not up yet leaves
\* the queue alone.
NotRevived == claw.alive => cache.alive
NotStarted == ~ started => pc = "idle" /\ queued /\ cache.ready = claw.ready

\* The Idle condition is the work of a Reconcile that saw spec.idle; whoever
\* applies the Deployments has removed it.
IdleSeen ==
    /\ claw.idleCond => cache.idle \/ cache.idleCond
    /\ pc \in ApplyPath => ~ claw.idleCond

\* handleIdle records no metric when it finds the Claw idled: by then it has.
IdledRecorded == started /\ claw.alive /\ alreadyIdled(claw) => metric = "idled"

MetricTracked ==
    started /\ claw.alive =>
        Pending \/ pc # "idle" \/ metric = conditionReasonToStatus(claw.ready)

\* What has been done for an idled and for a running Claw when the worker is
\* where it is.
IdleTracked ==
    claw.alive /\ claw.idle /\ ~ Pending =>
        /\ pc = "idle" => alreadyIdled(claw)
        /\ pc \in {"idle", "idleStatus", "scaleProxy"} => dep["gateway"].replicas # 1
        /\ pc \in {"idle", "idleStatus"} => dep["proxy"].replicas # 1

RunningTracked ==
    claw.alive /\ ~ claw.idle /\ ~ Pending =>
        /\ pc \in {"idle", "updateStatus", "applyProxy"} =>
             dep["gateway"].replicas = 1 /\ dep["gateway"].version = SpecVersion(claw)
        /\ pc \in {"idle", "updateStatus"} => dep["proxy"].replicas = 1
        /\ pc = "idle" => ~ claw.idleCond
                          /\ (claw.ready = "Ready" <=> \A d \in Deployments : dep[d].avail)

CopiesInv == DepExact /\ InstCurrent /\ OnBranch /\ NotRevived /\ NotStarted /\ IdleSeen
RestInv == CopiesInv /\ IdledRecorded /\ MetricTracked /\ IdleTracked /\ RunningTracked

\* With another Reconcile to follow nothing has to be done yet.
LEMMA PendingTracked ==
  ASSUME Pending'
  PROVE  MetricTracked' /\ IdleTracked' /\ RunningTracked'
  BY DEF MetricTracked, IdleTracked, RunningTracked

\* Only the worker that takes the key ends the wait for another Reconcile.
LEMMA PendingStays ==
  ASSUME TypeOK, [Next]_vars, Pending, ~ ReconcileNotFound, ~ ReconcileFound
  PROVE  Pending'
  <1>1. CASE queued' = TRUE
    BY <1>1 DEF Pending
  <1>2. CASE UNCHANGED <<queued, depFresh>> /\ (cacheFresh' => cacheFresh)
    BY <1>2 DEF Pending
  <1>3. ASSUME NEW new, StatusUpdate(new) PROVE cacheFresh' => cacheFresh
    BY <1>3 DEF StatusUpdate
  <1>4. ASSUME NEW d \in Deployments, NEW b \in BOOLEAN,
               depFresh' = [depFresh EXCEPT ![d] = @ /\ b],
               UNCHANGED <<queued, cacheFresh>>
        PROVE  Pending'
    BY <1>4 DEF Pending, TypeOK
  <1>5. CASE ScaleGateway \/ ScaleProxy
    <2>1. UNCHANGED <<queued, cacheFresh>>
      BY <1>5 DEF ScaleGateway, ScaleProxy
    <2>2. PICK d \in Deployments : scaleDeploymentToZero(d)
      BY <1>5 DEF ScaleGateway, ScaleProxy, Deployments
    <2>3. CASE UNCHANGED depFresh
      BY <1>2, <2>1, <2>3
    <2>4. CASE depFresh' = [depFresh EXCEPT ![d] = @ /\ dep[d].replicas = 0]
      BY <1>4, <2>1, <2>4
    <2> QED
      BY <2>2, <2>3, <2>4 DEF scaleDeploymentToZero
  <1>6. CASE ApplyGateway \/ ApplyProxy
    <2>1. UNCHANGED <<queued, cacheFresh>>
      BY <1>6 DEF ApplyGateway, ApplyProxy
    <2>2. PICK d \in Deployments : applyDeployment(d)
      BY <1>6 DEF ApplyGateway, ApplyProxy, Deployments
    <2>3. CASE UNCHANGED depFresh
      BY <1>2, <2>1, <2>3
    <2>4. CASE depFresh' = [depFresh EXCEPT ![d] = FALSE]
      BY <2>1, <2>4 DEF Pending, TypeOK
    <2> QED
      BY <2>2, <2>3, <2>4 DEF applyDeployment
  <1>7. CASE IdleStatus \/ Unidle \/ UpdateStatus
    <2>1. UNCHANGED <<queued, depFresh>>
      BY <1>7 DEF IdleStatus, Unidle, UpdateStatus, PublishStatus, cluster
    <2>2. cacheFresh' => cacheFresh
      BY <1>3, <1>7 DEF IdleStatus, Unidle, UpdateStatus, PublishStatus
    <2> QED
      BY <1>2, <2>1, <2>2
  <1>8. CASE IdleUnchanged \/ Validated \/ RouteAdmitted \/ Start \/ UNCHANGED vars
    BY <1>2, <1>8 DEF IdleUnchanged, Validated, RouteAdmitted, Start, vars, cluster
  <1>9. CASE IdleStatusRefused \/ RejectUserConfig \/ rejectValidation \/ RejectProxyConfig
             \/ AwaitRoute \/ RejectPassword \/ UpdateStatusRefused \/ Fail \/ ClawSync
             \/ (\E d \in Deployments : DeploymentSync(d)) \/ Restart \/ InputsChange
    BY <1>1, <1>9 DEF IdleStatusRefused, RejectUserConfig, rejectValidation,
       RejectProxyConfig, AwaitRoute, RejectPassword, UpdateStatusRefused, Fail, ClawSync,
       DeploymentSync, Restart, InputsChange, PublishRefused, Reject
  <1>10. CASE EditSpec \/ Delete
    BY <1>10 DEF EditSpec, Delete, Pending
  <1>11. ASSUME NEW d \in Deployments, NEW b \in BOOLEAN, DeploymentStatus(d, b)
         PROVE  Pending'
    BY <1>11 DEF DeploymentStatus, Pending, TypeOK
  <1> QED
    BY <1>5, <1>6, <1>7, <1>8, <1>9, <1>10, <1>11 DEF Next, Reconcile, Environment

\* A Reconcile that returns and leaves the key queued.
LEMMA RequeueRest ==
  ASSUME RestInv, pc # "idle", pc' = "idle", queued' = TRUE,
         UNCHANGED <<cache, dep, depCache, depFresh, started>>,
         claw'.alive = claw.alive, claw'.idleCond = claw.idleCond,
         alreadyIdled(claw') => metric' = "idled" \/ ~ claw.alive
  PROVE  RestInv'
  <1>1. MetricTracked' /\ IdleTracked' /\ RunningTracked'
    BY PendingTracked DEF Pending
  <1>2. CopiesInv'
    BY DEF RestInv, CopiesInv, DepExact, InstCurrent, OnBranch, NotRevived, NotStarted,
           IdleSeen, IdlePath, ApplyPath
  <1>3. IdledRecorded'
    BY DEF IdledRecorded, alreadyIdled
  <1> QED
    BY <1>1, <1>2, <1>3 DEF RestInv

\* Scaling to zero leaves no replica that the informer does not report.
LEMMA ScaleFacts ==
  ASSUME TypeOK, DepExact, NEW d \in Deployments, scaleDeploymentToZero(d),
         UNCHANGED depCache
  PROVE  /\ DepExact'
         /\ depFresh[d] => dep'[d].replicas # 1
         /\ \A e \in Deployments \ {d} : dep'[e] = dep[e]
  <1>1. CASE depCache[d].replicas \in {Absent, 0}
    BY <1>1 DEF scaleDeploymentToZero, DepExact, Absent
  <1>2. CASE depCache[d].replicas \notin {Absent, 0}
    <2>1. dep' = [dep EXCEPT ![d].replicas = 0]
      BY <1>2 DEF scaleDeploymentToZero
    <2>2. depFresh' = [depFresh EXCEPT ![d] = @ /\ dep[d].replicas = 0]
      BY <1>2 DEF scaleDeploymentToZero
    <2>3. \A e \in Deployments : depFresh'[e] => depFresh[e] /\ (e = d => dep[e].replicas = 0)
      BY <2>2 DEF TypeOK
    <2>4. dep[d].replicas = 0 => dep'[d] = dep[d]
      BY <2>1 DEF TypeOK, Deploys
    <2>5. dep'[d].replicas = 0 /\ \A e \in Deployments \ {d} : dep'[e] = dep[e]
      BY <2>1 DEF TypeOK, Deploys
    <2> QED
      BY <2>3, <2>4, <2>5 DEF DepExact
  <1> QED
    BY <1>1, <1>2

\* Applying a Deployment that is as desired leaves it, any other write will be
\* reported by the informer.
LEMMA ApplyFacts ==
  ASSUME TypeOK, DepExact, NEW d \in Deployments, applyDeployment(d), UNCHANGED depCache
  PROVE  /\ DepExact'
         /\ \/ UNCHANGED <<dep, depFresh>> /\ (depFresh[d] => dep[d] = Desired(d))
            \/ ~ depFresh'[d]
  <1>1. CASE depCache[d] = Desired(d)
    BY <1>1 DEF applyDeployment, DepExact
  <1>2. CASE depCache[d] # Desired(d)
    BY <1>2 DEF applyDeployment, DepExact, TypeOK
  <1> QED
    BY <1>1, <1>2

\* What an accepted status write leaves of the object.
LEMMA RejectRest ==
  ASSUME Inv, RestInv, NEW new, Reject(new), pc # "idle",
         new.alive = inst.alive, new.idleCond = inst.idleCond, ~ alreadyIdled(new)
  PROVE  RestInv'
  <1>1. pc' = "idle" /\ queued' = TRUE
        /\ UNCHANGED <<cache, dep, depCache, depFresh, started, metric>>
    BY DEF Reject, EndReconcile, cluster, world
  <1>2. CASE StatusUpdate(new)
    <2>1. claw' = new /\ inst = claw
      BY <1>1, <1>2, StatusUpdateFacts
    <2> QED
      BY <1>1, <2>1, RequeueRest
  <1>3. CASE UNCHANGED claw
    BY <1>1, <1>3, RequeueRest DEF RestInv, CopiesInv, NotStarted, IdledRecorded
  <1> QED
    BY <1>2, <1>3 DEF Reject

\* The steps of Reconcile that branch or work on the Deployments.
LEMMA WorkRest ==
  ASSUME Inv, RestInv, [Next]_vars,
         \/ ReconcileNotFound \/ ReconcileFound \/ ScaleGateway \/ ScaleProxy
         \/ Validated \/ ApplyGateway \/ ApplyProxy
  PROVE  RestInv'
  <1>a. TypeOK /\ CopiesInv /\ inst \in Claws
    BY DEF Inv, TypeOK, RestInv
  <1>b. ASSUME pc # "idle", ~ Pending PROVE inst = claw
    BY <1>b DEF CopiesInv, RestInv, InstCurrent, Inv, InstExact
  <1> USE DEF CopiesInv, InstCurrent, OnBranch, NotRevived, NotStarted, IdleSeen, IdlePath,
              ApplyPath
  <1>1. CASE ReconcileNotFound
    <2>1. /\ ~ cache.alive /\ pc' = pc /\ pc = "idle" /\ started
          /\ UNCHANGED <<claw, cache, dep, depCache, depFresh, started>>
      BY <1>1, Zenon DEF ReconcileNotFound, Dequeue, cluster, world
    <2>2. ~ claw.alive
      BY <2>1, <1>a
    <2> QED
      BY <1>a, <2>1, <2>2 DEF RestInv, DepExact, IdledRecorded, MetricTracked, IdleTracked,
         RunningTracked
  <1>2. CASE ReconcileFound
    <2>1. /\ cache.alive /\ pc = "idle" /\ started
          /\ inst' = cache /\ instFresh' = cacheFresh
          /\ UNCHANGED <<claw, cache, cacheFresh, dep, depCache, depFresh, started, metric>>
      BY <1>2, Zenon DEF ReconcileFound, Dequeue, cluster, world
    <2>2. \/ pc' = "userConfig"
          \/ pc' = "scaleGateway" /\ cache.idle
          \/ pc' = "unidle" /\ ~ cache.idle
          \/ pc' = "validate" /\ ~ cache.idle /\ ~ cache.idleCond
      BY <1>2 DEF ReconcileFound
    <2>3. InstCurrent'
      BY <2>1, <2>2 DEF Pending
    <2>4. CopiesInv'
      BY <1>a, <2>1, <2>2, <2>3 DEF DepExact
    <2>5. IdledRecorded' /\ MetricTracked'
      BY <2>1, <2>2 DEF RestInv, IdledRecorded, MetricTracked
    <2>6. IdleTracked' /\ RunningTracked'
      BY <2>2 DEF IdleTracked, RunningTracked
    <2> QED
      BY <2>4, <2>5, <2>6 DEF RestInv
  <1>3. CASE ScaleGateway \/ ScaleProxy
    <2>1. PICK d \in Deployments :
            /\ scaleDeploymentToZero(d)
            /\ \/ d = "gateway" /\ pc = "scaleGateway" /\ pc' = "scaleProxy"
               \/ d = "proxy" /\ pc = "scaleProxy" /\ pc' = "idleStatus"
      BY <1>3 DEF ScaleGateway, ScaleProxy, Deployments
    <2>2. UNCHANGED <<claw, cache, cacheFresh, inst, instFresh, depCache, metric, started>>
      BY <1>3 DEF ScaleGateway, ScaleProxy, world
    <2>3. /\ DepExact' /\ (depFresh[d] => dep'[d].replicas # 1)
          /\ \A e \in Deployments \ {d} : dep'[e] = dep[e]
      BY <1>a, <2>1, <2>2, ScaleFacts
    <2>4. Pending => Pending'
      BY <1>a, <1>3, PendingStays DEF ReconcileNotFound, ReconcileFound, Dequeue,
         ScaleGateway, ScaleProxy
    <2>5. CopiesInv'
      BY <1>a, <2>1, <2>2, <2>3, <2>4
    <2>6. IdledRecorded' /\ MetricTracked'
      BY <2>1, <2>2 DEF RestInv, IdledRecorded, MetricTracked
    <2>7. CASE Pending
      BY <2>4, <2>5, <2>6, <2>7, PendingTracked DEF RestInv
    <2>8. CASE ~ Pending
      <3>1. claw.idle /\ inst = claw /\ \A e \in Deployments : depFresh[e]
        BY <1>a, <1>b, <2>1, <2>8 DEF Pending
      <3>2. RunningTracked'
        BY <2>2, <3>1 DEF RunningTracked
      <3>3. IdleTracked'
        BY <2>1, <2>2, <2>3, <2>8, <3>1 DEF RestInv, IdleTracked, Deployments
      <3> QED
        BY <2>5, <2>6, <3>2, <3>3 DEF RestInv
    <2> QED
      BY <2>7, <2>8
  <1>4. CASE Validated
    <2>1. /\ pc = "validate" /\ pc' = "applyGateway"
          /\ UNCHANGED <<claw, cache, cacheFresh, inst, instFresh, queued, metric, dep,
                         depCache, depFresh, started>>
      BY <1>4 DEF Validated, cluster, world
    <2>2. CopiesInv'
      BY <1>a, <2>1 DEF Pending, DepExact
    <2> QED
      BY <2>1, <2>2 DEF RestInv, IdledRecorded, MetricTracked, IdleTracked, RunningTracked
  <1>5. CASE ApplyGateway \/ ApplyProxy
    <2>1. PICK d \in Deployments :
            /\ applyDeployment(d)
            /\ \/ d = "gateway" /\ pc = "applyGateway" /\ pc' = "applyProxy"
               \/ d = "proxy" /\ pc = "applyProxy" /\ pc' = "updateStatus"
      BY <1>5 DEF ApplyGateway, ApplyProxy, Deployments
    <2>2. UNCHANGED <<claw, cache, cacheFresh, inst, instFresh, depCache, metric, started>>
      BY <1>5 DEF ApplyGateway, ApplyProxy, world
    <2>3. /\ DepExact'
          /\ \/ UNCHANGED <<dep, depFresh>> /\ (depFresh[d] => dep[d] = Desired(d))
             \/ ~ depFresh'[d]
      BY <1>a, <2>1, <2>2, ApplyFacts
    <2>4. Pending => Pending'
      BY <1>a, <1>5, PendingStays DEF ReconcileNotFound, ReconcileFound, Dequeue,
         ApplyGateway, ApplyProxy
    <2>5. CopiesInv'
      BY <1>a, <2>1, <2>2, <2>3, <2>4
    <2>6. IdledRecorded' /\ MetricTracked' /\ IdleTracked'
      BY <2>1, <2>2 DEF RestInv, IdledRecorded, MetricTracked, IdleTracked
    <2>7. CASE Pending \/ ~ depFresh'[d]
      <3>1. Pending'
        BY <2>1, <2>4, <2>7 DEF Pending
      <3> QED
        BY <2>5, <2>6, <3>1, PendingTracked DEF RestInv
    <2>8. CASE ~ Pending /\ depFresh'[d]
      <3>1. inst = claw /\ dep' = dep /\ dep[d] = Desired(d)
        BY <1>b, <2>1, <2>3, <2>8 DEF Pending
      <3>2. dep[d].replicas = 1 /\ dep[d].version = DesiredVersion(d)
        BY <3>1 DEF Desired
      <3>3. d = "gateway" => dep[d].version = SpecVersion(claw)
        BY <3>1, <3>2 DEF DesiredVersion
      <3>4. SpecVersion(claw') = SpecVersion(claw)
        BY <2>2
      <3>5. RunningTracked'
        BY <2>1, <2>2, <2>8, <3>1, <3>2, <3>3, <3>4 DEF RestInv, RunningTracked, SpecVersion
      <3> QED
        BY <2>5, <2>6, <3>5 DEF RestInv
    <2> QED
      BY <2>7, <2>8
  <1> QED
    BY <1>1, <1>2, <1>3, <1>4, <1>5

\* The steps of Reconcile that write the status or return.
LEMMA StatusRest ==
  ASSUME Inv, RestInv, [Next]_vars,
         \/ IdleUnchanged \/ IdleStatus \/ IdleStatusRefused \/ Unidle
         \/ RejectUserConfig \/ rejectValidation \/ RejectProxyConfig \/ AwaitRoute
         \/ RejectPassword \/ UpdateStatus \/ UpdateStatusRefused \/ Fail
  PROVE  RestInv'
  <1>a. TypeOK /\ CopiesInv /\ inst \in Claws
    BY DEF Inv, TypeOK, RestInv
  <1>b. ASSUME pc # "idle", ~ Pending PROVE inst = claw
    BY <1>b DEF CopiesInv, RestInv, InstCurrent, Inv, InstExact
  <1>c. ASSUME pc # "idle" PROVE started
    BY <1>a, <1>c DEF CopiesInv, NotStarted
  <1> USE DEF CopiesInv, InstCurrent, OnBranch, NotRevived, NotStarted, IdleSeen, IdlePath,
              ApplyPath
  <1>1. CASE IdleUnchanged
    <2>1. /\ pc = "idleStatus" /\ pc' = "idle" /\ alreadyIdled(inst)
          /\ UNCHANGED <<claw, cache, cacheFresh, queued, metric, dep, depCache, depFresh,
                         started>>
      BY <1>1 DEF IdleUnchanged, EndReconcile, cluster, world
    <2>2. CopiesInv'
      BY <1>a, <1>c, <2>1 DEF DepExact
    <2>3. IdledRecorded'
      BY <2>1 DEF RestInv, IdledRecorded, alreadyIdled
    <2>4. CASE Pending
      <3>1. Pending'
        BY <2>1, <2>4 DEF Pending
      <3> QED
        BY <2>2, <2>3, <3>1, PendingTracked DEF RestInv
    <2>5. CASE ~ Pending
      <3>1. inst = claw /\ claw.idle /\ alreadyIdled(claw) /\ claw.ready = "Idle"
        BY <1>a, <1>b, <2>1, <2>5 DEF alreadyIdled
      <3>2. started /\ claw.alive => metric = conditionReasonToStatus(claw.ready)
        BY <3>1 DEF RestInv, IdledRecorded, conditionReasonToStatus
      <3>3. MetricTracked'
        BY <2>1, <3>2 DEF MetricTracked
      <3>4. IdleTracked'
        BY <2>1, <2>5, <3>1 DEF RestInv, IdleTracked, alreadyIdled
      <3>5. RunningTracked'
        BY <2>1, <3>1 DEF RunningTracked
      <3> QED
        BY <2>2, <2>3, <3>3, <3>4, <3>5 DEF RestInv
    <2> QED
      BY <2>4, <2>5
  <1>2. CASE IdleStatus
    <2>1. /\ pc = "idleStatus" /\ pc' = "idle" /\ ~ alreadyIdled(inst)
          /\ StatusUpdate(Idled(inst)) /\ metric' = conditionReasonToStatus(Idled(inst).ready)
          /\ UNCHANGED <<cache, queued, dep, depCache, depFresh, started>>
      BY <1>2 DEF IdleStatus, PublishStatus, EndReconcile, cluster, world
    <2>2. /\ Idled(inst).ready = "Idle" /\ Idled(inst).alive = inst.alive
          /\ Idled(inst) # inst
      BY <1>a, <2>1 DEF Idled, alreadyIdled, Claws
    <2>3. /\ claw' = Idled(inst) /\ inst = claw /\ ~ cacheFresh'
      BY <2>1, <2>2, StatusUpdateFacts DEF StatusUpdate
    <2>4. cache.idle
      BY <1>a, <2>1, <2>3 DEF Inv, CacheExact, StatusUpdate
    <2>5. CopiesInv'
      BY <1>a, <1>c, <2>1, <2>2, <2>3, <2>4 DEF DepExact
    <2>6. IdledRecorded'
      BY <2>1, <2>2 DEF IdledRecorded, conditionReasonToStatus
    <2>7. Pending'
      BY <2>3 DEF Pending
    <2> QED
      BY <2>5, <2>6, <2>7, PendingTracked DEF RestInv
  <1>3. CASE IdleStatusRefused
    <2>1. /\ pc # "idle" /\ pc' = "idle" /\ queued' = TRUE
          /\ metric' = conditionReasonToStatus(Idled(inst).ready)
          /\ UNCHANGED <<claw, cache, dep, depCache, depFresh, started>>
      BY <1>3 DEF IdleStatusRefused, PublishRefused, EndReconcile, cluster, world
    <2>2. metric' = "idled"
      BY <1>a, <2>1 DEF Idled, Claws, conditionReasonToStatus
    <2> QED
      BY <2>1, <2>2, RequeueRest
  <1>4. CASE Unidle
    <2>1. /\ pc = "unidle" /\ pc' = "validate" /\ inst' = claw'
          /\ StatusUpdate([inst EXCEPT !.idleCond = FALSE])
          /\ UNCHANGED <<cache, instFresh, queued, metric, dep, depCache, depFresh, started>>
      BY <1>4 DEF Unidle, cluster, world
    <2>2. /\ claw' = [inst EXCEPT !.idleCond = FALSE] /\ inst = claw /\ instFresh
      BY <2>1, StatusUpdateFacts
    <2>3. claw'.alive = claw.alive /\ ~ claw'.idle /\ claw'.idleCond = FALSE
      BY <1>a, <2>1, <2>2 DEF Claws
    <2>4. CopiesInv'
      BY <1>a, <1>c, <2>1, <2>2, <2>3 DEF DepExact
    <2>5. IdledRecorded' /\ MetricTracked'
      BY <2>1, <2>3 DEF IdledRecorded, alreadyIdled, MetricTracked
    <2>6. IdleTracked' /\ RunningTracked'
      BY <2>1 DEF IdleTracked, RunningTracked
    <2> QED
      BY <2>4, <2>5, <2>6 DEF RestInv
  <1>5. CASE RejectUserConfig \/ rejectValidation \/ RejectProxyConfig \/ RejectPassword
    <2>1. PICK new : /\ Reject(new)
                     /\ \/ new = [inst EXCEPT !.ready = "ValidationFailed"]
                        \/ new = [inst EXCEPT !.ready = "ConfigFailed"]
                        \/ new = [inst EXCEPT !.ready = "ValidationFailed", !.url = FALSE]
      BY <1>5 DEF RejectUserConfig, rejectValidation, RejectProxyConfig, RejectPassword
    <2>2. pc # "idle"
      BY <1>5 DEF RejectUserConfig, rejectValidation, RejectProxyConfig, RejectPassword
    <2>3. new.alive = inst.alive /\ new.idleCond = inst.idleCond /\ ~ alreadyIdled(new)
      BY <1>a, <2>1 DEF Claws, alreadyIdled
    <2> QED
      BY <2>1, <2>2, <2>3, RejectRest
  <1>6. CASE AwaitRoute \/ Fail
    <2>1. /\ pc # "idle" /\ pc' = "idle" /\ queued' = TRUE
          /\ UNCHANGED <<claw, cache, dep, depCache, depFresh, started, metric>>
      BY <1>6 DEF AwaitRoute, Fail, EndReconcile, cluster, world
    <2> QED
      BY <1>c, <2>1, RequeueRest DEF RestInv, IdledRecorded
  <1>7. CASE UpdateStatus
    <2> DEFINE r == checkDeploymentsReady
    <2>1. PICK reason \in {"Provisioning", "InitContainerFailure"} :
            PublishStatus(UpdatedStatus(inst, r, reason))
      BY <1>7 DEF UpdateStatus
    <2> DEFINE new == UpdatedStatus(inst, r, reason)
    <2>2. /\ pc = "updateStatus" /\ pc' = "idle" /\ metric' = conditionReasonToStatus(new.ready)
          /\ StatusUpdate(new)
          /\ UNCHANGED <<cache, queued, dep, depCache, depFresh, started>>
      BY <1>7, <2>1 DEF UpdateStatus, PublishStatus, EndReconcile, cluster, world
    <2>3. /\ new.idleCond = inst.idleCond /\ new.alive = inst.alive /\ new.idle = inst.idle
          /\ new.ready = "Ready" <=> r
      BY <1>a DEF UpdatedStatus, Claws
    <2>4. /\ claw' = new /\ inst = claw /\ (cacheFresh' => cacheFresh /\ new = claw)
      BY <2>2, StatusUpdateFacts DEF StatusUpdate
    <2>5. ~ claw.idleCond /\ ~ claw.idle
      BY <1>a, <2>2, <2>4
    <2> HIDE DEF new, r
    <2>6. CopiesInv' /\ IdledRecorded'
      BY <1>a, <1>c, <2>2, <2>3, <2>4, <2>5 DEF DepExact, IdledRecorded, alreadyIdled
    <2>7. MetricTracked' /\ IdleTracked'
      BY <2>2, <2>3, <2>4, <2>5 DEF MetricTracked, IdleTracked
    <2>8. RunningTracked'
      <3>1. CASE Pending'
        BY <3>1 DEF RunningTracked
      <3>2. CASE ~ Pending'
        <4>1. ~ Pending /\ claw' = claw
          BY <2>2, <2>4, <3>2 DEF Pending
        <4>2. r <=> \A d \in Deployments : dep[d].avail
          BY <1>a, <4>1 DEF r, checkDeploymentsReady, Pending, DepExact
        <4>3. claw.ready = "Ready" <=> \A d \in Deployments : dep[d].avail
          BY <2>3, <2>4, <4>1, <4>2
        <4> QED
          BY <2>2, <2>5, <4>1, <4>3 DEF RestInv, RunningTracked, SpecVersion
      <3> QED
        BY <3>1, <3>2
    <2> QED
      BY <2>6, <2>7, <2>8 DEF RestInv
  <1>8. CASE UpdateStatusRefused
    <2>1. /\ pc = "updateStatus" /\ pc' = "idle" /\ queued' = TRUE
          /\ UNCHANGED <<claw, cache, dep, depCache, depFresh, started>>
      BY <1>8 DEF UpdateStatusRefused, PublishRefused, EndReconcile, cluster, world
    <2> QED
      BY <1>a, <2>1, RequeueRest DEF alreadyIdled
  <1> QED
    BY <1>1, <1>2, <1>3, <1>4, <1>5, <1>6, <1>7, <1>8

\* Every step keeps track of what the next Reconcile has to do.
LEMMA NextRest == Inv /\ RestInv /\ [Next]_vars => RestInv'
  <1> SUFFICES ASSUME Inv, RestInv, [Next]_vars PROVE RestInv'
    OBVIOUS
  <1>a. TypeOK /\ CopiesInv /\ claw \in Claws
    BY DEF Inv, TypeOK, RestInv
  <1>b. ASSUME Pending', CopiesInv', IdledRecorded' PROVE RestInv'
    BY <1>b, PendingTracked DEF RestInv
  <1>c. ASSUME UNCHANGED <<claw, started, metric>> PROVE IdledRecorded'
    BY <1>c DEF RestInv, IdledRecorded, alreadyIdled
  <1> USE DEF CopiesInv, InstCurrent, OnBranch, NotRevived, NotStarted, IdleSeen, IdlePath,
              ApplyPath
  <1>1. CASE Reconcile
    BY <1>1, WorkRest, StatusRest DEF Reconcile
  <1>2. CASE ClawSync
    <2>1. /\ cache' = claw /\ cacheFresh' = TRUE /\ queued' = TRUE
          /\ pc # "idle" => inst' = inst
          /\ UNCHANGED <<claw, instFresh, pc, metric, dep, depCache, depFresh, started>>
      BY <1>2 DEF ClawSync, cluster, world
    <2>2. Pending' /\ IdledRecorded'
      BY <1>c, <2>1 DEF Pending
    <2>3. CopiesInv'
      BY <1>a, <2>1, <2>2 DEF DepExact
    <2> QED
      BY <1>b, <2>2, <2>3
  <1>3. ASSUME NEW d \in Deployments, DeploymentSync(d) PROVE RestInv'
    <2>1. /\ queued' = TRUE /\ depCache' = [depCache EXCEPT ![d] = dep[d]]
          /\ depFresh' = [depFresh EXCEPT ![d] = TRUE]
          /\ UNCHANGED <<claw, cache, cacheFresh, inst, instFresh, pc, dep, metric, started>>
      BY <1>3 DEF DeploymentSync, world
    <2>2. Pending' /\ IdledRecorded'
      BY <1>c, <2>1 DEF Pending
    <2>3. DepExact'
      BY <1>a, <2>1 DEF DepExact, TypeOK
    <2>4. CopiesInv'
      BY <1>a, <2>1, <2>2, <2>3
    <2> QED
      BY <1>b, <2>2, <2>4
  <1>4. CASE Restart
    <2>1. /\ queued' = TRUE /\ started' = FALSE /\ pc' = "idle" /\ cache' = claw
          /\ depCache' = dep /\ UNCHANGED <<claw, dep>>
      BY <1>4 DEF Restart
    <2>2. Pending' /\ IdledRecorded'
      BY <2>1 DEF Pending, IdledRecorded
    <2>3. CopiesInv'
      BY <1>a, <2>1 DEF DepExact
    <2> QED
      BY <1>b, <2>2, <2>3
  <1>5. CASE Start
    <2>1. /\ ~ started /\ started' = TRUE
          /\ metric' = IF cache.alive THEN conditionReasonToStatus(cache.ready) ELSE metric
      BY <1>5, Zenon DEF Start
    <2>2. UNCHANGED <<claw, cache, cacheFresh, inst, instFresh, pc, queued, dep, depCache,
                      depFresh>>
      BY <1>5, Zenon DEF Start, cluster
    <2>3. queued /\ cache.ready = claw.ready /\ (claw.alive => cache.alive)
      BY <1>a, <2>1
    <2>4. Pending'
      BY <2>2, <2>3 DEF Pending
    <2>5. IdledRecorded'
      BY <2>1, <2>2, <2>3 DEF IdledRecorded, alreadyIdled, conditionReasonToStatus
    <2>6. CopiesInv'
      BY <1>a, <2>1, <2>2 DEF DepExact, Pending
    <2> QED
      BY <1>b, <2>4, <2>5, <2>6
  <1>6. CASE EditSpec \/ Delete
    <2>1. /\ cacheFresh' = FALSE /\ instFresh' = FALSE
          /\ UNCHANGED <<cache, inst, pc, queued, metric, dep, depCache, depFresh, started>>
      BY <1>6 DEF EditSpec, Delete, cluster
    <2>2. /\ claw.alive /\ claw'.idleCond = claw.idleCond /\ claw'.ready = claw.ready
          /\ claw'.url = claw.url
      BY <1>6, <1>a DEF EditSpec, Delete, Claws
    <2>3. Pending' /\ IdledRecorded'
      BY <2>1, <2>2 DEF Pending, RestInv, IdledRecorded, alreadyIdled
    <2>4. CopiesInv'
      BY <1>a, <2>1, <2>2, <2>3 DEF DepExact
    <2> QED
      BY <1>b, <2>3, <2>4
  <1>7. CASE InputsChange
    <2>1. /\ queued' = TRUE
          /\ UNCHANGED <<claw, cache, cacheFresh, inst, instFresh, pc, dep, depCache,
                         depFresh, metric, started>>
      BY <1>7 DEF InputsChange, cluster
    <2>2. Pending' /\ IdledRecorded'
      BY <1>c, <2>1 DEF Pending
    <2>3. CopiesInv'
      BY <1>a, <2>1, <2>2 DEF DepExact
    <2> QED
      BY <1>b, <2>2, <2>3
  <1>8. CASE RouteAdmitted \/ UNCHANGED vars
    <2>1. UNCHANGED <<claw, cache, cacheFresh, inst, instFresh, pc, queued, dep, depCache,
                      depFresh, metric, started>>
      BY <1>8 DEF RouteAdmitted, vars, cluster
    <2>2. CopiesInv'
      BY <1>a, <2>1 DEF DepExact, Pending
    <2> QED
      BY <1>c, <2>1, <2>2 DEF RestInv, MetricTracked, IdleTracked, RunningTracked, Pending,
         alreadyIdled, SpecVersion
  <1>9. ASSUME NEW d \in Deployments, NEW b \in BOOLEAN, DeploymentStatus(d, b)
        PROVE  RestInv'
    <2>1. /\ dep' = [dep EXCEPT ![d].avail = b] /\ depFresh' = [depFresh EXCEPT ![d] = FALSE]
          /\ UNCHANGED <<claw, cache, cacheFresh, inst, instFresh, pc, queued, depCache,
                         metric, started>>
      BY <1>9 DEF DeploymentStatus, world
    <2>2. Pending' /\ IdledRecorded'
      BY <1>a, <1>c, <2>1 DEF Pending, TypeOK
    <2>3. DepExact'
      BY <1>a, <2>1 DEF DepExact, TypeOK
    <2>4. CopiesInv'
      BY <1>a, <2>1, <2>2, <2>3
    <2> QED
      BY <1>b, <2>2, <2>4
  <1> QED
    BY <1>1, <1>2, <1>3, <1>4, <1>5, <1>6, <1>7, <1>8, <1>9 DEF Next, Environment

\* A new Claw's key is queued.
LEMMA InitRest == Init => RestInv
  <1> SUFFICES ASSUME Init PROVE RestInv
    OBVIOUS
  <1>1. /\ pc = "idle" /\ queued = TRUE /\ started = TRUE /\ cache = claw /\ depCache = dep
        /\ claw.idleCond = FALSE
    BY DEF Init
  <1> QED
    BY <1>1 DEF RestInv, CopiesInv, DepExact, InstCurrent, OnBranch, NotRevived, NotStarted,
       IdleSeen, IdlePath, ApplyPath, IdledRecorded, alreadyIdled, MetricTracked,
       IdleTracked, RunningTracked, Pending

\* The invariant of the operator's progress holds in every state.
THEOREM RestInvariance == Spec => []RestInv
  BY InitRest, NextRest, Invariance, PTL DEF Spec

\* An operator at rest shows in claw_instance_status the status the API server
\* has, although the metric is recorded before writes that may be refused, not
\* recorded for rejections and lost with the process (recordClawMetrics, Start).
THEOREM MetricCorrectAtRest == Spec => []MetricAtRest
  <1>1. RestInv => MetricAtRest
    BY DEF RestInv, MetricTracked, MetricAtRest, Quiescent, Pending
  <1> QED
    BY <1>1, RestInvariance, PTL

\* An operator at rest has scaled an idled Claw to zero and says so, whatever
\* the caches showed when it decided (handleIdle, scaleDeploymentToZero).
THEOREM IdledAtRest == Spec => []IdleAtRest
  <1>1. RestInv => IdleAtRest
    BY DEF RestInv, IdleTracked, IdleAtRest, Quiescent, Pending, Deployments
  <1> QED
    BY <1>1, RestInvariance, PTL

\* ... and runs what the spec of a running Claw asks for, ready exactly when
\* both Deployments are available (applyResources, updateStatus).
THEOREM RunsAtRest == Spec => []RunningAtRest
  <1>1. RestInv => RunningAtRest
    BY DEF RestInv, RunningTracked, RunningAtRest, Quiescent, Pending, Deployments
  <1> QED
    BY <1>1, RestInvariance, PTL
=============================================================================
