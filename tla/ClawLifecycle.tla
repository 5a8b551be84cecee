----------------------------- MODULE ClawLifecycle -----------------------------
(***************************************************************************)
(* The life cycle of one Claw as ClawResourceReconciler.Reconcile drives   *)
(* it: idling and resuming, rejection of invalid inputs, the gateway and   *)
(* proxy Deployments, the status the operator publishes (Ready and Idle    *)
(* conditions, gateway URL, last deployed version) and the                 *)
(* claw_instance_status metric.                                            *)
(*                                                                         *)
(* Reconcile works on a copy of the Claw taken from an informer cache and  *)
(* decides about the Deployments from another cache; both may lag behind   *)
(* the API server.  A write of an object read earlier is refused when the  *)
(* object's resourceVersion moved on; the model keeps, for every copy,     *)
(* whether its resourceVersion is still the server's (cacheFresh,          *)
(* instFresh, depFresh).  Everything Reconcile does between two API calls  *)
(* that change this state is one step.                                     *)
(*                                                                         *)
(* The Claws of this module never request a doctor migration               *)
(* (spec.migration is absent): that part of Reconcile is DoctorMigration.  *)
(* They set no spec.image, so spec.version chooses the gateway image.      *)
(***************************************************************************)
EXTENDS Integers, FiniteSets

CONSTANTS
    Versions,        \* values of spec.version: Unset, Tag or the rank of a CalVer
    DefaultVersion,  \* DefaultOpenClawVersion
    UserConfigs,     \* values of spec's userConfig: see Claws
    InputStates,     \* what validation can find: see Inputs
    Routes,          \* initial states of the Route: "none" or "pending"
    MaxChanges,      \* bound: edits of the Claw, its deletion, input changes
    MaxRestarts,     \* bound: restarts of the operator process
    MaxFailures      \* bound: API calls that fail although no copy is stale

\* spec.version as a number: a CalVer tag is its rank, Tag is a tag whose first
\* segment is not a number (the CRD pattern admits "latest"), Unset is "".
Unset == 0
Tag == 1

\* "invalid": a rejection by rejectValidation, by the credential or the web
\* search validation; "proxy": the proxy config cannot be generated or
\* applied; "password": the auth password Secret is not usable.
Inputs == {"ok", "invalid", "proxy", "password"}

ASSUME ConstantsAssumption ==
    /\ Versions \subseteq Nat
    /\ Versions # {}
    /\ DefaultVersion \in Nat /\ DefaultVersion > Tag
    /\ UserConfigs \subseteq BOOLEAN
    /\ UserConfigs # {}
    /\ InputStates \subseteq Inputs
    /\ InputStates # {}
    /\ Routes \subseteq {"none", "pending"}
    /\ Routes # {}
    /\ MaxChanges \in Nat
    /\ MaxRestarts \in Nat
    /\ MaxFailures \in Nat

VARIABLES
    claw,        \* the Claw in the API server: spec and status
    cache,       \* the Claw informer's copy
    cacheFresh,  \* ... has the server's resourceVersion
    inst,        \* the copy Reconcile works on
    instFresh,   \* ... has the server's resourceVersion
    pc,          \* where the worker is in Reconcile
    queued,      \* the key is in the work queue
    dep,         \* the Deployments in the API server
    depCache,    \* the Deployment informer's copies
    depFresh,    \* ... have the server's resourceVersion
    inputs,      \* what the referenced Secrets and ConfigMaps amount to
    route,       \* the Route's status
    metric,      \* the status label of claw_instance_status that is 1
    started,     \* Start() has refreshed the metrics
    restarts,    \* restarts so far
    changes,     \* edits, deletions and input changes so far
    failures     \* API calls that failed so far

vars == <<claw, cache, cacheFresh, inst, instFresh, pc, queued, dep, depCache,
          depFresh, inputs, route, metric, started, restarts, changes, failures>>

Deployments == {"gateway", "proxy"}

EffectiveVersions == (Versions \ {Unset}) \cup {DefaultVersion}

ReadyReasons == {"None", "Ready", "Provisioning", "InitContainerFailure",
                 "ValidationFailed", "ConfigFailed", "Idle"}

\* alive, idle, version, userConfig: the object and its spec, userConfig for
\* spec.config.management=user on an operator that disables it.  idleCond:
\* condition Idle is True (it is never written False).  ready: reason of the
\* Ready condition, whose status is True exactly for the reason Ready.  url:
\* GatewayURL and URL are set (they are always written together).  last:
\* lastDeployedVersion.
Claws == [alive: BOOLEAN, idle: BOOLEAN, version: Versions, userConfig: UserConfigs,
          idleCond: BOOLEAN, ready: ReadyReasons, url: BOOLEAN,
          last: EffectiveVersions \cup {Unset}, downgrade: BOOLEAN]

Absent == -1

\* avail: condition Available as the deployment controller last wrote it.
Deploys == [replicas: {Absent, 0, 1}, version: EffectiveVersions \cup {Tag},
            avail: BOOLEAN]

Labels == {"none", "ready", "provisioning", "failed", "idled"}

Steps == {"idle", "userConfig", "scaleGateway", "scaleProxy", "idleStatus", "unidle",
          "validate", "applyGateway", "applyProxy", "updateStatus"}

TypeOK ==
    /\ claw \in Claws
    /\ cache \in Claws
    /\ inst \in Claws
    /\ cacheFresh \in BOOLEAN
    /\ instFresh \in BOOLEAN
    /\ pc \in Steps
    /\ queued \in BOOLEAN
    /\ dep \in [Deployments -> Deploys]
    /\ depCache \in [Deployments -> Deploys]
    /\ depFresh \in [Deployments -> BOOLEAN]
    /\ inputs \in InputStates
    /\ route \in {"none", "pending", "admitted"}
    /\ metric \in Labels
    /\ started \in BOOLEAN
    /\ restarts \in 0..MaxRestarts
    /\ changes \in 0..MaxChanges
    /\ failures \in 0..MaxFailures

NoDeployment == [replicas |-> Absent, version |-> Tag, avail |-> FALSE]

Init ==
    /\ \E i \in BOOLEAN, v \in Versions, u \in UserConfigs :
         claw = [alive |-> TRUE, idle |-> i, version |-> v, userConfig |-> u,
                 idleCond |-> FALSE,
                 ready |-> "None", url |-> FALSE, last |-> Unset,
                 downgrade |-> FALSE]
    /\ cache = claw
    /\ cacheFresh = TRUE
    /\ inst = claw
    /\ instFresh = FALSE
    /\ pc = "idle"
    /\ queued = TRUE
    /\ dep = [d \in Deployments |-> NoDeployment]
    /\ depCache = dep
    /\ depFresh = [d \in Deployments |-> TRUE]
    /\ inputs \in InputStates
    /\ route \in Routes
    /\ metric = "none"
    /\ started = TRUE
    /\ restarts = 0
    /\ changes = 0
    /\ failures = 0

cluster == <<dep, depCache, depFresh>>
world   == <<inputs, route, started, restarts, changes>>

-----------------------------------------------------------------------------
(* Metrics *)

\* (Mutant) The reason itself becomes the status label.
reasonAsStatus(reason) == reason

\* The status label for a reason of the Ready condition.
conditionReasonToStatus(reason) ==
    CASE reason = "Ready" -> "ready"
      [] reason = "ValidationFailed" -> "failed"
      [] reason = "Idle" -> "idled"
      [] OTHER -> "provisioning"

-----------------------------------------------------------------------------
(* Writes of the status subresource and the ways Reconcile ends *)

\* (Mutant) The status is patched without a resourceVersion.
StatusPatch(new) ==
    /\ claw' = [new EXCEPT !.alive = claw.alive, !.idle = claw.idle,
                           !.version = claw.version,
                           !.userConfig = claw.userConfig]
    /\ cacheFresh' = FALSE

\* Status().Update with the copy in hand: the server takes it only if the
\* copy's resourceVersion is current; an update that changes nothing leaves
\* the resourceVersion, and with it the cache, as it is.
StatusUpdate(new) ==
    /\ instFresh
    /\ claw' = new
    /\ cacheFresh' = (cacheFresh /\ new = claw)

\* The copy is dropped when Reconcile returns.
EndReconcile ==
    /\ pc' = "idle"
    /\ inst' = cache
    /\ instFresh' = FALSE
    /\ UNCHANGED cache

\* An API call fails: refused because the copy it is based on is stale, or
\* for a reason of its own (network, API server).
CallFails(stale) ==
    \/ stale /\ UNCHANGED failures
    \/ failures < MaxFailures /\ failures' = failures + 1

\* The last write of handleIdle and of updateStatus: recordClawMetrics first,
\* then the status; if the write is refused the metric is already set.
PublishStatus(new) ==
    /\ metric' = conditionReasonToStatus(new.ready)
    /\ StatusUpdate(new)
    /\ EndReconcile
    /\ UNCHANGED <<queued, cluster, world, failures>>

PublishRefused(new) ==
    /\ metric' = conditionReasonToStatus(new.ready)
    /\ EndReconcile
    /\ CallFails(~ instFresh)
    /\ queued' = TRUE
    /\ UNCHANGED <<claw, cacheFresh, cluster, world>>

-----------------------------------------------------------------------------
(* Reconcile up to its first branch *)

\* The worker takes the key and reads the Claw from the cache.
Dequeue ==
    /\ pc = "idle"
    /\ queued
    /\ started
    /\ queued' = FALSE
    /\ UNCHANGED <<claw, cache, cacheFresh, cluster, world, failures>>

\* (Mutant) The series of a Claw that is gone are kept.
ReconcileNotFoundKept ==
    /\ Dequeue
    /\ ~ cache.alive
    /\ UNCHANGED <<pc, inst, instFresh, metric>>

\* The Claw is gone: clearClawMetrics.
ReconcileNotFound ==
    /\ Dequeue
    /\ ~ cache.alive
    /\ metric' = "none"
    /\ UNCHANGED <<pc, inst, instFresh>>

ReconcileFound ==
    /\ Dequeue
    /\ cache.alive
    /\ inst' = cache
    /\ instFresh' = cacheFresh
    /\ pc' = IF cache.userConfig THEN "userConfig"
             ELSE IF cache.idle THEN "scaleGateway"
             ELSE IF cache.idleCond THEN "unidle" ELSE "validate"
    /\ UNCHANGED metric

-----------------------------------------------------------------------------
(* handleIdle *)

\* scaleDeploymentToZero decides from the Deployment cache and patches
\* without a resourceVersion.
scaleDeploymentToZero(d) ==
    IF depCache[d].replicas \in {Absent, 0}
    THEN UNCHANGED <<dep, depFresh>>
    ELSE /\ dep' = [dep EXCEPT ![d].replicas = 0]
         /\ depFresh' = [depFresh EXCEPT
                           ![d] = @ /\ dep[d].replicas = 0]

ScaleGateway ==
    /\ pc = "scaleGateway"
    /\ scaleDeploymentToZero("gateway")
    /\ pc' = "scaleProxy"
    /\ UNCHANGED <<claw, cache, cacheFresh, inst, instFresh, queued, depCache,
                   metric, world, failures>>

ScaleProxy ==
    /\ pc = "scaleProxy"
    /\ scaleDeploymentToZero("proxy")
    /\ pc' = "idleStatus"
    /\ UNCHANGED <<claw, cache, cacheFresh, inst, instFresh, queued, depCache,
                   metric, world, failures>>

alreadyIdled(i) == i.idleCond /\ i.ready = "Idle" /\ ~ i.url

Idled(i) == [i EXCEPT !.idleCond = TRUE, !.ready = "Idle", !.url = FALSE]

IdleUnchanged ==
    /\ pc = "idleStatus"
    /\ alreadyIdled(inst)
    /\ EndReconcile
    /\ UNCHANGED <<claw, cacheFresh, queued, metric, cluster, world, failures>>

IdleStatus ==
    /\ pc = "idleStatus"
    /\ ~ alreadyIdled(inst)
    /\ PublishStatus(Idled(inst))

IdleStatusRefused ==
    /\ pc = "idleStatus"
    /\ ~ alreadyIdled(inst)
    /\ PublishRefused(Idled(inst))

-----------------------------------------------------------------------------
(* Resuming, and the checks that can reject the Claw *)

\* (Mutant) The Idle condition is left for updateStatus to overwrite.
UnidleKept ==
    /\ pc = "unidle"
    /\ pc' = "validate"
    /\ UNCHANGED <<claw, cache, cacheFresh, inst, instFresh, queued, metric,
                   cluster, world, failures>>

\* On unidle the removal of the Idle condition is persisted first; the copy
\* continues with the resourceVersion of that write.
Unidle ==
    /\ pc = "unidle"
    /\ StatusUpdate([inst EXCEPT !.idleCond = FALSE])
    /\ inst' = claw'
    /\ pc' = "validate"
    /\ UNCHANGED <<cache, instFresh, queued, metric, cluster, world, failures>>

\* Set Ready=False with the failure's reason, try to write the status (a
\* failed write is only logged) and return the error.
Reject(rejected) ==
    /\ EndReconcile
    /\ queued' = TRUE
    /\ \/ StatusUpdate(rejected) /\ UNCHANGED failures
       \/ CallFails(~ instFresh) /\ UNCHANGED <<claw, cacheFresh>>
    /\ UNCHANGED <<metric, cluster, world>>

\* Rejected before spec.idle is looked at.
RejectUserConfig ==
    /\ pc = "userConfig"
    /\ Reject([inst EXCEPT !.ready = "ValidationFailed"])

rejectValidation ==
    /\ pc = "validate"
    /\ inputs = "invalid"
    /\ Reject([inst EXCEPT !.ready = "ValidationFailed"])

RejectProxyConfig ==
    /\ pc = "validate"
    /\ inputs = "proxy"
    /\ Reject([inst EXCEPT !.ready = "ConfigFailed"])

\* (Mutant) The wait for the Route host is not requeued.
AwaitRouteForgotten ==
    /\ pc = "validate"
    /\ inputs \in {"ok", "password"}
    /\ route = "pending"
    /\ EndReconcile
    /\ UNCHANGED <<claw, cacheFresh, queued, metric, cluster, world, failures>>

\* The Route has no host yet: come back in 5 s, status untouched.
AwaitRoute ==
    /\ pc = "validate"
    /\ inputs \in {"ok", "password"}
    /\ route = "pending"
    /\ EndReconcile
    /\ queued' = TRUE
    /\ UNCHANGED <<claw, cacheFresh, metric, cluster, world, failures>>

RejectPassword ==
    /\ pc = "validate"
    /\ inputs = "password"
    /\ route # "pending"
    /\ Reject([inst EXCEPT !.ready = "ValidationFailed", !.url = FALSE])

Validated ==
    /\ pc = "validate"
    /\ inputs = "ok"
    /\ route # "pending"
    /\ pc' = "applyGateway"
    /\ UNCHANGED <<claw, cache, cacheFresh, inst, instFresh, queued, metric,
                   cluster, world, failures>>

-----------------------------------------------------------------------------
(* applyResources: the gateway Deployment, then the proxy Deployment *)

\* spec.version "" is replaced by the default when the Claw is read.
SpecVersion(i) == IF i.version = Unset THEN DefaultVersion ELSE i.version

\* Only the gateway runs the OpenClaw image.
DesiredVersion(d) == IF d = "gateway" THEN SpecVersion(inst) ELSE Tag

\* (Mutant) The replica count of an existing Deployment is preserved.
DesiredKeepReplicas(d) ==
    [replicas |-> IF depCache[d].replicas = Absent THEN 1
                  ELSE depCache[d].replicas,
     version |-> DesiredVersion(d), avail |-> depCache[d].avail]

\* controllerutil.CreateOrUpdate on the cached Deployment: nothing to write
\* if the cached one is as desired, else a create or an update that is
\* refused when the cache is stale.
Desired(d) == [replicas |-> 1, version |-> DesiredVersion(d),
               avail |-> depCache[d].avail]

applyDeployment(d) ==
    IF depCache[d] = Desired(d)
    THEN UNCHANGED <<dep, depFresh>>
    ELSE /\ depFresh[d]
         /\ dep' = [dep EXCEPT ![d] = Desired(d)]
         /\ depFresh' = [depFresh EXCEPT ![d] = FALSE]

applyRefused(d) == depCache[d] # Desired(d) /\ ~ depFresh[d]

ApplyGateway ==
    /\ pc = "applyGateway"
    /\ applyDeployment("gateway")
    /\ pc' = "applyProxy"
    /\ UNCHANGED <<claw, cache, cacheFresh, inst, instFresh, queued, depCache,
                   metric, world, failures>>

ApplyProxy ==
    /\ pc = "applyProxy"
    /\ applyDeployment("proxy")
    /\ pc' = "updateStatus"
    /\ UNCHANGED <<claw, cache, cacheFresh, inst, instFresh, queued, depCache,
                   metric, world, failures>>

-----------------------------------------------------------------------------
(* updateStatus *)

\* Malformed or empty versions do not compare.
compareCalver(a, b) ==
    [ok |-> a > Tag /\ b > Tag,
     cmp |-> IF a < b THEN -1 ELSE IF a = b THEN 0 ELSE 1]

checkDeploymentsReady == \A d \in Deployments : depCache[d].avail

\* High-water mark: only upward, as far as versions compare.
lastDeployedVersion(i, ready) ==
    LET c == compareCalver(SpecVersion(i), i.last)
    IN  IF ready /\ (i.last = Unset \/ ~ c.ok \/ c.cmp >= 0)
        THEN SpecVersion(i) ELSE i.last

versionDowngrade(i) ==
    LET c == compareCalver(SpecVersion(i), i.last)
    IN  i.last # Unset /\ c.ok /\ c.cmp < 0

\* reason: Provisioning, or InitContainerFailure when the pods show one.
UpdatedStatus(i, ready, reason) ==
    [i EXCEPT !.ready = IF ready THEN "Ready" ELSE reason,
              !.url = ready /\ route = "admitted",
              !.downgrade = versionDowngrade(i),
              !.last = lastDeployedVersion(i, ready)]

UpdateStatus ==
    /\ pc = "updateStatus"
    /\ \E reason \in {"Provisioning", "InitContainerFailure"} :
         PublishStatus(UpdatedStatus(inst, checkDeploymentsReady, reason))

UpdateStatusRefused ==
    /\ pc = "updateStatus"
    /\ PublishRefused(UpdatedStatus(inst, checkDeploymentsReady, "Provisioning"))

-----------------------------------------------------------------------------
\* Any step of Reconcile can fail before it has changed anything; the error is
\* returned and the controller requeues the key.
StaleWrite ==
    \/ pc = "unidle" /\ ~ instFresh
    \/ pc = "applyGateway" /\ applyRefused("gateway")
    \/ pc = "applyProxy" /\ applyRefused("proxy")

\* (Mutant) The error is logged and nil is returned.
FailSwallowed ==
    /\ pc # "idle"
    /\ CallFails(StaleWrite)
    /\ EndReconcile
    /\ UNCHANGED <<claw, cacheFresh, queued, metric, cluster, world>>

\* The error is returned, whatever the step was.
Fail ==
    /\ pc # "idle"
    /\ CallFails(StaleWrite)
    /\ EndReconcile
    /\ queued' = TRUE
    /\ UNCHANGED <<claw, cacheFresh, metric, cluster, world>>

-----------------------------------------------------------------------------
(* Informers and the operator process *)

ClawSync ==
    /\ ~ cacheFresh
    /\ cache' = claw
    /\ cacheFresh' = TRUE
    /\ queued' = TRUE
    /\ inst' = IF pc = "idle" THEN claw ELSE inst
    /\ UNCHANGED <<claw, instFresh, pc, metric, cluster, world, failures>>

\* (Mutant) The controller does not watch the Deployments it owns.
DeploymentSyncUnwatched(d) ==
    /\ ~ depFresh[d]
    /\ depCache' = [depCache EXCEPT ![d] = dep[d]]
    /\ depFresh' = [depFresh EXCEPT ![d] = TRUE]
    /\ UNCHANGED <<claw, cache, cacheFresh, inst, instFresh, pc, queued, dep,
                   metric, world, failures>>

\* Owns(Deployment): every Deployment event enqueues the Claw.
DeploymentSync(d) ==
    /\ ~ depFresh[d]
    /\ depCache' = [depCache EXCEPT ![d] = dep[d]]
    /\ depFresh' = [depFresh EXCEPT ![d] = TRUE]
    /\ queued' = TRUE
    /\ UNCHANGED <<claw, cache, cacheFresh, inst, instFresh, pc, dep,
                   metric, world, failures>>

\* The process dies at any step; a new one lists every object afresh.
Restart ==
    /\ restarts < MaxRestarts
    /\ restarts' = restarts + 1
    /\ started' = FALSE
    /\ metric' = "none"
    /\ pc' = "idle"
    /\ queued' = TRUE
    /\ cache' = claw
    /\ cacheFresh' = TRUE
    /\ inst' = claw
    /\ instFresh' = FALSE
    /\ depCache' = dep
    /\ depFresh' = [d \in Deployments |-> TRUE]
    /\ UNCHANGED <<claw, dep, inputs, route, changes, failures>>

\* (Mutant) The metrics are not refreshed after a restart.
StartWithoutRefresh ==
    /\ ~ started
    /\ started' = TRUE
    /\ UNCHANGED <<claw, cache, cacheFresh, inst, instFresh, pc, queued, metric,
                   cluster, inputs, route, restarts, changes, failures>>

\* Start(): refresh the metrics of all Claws; Reconcile waits for it.
Start ==
    /\ ~ started
    /\ started' = TRUE
    /\ metric' = IF cache.alive THEN conditionReasonToStatus(cache.ready)
                 ELSE metric
    /\ UNCHANGED <<claw, cache, cacheFresh, inst, instFresh, pc, queued,
                   cluster, inputs, route, restarts, changes,
                   failures>>

-----------------------------------------------------------------------------
(* The user and the cluster *)

Change ==
    /\ changes < MaxChanges
    /\ changes' = changes + 1

EditSpec ==
    /\ claw.alive
    /\ Change
    /\ \E i \in BOOLEAN, v \in Versions, u \in UserConfigs :
         /\ <<i, v, u>> # <<claw.idle, claw.version, claw.userConfig>>
         /\ claw' = [claw EXCEPT !.idle = i, !.version = v, !.userConfig = u]
    /\ cacheFresh' = FALSE
    /\ instFresh' = FALSE
    /\ UNCHANGED <<cache, inst, pc, queued, metric, cluster,
                   inputs, route, started, restarts, failures>>

Delete ==
    /\ claw.alive
    /\ Change
    /\ claw' = [claw EXCEPT !.alive = FALSE]
    /\ cacheFresh' = FALSE
    /\ instFresh' = FALSE
    /\ UNCHANGED <<cache, inst, pc, queued, metric, cluster,
                   inputs, route, started, restarts, failures>>

\* A referenced Secret changes: its watch enqueues the Claw (SecretRollout has
\* the details).
InputsChange ==
    /\ Change
    /\ \E s \in InputStates : s # inputs /\ inputs' = s
    /\ queued' = TRUE
    /\ UNCHANGED <<claw, cache, cacheFresh, inst, instFresh, pc, cluster,
                   route, metric, started, restarts, failures>>

RouteAdmitted ==
    /\ route = "pending"
    /\ route' = "admitted"
    /\ UNCHANGED <<claw, cache, cacheFresh, inst, instFresh, pc, queued,
                   cluster, inputs, metric, started, restarts,
                   changes, failures>>

\* The deployment controller writes the Available condition: True once the
\* pods of the current template are available, or no replicas are wanted.
DeploymentStatus(d, a) ==
    /\ dep[d].replicas # Absent
    /\ dep[d].avail # a
    /\ dep[d].replicas = 0 => a
    /\ dep' = [dep EXCEPT ![d].avail = a]
    /\ depFresh' = [depFresh EXCEPT ![d] = FALSE]
    /\ UNCHANGED <<claw, cache, cacheFresh, inst, instFresh, pc, queued,
                   depCache, metric, world, failures>>

-----------------------------------------------------------------------------
Reconcile ==
    \/ ReconcileNotFound \/ ReconcileFound
    \/ ScaleGateway \/ ScaleProxy
    \/ IdleUnchanged \/ IdleStatus \/ IdleStatusRefused
    \/ Unidle
    \/ RejectUserConfig \/ rejectValidation \/ RejectProxyConfig
    \/ AwaitRoute \/ RejectPassword
    \/ Validated
    \/ ApplyGateway \/ ApplyProxy \/ UpdateStatus \/ UpdateStatusRefused
    \/ Fail

Environment ==
    \/ EditSpec \/ Delete \/ InputsChange \/ RouteAdmitted
    \/ \E d \in Deployments, a \in BOOLEAN : DeploymentStatus(d, a)

Next ==
    \/ Reconcile
    \/ ClawSync \/ (\E d \in Deployments : DeploymentSync(d))
    \/ Restart \/ Start
    \/ Environment

\* The queue is served, the watches deliver and a starting process comes up.
Fairness ==
    /\ WF_vars(Reconcile)
    /\ WF_vars(ClawSync)
    /\ WF_vars(Start)
    /\ \A d \in Deployments : WF_vars(DeploymentSync(d))

Spec == Init /\ [][Next]_vars /\ Fairness

-----------------------------------------------------------------------------
(* Safety *)

\* Nobody sees an idled Claw that is also ready, provisioning or reachable:
\* while the Idle condition is there the URL is cleared and Ready says Idle, or
\* ValidationFailed when the config management of the spec was rejected.  This
\* is why Reconcile persists the removal of the condition before anything on
\* the resume path can fail and write the status.
IdleStatusConsistent ==
    claw.idleCond => claw.ready \in {"Idle", "ValidationFailed"} /\ ~ claw.url

\* A CalVer recorded as last deployed is never overwritten by a smaller one,
\* also not by a Reconcile that still works on an older copy of the Claw.
HighWaterMark ==
    [][claw.last > Tag /\ claw'.last > Tag => claw'.last >= claw.last]_vars

\* Nothing is queued, in progress or undelivered.
Quiescent ==
    /\ pc = "idle" /\ ~ queued /\ started
    /\ cacheFresh
    /\ \A d \in Deployments : depFresh[d]

\* When the operator has come to rest, the metric shows the status the API
\* server has, although it is recorded before writes that may be refused and is
\* lost with the process.
MetricAtRest ==
    Quiescent /\ claw.alive => metric = conditionReasonToStatus(claw.ready)

\* When the operator has come to rest on an idled Claw, both Deployments are
\* scaled to zero in the API server, whatever the caches showed on the way.
IdleAtRest ==
    Quiescent /\ claw.alive /\ claw.idle =>
        /\ alreadyIdled(claw)
        /\ \A d \in Deployments : dep[d].replicas # 1

\* ... and on a running one, both run what the spec asks for.
RunningAtRest ==
    Quiescent /\ claw.alive /\ ~ claw.idle =>
        /\ ~ claw.idleCond
        /\ \A d \in Deployments : dep[d].replicas = 1
        /\ dep["gateway"].version = SpecVersion(claw)
        /\ claw.ready = "Ready" <=> \A d \in Deployments : dep[d].avail

-----------------------------------------------------------------------------
(* Liveness *)

\* A Claw that stays idled, with an accepted spec, ends up scaled to zero and
\* reported as idle.
IdleConverges ==
    <>[](claw.alive /\ claw.idle /\ ~ claw.userConfig) =>
        <>[](/\ alreadyIdled(claw)
             /\ \A d \in Deployments : dep[d].replicas # 1)

\* A Claw that stays resumed, with valid inputs, an admitted Route and pods
\* that stay available, ends up running, ready and reachable.
ResumeConverges ==
    <>[](/\ claw.alive /\ ~ claw.idle /\ ~ claw.userConfig
         /\ inputs = "ok" /\ route = "admitted"
         /\ \A d \in Deployments : dep[d].replicas = 1 => dep[d].avail)
    => <>[](/\ ~ claw.idleCond /\ claw.ready = "Ready" /\ claw.url
            /\ \A d \in Deployments : dep[d].replicas = 1)

\* The metrics of a deleted Claw disappear for good, even if it is deleted
\* while a Reconcile that will still record them is running.
MetricsCleared == <>[](~ claw.alive => metric = "none")
=============================================================================
