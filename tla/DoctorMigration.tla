---------------------------- MODULE DoctorMigration ----------------------------
(***************************************************************************)
(* The doctor migration of a running Claw (spec.migration.doctorFix):      *)
(* Reconcile pauses the gateway, runs a Job with the target image on the   *)
(* gateway's volume, records the migrated image and resumes the gateway.   *)
(* The gateway's init container (merge.js) refuses to start an OpenClaw    *)
(* 7.2 image until migration.json in the ConfigMap says the migration is   *)
(* complete.                                                               *)
(*                                                                         *)
(* As in ClawLifecycle, Reconcile works on cached copies (Claw, gateway    *)
(* Deployment, Jobs), each with its own lag, and a write based on a copy   *)
(* whose resourceVersion moved on is refused.  Jobs are listed through a   *)
(* cache that is started on demand; the controller does not watch them.    *)
(*                                                                         *)
(* The Claws of this module are not idled, their inputs are valid and they *)
(* carry no config-generation annotation.                                  *)
(***************************************************************************)
EXTENDS Integers

CONSTANTS
    Images,        \* image references the user may choose
    Images72,      \* those whose OpenClaw is 7.2 or later
    OwnWritesLag,  \* a Reconcile may miss what the previous one wrote
    MaxEdits,      \* bound: edits of the Claw and deletions of Jobs
    MaxFailures    \* bound: API calls that fail although no copy is stale

None == "none"

ASSUME ConstantsAssumption ==
    /\ Images # {}
    /\ None \notin Images
    /\ Images72 \subseteq Images
    /\ OwnWritesLag \in BOOLEAN
    /\ MaxEdits \in Nat
    /\ MaxFailures \in Nat

VARIABLES
    claw,        \* the Claw in the API server: spec and status
    cache,       \* the Claw informer's copy
    cacheFresh,  \* ... has the server's resourceVersion
    inst,        \* the copy Reconcile works on
    instFresh,   \* ... has the server's resourceVersion
    pc,          \* where the worker is in Reconcile
    queued,      \* the key is in the work queue, or will be after a delay
    pause,       \* doctorFixPending(instance) || doctorFixActive
    cm,          \* doctorFixComplete in the ConfigMap's migration.json
    gw,          \* the gateway Deployment in the API server
    gwCache,     \* the Deployment informer's copy
    gwFresh,     \* ... has the server's resourceVersion
    job,         \* the doctor Job of each image in the API server
    jobCache,    \* the Job informer's copy
    pod,         \* the gateway pod that counts: None or its image and phase
    dying,       \* a gateway pod is terminating, its containers still run
    edits,       \* edits and Job deletions so far
    failures,    \* API calls that failed so far
    approved,    \* images the user requested a doctor fix for (history)
    succeeded    \* images whose doctor Job has succeeded (history)

vars == <<claw, cache, cacheFresh, inst, instFresh, pc, queued, pause, cm, gw,
          gwCache, gwFresh, job, jobCache, pod, dying, edits, failures,
          approved, succeeded>>

\* fix, image: spec.migration.doctorFix and effectiveOpenClawImage.  mig:
\* status.migration.doctorFixImage.  migCond: condition MigrationComplete.
\* ready: condition Ready, Migrating or what updateStatus computes.
Claws == [fix: BOOLEAN, image: Images, mig: Images \cup {None},
          migCond: {None, "Pending", "Complete", "Failed"},
          ready: {None, "Migrating", "Computed"}]

Absent == -1

\* flag: the template's config hash, which covers migration.json.  status:
\* status.replicas, as the deployment controller last wrote it.
Gateways == [replicas: {Absent, 0, 1}, image: Images, flag: BOOLEAN,
             status: {0, 1}]

\* failed: condition Failed with failed pods; expired: condition Failed with
\* none (no pod could be created before the deadline).
JobStates == {None, "active", "succeeded", "failed", "expired"}

Pods == [image: Images, up: BOOLEAN]
NoPod == [image |-> None, up |-> FALSE]

Steps == {"idle", "configMap", "gateway", "migrating", "job", "pending",
          "updateStatus"}

TypeOK ==
    /\ claw \in Claws
    /\ cache \in Claws
    /\ cacheFresh \in BOOLEAN
    /\ inst \in Claws
    /\ instFresh \in BOOLEAN
    /\ pc \in Steps
    /\ queued \in BOOLEAN
    /\ pause \in BOOLEAN
    /\ cm \in BOOLEAN
    /\ gw \in Gateways
    /\ gwCache \in Gateways
    /\ gwFresh \in BOOLEAN
    /\ job \in [Images -> JobStates]
    /\ jobCache \in [Images -> JobStates]
    /\ pod \in Pods \cup {NoPod}
    /\ dying \in BOOLEAN
    /\ edits \in 0..MaxEdits
    /\ failures \in 0..MaxFailures
    /\ approved \subseteq Images
    /\ succeeded \subseteq Images

\* A Claw has just been created.
Init ==
    /\ \E f \in BOOLEAN, i \in Images :
         /\ claw = [fix |-> f, image |-> i, mig |-> None, migCond |-> None,
                    ready |-> None]
         /\ gw = [replicas |-> Absent, image |-> i, flag |-> FALSE, status |-> 0]
         /\ approved = IF f THEN {i} ELSE {}
    /\ cache = claw
    /\ cacheFresh = TRUE
    /\ inst = claw
    /\ instFresh = FALSE
    /\ pc = "idle"
    /\ queued = TRUE
    /\ pause = FALSE
    /\ cm = FALSE
    /\ gwCache = gw
    /\ gwFresh = TRUE
    /\ job = [i \in Images |-> None]
    /\ jobCache = job
    /\ pod = NoPod
    /\ dying = FALSE
    /\ edits = 0
    /\ failures = 0
    /\ succeeded = {}

gateway == <<gw, gwCache, gwFresh, pod, dying>>
jobs    == <<job, jobCache, succeeded>>
user    == <<edits, approved>>

-----------------------------------------------------------------------------
(* The questions reconcileDoctorFix asks *)

doctorFixRequested(c) == c.fix

\* (Mutant) Complete as soon as it is requested.
doctorFixCompleteOnRequest(c) == doctorFixRequested(c)

\* The target image is the one recorded as migrated.
doctorFixComplete(c) == doctorFixRequested(c) /\ c.mig = c.image

doctorFixPending(c) == doctorFixRequested(c) /\ ~ doctorFixComplete(c)

\* (Mutant) Only the Job of the target image counts.
hasActiveForTarget == jobCache[inst.image] = "active"

\* Some Job of the Claw, for whatever image, is not finished.
hasActiveDoctorFix == \E i \in Images : jobCache[i] = "active"

-----------------------------------------------------------------------------
(* Status writes and the ways Reconcile ends *)

\* Status().Update with the copy in hand, which then has the new
\* resourceVersion; refused when the copy is stale.
StatusUpdate(new) ==
    /\ instFresh
    /\ claw' = new
    /\ cacheFresh' = (cacheFresh /\ new = claw)

EndReconcile ==
    /\ pc' = "idle"
    /\ inst' = cache
    /\ instFresh' = FALSE
    /\ pause' = FALSE
    /\ UNCHANGED cache

\* An API call is refused because the copy it is based on is stale, or fails
\* for a reason of its own.
CallFails(stale) ==
    \/ stale /\ UNCHANGED failures
    \/ failures < MaxFailures /\ failures' = failures + 1

-----------------------------------------------------------------------------
(* Reconcile *)

\* What the last Reconcile created or changed has reached the caches.
OwnWritesSeen ==
    /\ [gwCache EXCEPT !.status = gw.status] = gw
    /\ \A i \in Images : job[i] # None => jobCache[i] # None

\* (Mutant) A running Job does not pause the gateway, only a pending one does.
DequeuePendingOnly ==
    /\ pc = "idle"
    /\ queued
    /\ OwnWritesLag \/ OwnWritesSeen
    /\ queued' = FALSE
    /\ inst' = cache
    /\ instFresh' = cacheFresh
    /\ pause' = doctorFixPending(cache)
    /\ pc' = "configMap"
    /\ UNCHANGED <<claw, cache, cacheFresh, cm, gateway, jobs, user, failures>>

\* Read the Claw and decide whether the gateway must be paused.  The Claw is
\* read a little before the Jobs; a Job event in between is as good as one
\* before both.
Dequeue ==
    /\ pc = "idle"
    /\ queued
    /\ OwnWritesLag \/ OwnWritesSeen
    /\ queued' = FALSE
    /\ inst' = cache
    /\ instFresh' = cacheFresh
    /\ pause' = (doctorFixPending(cache) \/ hasActiveDoctorFix)
    /\ pc' = "configMap"
    /\ UNCHANGED <<claw, cache, cacheFresh, cm, gateway, jobs, user, failures>>

\* writeGeneratedConfig and the server-side apply of the ConfigMap, which
\* precedes the Deployments.  Owns(ConfigMap): a change enqueues the Claw.
ApplyConfigMap ==
    /\ pc = "configMap"
    /\ cm' = doctorFixComplete(inst)
    /\ queued' = (queued \/ cm' # cm)
    /\ pc' = "gateway"
    /\ UNCHANGED <<claw, cache, cacheFresh, inst, instFresh, pause, gateway,
                   jobs, user, failures>>

\* pauseGatewayForDoctorFix sets the replicas of the manifest to zero.
DesiredGateway ==
    [gwCache EXCEPT !.replicas = IF pause THEN 0 ELSE 1,
                    !.image = inst.image, !.flag = doctorFixComplete(inst)]

\* applyDeployment: CreateOrUpdate on the cached Deployment.
ApplyGateway ==
    /\ pc = "gateway"
    /\ \/ gwCache = DesiredGateway /\ UNCHANGED <<gw, gwFresh>>
       \/ /\ gwCache # DesiredGateway
          /\ gwFresh
          /\ gw' = DesiredGateway
          /\ gwFresh' = FALSE
    /\ pc' = IF pause THEN "migrating" ELSE "updateStatus"
    /\ UNCHANGED <<claw, cache, cacheFresh, inst, instFresh, queued, pause, cm,
                   gwCache, pod, dying, jobs, user, failures>>

UpdateStatus ==
    /\ pc = "updateStatus"
    /\ StatusUpdate([inst EXCEPT !.ready = "Computed"])
    /\ EndReconcile
    /\ UNCHANGED <<queued, cm, gateway, jobs, user, failures>>

-----------------------------------------------------------------------------
(* reconcileDoctorFix *)

RecordMigrating ==
    /\ pc = "migrating"
    /\ StatusUpdate([inst EXCEPT !.ready = "Migrating"])
    /\ inst' = claw'
    /\ pc' = "job"
    /\ UNCHANGED <<cache, instFresh, queued, pause, cm, gateway, jobs, user,
                   failures>>

\* The cached Deployment has no replicas left.
GatewayStopped == gwCache.replicas # Absent /\ gwCache.status = 0

\* (Mutant) The wait relies on events: nothing is requeued.
WaitForEvent ==
    /\ pc = "job"
    /\ ~ GatewayStopped \/ hasActiveDoctorFix
    /\ EndReconcile
    /\ UNCHANGED <<claw, cacheFresh, queued, cm, gateway, jobs, user, failures>>

\* The gateway is still stopping, a Job is still running, or the Job has
\* failed without failed pods: come back in 2 s.
Wait ==
    /\ pc = "job"
    /\ \/ ~ GatewayStopped
       \/ hasActiveDoctorFix
       \/ jobCache[inst.image] = "expired"
    /\ EndReconcile
    /\ queued' = TRUE
    /\ UNCHANGED <<claw, cacheFresh, cm, gateway, jobs, user, failures>>

CreateJob ==
    /\ pc = "job"
    /\ GatewayStopped
    /\ ~ hasActiveDoctorFix
    /\ jobCache[inst.image] = None
    /\ job[inst.image] = None
    /\ job' = [job EXCEPT ![inst.image] = "active"]
    /\ pc' = "pending"
    /\ UNCHANGED <<claw, cache, cacheFresh, inst, instFresh, queued, pause, cm,
                   gateway, jobCache, succeeded, user, failures>>

RecordPending ==
    /\ pc = "pending"
    /\ StatusUpdate([inst EXCEPT !.migCond = "Pending"])
    /\ EndReconcile
    /\ queued' = TRUE
    /\ UNCHANGED <<cm, gateway, jobs, user, failures>>

\* (Mutant) A Job that is no longer active is taken to have succeeded.
RecordFinished ==
    /\ pc = "job"
    /\ GatewayStopped
    /\ ~ hasActiveDoctorFix
    /\ jobCache[inst.image] # None
    /\ StatusUpdate([inst EXCEPT !.mig = inst.image, !.migCond = "Complete"])
    /\ EndReconcile
    /\ queued' = TRUE
    /\ UNCHANGED <<cm, gateway, jobs, user, failures>>

\* Record the image; the next Reconcile resumes the gateway.
RecordSuccess ==
    /\ pc = "job"
    /\ GatewayStopped
    /\ ~ hasActiveDoctorFix
    /\ jobCache[inst.image] = "succeeded"
    /\ StatusUpdate([inst EXCEPT !.mig = inst.image, !.migCond = "Complete"])
    /\ EndReconcile
    /\ queued' = TRUE
    /\ UNCHANGED <<cm, gateway, jobs, user, failures>>

\* (Mutant) The Job's state instead of the condition's reason.
RecordFailureState ==
    /\ pc = "job"
    /\ GatewayStopped
    /\ ~ hasActiveDoctorFix
    /\ jobCache[inst.image] = "failed"
    /\ StatusUpdate([inst EXCEPT !.migCond = jobCache[inst.image]])
    /\ EndReconcile
    /\ UNCHANGED <<queued, cm, gateway, jobs, user, failures>>

\* Record the failure and leave the gateway paused; nothing is requeued.
RecordFailure ==
    /\ pc = "job"
    /\ GatewayStopped
    /\ ~ hasActiveDoctorFix
    /\ jobCache[inst.image] = "failed"
    /\ StatusUpdate([inst EXCEPT !.migCond = "Failed"])
    /\ EndReconcile
    /\ UNCHANGED <<queued, cm, gateway, jobs, user, failures>>

\* The calls that are refused because a cached copy is stale.
StaleWrite ==
    \/ pc = "gateway" /\ gwCache # DesiredGateway /\ ~ gwFresh
    \/ pc \in {"migrating", "pending", "updateStatus"} /\ ~ instFresh
    \/ /\ pc = "job" /\ GatewayStopped /\ ~ hasActiveDoctorFix
       /\ \/ jobCache[inst.image] = None /\ job[inst.image] # None
          \/ jobCache[inst.image] \in {"succeeded", "failed"} /\ ~ instFresh

\* (Mutant) The error is logged and nil is returned.
FailSwallowed ==
    /\ pc # "idle"
    /\ CallFails(StaleWrite)
    /\ EndReconcile
    /\ UNCHANGED <<claw, cacheFresh, queued, cm, gateway, jobs, user>>

\* The error is returned and the controller requeues the key.
Fail ==
    /\ pc # "idle"
    /\ CallFails(StaleWrite)
    /\ EndReconcile
    /\ queued' = TRUE
    /\ UNCHANGED <<claw, cacheFresh, cm, gateway, jobs, user>>

-----------------------------------------------------------------------------
(* Informers *)

ClawSync ==
    /\ ~ cacheFresh
    /\ cache' = claw
    /\ cacheFresh' = TRUE
    /\ queued' = TRUE
    /\ inst' = IF pc = "idle" THEN claw ELSE inst
    /\ UNCHANGED <<claw, instFresh, pc, pause, cm, gateway, jobs, user, failures>>

\* Owns(Deployment).
GatewaySync ==
    /\ ~ gwFresh
    /\ gwCache' = gw
    /\ gwFresh' = TRUE
    /\ queued' = TRUE
    /\ UNCHANGED <<claw, cache, cacheFresh, inst, instFresh, pc, pause, cm, gw,
                   pod, dying, jobs, user, failures>>

\* Job events reach the cache but enqueue nothing.
JobSync(i) ==
    /\ jobCache[i] # job[i]
    /\ jobCache' = [jobCache EXCEPT ![i] = job[i]]
    /\ UNCHANGED <<claw, cache, cacheFresh, inst, instFresh, pc, queued, pause,
                   cm, gateway, job, succeeded, user, failures>>

-----------------------------------------------------------------------------
(* The cluster: Deployment controller, kubelet, Job controller *)

PodStart ==
    /\ pod = NoPod
    /\ gw.replicas = 1
    /\ pod' = [image |-> gw.image, up |-> FALSE]
    /\ UNCHANGED <<claw, cache, cacheFresh, inst, instFresh, pc, queued, pause,
                   cm, gw, gwCache, gwFresh, dying, jobs, user, failures>>

\* The init container: merge.js throws for a 7.2 image without a completed
\* migration (and is restarted), so only the other pods come up.
InitConfig ==
    /\ pod # NoPod
    /\ ~ pod.up
    /\ pod.image \in Images72 => cm
    /\ pod' = [pod EXCEPT !.up = TRUE]
    /\ UNCHANGED <<claw, cache, cacheFresh, inst, instFresh, pc, queued, pause,
                   cm, gw, gwCache, gwFresh, dying, jobs, user, failures>>

\* Scaled to zero, or strategy Recreate replaces the pod: it gets its grace
\* period.
PodStop ==
    /\ pod # NoPod
    /\ gw.replicas = 0 \/ gw.image # pod.image
    /\ dying' = (dying \/ pod.up)
    /\ pod' = NoPod
    /\ UNCHANGED <<claw, cache, cacheFresh, inst, instFresh, pc, queued, pause,
                   cm, gw, gwCache, gwFresh, jobs, user, failures>>

PodGone ==
    /\ dying
    /\ dying' = FALSE
    /\ UNCHANGED <<claw, cache, cacheFresh, inst, instFresh, pc, queued, pause,
                   cm, gw, gwCache, gwFresh, pod, jobs, user, failures>>

\* Pods that terminate are not counted in status.replicas.
GatewayStatus ==
    LET n == IF pod = NoPod THEN 0 ELSE 1
    IN  /\ gw.replicas # Absent
        /\ gw.status # n
        /\ gw' = [gw EXCEPT !.status = n]
        /\ gwFresh' = FALSE
        /\ UNCHANGED <<claw, cache, cacheFresh, inst, instFresh, pc, queued,
                       pause, cm, gwCache, pod, dying, jobs, user, failures>>

JobFinish(i, outcome) ==
    /\ job[i] = "active"
    /\ job' = [job EXCEPT ![i] = outcome]
    /\ succeeded' = IF outcome = "succeeded" THEN succeeded \cup {i}
                    ELSE succeeded
    /\ UNCHANGED <<claw, cache, cacheFresh, inst, instFresh, pc, queued, pause,
                   cm, gateway, jobCache, user, failures>>

-----------------------------------------------------------------------------
(* The user *)

EditSpec ==
    /\ edits < MaxEdits
    /\ edits' = edits + 1
    /\ \E f \in BOOLEAN, i \in Images :
         /\ <<f, i>> # <<claw.fix, claw.image>>
         /\ claw' = [claw EXCEPT !.fix = f, !.image = i]
         /\ approved' = IF f THEN approved \cup {i} ELSE approved
    /\ cacheFresh' = FALSE
    /\ instFresh' = FALSE
    /\ UNCHANGED <<cache, inst, pc, queued, pause, cm, gateway, jobs, failures>>

\* A finished Job is removed, for instance to have it run again.
DeleteJob(i) ==
    /\ edits < MaxEdits
    /\ edits' = edits + 1
    /\ job[i] \notin {None, "active"}
    /\ job' = [job EXCEPT ![i] = None]
    /\ UNCHANGED <<claw, cache, cacheFresh, inst, instFresh, pc, queued, pause,
                   cm, gateway, jobCache, succeeded, approved, failures>>

-----------------------------------------------------------------------------
Reconcile ==
    \/ Dequeue \/ ApplyConfigMap \/ ApplyGateway \/ UpdateStatus
    \/ RecordMigrating \/ Wait \/ CreateJob \/ RecordPending
    \/ RecordSuccess \/ RecordFailure \/ Fail

Outcomes == {"succeeded", "failed", "expired"}

Cluster ==
    \/ PodStart \/ InitConfig \/ PodStop \/ PodGone \/ GatewayStatus
    \/ \E i \in Images, o \in Outcomes : JobFinish(i, o)

Next ==
    \/ Reconcile
    \/ ClawSync \/ GatewaySync \/ (\E i \in Images : JobSync(i))
    \/ Cluster
    \/ EditSpec \/ (\E i \in Images : DeleteJob(i))

\* The queue is served, the watches deliver, controllers act, pods end after
\* their grace period and Jobs by activeDeadlineSeconds.
Fairness ==
    /\ WF_vars(Reconcile)
    /\ WF_vars(ClawSync)
    /\ WF_vars(GatewaySync)
    /\ \A i \in Images : WF_vars(JobSync(i))
    /\ WF_vars(PodStart) /\ WF_vars(PodStop) /\ WF_vars(GatewayStatus)
    /\ \A i \in Images : WF_vars(\E o \in Outcomes : JobFinish(i, o))

Spec == Init /\ [][Next]_vars /\ Fairness

-----------------------------------------------------------------------------
(* Properties *)

\* The volume's users as the operator arranges them: the Deployment may run a
\* gateway pod, or a Job is active.
Users == {"gateway", "doctor"}

holders ==
    {u \in Users : \/ u = "gateway" /\ gw.replicas = 1
                   \/ u = "doctor" /\ \E i \in Images : job[i] = "active"}

Lock == INSTANCE PvcLock WITH Users <- Users, holders <- holders

\* The controller implements the lock on the volume: while a doctor Job is
\* active the gateway Deployment stays scaled to zero and the other way round,
\* whatever the user edits meanwhile and although Reconcile decides about the
\* pause from two caches before it writes (claw_migration.go,
\* reconcileDoctorFix and pauseGatewayForDoctorFix).
LockSpec == Lock!Spec

\* At most one doctor Job works on the volume, also when the image is changed
\* while one runs.
OneJob ==
    \A i, j \in Images : job[i] = "active" /\ job[j] = "active" => i = j

\* status.migration.doctorFixImage names an image whose Job succeeded.
MigratedMeansSucceeded == claw.mig # None => claw.mig \in succeeded

\* No gateway with a 7.2 image ever comes up on a volume that no doctor Job
\* has migrated: the init container reads migration.json, which goes back to
\* the status of an earlier Reconcile (configmap.yaml, merge.js).
GateHolds == pod.up /\ pod.image \in Images72 => succeeded # {}

\* Nothing is queued, in progress or undelivered.
Quiescent ==
    /\ pc = "idle" /\ ~ queued
    /\ cacheFresh /\ gwFresh
    /\ jobCache = job

\* At rest, the gateway runs the image of the spec, or it is paused and the
\* Claw reports a failed migration: although Jobs are not watched, a Job's end
\* is never missed and no gateway is silently left paused.
ResumedAtRest ==
    Quiescent =>
        \/ gw.replicas = 1 /\ gw.image = claw.image /\ claw.ready = "Computed"
        \/ gw.replicas = 0 /\ claw.migCond = "Failed"

\* A requested migration ends: the gateway runs the migrated image, or the
\* failure is reported, or the Job failed without a failed pod.
MigrationResolves ==
    <>[]claw.fix =>
        <>[](\/ /\ claw.mig = claw.image
                /\ gw.replicas = 1 /\ gw.image = claw.image
             \/ claw.migCond = "Failed"
             \/ job[claw.image] = "expired")

-----------------------------------------------------------------------------
(* What the repository's documents say and the code does not do *)

\* The gateway is stopped before the Job accesses the volume.
StoppedDuringJob ==
    (\E i \in Images : job[i] = "active") => ~ dying /\ ~ pod.up

\* A migration is approved by the user.
JobsApproved == \A i \in Images : job[i] # None => i \in approved
=============================================================================
