------------------------ MODULE DoctorMigration_proofs -------------------------
(***************************************************************************)
(* Proofs about DoctorMigration for any set of images and any bounds.      *)
(*                                                                         *)
(* First, whatever the caches do: only images whose Job succeeded are      *)
(* recorded as migrated, and no 7.2 gateway comes up on a volume nothing   *)
(* has migrated.  Second, when a Reconcile sees what the previous one      *)
(* wrote: gateway and doctor Jobs take turns on the volume, that is, the   *)
(* controller implements PvcLock.  Third, whatever the caches do: at rest  *)
(* no gateway is left paused without a reported failure.                   *)
(***************************************************************************)
EXTENDS DoctorMigration, TLAPS

CacheExact == cacheFresh => cache = claw
InstExact  == instFresh => inst = claw

\* A copy of the Claw, however old, names an image that was migrated.
Backed(c) == c.mig # None => c.mig \in succeeded

\* A Job seen as succeeded, on the server or in the cache, did succeed.
SuccessKnown ==
    \A i \in Images :
        job[i] = "succeeded" \/ jobCache[i] = "succeeded" => i \in succeeded

\* migration.json says complete only after some success.
FlagBacked == cm => succeeded # {}

Inv ==
    /\ TypeOK
    /\ CacheExact /\ InstExact
    /\ Backed(claw) /\ Backed(cache) /\ Backed(inst)
    /\ SuccessKnown
    /\ FlagBacked
    /\ GateHolds

\* A new Claw satisfies the invariant.
LEMMA InitInv == Init => Inv
  <1> SUFFICES ASSUME Init PROVE Inv
    OBVIOUS
  <1>1. PICK f \in BOOLEAN, i \in Images :
          /\ claw = [fix |-> f, image |-> i, mig |-> None, migCond |-> None,
                     ready |-> None]
          /\ gw = [replicas |-> Absent, image |-> i, flag |-> FALSE, status |-> 0]
          /\ approved = IF f THEN {i} ELSE {}
    BY DEF Init
  <1>2. claw \in Claws /\ gw \in Gateways /\ approved \subseteq Images
    BY <1>1 DEF Claws, Gateways
  <1>3. cache = claw /\ inst = claw /\ gwCache = gw /\ jobCache = job
    BY DEF Init
  <1>4. job \in [Images -> JobStates] /\ \A j \in Images : job[j] = None
    BY DEF Init, JobStates
  <1>5. edits \in 0..MaxEdits /\ failures \in 0..MaxFailures
    BY ConstantsAssumption DEF Init
  <1>6. /\ cacheFresh \in BOOLEAN /\ instFresh \in BOOLEAN /\ queued \in BOOLEAN
        /\ pause \in BOOLEAN /\ gwFresh \in BOOLEAN /\ cm \in BOOLEAN
        /\ dying \in BOOLEAN /\ pc \in Steps /\ pod \in Pods \cup {NoPod}
        /\ succeeded \subseteq Images
    BY DEF Init, Steps
  <1>7. TypeOK
    BY <1>2, <1>3, <1>4, <1>5, <1>6 DEF TypeOK
  <1>8. ~ pod.up /\ ~ cm
    BY DEF Init, NoPod
  <1> QED
    BY <1>1, <1>3, <1>4, <1>7, <1>8
    DEF Inv, CacheExact, InstExact, Backed, SuccessKnown, FlagBacked, GateHolds, None

\* An accepted status write was based on the current object.
LEMMA StatusUpdateFacts ==
  ASSUME Inv, NEW new, StatusUpdate(new), cache' = cache
  PROVE  claw' = new /\ inst = claw /\ cacheFresh' \in BOOLEAN /\ CacheExact'
  <1>1. claw' = new /\ inst = claw
    BY DEF StatusUpdate, Inv, InstExact
  <1>2. cacheFresh' = (cacheFresh /\ new = claw)
    BY DEF StatusUpdate
  <1>3. cacheFresh' \in BOOLEAN /\ (cacheFresh' => cacheFresh /\ new = claw)
    BY <1>2
  <1> QED
    BY <1>1, <1>3 DEF Inv, CacheExact

\* Returning from Reconcile without a write.
LEMMA EndInv ==
  ASSUME Inv, EndReconcile, UNCHANGED <<claw, cacheFresh, cm, gateway, jobs, user>>,
         queued' \in BOOLEAN, failures' \in 0..MaxFailures
  PROVE  Inv'
  BY DEF EndReconcile, gateway, jobs, user, Inv, TypeOK, Steps, CacheExact, InstExact,
         Backed, SuccessKnown, FlagBacked, GateHolds

\* Returning from Reconcile with a status write.
LEMMA EndWithWriteInv ==
  ASSUME Inv, EndReconcile, NEW new \in Claws, StatusUpdate(new), Backed(new),
         UNCHANGED <<cm, gateway, jobs, user, failures>>, queued' \in BOOLEAN
  PROVE  Inv'
  <1>1. cache' = cache
    BY DEF EndReconcile
  <1>2. claw' = new /\ cacheFresh' \in BOOLEAN /\ CacheExact'
    BY <1>1, StatusUpdateFacts
  <1> QED
    BY <1>2 DEF EndReconcile, gateway, jobs, user, Inv, TypeOK, Steps, InstExact,
                Backed, SuccessKnown, FlagBacked, GateHolds

\* Every step preserves the invariant.
LEMMA NextInv == Inv /\ [Next]_vars => Inv'
  <1> SUFFICES ASSUME Inv, [Next]_vars PROVE Inv'
    OBVIOUS
  <1> USE DEF CacheExact, InstExact, Backed, SuccessKnown, FlagBacked, GateHolds
  <1>a. inst \in Claws /\ Backed(inst) /\ queued \in BOOLEAN
    BY DEF Inv, TypeOK
  <1>1. CASE Dequeue
    <2>1. pause' \in BOOLEAN /\ pc' \in Steps
      BY <1>1 DEF Dequeue, Steps
    <2> QED
      BY <1>1, <2>1 DEF Dequeue, gateway, jobs, user, Inv, TypeOK
  <1>2. CASE ApplyConfigMap
    <2>1. cm' \in BOOLEAN /\ queued' \in BOOLEAN /\ pc' \in Steps
      BY <1>2, <1>a DEF ApplyConfigMap, doctorFixComplete, doctorFixRequested, Claws,
                        Steps
    <2>2. cm' => inst.mig = inst.image
      BY <1>2 DEF ApplyConfigMap, doctorFixComplete
    <2>3. cm' => succeeded # {}
      BY <1>a, <2>2, ConstantsAssumption DEF Claws
    <2> QED
      BY <1>2, <2>1, <2>3 DEF ApplyConfigMap, gateway, jobs, user, Inv, TypeOK
  <1>3. CASE ApplyGateway
    <2>1. doctorFixComplete(inst) \in BOOLEAN
      BY <1>a DEF doctorFixComplete, doctorFixRequested, Claws
    <2>2. DesiredGateway \in Gateways
      BY <1>a, <2>1 DEF DesiredGateway, Gateways, Claws, Inv, TypeOK
    <2>3. gw' \in Gateways /\ gwFresh' \in BOOLEAN /\ pc' \in Steps
      BY <1>3, <2>2 DEF ApplyGateway, Inv, TypeOK, Steps
    <2> QED
      BY <1>3, <2>3 DEF ApplyGateway, jobs, user, Inv, TypeOK
  <1>4. CASE UpdateStatus
    <2>1. /\ [inst EXCEPT !.ready = "Computed"] \in Claws
          /\ Backed([inst EXCEPT !.ready = "Computed"])
      BY <1>a DEF Claws
    <2> QED
      BY <1>4, <1>a, <2>1, EndWithWriteInv DEF UpdateStatus
  <1>5. CASE RecordMigrating
    <2> DEFINE new == [inst EXCEPT !.ready = "Migrating"]
    <2>1. StatusUpdate(new) /\ cache' = cache
      BY <1>5 DEF RecordMigrating
    <2>2. claw' = new /\ cacheFresh' \in BOOLEAN /\ CacheExact'
      BY <2>1, StatusUpdateFacts
    <2>3. new \in Claws /\ Backed(new)
      BY <1>a DEF Claws
    <2> HIDE DEF new
    <2> QED
      BY <1>5, <2>2, <2>3 DEF RecordMigrating, gateway, jobs, user, Inv, TypeOK, Steps
  <1>6. CASE Wait
    BY <1>6, EndInv DEF Wait, Inv, TypeOK
  <1>7. CASE CreateJob
    <2>1. /\ job' \in [Images -> JobStates] /\ pc' \in Steps
          /\ \A i \in Images : job'[i] = "succeeded" => job[i] = "succeeded"
      BY <1>7, <1>a DEF CreateJob, Inv, TypeOK, JobStates, Claws, Steps
    <2> QED
      BY <1>7, <2>1 DEF CreateJob, gateway, user, Inv, TypeOK
  <1>8. CASE RecordPending
    <2>1. /\ [inst EXCEPT !.migCond = "Pending"] \in Claws
          /\ Backed([inst EXCEPT !.migCond = "Pending"])
      BY <1>a DEF Claws
    <2> QED
      BY <1>8, <2>1, EndWithWriteInv DEF RecordPending
  <1>9. CASE RecordSuccess
    <2> DEFINE new == [inst EXCEPT !.mig = inst.image, !.migCond = "Complete"]
    <2>1. inst.image \in succeeded
      BY <1>9, <1>a DEF RecordSuccess, Claws, Inv
    <2>2. new \in Claws /\ Backed(new)
      BY <1>a, <2>1 DEF Claws
    <2>3. StatusUpdate(new)
      BY <1>9 DEF RecordSuccess
    <2> HIDE DEF new
    <2> QED
      BY <1>9, <2>2, <2>3, EndWithWriteInv DEF RecordSuccess
  <1>10. CASE RecordFailure
    <2>1. /\ [inst EXCEPT !.migCond = "Failed"] \in Claws
          /\ Backed([inst EXCEPT !.migCond = "Failed"])
      BY <1>a DEF Claws
    <2> QED
      BY <1>10, <1>a, <2>1, EndWithWriteInv DEF RecordFailure
  <1>11. CASE Fail
    <2>1. failures' \in 0..MaxFailures
      BY <1>11, ConstantsAssumption DEF Fail, CallFails, Inv, TypeOK
    <2> QED
      BY <1>11, <2>1, EndInv DEF Fail
  <1>12. CASE ClawSync
    BY <1>12 DEF ClawSync, gateway, jobs, user, Inv, TypeOK
  <1>13. CASE GatewaySync
    BY <1>13 DEF GatewaySync, jobs, user, Inv, TypeOK
  <1>14. ASSUME NEW i \in Images, JobSync(i) PROVE Inv'
    BY <1>14 DEF JobSync, gateway, user, Inv, TypeOK
  <1>15. CASE PodStart
    <2>1. pod' \in Pods /\ ~ pod'.up
      BY <1>15 DEF PodStart, Pods, Inv, TypeOK, Gateways
    <2> QED
      BY <1>15, <2>1 DEF PodStart, jobs, user, Inv, TypeOK
  <1>16. CASE InitConfig
    <2>1. pod \in Pods
      BY <1>16 DEF InitConfig, Inv, TypeOK
    <2>2. pod' \in Pods /\ pod'.image = pod.image
      BY <1>16, <2>1 DEF InitConfig, Pods
    <2> QED
      BY <1>16, <2>2 DEF InitConfig, jobs, user, Inv, TypeOK
  <1>17. CASE PodStop
    <2>1. pod' = NoPod /\ ~ pod'.up
      BY <1>17 DEF PodStop, NoPod
    <2>2. dying' \in BOOLEAN
      BY <1>17 DEF PodStop
    <2> QED
      BY <1>17, <2>1, <2>2 DEF PodStop, jobs, user, Inv, TypeOK
  <1>18. CASE PodGone
    BY <1>18 DEF PodGone, jobs, user, Inv, TypeOK
  <1>19. CASE GatewayStatus
    <2>1. gw' \in Gateways /\ gwFresh' \in BOOLEAN
      BY <1>19 DEF GatewayStatus, Inv, TypeOK, Gateways
    <2> QED
      BY <1>19, <2>1 DEF GatewayStatus, jobs, user, Inv, TypeOK
  <1>20. ASSUME NEW i \in Images, NEW o \in Outcomes, JobFinish(i, o) PROVE Inv'
    <2>1. job' \in [Images -> JobStates] /\ succeeded' \subseteq Images
      BY <1>20 DEF JobFinish, Outcomes, JobStates, Inv, TypeOK
    <2>2. succeeded \subseteq succeeded'
      BY <1>20 DEF JobFinish
    <2>3. SuccessKnown'
      BY <1>20 DEF JobFinish, Inv, TypeOK
    <2> QED
      BY <1>20, <2>1, <2>2, <2>3 DEF JobFinish, gateway, user, Inv, TypeOK
  <1>21. CASE EditSpec
    <2>1. PICK f \in BOOLEAN, i \in Images :
            /\ claw' = [claw EXCEPT !.fix = f, !.image = i]
            /\ approved' = IF f THEN approved \cup {i} ELSE approved
      BY <1>21 DEF EditSpec
    <2>2. claw' \in Claws /\ claw'.mig = claw.mig /\ approved' \subseteq Images
      BY <2>1 DEF Claws, Inv, TypeOK
    <2>3. edits' \in 0..MaxEdits
      BY <1>21, ConstantsAssumption DEF EditSpec, Inv, TypeOK
    <2> QED
      BY <1>21, <2>2, <2>3 DEF EditSpec, gateway, jobs, Inv, TypeOK
  <1>22. ASSUME NEW i \in Images, DeleteJob(i) PROVE Inv'
    <2>1. edits' \in 0..MaxEdits
      BY <1>22, ConstantsAssumption DEF DeleteJob, Inv, TypeOK
    <2>2. /\ job' \in [Images -> JobStates]
          /\ \A j \in Images : job'[j] = "succeeded" => job[j] = "succeeded"
      BY <1>22 DEF DeleteJob, Inv, TypeOK, JobStates, None
    <2> QED
      BY <1>22, <2>1, <2>2 DEF DeleteJob, gateway, Inv, TypeOK
  <1>23. CASE UNCHANGED vars
    BY <1>23 DEF vars, Inv, TypeOK
  <1> QED
    BY <1>1, <1>2, <1>3, <1>4, <1>5, <1>6, <1>7, <1>8, <1>9, <1>10, <1>11, <1>12,
       <1>13, <1>14, <1>15, <1>16, <1>17, <1>18, <1>19, <1>20, <1>21, <1>22, <1>23
    DEF Next, Reconcile, Cluster

\* The inductive invariant holds in every reachable state.
THEOREM Invariance == Spec => []Inv
  BY InitInv, NextInv, PTL DEF Spec

\* The state of the migration stays well typed.
THEOREM TypeCorrect == Spec => []TypeOK
  <1>1. Inv => TypeOK
    BY DEF Inv
  <1> QED
    BY <1>1, Invariance, PTL

\* status.migration.doctorFixImage names an image whose Job succeeded, however
\* stale the copies are that Reconcile works on.
THEOREM MigratedSucceeded == Spec => []MigratedMeansSucceeded
  <1>1. Inv => MigratedMeansSucceeded
    BY DEF Inv, Backed, MigratedMeansSucceeded
  <1> QED
    BY <1>1, Invariance, PTL

\* No 7.2 gateway comes up on a volume that no doctor Job has migrated.
THEOREM Gated == Spec => []GateHolds
  <1>1. Inv => GateHolds
    BY DEF Inv
  <1> QED
    BY <1>1, Invariance, PTL

-----------------------------------------------------------------------------
(* The lock on the volume, when Reconcile sees its predecessor's writes *)

Active(i) == job[i] = "active"

\* The gateway is scaled to zero while a Job is active, and there is one Job.
TakeTurns ==
    \A i \in Images : Active(i) =>
        gw.replicas = 0 /\ \A j \in Images : Active(j) => i = j

\* An active Job is in the Job cache as active, or not there yet; the latter
\* only until the next Reconcile begins.
JobSeen ==
    \A i \in Images : Active(i) =>
        /\ jobCache[i] \in {None, "active"}
        /\ pc \notin {"idle", "pending"} => jobCache[i] = "active"

\* A Reconcile that does not pause the gateway runs while no Job is active.
ResumeSafe == pc # "idle" /\ ~ pause => \A i \in Images : ~ Active(i)

\* In reconcileDoctorFix the server has the gateway scaled to zero.
PauseApplied ==
    pc \in {"migrating", "job", "pending"} => pause /\ gw.replicas = 0

\* Until Reconcile applies the gateway, the cached spec is the server's.
GatewaySeen ==
    pc \in {"configMap", "gateway"} => gwCache.replicas = gw.replicas

LockInv ==
    /\ TakeTurns
    /\ JobSeen
    /\ ResumeSafe
    /\ PauseApplied
    /\ GatewaySeen

\* What LockInv speaks about.
lockVars == <<pc, pause, gw, gwCache, job, jobCache>>

\* Initially there is neither a Job nor a gateway.
LEMMA InitLock == Init => LockInv
  <1> SUFFICES ASSUME Init PROVE LockInv
    OBVIOUS
  <1>1. pc = "idle" /\ \A j \in Images : job[j] # "active"
    BY DEF Init, None
  <1> QED
    BY <1>1 DEF LockInv, TakeTurns, JobSeen, ResumeSafe, PauseApplied, GatewaySeen,
                Active

\* The end of a Reconcile preserves LockInv.
LEMMA EndLock ==
  ASSUME LockInv, pc' = "idle", UNCHANGED <<gw, gwCache, job, jobCache>>
  PROVE  LockInv'
  BY DEF LockInv, TakeTurns, JobSeen, ResumeSafe, PauseApplied, GatewaySeen, Active

\* The Deployment that ApplyGateway asks for.
LEMMA ApplyGatewayReplicas ==
  ASSUME Inv, LockInv, ApplyGateway
  PROVE  gw'.replicas = IF pause THEN 0 ELSE 1
  <1>1. DesiredGateway.replicas = IF pause THEN 0 ELSE 1
    BY DEF DesiredGateway, Inv, TypeOK, Gateways
  <1>2. gwCache.replicas = gw.replicas
    BY DEF ApplyGateway, LockInv, GatewaySeen
  <1> QED
    BY <1>1, <1>2 DEF ApplyGateway

\* When a Job is created nothing holds the volume.
LEMMA CreateJobFree ==
  ASSUME Inv, LockInv, CreateJob
  PROVE  /\ gw.replicas = 0 /\ pause /\ inst.image \in Images
         /\ \A i \in Images : ~ Active(i)
         /\ \A i \in Images : Active(i)' <=> i = inst.image
  <1>1. gw.replicas = 0 /\ pause /\ inst.image \in Images
    BY DEF CreateJob, LockInv, PauseApplied, Inv, TypeOK, Claws
  <1>2. \A i \in Images : ~ Active(i)
    BY DEF CreateJob, hasActiveDoctorFix, LockInv, JobSeen
  <1>3. \A i \in Images : Active(i)' <=> i = inst.image
    BY <1>1, <1>2 DEF CreateJob, Active, Inv, TypeOK
  <1> QED
    BY <1>1, <1>2, <1>3

\* Every step preserves LockInv.
LEMMA NextLock ==
  ASSUME OwnWritesLag = FALSE, Inv, LockInv, [Next]_vars
  PROVE  LockInv'
  <1>1. CASE Dequeue
    <2>1. /\ OwnWritesSeen /\ pc' = "configMap"
          /\ pause' = (doctorFixPending(cache) \/ hasActiveDoctorFix)
          /\ UNCHANGED <<gw, gwCache, job, jobCache>>
      BY <1>1 DEF Dequeue, gateway, jobs
    <2>2. \A i \in Images : Active(i) => jobCache[i] = "active"
      BY <2>1 DEF OwnWritesSeen, LockInv, JobSeen, Active, None
    <2>3. gwCache.replicas = gw.replicas
      BY <2>1 DEF OwnWritesSeen, Inv, TypeOK, Gateways
    <2>4. ~ pause' => \A i \in Images : ~ Active(i)
      BY <2>1, <2>2 DEF hasActiveDoctorFix
    <2> QED
      BY <2>1, <2>2, <2>3, <2>4 DEF LockInv, TakeTurns, JobSeen, ResumeSafe,
         PauseApplied, GatewaySeen, Active
  <1>2. CASE ApplyConfigMap
    BY <1>2 DEF ApplyConfigMap, gateway, jobs, LockInv, TakeTurns, JobSeen, ResumeSafe,
                PauseApplied, GatewaySeen, Active
  <1>3. CASE ApplyGateway
    <2>1. /\ gw'.replicas = IF pause THEN 0 ELSE 1
          /\ pc' = IF pause THEN "migrating" ELSE "updateStatus"
          /\ pc = "gateway" /\ UNCHANGED <<pause, job, jobCache>>
      BY <1>3, ApplyGatewayReplicas DEF ApplyGateway, jobs
    <2> QED
      BY <2>1 DEF LockInv, TakeTurns, JobSeen, ResumeSafe, PauseApplied, GatewaySeen,
                  Active
  <1>4. CASE RecordMigrating
    BY <1>4 DEF RecordMigrating, gateway, jobs, LockInv, TakeTurns, JobSeen, ResumeSafe,
                PauseApplied, GatewaySeen, Active
  <1>5. CASE CreateJob
    <2>1. /\ pc' = "pending" /\ jobCache[inst.image] = None
          /\ UNCHANGED <<pause, gw, gwCache, jobCache>>
      BY <1>5 DEF CreateJob, gateway
    <2> QED
      BY <1>5, <2>1, CreateJobFree DEF LockInv, TakeTurns, JobSeen, ResumeSafe,
         PauseApplied, GatewaySeen
  <1>6. CASE UpdateStatus \/ Wait \/ RecordPending \/ RecordSuccess
             \/ RecordFailure \/ Fail
    BY <1>6, EndLock DEF UpdateStatus, Wait, RecordPending, RecordSuccess,
       RecordFailure, Fail, EndReconcile, gateway, jobs
  <1>7. CASE GatewaySync
    BY <1>7 DEF GatewaySync, jobs, LockInv, TakeTurns, JobSeen, ResumeSafe,
                PauseApplied, GatewaySeen, Active
  <1>8. ASSUME NEW i \in Images, JobSync(i) PROVE LockInv'
    BY <1>8 DEF JobSync, gateway, LockInv, TakeTurns, JobSeen, ResumeSafe,
                PauseApplied, GatewaySeen, Active, Inv, TypeOK
  <1>9. CASE GatewayStatus
    <2>1. gw'.replicas = gw.replicas
      BY <1>9 DEF GatewayStatus, Inv, TypeOK, Gateways
    <2> QED
      BY <1>9, <2>1 DEF GatewayStatus, jobs, LockInv, TakeTurns, JobSeen, ResumeSafe,
                        PauseApplied, GatewaySeen, Active
  <1>10. ASSUME NEW i \in Images, NEW o \in Outcomes \cup {None},
                job' = [job EXCEPT ![i] = o],
                UNCHANGED <<pc, pause, gw, gwCache, jobCache>>
         PROVE  LockInv'
    <2>1. \A j \in Images : Active(j)' => Active(j)
      BY <1>10 DEF Active, Outcomes, None, Inv, TypeOK
    <2> QED
      BY <1>10, <2>1 DEF LockInv, TakeTurns, JobSeen, ResumeSafe, PauseApplied,
                         GatewaySeen
  <1>11. ASSUME NEW i \in Images, NEW o \in Outcomes, JobFinish(i, o) PROVE LockInv'
    BY <1>10, <1>11 DEF JobFinish, gateway
  <1>12. ASSUME NEW i \in Images, DeleteJob(i) PROVE LockInv'
    BY <1>10, <1>12 DEF DeleteJob, gateway
  <1>13. CASE UNCHANGED lockVars
    BY <1>13 DEF lockVars, LockInv, TakeTurns, JobSeen, ResumeSafe, PauseApplied,
                 GatewaySeen, Active
  <1>14. CASE ClawSync \/ PodStart \/ InitConfig \/ PodStop \/ PodGone \/ EditSpec
              \/ UNCHANGED vars
    BY <1>13, <1>14 DEF lockVars, vars, ClawSync, PodStart, InitConfig, PodStop, PodGone,
                        EditSpec, gateway, jobs
  <1> QED
    BY <1>1, <1>2, <1>3, <1>4, <1>5, <1>6, <1>7, <1>8, <1>9, <1>11, <1>12, <1>14
    DEF Next, Reconcile, Cluster

\* A step that changes neither the gateway's replicas nor which Jobs are
\* active is a stuttering step of the lock.
LEMMA LockStutter ==
  ASSUME gw'.replicas = gw.replicas, \A i \in Images : Active(i)' <=> Active(i)
  PROVE  UNCHANGED holders
  BY DEF holders, Active

\* Every step is a step of the lock or leaves its holders alone.
LEMMA LockStep ==
  ASSUME Inv, LockInv, [Next]_vars
  PROVE  [Lock!Next]_holders
  <1>1. CASE ApplyGateway
    <2>1. /\ gw'.replicas = IF pause THEN 0 ELSE 1
          /\ pc = "gateway" /\ UNCHANGED <<pause, job>>
      BY <1>1, ApplyGatewayReplicas DEF ApplyGateway, jobs
    <2>2. \A i \in Images : Active(i)' <=> Active(i)
      BY <2>1 DEF Active
    <2>3. CASE pause /\ gw.replicas = 1
      <3>1. \A i \in Images : ~ Active(i)
        BY <2>3 DEF LockInv, TakeTurns
      <3>2. holders = {"gateway"} /\ holders' = {}
        BY <2>1, <2>2, <2>3, <3>1 DEF holders, Users, Active
      <3> QED
        BY <3>2 DEF Lock!Next, Lock!Release, Users
    <2>4. CASE pause /\ gw.replicas # 1
      BY <2>1, <2>2, <2>4 DEF holders, Active
    <2>5. CASE ~ pause /\ gw.replicas = 1
      BY <2>1, <2>2, <2>5, LockStutter
    <2>6. CASE ~ pause /\ gw.replicas # 1
      <3>1. \A i \in Images : ~ Active(i)
        BY <2>1, <2>6 DEF LockInv, ResumeSafe
      <3>2. holders = {} /\ holders' = {"gateway"}
        BY <2>1, <2>2, <2>6, <3>1 DEF holders, Users, Active
      <3> QED
        BY <3>2 DEF Lock!Next, Lock!Acquire, Users
    <2> QED
      BY <2>3, <2>4, <2>5, <2>6
  <1>2. CASE CreateJob
    <2>1. gw' = gw
      BY <1>2 DEF CreateJob, gateway
    <2>2. holders = {} /\ holders' = {"doctor"}
      BY <1>2, <2>1, CreateJobFree DEF holders, Users, Active
    <2> QED
      BY <2>2 DEF Lock!Next, Lock!Acquire, Users
  <1>3. ASSUME NEW i \in Images, NEW o \in Outcomes, JobFinish(i, o)
        PROVE  [Lock!Next]_holders
    <2>1. Active(i) /\ gw.replicas = 0 /\ \A j \in Images : Active(j) => i = j
      BY <1>3 DEF JobFinish, Active, LockInv, TakeTurns
    <2>2. gw' = gw /\ \A j \in Images : ~ Active(j)'
      BY <1>3, <2>1 DEF JobFinish, gateway, Active, Outcomes, Inv, TypeOK
    <2>3. holders = {"doctor"} /\ holders' = {}
      BY <2>1, <2>2 DEF holders, Users, Active
    <2> QED
      BY <2>3 DEF Lock!Next, Lock!Release, Users
  <1>4. ASSUME NEW i \in Images, DeleteJob(i) PROVE UNCHANGED holders
    <2>1. gw' = gw /\ \A j \in Images : Active(j)' <=> Active(j)
      BY <1>4 DEF DeleteJob, gateway, Active, None, Inv, TypeOK
    <2> QED
      BY <2>1, LockStutter
  <1>5. CASE GatewayStatus
    <2>1. gw'.replicas = gw.replicas /\ job' = job
      BY <1>5 DEF GatewayStatus, jobs, Inv, TypeOK, Gateways
    <2> QED
      BY <2>1, LockStutter DEF Active
  <1>6. CASE UNCHANGED <<gw, job>>
    BY <1>6, LockStutter DEF Active
  <1>7. CASE Dequeue \/ ApplyConfigMap \/ UpdateStatus \/ RecordMigrating \/ Wait
             \/ RecordPending \/ RecordSuccess \/ RecordFailure \/ Fail
             \/ ClawSync \/ GatewaySync \/ (\E i \in Images : JobSync(i))
             \/ PodStart \/ InitConfig \/ PodStop \/ PodGone \/ EditSpec
             \/ UNCHANGED vars
    BY <1>6, <1>7 DEF Dequeue, ApplyConfigMap, UpdateStatus, RecordMigrating, Wait,
       RecordPending, RecordSuccess, RecordFailure, Fail, ClawSync, GatewaySync,
       JobSync, PodStart, InitConfig, PodStop, PodGone, EditSpec, vars, gateway, jobs
  <1> QED
    BY <1>1, <1>2, <1>3, <1>4, <1>5, <1>7 DEF Next, Reconcile, Cluster

\* When a Reconcile sees what the previous one wrote, the controller
\* implements the lock: gateway and doctor Job take turns on the volume.
THEOREM ImplementsLock ==
  ASSUME OwnWritesLag = FALSE
  PROVE  Spec => LockSpec
  <1>1. Init => Lock!Init
    BY DEF Init, Lock!Init, holders, Absent, None
  <1>2. Inv /\ LockInv /\ [Next]_vars => LockInv'
    BY NextLock
  <1>3. Inv /\ LockInv /\ [Next]_vars => [Lock!Next]_holders
    BY LockStep
  <1> QED
    BY <1>1, <1>2, <1>3, InitLock, Invariance, PTL DEF Spec, LockSpec, Lock!Spec

\* ... and at most one doctor Job is active, also across image changes.
THEOREM SingleJob ==
  ASSUME OwnWritesLag = FALSE
  PROVE  Spec => []OneJob
  <1>1. Inv /\ LockInv /\ [Next]_vars => LockInv'
    BY NextLock
  <1>2. LockInv => OneJob
    BY DEF LockInv, TakeTurns, OneJob, Active
  <1> QED
    BY <1>1, <1>2, InitLock, Invariance, PTL DEF Spec

-----------------------------------------------------------------------------
(* The operator at rest *)

\* Another Reconcile will follow: the key is queued, or an event that enqueues
\* it is on its way.  Job events are not among them.
Pending == queued \/ ~ cacheFresh \/ ~ gwFresh

GatewayExact == gwFresh => gwCache = gw

\* A Reconcile that nothing will follow works on the current Claw.
InstCurrent == pc # "idle" => Pending \/ instFresh

\* What such a Reconcile has done when the worker is where it is.
RestTracked ==
    /\ ~ Pending /\ pc = "updateStatus" => gw.replicas = 1 /\ gw.image = inst.image
    /\ ~ Pending /\ pc \in {"migrating", "job", "pending"} => gw.replicas = 0
    /\ ~ Pending /\ pc = "idle" =>
         \/ gw.replicas = 1 /\ gw.image = claw.image /\ claw.ready = "Computed"
         \/ gw.replicas = 0 /\ claw.migCond = "Failed"

RestInv == GatewayExact /\ InstCurrent /\ RestTracked

\* Returning from Reconcile with the key queued.
LEMMA RequeueRest ==
  ASSUME RestInv, pc' = "idle", queued' = TRUE, UNCHANGED <<gw, gwCache, gwFresh>>
  PROVE  RestInv'
  BY DEF RestInv, GatewayExact, InstCurrent, RestTracked, Pending

\* An accepted status write is based on the current Claw, and the cache is
\* behind unless it changed nothing.
LEMMA StatusUpdatePending ==
  ASSUME Inv, NEW new, StatusUpdate(new), cache' = cache, UNCHANGED <<queued, gwFresh>>
  PROVE  claw' = new /\ inst = claw /\ instFresh /\ (~ Pending' => ~ Pending)
  <1>1. claw' = new /\ inst = claw /\ instFresh
    BY StatusUpdateFacts DEF StatusUpdate
  <1>2. cacheFresh' => cacheFresh
    BY DEF StatusUpdate
  <1> QED
    BY <1>1, <1>2 DEF Pending

\* Every step keeps track of what the next Reconcile has to do.
LEMMA NextRest == Inv /\ RestInv /\ [Next]_vars => RestInv'
  <1> SUFFICES ASSUME Inv, RestInv, [Next]_vars PROVE RestInv'
    OBVIOUS
  <1>a. TypeOK /\ inst \in Claws /\ gwCache \in Gateways
    BY DEF Inv, TypeOK
  <1> USE DEF RestInv, GatewayExact, InstCurrent, RestTracked
  <1>b. ASSUME UNCHANGED <<pc, claw, cacheFresh, inst, instFresh, queued, gw, gwCache, gwFresh>>
        PROVE  RestInv'
    BY <1>b DEF Pending
  <1>1. CASE Dequeue
    <2>1. /\ pc' = "configMap" /\ instFresh' = cacheFresh
          /\ UNCHANGED <<cacheFresh, gw, gwCache, gwFresh>>
      BY <1>1, Zenon DEF Dequeue, gateway
    <2> QED
      BY <2>1 DEF Pending
  <1>2. CASE ApplyConfigMap
    <2>1. pc = "configMap" /\ pc' = "gateway" /\ (queued => queued')
          /\ UNCHANGED <<cacheFresh, instFresh, gw, gwCache, gwFresh>>
      BY <1>2, Zenon DEF ApplyConfigMap, gateway
    <2> QED
      BY <2>1 DEF Pending
  <1>3. CASE ApplyGateway
    <2>1. /\ pc = "gateway" /\ pc' = IF pause THEN "migrating" ELSE "updateStatus"
          /\ UNCHANGED <<cacheFresh, inst, instFresh, queued, gwCache>>
      BY <1>3 DEF ApplyGateway
    <2>2. CASE gwCache = DesiredGateway /\ UNCHANGED <<gw, gwFresh>>
      <3>1. /\ gwCache.replicas = IF pause THEN 0 ELSE 1
            /\ gwCache.image = inst.image
        BY <1>a, <2>2 DEF DesiredGateway, Gateways
      <3> QED
        BY <2>1, <2>2, <3>1 DEF Pending
    <2>3. CASE gwFresh' = FALSE
      BY <2>1, <2>3 DEF Pending
    <2> QED
      BY <1>3, <2>2, <2>3 DEF ApplyGateway
  <1>4. CASE UpdateStatus
    <2> DEFINE new == [inst EXCEPT !.ready = "Computed"]
    <2>1. /\ pc = "updateStatus" /\ pc' = "idle" /\ StatusUpdate(new) /\ cache' = cache
          /\ UNCHANGED <<queued, gw, gwCache, gwFresh>>
      BY <1>4 DEF UpdateStatus, EndReconcile, gateway
    <2>2. new.image = inst.image /\ new.ready = "Computed"
      BY <1>a DEF Claws
    <2> HIDE DEF new
    <2>3. claw' = new /\ (~ Pending' => ~ Pending)
      BY <2>1, StatusUpdatePending
    <2> QED
      BY <2>1, <2>2, <2>3
  <1>5. CASE RecordMigrating
    <2> DEFINE new == [inst EXCEPT !.ready = "Migrating"]
    <2>1. /\ pc = "migrating" /\ pc' = "job" /\ StatusUpdate(new) /\ cache' = cache
          /\ UNCHANGED <<instFresh, queued, gw, gwCache, gwFresh>>
      BY <1>5 DEF RecordMigrating, gateway
    <2> HIDE DEF new
    <2>2. instFresh /\ (~ Pending' => ~ Pending)
      BY <2>1, StatusUpdatePending
    <2> QED
      BY <2>1, <2>2
  <1>6. CASE Wait \/ RecordPending \/ RecordSuccess \/ Fail
    BY <1>6, RequeueRest DEF Wait, RecordPending, RecordSuccess, Fail, EndReconcile, gateway
  <1>7. CASE CreateJob
    BY <1>7 DEF CreateJob, gateway, Pending
  <1>8. CASE RecordFailure
    <2> DEFINE new == [inst EXCEPT !.migCond = "Failed"]
    <2>1. /\ pc = "job" /\ pc' = "idle" /\ StatusUpdate(new) /\ cache' = cache
          /\ UNCHANGED <<queued, gw, gwCache, gwFresh>>
      BY <1>8 DEF RecordFailure, EndReconcile, gateway
    <2>2. new.migCond = "Failed"
      BY <1>a DEF Claws
    <2> HIDE DEF new
    <2>3. claw' = new /\ (~ Pending' => ~ Pending)
      BY <2>1, StatusUpdatePending
    <2> QED
      BY <2>1, <2>2, <2>3
  <1>9. CASE ClawSync \/ GatewaySync
    BY <1>9 DEF ClawSync, GatewaySync, gateway, Pending
  <1>10. CASE (\E i \in Images : JobSync(i) \/ DeleteJob(i)) \/ PodStart \/ InitConfig
              \/ PodStop \/ PodGone \/ (\E i \in Images, o \in Outcomes : JobFinish(i, o))
              \/ UNCHANGED vars
    BY <1>b, <1>10 DEF JobSync, DeleteJob, PodStart, InitConfig, PodStop, PodGone, JobFinish,
       vars, gateway
  <1>11. CASE GatewayStatus
    <2>1. gwFresh' = FALSE /\ UNCHANGED <<pc, gwCache, inst, instFresh, claw>>
      BY <1>11 DEF GatewayStatus
    <2> QED
      BY <2>1 DEF Pending
  <1>12. CASE EditSpec
    <2>1. cacheFresh' = FALSE /\ instFresh' = FALSE /\ UNCHANGED <<pc, inst, gw, gwCache, gwFresh>>
      BY <1>12 DEF EditSpec, gateway
    <2> QED
      BY <2>1 DEF Pending
  <1> QED
    BY <1>1, <1>2, <1>3, <1>4, <1>5, <1>6, <1>7, <1>8, <1>9, <1>10, <1>11, <1>12
    DEF Next, Reconcile, Cluster

\* At rest the gateway runs the image of the spec, or it is paused and the Claw
\* reports a failed migration, although the end of a Job enqueues nothing
\* (reconcileDoctorFix); whatever the caches do.
THEOREM ResumedWhenQuiet == Spec => []ResumedAtRest
  <1>1. Init => RestInv
    BY DEF Init, RestInv, GatewayExact, InstCurrent, RestTracked, Pending
  <1>2. RestInv => ResumedAtRest
    BY DEF RestInv, RestTracked, ResumedAtRest, Quiescent, Pending
  <1> QED
    BY <1>1, <1>2, NextRest, Invariance, PTL DEF Spec

-----------------------------------------------------------------------------
(* What separates the code from its documents *)

\* While a Reconcile runs, no Job event reaches the cache: what it found out about
\* active Jobs when it decided on the pause still holds when it comes to the Job.
JobsReadOnce == [][jobCache' # jobCache => pc = "idle"]_vars

\* An image that a copy of the Claw asks to migrate was requested by the user.
Asked(c) == c.fix => c.image \in approved

\* reconcileDoctorFix is only entered by a Reconcile that pauses the gateway, and
\* that one has a request in hand or sees an active Job.
ApprovalInv ==
    /\ Asked(claw) /\ Asked(cache) /\ Asked(inst)
    /\ pc \in {"migrating", "job"} => pause
    /\ pc # "idle" /\ pause => inst.fix \/ hasActiveDoctorFix
    /\ JobsApproved

\* A status write leaves the request as it was read.
LEMMA StatusKeepsRequest ==
  ASSUME Inv, Asked(inst), NEW new,
         \/ \E r \in {"Computed", "Migrating"} : new = [inst EXCEPT !.ready = r]
         \/ \E m \in {"Pending", "Failed"} : new = [inst EXCEPT !.migCond = m]
         \/ new = [inst EXCEPT !.mig = inst.image, !.migCond = "Complete"]
  PROVE  Asked(new) /\ new.fix = inst.fix /\ new.image = inst.image
  <1>1. inst \in Claws
    BY DEF Inv, TypeOK
  <1>2. new.fix = inst.fix /\ new.image = inst.image
    BY <1>1 DEF Claws
  <1> QED
    BY <1>2 DEF Asked

\* A Reconcile that ends keeps the approvals in order.
LEMMA EndApproval ==
  ASSUME ApprovalInv, EndReconcile, UNCHANGED <<job, approved>>, Asked(claw')
  PROVE  ApprovalInv'
  BY DEF ApprovalInv, EndReconcile, Asked, JobsApproved

LEMMA NextApproval ==
  ASSUME Inv, ApprovalInv, [Next]_vars, [jobCache' # jobCache => pc = "idle"]_vars
  PROVE  ApprovalInv'
  <1>1. CASE Dequeue
    BY <1>1 DEF Dequeue, ApprovalInv, Asked, JobsApproved, hasActiveDoctorFix, doctorFixPending,
                doctorFixRequested, gateway, jobs, user
  <1>2. CASE ApplyConfigMap \/ ApplyGateway
    BY <1>2 DEF ApplyConfigMap, ApplyGateway, ApprovalInv, Asked, JobsApproved, hasActiveDoctorFix,
                gateway, jobs, user
  <1>3. CASE RecordMigrating
    <2> DEFINE new == [inst EXCEPT !.ready = "Migrating"]
    <2>1. Asked(new) /\ new.fix = inst.fix /\ new.image = inst.image
      BY StatusKeepsRequest DEF ApprovalInv
    <2>2. claw' = new /\ inst' = new /\ pc = "migrating" /\ pc' = "job"
          /\ UNCHANGED <<cache, pause, job, jobCache, approved>>
      BY <1>3 DEF RecordMigrating, StatusUpdate, jobs, user
    <2> HIDE DEF new
    <2> QED
      BY <2>1, <2>2 DEF ApprovalInv, Asked, JobsApproved, hasActiveDoctorFix
  <1>4. CASE CreateJob
    <2>1. /\ pc = "job" /\ ~ hasActiveDoctorFix /\ pc' = "pending"
          /\ job' = [job EXCEPT ![inst.image] = "active"]
          /\ UNCHANGED <<claw, cache, inst, pause, jobCache, approved>>
      BY <1>4 DEF CreateJob, user
    <2>2. inst.fix /\ inst.image \in approved
      BY <2>1 DEF ApprovalInv, Asked
    <2>3. JobsApproved'
      BY <2>1, <2>2 DEF ApprovalInv, JobsApproved, Inv, TypeOK
    <2> QED
      BY <2>1, <2>2, <2>3 DEF ApprovalInv, Asked, hasActiveDoctorFix
  <1>5. CASE Wait \/ Fail
    BY <1>5, EndApproval DEF Wait, Fail, jobs, user, ApprovalInv, Asked
  <1>6. CASE UpdateStatus \/ RecordPending \/ RecordSuccess \/ RecordFailure
    <2>1. PICK new : /\ claw' = new
                     /\ \/ \E r \in {"Computed", "Migrating"} : new = [inst EXCEPT !.ready = r]
                        \/ \E m \in {"Pending", "Failed"} : new = [inst EXCEPT !.migCond = m]
                        \/ new = [inst EXCEPT !.mig = inst.image, !.migCond = "Complete"]
      BY <1>6 DEF UpdateStatus, RecordPending, RecordSuccess, RecordFailure, StatusUpdate
    <2>2. Asked(new)
      BY <2>1, StatusKeepsRequest DEF ApprovalInv
    <2>3. EndReconcile /\ UNCHANGED <<job, approved>>
      BY <1>6 DEF UpdateStatus, RecordPending, RecordSuccess, RecordFailure, jobs, user
    <2>4. Asked(claw')
      BY <2>1, <2>2
    <2> QED
      BY <2>3, <2>4, EndApproval
  <1>7. CASE ClawSync
    BY <1>7 DEF ClawSync, ApprovalInv, Asked, JobsApproved, hasActiveDoctorFix, jobs, user
  <1>8. ASSUME NEW i \in Images, JobSync(i) PROVE ApprovalInv'
    <2>1. jobCache' # jobCache
      BY <1>8 DEF JobSync, Inv, TypeOK
    <2>2. pc = "idle"
      BY <2>1 DEF vars
    <2> QED
      BY <1>8, <2>2 DEF JobSync, ApprovalInv, Asked, JobsApproved, user
  <1>9. ASSUME NEW i \in Images, NEW o \in Outcomes, JobFinish(i, o) PROVE ApprovalInv'
    BY <1>9 DEF JobFinish, ApprovalInv, Asked, JobsApproved, hasActiveDoctorFix, user, Inv, TypeOK, None
  <1>10. ASSUME NEW i \in Images, DeleteJob(i) PROVE ApprovalInv'
    BY <1>10 DEF DeleteJob, ApprovalInv, Asked, JobsApproved, hasActiveDoctorFix, Inv, TypeOK
  <1>11. CASE EditSpec
    <2>1. PICK f \in BOOLEAN, i \in Images :
             /\ claw' = [claw EXCEPT !.fix = f, !.image = i]
             /\ approved' = IF f THEN approved \cup {i} ELSE approved
      BY <1>11 DEF EditSpec
    <2>2. claw'.fix = f /\ claw'.image = i
      BY <2>1 DEF Inv, TypeOK, Claws
    <2>3. approved \subseteq approved' /\ (f => i \in approved')
      BY <2>1
    <2> QED
      BY <1>11, <2>2, <2>3 DEF EditSpec, ApprovalInv, Asked, JobsApproved, hasActiveDoctorFix, jobs
  <1>12. CASE GatewaySync \/ PodStart \/ InitConfig \/ PodStop \/ PodGone \/ GatewayStatus \/ UNCHANGED vars
    <2>1. UNCHANGED <<claw, cache, inst, pc, pause, job, jobCache, approved>>
      BY <1>12 DEF GatewaySync, PodStart, InitConfig, PodStop, PodGone, GatewayStatus, vars, jobs, user
    <2> QED
      BY <2>1 DEF ApprovalInv, Asked, JobsApproved, hasActiveDoctorFix
  <1> QED
    BY <1>1, <1>2, <1>3, <1>4, <1>5, <1>6, <1>7, <1>8, <1>9, <1>10, <1>11, <1>12
    DEF Next, Reconcile, Cluster

\* A Job is created only for an image the user asked to migrate, whatever is edited and
\* however stale the copies, as long as no Job event reaches the cache within a
\* Reconcile: the two reads of the Jobs (hasActiveDoctorFix before the pause and again
\* in reconcileDoctorFix) are all that stands between the code and its document.
THEOREM ApprovedIfJobsReadOnce ==
  Spec /\ JobsReadOnce => []JobsApproved
  <1>1. Init => ApprovalInv
    BY DEF Init, ApprovalInv, Asked, JobsApproved
  <1>2. Inv /\ ApprovalInv /\ [Next]_vars /\ [jobCache' # jobCache => pc = "idle"]_vars => ApprovalInv'
    BY NextApproval
  <1>3. ApprovalInv => JobsApproved
    BY DEF ApprovalInv
  <1> QED
    BY <1>1, <1>2, <1>3, Invariance, PTL DEF Spec, JobsReadOnce

\* status.replicas of the Deployment counts every pod there is, those that terminate
\* too, and is current when Reconcile looks at it.
StatusCountsPods == [](pc = "job" /\ GatewayStopped => pod = NoPod /\ ~ dying)

\* No gateway pod exists while a Job is active.
NoPodDuringJob == (\E i \in Images : Active(i)) => pod = NoPod /\ ~ dying

LEMMA NextNoPod ==
  ASSUME Inv, LockInv, NoPodDuringJob, [Next]_vars,
         pc = "job" /\ GatewayStopped => pod = NoPod /\ ~ dying
  PROVE  NoPodDuringJob'
  <1>1. CASE CreateJob
    BY <1>1 DEF CreateJob, NoPodDuringJob, gateway
  <1>2. CASE PodStart
    <2>1. \A i \in Images : ~ Active(i)
      BY <1>2 DEF PodStart, LockInv, TakeTurns
    <2> QED
      BY <1>2, <2>1 DEF PodStart, NoPodDuringJob, Active, jobs
  <1>3. CASE InitConfig \/ PodStop \/ PodGone
    BY <1>3 DEF InitConfig, PodStop, PodGone, NoPodDuringJob, Active, jobs
  <1>4. ASSUME NEW i \in Images, NEW o \in Outcomes \cup {None},
               job' = [job EXCEPT ![i] = o], UNCHANGED <<pod, dying>>
        PROVE  NoPodDuringJob'
    <2>1. \A j \in Images : Active(j)' => Active(j)
      BY <1>4 DEF Active, Outcomes, None, Inv, TypeOK
    <2> QED
      BY <1>4, <2>1 DEF NoPodDuringJob
  <1>5. ASSUME NEW i \in Images, NEW o \in Outcomes, JobFinish(i, o) PROVE NoPodDuringJob'
    BY <1>4, <1>5 DEF JobFinish, gateway
  <1>6. ASSUME NEW i \in Images, DeleteJob(i) PROVE NoPodDuringJob'
    BY <1>4, <1>6 DEF DeleteJob, gateway
  <1>7. CASE UNCHANGED <<job, pod, dying>>
    BY <1>7 DEF NoPodDuringJob, Active
  <1>8. CASE \/ Dequeue \/ ApplyConfigMap \/ ApplyGateway \/ UpdateStatus
             \/ RecordMigrating \/ Wait \/ RecordPending
             \/ RecordSuccess \/ RecordFailure \/ Fail
    BY <1>7, <1>8 DEF Dequeue, ApplyConfigMap, ApplyGateway, UpdateStatus, RecordMigrating, Wait,
       RecordPending, RecordSuccess, RecordFailure, Fail, gateway, jobs
  <1>9. CASE ClawSync \/ GatewaySync \/ (\E i \in Images : JobSync(i)) \/ GatewayStatus
             \/ EditSpec \/ UNCHANGED vars
    BY <1>7, <1>9 DEF ClawSync, GatewaySync, JobSync, GatewayStatus, EditSpec, vars, gateway, jobs
  <1> QED
    BY <1>1, <1>2, <1>3, <1>5, <1>6, <1>8, <1>9 DEF Next, Reconcile, Cluster

\* If status.replicas counted every pod, the check in front of the Job would be enough:
\* the gateway would stay stopped for as long as the Job is active, through any edits,
\* because the lock keeps the Deployment at zero (reconcileDoctorFix).
THEOREM StoppedIfStatusCountsPods ==
  ASSUME OwnWritesLag = FALSE
  PROVE  Spec /\ StatusCountsPods => []StoppedDuringJob
  <1>1. Init => NoPodDuringJob
    BY DEF Init, NoPodDuringJob, Active, None
  <1>2. Inv /\ LockInv /\ [Next]_vars => LockInv'
    BY NextLock
  <1>3. /\ Inv /\ LockInv /\ NoPodDuringJob /\ [Next]_vars
        /\ pc = "job" /\ GatewayStopped => pod = NoPod /\ ~ dying
        => NoPodDuringJob'
    BY NextNoPod
  <1>4. NoPodDuringJob => StoppedDuringJob
    BY DEF NoPodDuringJob, StoppedDuringJob, Active, NoPod
  <1> QED
    BY <1>1, <1>2, <1>3, <1>4, InitLock, Invariance, PTL DEF Spec, StatusCountsPods
=============================================================================
