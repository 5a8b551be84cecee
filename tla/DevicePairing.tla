----------------------------- MODULE DevicePairing -----------------------------
(***************************************************************************)
(* The ClawDevicePairingRequest controller: one custom resource, the       *)
(* informer cache the controller reads it through, the work queue, the     *)
(* worker running Reconcile, the pods the selector matches and the gateway *)
(* in which `openclaw devices approve <requestID>` is executed.            *)
(*                                                                         *)
(* Reconcile reads the cache and then makes one API write.  An API write   *)
(* carries the resourceVersion that was read, so it is refused when the    *)
(* object changed since; instead of version numbers the model keeps        *)
(* cacheFresh, "the cached resourceVersion is the server's".  A read of    *)
(* the cache and the write based on it form one action: whatever happens   *)
(* in between either changes the object, which is the stale case, or       *)
(* commutes.  The exec (up to 30 s) is its own period, pc = "exec".        *)
(***************************************************************************)
EXTENDS Integers

CONSTANTS
    RequestIDs,   \* the values spec.requestID may take
    MaxGen,       \* bound: generations the user's edits may produce
    MaxPods,      \* bound: pods the selector may match
    MaxRestarts   \* bound: restarts of the operator process

ASSUME ConstantsAssumption ==
    /\ RequestIDs # {}
    /\ MaxGen \in Nat \ {0}
    /\ MaxPods \in Nat \ {0}
    /\ MaxRestarts \in Nat

VARIABLES
    req,         \* the resource in the API server
    idAt,        \* idAt[g]: spec.requestID of generation g (history)
    cache,       \* the informer's copy of req
    cacheFresh,  \* cache has the server's resourceVersion
    queued,      \* the key is in the work queue
    pc,          \* where the worker is in Reconcile
    execID,      \* the requestID passed to execFn
    pods,        \* how many pods match the selector
    podCache,    \* how many of them the pod informer shows
    approved,    \* request IDs the gateway has approved
    restarts     \* restarts so far

vars == <<req, idAt, cache, cacheFresh, queued, pc, execID, pods, podCache,
          approved, restarts>>

\* Reasons of the Ready condition; "None" is the condition before the first write.
Reasons == {"None", "InvalidSelector", "NoMatchingPod", "MultipleMatchingPods",
            "Processing", "PairingFailed", "DevicePaired"}

\* Only DevicePaired is written with status True, so the reason stands for both.
\* obs is the condition's observedGeneration.
Requests == [alive: BOOLEAN, gen: 1..MaxGen, selectorOK: BOOLEAN,
             reason: Reasons, obs: 0..MaxGen]

TypeOK ==
    /\ req \in Requests
    /\ idAt \in [1..MaxGen -> RequestIDs]
    /\ cache \in Requests
    /\ cacheFresh \in BOOLEAN
    /\ queued \in BOOLEAN
    /\ pc \in {"idle", "exec", "succeeded", "failed"}
    /\ execID \in RequestIDs
    /\ pods \in 0..MaxPods
    /\ podCache \in 0..MaxPods
    /\ approved \subseteq RequestIDs
    /\ restarts \in 0..MaxRestarts

\* A user has just created the resource; the informer delivers it to the queue.
Init ==
    /\ \E s \in BOOLEAN :
         req = [alive |-> TRUE, gen |-> 1, selectorOK |-> s,
                reason |-> "None", obs |-> 0]
    /\ idAt \in [1..MaxGen -> RequestIDs]
    /\ cache = req
    /\ cacheFresh = TRUE
    /\ queued = TRUE
    /\ pc = "idle"
    /\ execID = idAt[1]
    /\ pods \in 0..MaxPods
    /\ podCache = pods
    /\ approved = {}
    /\ restarts = 0

-----------------------------------------------------------------------------
(* Reconcile *)

\* Guard: already paired for the current spec generation.
Paired(r) == r.reason = "DevicePaired" /\ r.obs = r.gen

\* (Mutant) observedGeneration of the next spec edit.
setConditionNextGeneration(r, reason) ==
    [r EXCEPT !.reason = reason, !.obs = r.gen + 1]

\* The one condition, stamped with the generation of the object in hand.
setDevicePairingCondition(r, reason) ==
    [r EXCEPT !.reason = reason, !.obs = r.gen]

\* (Mutant) The error is logged and nil is returned.
ReturnNil ==
    /\ queued' = FALSE
    /\ pc' = "idle"
    /\ UNCHANGED <<req, idAt, cache, cacheFresh, execID, pods, podCache,
                   approved, restarts>>

\* Return an error: the controller requeues the key.
ReturnError ==
    /\ queued' = TRUE
    /\ pc' = "idle"
    /\ UNCHANGED <<req, idAt, cache, cacheFresh, execID, pods, podCache,
                   approved, restarts>>

\* (Mutant) A patch that carries no resourceVersion.
StatusPatch(reason) ==
    /\ req' = setDevicePairingCondition(req, reason)
    /\ cacheFresh' = (req' = cache)
    /\ UNCHANGED cache

\* Status().Update of the cached object: refused unless the cached
\* resourceVersion is current; an update that changes nothing is not an event.
StatusUpdate(reason) ==
    LET new == setDevicePairingCondition(cache, reason)
    IN  /\ cacheFresh
        /\ req' = new
        /\ cacheFresh' = (new = cache)
        /\ UNCHANGED cache

\* The worker takes the key and has a live, unpaired request in hand.
Dequeue ==
    /\ pc = "idle"
    /\ queued

Pending ==
    /\ Dequeue
    /\ cache.alive
    /\ ~ Paired(cache)

\* Not found, or already paired for this generation: nothing to do.
Skip ==
    /\ Dequeue
    /\ ~ cache.alive \/ Paired(cache)
    /\ queued' = FALSE
    /\ UNCHANGED <<req, idAt, cache, cacheFresh, pc, execID, pods, podCache,
                   approved, restarts>>

\* The reason of a request that cannot be run on the pods the cache shows.
Refusal ==
    IF ~ cache.selectorOK THEN "InvalidSelector"
    ELSE IF podCache = 0 THEN "NoMatchingPod" ELSE "MultipleMatchingPods"

Refuse ==
    /\ Pending
    /\ ~ cache.selectorOK \/ podCache # 1
    /\ StatusUpdate(Refusal)
    /\ queued' = FALSE
    /\ UNCHANGED <<idAt, pc, execID, pods, podCache, approved, restarts>>

\* Persist Processing, then start the exec with the request ID that was read.
BeginExec ==
    /\ Pending
    /\ cache.selectorOK
    /\ podCache = 1
    /\ StatusUpdate("Processing")
    /\ queued' = FALSE
    /\ pc' = "exec"
    /\ execID' = idAt[cache.gen]
    /\ UNCHANGED <<idAt, pods, podCache, approved, restarts>>

\* The status write is refused (stale read) or fails, or listing pods fails.
FailBeforeExec ==
    /\ Pending
    /\ ReturnError

\* execInPod returns without error: the command ran and exited 0.
ExecSucceeds ==
    /\ pc = "exec"
    /\ pods > 0
    /\ pc' = "succeeded"
    /\ approved' = approved \cup {execID}
    /\ UNCHANGED <<req, idAt, cache, cacheFresh, queued, execID, pods,
                   podCache, restarts>>

\* ExecCommandError: non-zero exit, or the stream broke before or after the
\* command took effect.
ExecCommandError ==
    /\ pc = "exec"
    /\ pc' = "failed"
    /\ \/ UNCHANGED approved
       \/ pods > 0 /\ approved' = approved \cup {execID}
    /\ UNCHANGED <<req, idAt, cache, cacheFresh, queued, execID, pods,
                   podCache, restarts>>

\* (Mutant) A timeout ends the attempt and nothing schedules another.
ExecTimeoutDropped ==
    /\ pc = "exec"
    /\ pc' = "idle"
    /\ UNCHANGED <<req, idAt, cache, cacheFresh, queued, execID, pods, podCache,
                   approved, restarts>>

\* Any other error (30 s timeout, no executor): returned as is, so requeued;
\* the status stays Processing.  The command may have taken effect.
ExecTimeout ==
    /\ pc = "exec"
    /\ queued' = TRUE
    /\ pc' = "idle"
    /\ \/ UNCHANGED approved
       \/ pods > 0 /\ approved' = approved \cup {execID}
    /\ UNCHANGED <<req, idAt, cache, cacheFresh, execID, pods, podCache,
                   restarts>>

\* Re-fetch through the cache, then record the outcome with whatever
\* generation the re-fetched object has.
Record(at, reason) ==
    /\ pc = at
    /\ cache.alive
    /\ StatusUpdate(reason)
    /\ pc' = "idle"
    /\ UNCHANGED <<idAt, queued, execID, pods, podCache, approved, restarts>>

RecordPaired == Record("succeeded", "DevicePaired")

\* (Mutant) The exec error is dropped.
RecordFailedAsPaired == Record("failed", "DevicePaired")

RecordFailed == Record("failed", "PairingFailed")

\* The re-fetch fails (the resource is gone) or the status write is refused.
FailRecord ==
    /\ pc \in {"succeeded", "failed"}
    /\ ReturnError

-----------------------------------------------------------------------------
(* The informers, the operator process, the user and the cluster *)

\* The watch delivers the object's latest state and enqueues the key: For()
\* has no predicate, so the controller's own status writes come back too.
CacheSync ==
    /\ ~ cacheFresh
    /\ cache' = req
    /\ cacheFresh' = TRUE
    /\ queued' = TRUE
    /\ UNCHANGED <<req, idAt, pc, execID, pods, podCache, approved, restarts>>

\* Pods are listed through a cache but not watched by the controller.
PodSync ==
    /\ podCache # pods
    /\ podCache' = pods
    /\ UNCHANGED <<req, idAt, cache, cacheFresh, queued, pc, execID, pods,
                   approved, restarts>>

\* The process dies and starts again: the caches are listed afresh and every
\* object is enqueued.  An exec in flight may still have taken effect.
Restart ==
    /\ restarts < MaxRestarts
    /\ restarts' = restarts + 1
    /\ pc' = "idle"
    /\ queued' = TRUE
    /\ cache' = req
    /\ cacheFresh' = TRUE
    /\ podCache' = pods
    /\ \/ UNCHANGED approved
       \/ pc = "exec" /\ pods > 0 /\ approved' = approved \cup {execID}
    /\ UNCHANGED <<req, idAt, execID, pods>>

\* The user edits the spec: the next generation, with its request ID.
EditSpec ==
    /\ req.alive
    /\ req.gen < MaxGen
    /\ \E s \in BOOLEAN :
         req' = [req EXCEPT !.gen = @ + 1, !.selectorOK = s]
    /\ cacheFresh' = FALSE
    /\ UNCHANGED <<idAt, cache, queued, pc, execID, pods, podCache, approved,
                   restarts>>

Delete ==
    /\ req.alive
    /\ req' = [req EXCEPT !.alive = FALSE]
    /\ cacheFresh' = FALSE
    /\ UNCHANGED <<idAt, cache, queued, pc, execID, pods, podCache, approved,
                   restarts>>

PodsChange ==
    /\ \E n \in 0..MaxPods : n # pods /\ pods' = n
    /\ UNCHANGED <<req, idAt, cache, cacheFresh, queued, pc, execID, podCache,
                   approved, restarts>>

-----------------------------------------------------------------------------
Reconcile ==
    \/ Skip \/ Refuse \/ BeginExec \/ FailBeforeExec
    \/ ExecSucceeds \/ ExecCommandError \/ ExecTimeout
    \/ RecordPaired \/ RecordFailed \/ FailRecord

Next ==
    \/ Reconcile
    \/ CacheSync \/ PodSync \/ Restart
    \/ EditSpec \/ Delete \/ PodsChange

\* The queue is served, watches deliver, an exec ends (30 s timeout), and a
\* call that can succeed is not refused for ever by the network.
Fairness ==
    /\ WF_vars(Reconcile)
    /\ WF_vars(CacheSync)
    /\ WF_vars(PodSync)
    /\ SF_vars(Refuse)
    /\ SF_vars(BeginExec)
    /\ SF_vars(ExecSucceeds \/ ExecCommandError)
    /\ SF_vars(RecordPaired \/ RecordFailed)

Spec == Init /\ [][Next]_vars /\ Fairness

-----------------------------------------------------------------------------
(* Properties *)

\* The approval command is never started for a generation that the API server
\* already records as DevicePaired, however old the cached copy is that
\* Reconcile decided on: the write of Processing that precedes the exec is
\* refused on a stale read (Reconcile, "skip if already paired").
NoExecOnceRecorded ==
    [][pc # "exec" /\ pc' = "exec" => ~ (req.alive /\ Paired(req))]_vars

\* DevicePaired is only ever recorded after the gateway approved a request ID
\* of this resource, of the recorded generation or an earlier one, through
\* any series of timeouts, retries, restarts and failed writes.
PairedHasApproval ==
    req.reason = "DevicePaired" => \E g \in 1..req.obs : idAt[g] \in approved

\* A request is not left in Processing for ever: every timeout, refused write
\* or restart leads to another attempt or to a verdict.
ProcessingResolves ==
    (req.alive /\ req.reason = "Processing")
        ~> ~ (req.alive /\ req.reason = "Processing")

\* Once edits stop, the condition's observedGeneration catches up with the
\* spec for good: no update is lost between the watch, the queue and the
\* writes that are refused.
StatusCatchesUp == <>[](req.alive => req.obs = req.gen)

\* What the guard of Reconcile takes DevicePaired to mean: the request ID of
\* the generation it is recorded for was approved.
PairedMeansApproved ==
    req.alive /\ Paired(req) => idAt[req.gen] \in approved
=============================================================================
