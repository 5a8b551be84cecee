------------------------- MODULE DevicePairing_proofs --------------------------
(***************************************************************************)
(* Proofs about DevicePairing for any set of request IDs and any bounds.   *)
(*                                                                         *)
(* The argument rests on what an informer guarantees: a copy whose         *)
(* resourceVersion is the server's is equal to the server's object, and an *)
(* older copy has an older generation (CacheExact, CacheBehind).  A write  *)
(* is accepted only with a current copy, so what was read about the object *)
(* still holds when the write happens.                                     *)
(***************************************************************************)
EXTENDS DevicePairing, TLAPS

CacheExact  == cacheFresh => cache = req
CacheBehind == cache.gen <= req.gen

\* A recorded pairing is backed by an approval for some generation up to the
\* recorded one.
Backed(r) ==
    r.reason = "DevicePaired" => \E g \in 1..r.obs : idAt[g] \in approved

\* While the outcome of an exec is pending, its request ID is that of a
\* generation the cache has seen; after a success it is approved.
ExecKnown ==
    pc # "idle" => \E g \in 1..cache.gen : idAt[g] = execID
ExecApproved == pc = "succeeded" => execID \in approved

Inv ==
    /\ TypeOK
    /\ CacheExact
    /\ CacheBehind
    /\ Backed(req)
    /\ Backed(cache)
    /\ ExecKnown
    /\ ExecApproved

\* The initial states satisfy the invariant.
LEMMA InitInv == Init => Inv
  <1> SUFFICES ASSUME Init PROVE Inv
    OBVIOUS
  <1>1. TypeOK
    BY ConstantsAssumption DEF Init, TypeOK, Requests, Reasons
  <1> QED
    BY <1>1 DEF Init, Inv, CacheExact, CacheBehind, Backed, ExecKnown, ExecApproved

\* A status write keeps the object's type and identity, and stamps the
\* generation of the copy that was read.
LEMMA StatusUpdateFacts ==
  ASSUME NEW reason \in Reasons, Inv, StatusUpdate(reason)
  PROVE  /\ cacheFresh /\ cache = req
         /\ req' \in Requests /\ cache' = cache /\ cacheFresh' \in BOOLEAN
         /\ cacheFresh' => cache' = req'
         /\ req'.gen = cache.gen /\ req'.reason = reason /\ req'.obs = cache.gen
         /\ req'.alive = cache.alive
  <1> DEFINE new == setDevicePairingCondition(cache, reason)
  <1>1. cacheFresh /\ cache = req /\ req' = new /\ cache' = cache
    BY DEF StatusUpdate, Inv, CacheExact
  <1>2. cache \in Requests /\ cache.gen \in 0..MaxGen
    BY ConstantsAssumption DEF Inv, TypeOK, Requests
  <1>3. new \in Requests /\ new.gen = cache.gen /\ new.reason = reason
        /\ new.obs = cache.gen /\ new.alive = cache.alive
    BY <1>2 DEF setDevicePairingCondition, Requests
  <1>4. cacheFresh' = (new = cache)
    BY DEF StatusUpdate
  <1> HIDE DEF new
  <1>5. cacheFresh' \in BOOLEAN /\ (cacheFresh' => cache' = req')
    BY <1>1, <1>4
  <1> QED
    BY <1>1, <1>3, <1>5

\* Every step preserves the invariant.
LEMMA NextInv == Inv /\ [Next]_vars => Inv'
  <1> SUFFICES ASSUME Inv, [Next]_vars PROVE Inv'
    OBVIOUS
  <1> USE DEF Inv, TypeOK, CacheExact, CacheBehind, Backed, ExecKnown, ExecApproved
  <1>1. CASE Skip
    BY <1>1 DEF Skip, Dequeue
  <1>2. CASE Refuse
    <2>1. Refusal \in Reasons /\ Refusal # "DevicePaired"
      BY DEF Refusal, Reasons
    <2>2. StatusUpdate(Refusal)
      BY <1>2 DEF Refuse
    <2> QED
      BY <1>2, <2>1, <2>2, StatusUpdateFacts DEF Refuse, Requests
  <1>3. CASE BeginExec
    <2>1. StatusUpdate("Processing") /\ cache.gen \in 1..MaxGen
      BY <1>3 DEF BeginExec, Requests
    <2>2. execID' = idAt[cache.gen] /\ idAt' = idAt /\ pc' = "exec"
          /\ cache' = cache /\ approved' = approved
      BY <1>3, <2>1 DEF BeginExec, StatusUpdate
    <2>3. \E g \in 1..cache'.gen : idAt'[g] = execID'
      BY <2>1, <2>2, ConstantsAssumption
    <2> QED
      BY <1>3, <2>1, <2>2, <2>3, StatusUpdateFacts DEF BeginExec, Requests, Reasons
  <1>4. CASE FailBeforeExec
    BY <1>4 DEF FailBeforeExec, ReturnError
  <1>5. CASE ExecSucceeds
    BY <1>5 DEF ExecSucceeds
  <1>6. CASE ExecCommandError
    BY <1>6 DEF ExecCommandError
  <1>7. CASE ExecTimeout
    BY <1>7 DEF ExecTimeout
  <1>8. CASE RecordPaired
    <2>1. StatusUpdate("DevicePaired") /\ pc = "succeeded"
      BY <1>8 DEF RecordPaired, Record
    <2>2. \E g \in 1..cache.gen : idAt[g] \in approved
      BY <2>1
    <2> QED
      BY <1>8, <2>1, <2>2, StatusUpdateFacts DEF RecordPaired, Record, Requests, Reasons
  <1>9. CASE RecordFailed
    <2>1. StatusUpdate("PairingFailed")
      BY <1>9 DEF RecordFailed, Record
    <2> QED
      BY <1>9, <2>1, StatusUpdateFacts DEF RecordFailed, Record, Requests, Reasons
  <1>10. CASE FailRecord
    BY <1>10 DEF FailRecord, ReturnError
  <1>11. CASE CacheSync
    <2>1. cache.gen \in 1..MaxGen /\ req.gen \in 1..MaxGen
      BY DEF Requests
    <2>2. 1..cache.gen \subseteq 1..req.gen
      BY <2>1, ConstantsAssumption
    <2> QED
      BY <1>11, <2>1, <2>2 DEF CacheSync
  <1>12. CASE PodSync
    BY <1>12 DEF PodSync
  <1>13. CASE Restart
    BY <1>13, ConstantsAssumption DEF Restart, Requests
  <1>14. CASE EditSpec
    <2>1. PICK s \in BOOLEAN : req' = [req EXCEPT !.gen = @ + 1, !.selectorOK = s]
      BY <1>14 DEF EditSpec
    <2>2. req.gen + 1 \in 1..MaxGen /\ cache.gen \in 1..MaxGen
      BY <1>14, ConstantsAssumption DEF EditSpec, Requests
    <2>3. req' \in Requests /\ req'.gen = req.gen + 1
          /\ req'.reason = req.reason /\ req'.obs = req.obs
      BY <2>1, <2>2 DEF Requests
    <2>4. cache.gen <= req'.gen
      BY <2>2, <2>3, ConstantsAssumption DEF Requests
    <2> QED
      BY <1>14, <2>3, <2>4 DEF EditSpec
  <1>15. CASE Delete
    BY <1>15 DEF Delete, Requests
  <1>16. CASE PodsChange
    BY <1>16 DEF PodsChange
  <1>17. CASE UNCHANGED vars
    BY <1>17 DEF vars
  <1> QED
    BY <1>1, <1>2, <1>3, <1>4, <1>5, <1>6, <1>7, <1>8, <1>9, <1>10, <1>11,
       <1>12, <1>13, <1>14, <1>15, <1>16, <1>17 DEF Next, Reconcile

\* The inductive invariant holds in every reachable state.
THEOREM Invariance == Spec => []Inv
  BY InitInv, NextInv, PTL DEF Spec

\* The state of the pairing controller stays well typed.
THEOREM TypeCorrect == Spec => []TypeOK
  <1>1. Inv => TypeOK
    BY DEF Inv
  <1> QED
    BY <1>1, Invariance, PTL

\* A resource is recorded as paired only after the gateway approved one of
\* its request IDs, through any timeouts, retries, edits and restarts.
THEOREM PairedIsBacked == Spec => []PairedHasApproval
  <1>1. Inv => PairedHasApproval
    BY DEF Inv, Backed, PairedHasApproval
  <1> QED
    BY <1>1, Invariance, PTL

\* No exec is started for a generation the server records as paired: the
\* Processing write in front of the exec is refused on a stale read.
THEOREM NoRepeatedExec == Spec => NoExecOnceRecorded
  <1>1. Inv /\ [Next]_vars =>
          [pc # "exec" /\ pc' = "exec" => ~ (req.alive /\ Paired(req))]_vars
    <2> SUFFICES ASSUME Inv, Next, pc # "exec", pc' = "exec"
                 PROVE  ~ (req.alive /\ Paired(req))
      BY DEF vars
    <2>1. BeginExec
      BY DEF Next, Reconcile, Skip, Dequeue, Refuse, FailBeforeExec, ReturnError,
             ExecSucceeds, ExecCommandError, ExecTimeout, RecordPaired,
             RecordFailed, Record, FailRecord, CacheSync, PodSync, Restart,
             EditSpec, Delete, PodsChange
    <2>2. cache = req
      BY <2>1 DEF BeginExec, StatusUpdate, Inv, CacheExact
    <2> QED
      BY <2>1, <2>2 DEF BeginExec, Pending
  <1> QED
    BY <1>1, Invariance, PTL DEF Spec, NoExecOnceRecorded

-----------------------------------------------------------------------------
(* The edit during the exec *)

\* The user does not edit the resource while a Reconcile runs the command or has its
\* outcome in hand.
NoEditDuringExec == [][req'.gen # req.gen => pc = "idle"]_vars

\* What then holds of generations: the exec is for the present one, and a recorded
\* pairing is that of the recorded one.
Attributed ==
    /\ pc # "idle" => execID = idAt[req.gen]
    /\ req.reason = "DevicePaired" => req.obs > 0 /\ idAt[req.obs] \in approved

\* A step that does not edit preserves it, and so does an edit while idle.
LEMMA NextAttributed ==
  ASSUME Inv, Attributed, [Next]_vars, [req'.gen # req.gen => pc = "idle"]_vars
  PROVE  Attributed'
  <1> USE DEF Attributed
  <1>1. CASE Refuse
    <2>1. Refusal \in Reasons /\ Refusal # "DevicePaired"
      BY DEF Refusal, Reasons
    <2>2. StatusUpdate(Refusal)
      BY <1>1 DEF Refuse
    <2> QED
      BY <1>1, <2>1, <2>2, StatusUpdateFacts DEF Refuse, Pending, Dequeue
  <1>2. CASE BeginExec
    <2>1. StatusUpdate("Processing")
      BY <1>2 DEF BeginExec
    <2>2. req'.gen = cache.gen /\ req'.reason = "Processing"
      BY <2>1, StatusUpdateFacts DEF Reasons
    <2> QED
      BY <1>2, <2>2 DEF BeginExec
  <1>3. CASE RecordPaired
    <2>1. StatusUpdate("DevicePaired") /\ pc = "succeeded" /\ pc' = "idle" /\ UNCHANGED <<idAt, approved>>
      BY <1>3 DEF RecordPaired, Record
    <2>2. cache = req /\ req'.obs = req.gen
      BY <2>1, StatusUpdateFacts DEF Reasons
    <2>3. execID = idAt[req.gen] /\ execID \in approved
      BY <2>1 DEF Inv, ExecApproved
    <2>4. req.gen > 0
      BY ConstantsAssumption DEF Inv, TypeOK, Requests
    <2> QED
      BY <2>1, <2>2, <2>3, <2>4
  <1>4. CASE RecordFailed
    <2>1. StatusUpdate("PairingFailed")
      BY <1>4 DEF RecordFailed, Record
    <2>2. req'.reason = "PairingFailed"
      BY <2>1, StatusUpdateFacts DEF Reasons
    <2> QED
      BY <1>4, <2>2 DEF RecordFailed, Record
  <1>5. CASE EditSpec
    <2>1. PICK s \in BOOLEAN : req' = [req EXCEPT !.gen = @ + 1, !.selectorOK = s]
      BY <1>5 DEF EditSpec
    <2>2. req \in Requests /\ req.gen \in Int
      BY ConstantsAssumption DEF Inv, TypeOK, Requests
    <2>3. req'.gen # req.gen /\ req'.reason = req.reason /\ req'.obs = req.obs
      BY <2>1, <2>2 DEF Requests
    <2>4. pc = "idle"
      BY <2>3 DEF vars
    <2> QED
      BY <1>5, <2>3, <2>4 DEF EditSpec
  <1>6. CASE Delete
    <2>1. req'.gen = req.gen /\ req'.reason = req.reason /\ req'.obs = req.obs
      BY <1>6 DEF Delete, Inv, TypeOK, Requests
    <2> QED
      BY <1>6, <2>1 DEF Delete
  <1>7. CASE UNCHANGED <<req, idAt>> /\ approved \subseteq approved'
              /\ (pc' = "idle" \/ (pc # "idle" /\ execID' = execID))
    BY <1>7
  <1>8. CASE Skip \/ FailBeforeExec \/ FailRecord \/ CacheSync \/ PodSync \/ PodsChange \/ UNCHANGED vars
    BY <1>7, <1>8 DEF Skip, Dequeue, FailBeforeExec, FailRecord, ReturnError, CacheSync, PodSync,
                      PodsChange, vars
  <1>9. CASE ExecSucceeds \/ ExecCommandError \/ ExecTimeout \/ Restart
    BY <1>7, <1>9 DEF ExecSucceeds, ExecCommandError, ExecTimeout, Restart
  <1> QED
    BY <1>1, <1>2, <1>3, <1>4, <1>5, <1>6, <1>8, <1>9 DEF Next, Reconcile

\* If no edit falls into an exec, DevicePaired means what the guard of Reconcile takes
\* it to mean, through any timeouts, retries, stale copies, restarts and edits between
\* execs: the re-fetch after the exec is the only place where it can go wrong.
THEOREM ApprovedUnlessEditedDuringExec ==
  Spec /\ NoEditDuringExec => []PairedMeansApproved
  <1>1. Init => Attributed
    BY DEF Init, Attributed
  <1>2. /\ Inv /\ Attributed /\ [Next]_vars /\ [req'.gen # req.gen => pc = "idle"]_vars
        => Attributed'
    BY NextAttributed
  <1>3. Inv /\ Attributed => PairedMeansApproved
    BY DEF Attributed, PairedMeansApproved, Paired
  <1> QED
    BY <1>1, <1>2, <1>3, Invariance, PTL DEF Spec, NoEditDuringExec
=============================================================================
