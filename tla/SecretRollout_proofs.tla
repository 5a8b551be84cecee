-------------------------- MODULE SecretRollout_proofs --------------------------
(***************************************************************************)
(* Proofs about SecretRollout for any Secrets, any specs that reference    *)
(* them and any bounds.                                                    *)
(*                                                                         *)
(* First, whatever the caches do: a pod never runs with a version older    *)
(* than the one stamped on its template, and an operator at rest has       *)
(* rolled out the latest version of every Secret that is watched and       *)
(* stamped.  Second, when a Reconcile sees the Secrets the previous one    *)
(* generated: the token is preserved, and gateway and proxy share one CA.  *)
(***************************************************************************)
EXTENDS SecretRollout, TLAPS, WellFoundedInduction

\* Every version is the work of a change.
VersionsBounded == \A o \in Objects : object[o].rv <= changes + 1

\* refs and stamps of a template, wherever it is kept: a stamp is the version
\* that a referenced object once had.
Behind(objects, refs, marks) ==
    \A r \in Refs : marks[r] # 0 => refs[r] # None /\ marks[r] <= objects[refs[r]].rv

StampsBehind ==
    \A d \in Deployments :
        /\ Behind(object, inst, stamps[d])
        /\ \A r \in Refs : stamps[d][r] # 0 => r \in Mounted(d)
        /\ pc = Idle => stamps[d] = NoStamps

DepsBehind == \A d \in Deployments : Behind(object, dep[d].refs, dep[d].stamps)
PodsBehind ==
    \A d \in Deployments :
        Behind(object, pod[d].template.refs, pod[d].template.stamps)

\* What a pod loaded is no newer than what there is.
LoadedExists ==
    \A d \in Deployments, r \in Refs :
        pod[d].template.refs[r] # None =>
            pod[d].loaded[r] <= object[pod[d].template.refs[r]].rv

OnlyAppliedRun == \A d \in Deployments : pod[d].template.applied => pod[d].up

\* The call of Reconcile that stamps reference r on Deployment d, and the one
\* that writes d.
ReadAt(d, r) ==
    IF r = "github" THEN 6
    ELSE IF d = "proxy" THEN 9
    ELSE IF r = "mcp" THEN 10
    ELSE IF r = "channel" THEN 11
    ELSE 12

WriteAt(d) == IF d = "proxy" THEN ProxyCall ELSE GatewayCall

\* The stamp that reference r of the cached Claw should have.
Latest(r) == IF cache[r] = None THEN 0 ELSE object[cache[r]].rv

\* Until it writes d, a Reconcile is going to read r or has read its latest
\* version; otherwise the Deployment has it.
OnTrack(d, r) ==
    IF pc # Idle /\ pc <= WriteAt(d)
    THEN inst = cache /\ (pc <= ReadAt(d, r) \/ stamps[d][r] = Latest(r))
    ELSE /\ dep[d].applied
         /\ dep[d].refs[r] = cache[r]
         /\ dep[d].stamps[r] = Latest(r)

\* ... or there will be another Reconcile: the key is queued, or an event that
\* enqueues it is on its way.
Tracked(d, r) ==
    \/ queued
    \/ cache[r] \in undelivered
    \/ depCache[d] # dep[d]
    \/ OnTrack(d, r)

AllTracked == \A d \in Deployments : \A r \in RolledOut \cap Mounted(d) : Tracked(d, r)

TypeInv == TypeOK /\ VersionsBounded

PodsInv == PodsBehind /\ LoadedCoversStamp /\ LoadedExists /\ OnlyAppliedRun

Inv == TypeInv /\ StampsBehind /\ DepsBehind /\ PodsInv /\ AllTracked

\* The copy of an own Secret is exact once its events are delivered.
OwnCacheExact == \A o \in Own : o \notin undelivered => ownCache[o] = own[o]

\* A Reconcile that has not applied the token yet knows it, unless the user has
\* deleted it meanwhile; the CA, which nobody deletes, it knows exactly.
TokenKnown == pc = GatewaySecretCall => own["token"] \in {0, ownCache["token"]}
CAKnown == pc \in GatewaySecretCall..ProxyCACall => ownCache["ca"] = own["ca"]

OneCA == \A d \in Deployments : pod[d].up => pod[d].ca = own["ca"] /\ own["ca"] # 0

TokenInv == OwnCacheExact /\ TokenKnown
CAInv == OwnCacheExact /\ CAKnown /\ OneCA

-----------------------------------------------------------------------------
(* The calls of Reconcile *)

\* A nonempty set of natural numbers has a least element.
LEMMA Least ==
  ASSUME NEW T, T \subseteq Nat, T # {}
  PROVE  \E m \in T : \A k \in T : m <= k
  <1> DEFINE Less == {ss \in Nat \X Nat : ss[1] < ss[2]}
  <1>1. OpToRel(<, Nat) = Less
    BY Zenon DEF OpToRel
  <1>2. IsWellFoundedOn(Less, Nat)
    BY <1>1, NatLessThanWellFounded, Zenon
  <1> HIDE DEF Less
  <1>3. PICK x \in T : \A y \in T : ~ (<<y, x>> \in Less)
    BY <1>2, WFMin, Zenon
  <1>4. \A y \in T : y < x => <<y, x>> \in Less
    BY DEF Less
  <1>5. \A y \in T : ~ (y < x)
    BY <1>3, <1>4
  <1> QED
    BY <1>5

\* The next call is the first one that acts, at the latest the one that writes
\* the gateway's Deployment.
LEMMA NextCallFacts ==
  ASSUME pc \in GatewaySecretCall..(GatewayCall - 1)
  PROVE  /\ NextCall \in (pc + 1)..GatewayCall
         /\ \A j \in (pc + 1)..(NextCall - 1) : ~ Acts(j)
  <1> DEFINE A == {i \in (pc + 1)..ProxyCall : Acts(i)}
  <1> USE DEF GatewaySecretCall, GatewayCall, ProxyCall
  <1>1. GatewayCall \in A /\ A \subseteq Nat
    BY DEF Acts, WriteCalls
  <1>2. PICK m \in A : \A k \in A : m <= k
    BY <1>1, Least
  <1>3. m \in (pc + 1)..ProxyCall /\ Acts(m) /\ \A j \in (pc + 1)..(m - 1) : ~ Acts(j)
    BY <1>2
  <1>4. /\ NextCall \in (pc + 1)..ProxyCall
        /\ Acts(NextCall) /\ \A j \in (pc + 1)..(NextCall - 1) : ~ Acts(j)
    BY <1>3 DEF NextCall
  <1>5. NextCall <= GatewayCall
    BY <1>4, <1>1
  <1> QED
    BY <1>4, <1>5

\* What the calls that read references stamp, and where.
LEMMA CallFacts ==
  ASSUME ReadCall, pc \in 0..ProxyCall
  PROVE  /\ pc \in GatewaySecretCall..(GatewayCall - 1)
         /\ Calls[pc].refs \subseteq Refs
         /\ \A d \in Calls[pc].on : Calls[pc].refs \subseteq Mounted(d)
         /\ Calls[pc].memo => pc = 9 /\ Calls[pc].on = {"proxy"}
  <1> USE DEF Idle, WriteCalls, GatewaySecretCall, ProxyCACall, GatewayCall, ProxyCall
  <1>1. pc \in {2, 4, 5, 6, 7, 8, 9, 10, 11, 12, 13}
    BY DEF ReadCall
  <1>2. \A d \in Deployments :
           /\ {"credential", "channel", "webSearch", "github"} \subseteq Mounted("proxy")
           /\ {"mcp", "channel", "github", "git", "persona"} \subseteq Mounted("gateway")
    BY DEF Mounted, configureProxyForCredentials, configureProxyForWebSearch,
           configureGatewayForMcpServers, configureGatewayForChannels,
           configureGatewayForRepoAccess, configureAgentFiles, configurePersonaGuard
  <1> USE DEF Call, Refs
  <1>3. CASE pc = 2
    BY <1>3 DEF Calls, resolveCredentials
  <1>4. CASE pc = 4
    BY <1>4 DEF Calls, validateMcpServerSecrets
  <1>5. CASE pc = 5
    BY <1>5 DEF Calls, validateWebSearchConfig
  <1>6. CASE pc = 6
    BY <1>2, <1>6 DEF Calls, validateRepoAccessSecrets,
                      stampRepoAccessSecretVersionAnnotation, Deployments
  <1>7. CASE pc = 7
    BY <1>7 DEF Calls, validateGitSecretRef
  <1>8. CASE pc = 8
    BY <1>2, <1>8 DEF Calls, resolvePersonaRef, Deployments
  <1>9. CASE pc = 9
    BY <1>2, <1>9 DEF Calls, stampSecretVersionAnnotation, Deployments
  <1>10. CASE pc = 10
    BY <1>2, <1>10 DEF Calls, stampMcpSecretVersionAnnotation, Deployments
  <1>11. CASE pc = 11
    BY <1>2, <1>11 DEF Calls, stampChannelSecretVersionAnnotation, Deployments
  <1>12. CASE pc = 12
    BY <1>2, <1>12 DEF Calls, stampGitSecretVersion, Deployments
  <1>13. CASE pc = 13
    BY <1>13 DEF Calls, resolveAuthPassword
  <1> QED
    BY <1>1, <1>3, <1>4, <1>5, <1>6, <1>7, <1>8, <1>9, <1>10, <1>11, <1>12, <1>13

\* A reference that is rolled out is stamped by the call ReadAt names.
LEMMA ReadAtFacts ==
  ASSUME NEW d \in Deployments, NEW r \in RolledOut \cap Mounted(d)
  PROVE  /\ ReadAt(d, r) \in 6..12 /\ ReadAt(d, r) < WriteAt(d)
         /\ ReadAt(d, r) \notin WriteCalls
         /\ r \in Calls[ReadAt(d, r)].refs /\ d \in Calls[ReadAt(d, r)].on
  <1>1. \/ d = "proxy" /\ r \in {"credential", "channel", "webSearch", "github"}
        \/ d = "gateway" /\ r \in {"mcp", "channel", "github", "git"}
    BY DEF Deployments, RolledOut, Refs, Mounted, configureProxyForCredentials,
           configureProxyForWebSearch, configureGatewayForMcpServers,
           configureGatewayForChannels, configureGatewayForRepoAccess,
           configureClawDeploymentForAuth, configureAgentFiles, configurePersonaGuard
  <1>2. \/ ReadAt(d, r) = 6 /\ r = "github"
        \/ ReadAt(d, r) = 9 /\ d = "proxy" /\ r \in {"credential", "channel", "webSearch"}
        \/ ReadAt(d, r) = 10 /\ d = "gateway" /\ r = "mcp"
        \/ ReadAt(d, r) = 11 /\ d = "gateway" /\ r = "channel"
        \/ ReadAt(d, r) = 12 /\ d = "gateway" /\ r = "git"
    BY <1>1 DEF ReadAt
  <1>3. /\ ReadAt(d, r) \in 6..12 /\ ReadAt(d, r) < WriteAt(d)
        /\ ReadAt(d, r) \notin WriteCalls
    BY <1>2 DEF WriteAt, WriteCalls, GatewaySecretCall, ProxyCACall, GatewayCall, ProxyCall
  <1>4. /\ Calls[6] = [refs |-> {"github"}, on |-> {"proxy", "gateway"}, memo |-> FALSE]
        /\ Calls[9] = [refs |-> {"credential", "channel", "webSearch"},
                       on |-> {"proxy"}, memo |-> TRUE]
        /\ Calls[10] = [refs |-> {"mcp"}, on |-> {"gateway"}, memo |-> FALSE]
        /\ Calls[11] = [refs |-> {"channel"}, on |-> {"gateway"}, memo |-> FALSE]
        /\ Calls[12] = [refs |-> {"git"}, on |-> {"gateway"}, memo |-> FALSE]
    BY DEF Calls, Call, validateRepoAccessSecrets,
           stampRepoAccessSecretVersionAnnotation, stampSecretVersionAnnotation,
           stampMcpSecretVersionAnnotation, stampChannelSecretVersionAnnotation,
           stampGitSecretVersion
  <1> QED
    BY <1>1, <1>2, <1>3, <1>4 DEF Deployments

-----------------------------------------------------------------------------
(* Types *)

\* A template is well typed whatever it is built from.
LEMMA TemplateTypes ==
  ASSUME TypeOK
  PROVE  /\ NoStamps \in [Refs -> Versions] /\ NoTemplate \in Templates
         /\ NoPod \in Pods
         /\ \A d \in Deployments : Desired(d) \in Templates
  <1>1. NoStamps \in [Refs -> Versions]
    BY ConstantsAssumption DEF NoStamps, Versions
  <1>2. NoRefs \in [Refs -> Objects \cup {None}]
    BY DEF NoRefs
  <1>3. NoTemplate \in Templates
    BY <1>1, <1>2 DEF NoTemplate, Templates
  <1>4. NoPod \in Pods
    BY <1>1, <1>3, ConstantsAssumption DEF NoPod, Pods, Values
  <1>5. inst \in [Refs -> Objects \cup {None}]
    BY ConstantsAssumption DEF TypeOK
  <1>6. ASSUME NEW d \in Deployments PROVE Desired(d) \in Templates
    BY <1>5 DEF Desired, Templates, TypeOK
  <1> QED
    BY <1>1, <1>3, <1>4, <1>6

\* The reference that a call reads names an object, and its version is that of
\* an object that has been read.
LEMMA VersionFacts ==
  ASSUME TypeOK, StampsBehind, ReadCall, NEW r \in Named(pc)
  PROVE  /\ r \in Refs /\ inst[r] \in Objects
         /\ Version(r) \in Versions /\ Version(r) <= object[inst[r]].rv
  <1>1. pc \in 0..ProxyCall /\ inst \in [Refs -> Objects \cup {None}]
    BY ConstantsAssumption DEF TypeOK
  <1>2. r \in Refs /\ inst[r] \in Objects
    BY <1>1, CallFacts DEF Named
  <1>3. object[inst[r]].rv \in 1..(MaxChanges + 1)
    BY <1>2 DEF TypeOK, UserObjects
  <1>4. CASE memoised(r)
    <2>1. "github" \in Refs /\ "proxy" \in Deployments
      BY DEF Refs, Deployments
    <2>2. stamps["proxy"]["github"] \in Versions
      BY <2>1 DEF TypeOK
    <2>3. stamps["proxy"]["github"] # 0 => stamps["proxy"]["github"] <= object[inst[r]].rv
      BY <1>4, <2>1 DEF memoised, StampsBehind, Behind
    <2> QED
      BY <1>2, <1>3, <1>4, <2>2, <2>3 DEF Version, Versions
  <1>5. CASE ~ memoised(r)
    BY <1>2, <1>3, <1>5, ConstantsAssumption DEF Version, Versions
  <1> QED
    BY <1>2, <1>4, <1>5

\* A new Claw is well typed.
LEMMA InitType == Init => TypeInv
  <1> SUFFICES ASSUME Init PROVE TypeInv
    OBVIOUS
  <1>1. /\ spec \in Specs /\ cache \in Specs /\ inst \in Specs
        /\ undelivered \subseteq Secrets \cup Own /\ queued \in BOOLEAN
    BY DEF Init
  <1>2. object \in [Objects -> UserObjects]
    BY ConstantsAssumption DEF Init, UserObjects
  <1>3. pc \in 0..ProxyCall /\ generated \in Values /\ changes \in 0..MaxChanges
    BY ConstantsAssumption DEF Init, Idle, ProxyCall, Values
  <1>4. own \in [Own -> Values] /\ ownCache \in [Own -> Values]
    BY ConstantsAssumption DEF Init, Values
  <1>5. NoStamps \in [Refs -> Versions] /\ NoRefs \in [Refs -> Objects \cup {None}]
    BY ConstantsAssumption DEF NoStamps, NoRefs, Versions
  <1>6. NoTemplate \in Templates
    BY <1>5 DEF NoTemplate, Templates
  <1>7. NoPod \in Pods
    BY <1>5, <1>6, ConstantsAssumption DEF NoPod, Pods, Values
  <1>8. stamps \in [Deployments -> [Refs -> Versions]]
    BY <1>5 DEF Init
  <1>9. dep \in [Deployments -> Templates] /\ depCache \in [Deployments -> Templates]
    BY <1>6 DEF Init
  <1>10. pod \in [Deployments -> Pods]
    BY <1>7 DEF Init
  <1>11. VersionsBounded
    BY DEF Init, VersionsBounded
  <1> QED
    BY <1>1, <1>2, <1>3, <1>4, <1>8, <1>9, <1>10, <1>11 DEF TypeInv, TypeOK

\* Returning from Reconcile.
LEMMA EndType ==
  ASSUME TypeInv, EndReconcile, queued' \in BOOLEAN,
         dep' \in [Deployments -> Templates],
         UNCHANGED <<claw, depCache, pod, operator, world>>
  PROVE  TypeInv'
  <1>1. stamps' \in [Deployments -> [Refs -> Versions]]
    BY TemplateTypes DEF TypeInv, EndReconcile
  <1>2. pc' \in 0..ProxyCall
    BY DEF EndReconcile, Idle, ProxyCall
  <1> QED
    BY <1>1, <1>2 DEF TypeInv, TypeOK, VersionsBounded, EndReconcile, claw, operator,
                      world

\* A new value for an own Secret.
LEMMA GenerateType ==
  ASSUME TypeOK, NEW o \in Own, Generate(o)
  PROVE  /\ own' \in [Own -> Values] /\ generated' \in Values
         /\ undelivered' \subseteq Secrets \cup Own
  BY ConstantsAssumption DEF Generate, TypeOK, Values

\* A pod that starts.
LEMMA StartedType ==
  ASSUME TypeOK, NEW d \in Deployments, NEW t \in Templates, Started(d, t)
  PROVE  pod' \in [Deployments -> Pods]
  <1>1. \A r \in Refs : t.refs[r] # None => object[t.refs[r]].rv \in Versions
    BY DEF TypeOK, Templates, UserObjects, Versions
  <1>2. [r \in Refs |-> IF t.refs[r] = None THEN 0 ELSE object[t.refs[r]].rv]
          \in [Refs -> Versions]
    BY <1>1, ConstantsAssumption DEF Versions
  <1>3. own["ca"] \in Values
    BY DEF TypeOK, Own
  <1> QED
    BY <1>2, <1>3 DEF Started, Pods, TypeOK

\* Every step keeps the types.
LEMMA NextType == TypeInv /\ StampsBehind /\ [Next]_vars => TypeInv'
  <1> SUFFICES ASSUME TypeInv, StampsBehind, [Next]_vars PROVE TypeInv'
    OBVIOUS
  <1> USE DEF claw, cluster, operator, world
  <1>a. TypeOK /\ VersionsBounded
    BY DEF TypeInv
  <1>b. ASSUME pc \in GatewaySecretCall..(GatewayCall - 1), pc' = NextCall
        PROVE  pc' \in 0..ProxyCall
    BY <1>b, NextCallFacts DEF GatewaySecretCall, GatewayCall, ProxyCall
  <1>1. CASE Dequeue
    <2>1. queued' \in BOOLEAN
      BY <1>1, Zenon DEF Dequeue
    <2>2. pc' = 1
      BY <1>1, Zenon DEF Dequeue, GatewaySecretCall
    <2>3. /\ inst' = cache
          /\ UNCHANGED <<spec, cache, stamps, dep, depCache, pod, own, ownCache, generated,
                         object, undelivered, changes>>
      BY <1>1, Zenon DEF Dequeue
    <2> QED
      BY <1>a, <2>1, <2>2, <2>3 DEF TypeInv, TypeOK, VersionsBounded, ProxyCall
  <1>2. CASE applyGatewaySecret
    <2>1. "token" \in Own
      BY DEF Own
    <2>2. /\ own' \in [Own -> Values] /\ generated' \in Values
          /\ undelivered' \subseteq Secrets \cup Own
      BY <1>2, <1>a, <2>1, GenerateType DEF applyGatewaySecret, TypeOK
    <2>3. pc' \in 0..ProxyCall
      BY <1>2, <1>b DEF applyGatewaySecret, GatewaySecretCall, GatewayCall
    <2> QED
      BY <1>2, <1>a, <2>2, <2>3 DEF applyGatewaySecret, TypeInv, TypeOK, VersionsBounded
  <1>3. CASE applyProxyCA
    <2>1. "ca" \in Own
      BY DEF Own
    <2>2. /\ own' \in [Own -> Values] /\ generated' \in Values
          /\ undelivered' \subseteq Secrets \cup Own
      BY <1>3, <1>a, <2>1, GenerateType DEF applyProxyCA, TypeOK
    <2>3. pc' \in 0..ProxyCall
      BY <1>3, <1>b DEF applyProxyCA, GatewaySecretCall, ProxyCACall, GatewayCall
    <2> QED
      BY <1>3, <1>a, <2>2, <2>3 DEF applyProxyCA, TypeInv, TypeOK, VersionsBounded
  <1>4. CASE ReadReferences
    <2>1. ReadCall
      BY <1>4 DEF ReadReferences
    <2>2. pc' \in 0..ProxyCall
      BY <1>4, <1>a, <1>b, <2>1, CallFacts DEF ReadReferences, TypeOK
    <2>3. \A r \in Named(pc) : Version(r) \in Versions
      BY <1>a, <2>1, VersionFacts
    <2>4. stamps' \in [Deployments -> [Refs -> Versions]]
      BY <1>4, <1>a, <2>3 DEF ReadReferences, TypeOK
    <2> QED
      BY <1>4, <1>a, <2>2, <2>4 DEF ReadReferences, TypeInv, TypeOK, VersionsBounded
  <1>5. CASE ApplyGateway
    <2>1. "gateway" \in Deployments /\ Desired("gateway") \in Templates
      BY <1>a, TemplateTypes DEF Deployments
    <2>2. dep' \in [Deployments -> Templates]
      BY <1>5, <1>a, <2>1 DEF ApplyGateway, applyDeployment, TypeOK
    <2> QED
      BY <1>5, <1>a, <2>2 DEF ApplyGateway, applyDeployment, TypeInv, TypeOK,
                              VersionsBounded, ProxyCall
  <1>6. CASE ApplyProxy
    <2>1. "proxy" \in Deployments /\ Desired("proxy") \in Templates
      BY <1>a, TemplateTypes DEF Deployments
    <2>2. dep' \in [Deployments -> Templates]
      BY <1>6, <1>a, <2>1 DEF ApplyProxy, applyDeployment, TypeOK
    <2> QED
      BY <1>6, <1>a, <2>2, EndType DEF ApplyProxy, applyDeployment, TypeOK
  <1>7. CASE Fail
    BY <1>7, <1>a, EndType DEF Fail, TypeOK
  <1>8. CASE ClawSync
    BY <1>8, <1>a DEF ClawSync, TypeInv, TypeOK, VersionsBounded
  <1>9. CASE SecretSync
    <2>1. queued' \in BOOLEAN
      BY <1>9 DEF SecretSync
    <2> QED
      BY <1>9, <1>a, <2>1 DEF SecretSync, TypeInv, TypeOK, VersionsBounded
  <1>10. ASSUME NEW d \in Deployments, DeploymentSync(d) PROVE TypeInv'
    BY <1>10, <1>a DEF DeploymentSync, TypeInv, TypeOK, VersionsBounded
  <1>11. ASSUME NEW d \in Deployments, PodStart(d) \/ PodRestart(d) PROVE TypeInv'
    <2>1. dep[d] \in Templates /\ pod[d].template \in Templates
      BY <1>a DEF TypeOK, Pods
    <2>2. pod' \in [Deployments -> Pods]
      BY <1>11, <1>a, <2>1, StartedType DEF PodStart, PodRestart
    <2> QED
      BY <1>11, <1>a, <2>2 DEF PodStart, PodRestart, TypeInv, TypeOK, VersionsBounded
  <1>12. CASE EditSpec
    BY <1>12, <1>a, ConstantsAssumption DEF EditSpec, TypeInv, TypeOK, VersionsBounded,
       UserObjects
  <1>13. ASSUME NEW o \in Objects, ObjectChange(o) PROVE TypeInv'
    <2>1. changes' \in 0..MaxChanges /\ changes' = changes + 1 /\ changes < MaxChanges
      BY <1>13, <1>a, ConstantsAssumption DEF ObjectChange, TypeOK
    <2>2. PICK u \in BOOLEAN :
            object' = [object EXCEPT ![o] = [rv |-> object[o].rv + 1, usable |-> u]]
      BY <1>13 DEF ObjectChange
    <2>3. object[o].rv \in 1..(changes + 1)
      BY <1>a DEF TypeOK, VersionsBounded, UserObjects
    <2>4. [rv |-> object[o].rv + 1, usable |-> u] \in UserObjects
      BY <1>a, <2>1, <2>3, ConstantsAssumption DEF TypeOK, UserObjects
    <2>5. object' \in [Objects -> UserObjects]
      BY <1>a, <2>2, <2>4 DEF TypeOK
    <2>6. VersionsBounded'
      BY <1>a, <2>1, <2>2, <2>3 DEF TypeOK, UserObjects, VersionsBounded
    <2> QED
      BY <1>13, <1>a, <2>1, <2>5, <2>6 DEF ObjectChange, TypeInv, TypeOK
  <1>14. ASSUME NEW o \in Deletable, DeleteOwn(o) PROVE TypeInv'
    <2>1. o \in Own
      BY ConstantsAssumption
    <2>2. changes' \in 0..MaxChanges /\ changes' = changes + 1
      BY <1>14, <1>a, ConstantsAssumption DEF DeleteOwn, TypeOK
    <2>3. own' \in [Own -> Values]
      BY <1>14, <1>a, <2>1, ConstantsAssumption DEF DeleteOwn, TypeOK, Values
    <2>4. VersionsBounded'
      BY <1>14, <1>a, <2>2 DEF DeleteOwn, VersionsBounded, TypeOK, UserObjects
    <2> QED
      BY <1>14, <1>a, <2>1, <2>2, <2>3, <2>4 DEF DeleteOwn, TypeInv, TypeOK
  <1>15. CASE UNCHANGED vars
    BY <1>15, <1>a DEF vars, TypeInv, TypeOK, VersionsBounded
  <1> QED
    BY <1>1, <1>2, <1>3, <1>4, <1>5, <1>6, <1>7, <1>8, <1>9, <1>10, <1>11, <1>12,
       <1>13, <1>14, <1>15 DEF Next, Reconcile

-----------------------------------------------------------------------------
(* Versions and stamps *)

\* A version is never taken back.
LEMMA VersionsGrow ==
  ASSUME TypeOK, [Next]_vars
  PROVE  \A o \in Objects : object[o].rv <= object'[o].rv
  <1>1. ASSUME NEW o \in Objects, ObjectChange(o)
        PROVE  \A q \in Objects : object[q].rv <= object'[q].rv
    BY <1>1 DEF ObjectChange, TypeOK, UserObjects
  <1>2. CASE object' = object
    BY <1>2 DEF TypeOK, UserObjects
  <1>3. CASE Reconcile \/ ClawSync \/ SecretSync \/ EditSpec \/ UNCHANGED vars
             \/ (\E d \in Deployments : DeploymentSync(d) \/ PodStart(d) \/ PodRestart(d))
             \/ (\E o \in Deletable : DeleteOwn(o))
    <2>1. object' = object
      BY <1>3, Zenon
         DEF Reconcile, Dequeue, applyGatewaySecret, applyProxyCA, ReadReferences,
             ApplyGateway, ApplyProxy, Fail, ClawSync, SecretSync, DeploymentSync,
             PodStart, PodRestart, EditSpec, DeleteOwn, vars, world
    <2> QED
      BY <1>2, <2>1
  <1> QED
    BY <1>1, <1>3 DEF Next

\* What is behind stays behind when versions grow.
LEMMA BehindStays ==
  ASSUME NEW old \in [Objects -> UserObjects], NEW new \in [Objects -> UserObjects],
         \A o \in Objects : old[o].rv <= new[o].rv,
         NEW refs \in [Refs -> Objects \cup {None}], NEW marks \in [Refs -> Versions],
         Behind(old, refs, marks)
  PROVE  Behind(new, refs, marks)
  BY ConstantsAssumption DEF Behind, UserObjects, Versions

\* The stamps of a Reconcile are versions its references have had.
LEMMA StampsStep ==
  ASSUME TypeInv, TypeInv', StampsBehind, [Next]_vars
  PROVE  StampsBehind'
  <1>a. TypeOK /\ TypeOK'
    BY DEF TypeInv
  <1>b. inst \in [Refs -> Objects \cup {None}] /\ stamps \in [Deployments -> [Refs -> Versions]]
    BY <1>a, ConstantsAssumption DEF TypeOK
  <1>c. ASSUME stamps' = [d \in Deployments |-> NoStamps] PROVE StampsBehind'
    BY <1>c DEF StampsBehind, Behind, NoStamps
  <1>d. ASSUME UNCHANGED stamps, pc = Idle PROVE StampsBehind'
    BY <1>a, <1>c, <1>d DEF StampsBehind, TypeOK
  <1>e. ASSUME UNCHANGED <<stamps, inst>>, pc' = Idle => pc = Idle PROVE StampsBehind'
    <2>1. \A d \in Deployments : Behind(object', inst, stamps[d])
      BY <1>a, <1>b, BehindStays, VersionsGrow DEF StampsBehind, TypeOK
    <2> QED
      BY <1>e, <2>1 DEF StampsBehind
  <1>1. CASE Dequeue
    BY <1>1, <1>d DEF Dequeue
  <1>2. CASE applyGatewaySecret \/ applyProxyCA
    <2>1. pc \in GatewaySecretCall..(GatewayCall - 1) /\ pc' = NextCall
      BY <1>2 DEF applyGatewaySecret, applyProxyCA, GatewaySecretCall, ProxyCACall,
                  GatewayCall
    <2>2. pc' # Idle
      BY <2>1, NextCallFacts DEF GatewaySecretCall, GatewayCall, Idle
    <2> QED
      BY <1>2, <1>e, <2>2 DEF applyGatewaySecret, applyProxyCA
  <1>3. CASE ReadReferences
    <2>1. ReadCall /\ inst' = inst /\ object' = object /\ pc' = NextCall
      BY <1>3 DEF ReadReferences, world
    <2>2. pc \in GatewaySecretCall..(GatewayCall - 1)
      BY <1>a, <2>1, CallFacts DEF TypeOK
    <2>3. pc' # Idle
      BY <2>1, <2>2, NextCallFacts DEF GatewaySecretCall, GatewayCall, Idle
    <2>4. ASSUME NEW d \in Deployments, NEW r \in Refs, stamps'[d][r] # 0
          PROVE  inst[r] # None /\ stamps'[d][r] <= object[inst[r]].rv /\ r \in Mounted(d)
      <3>1. CASE d \in Calls[pc].on /\ r \in Named(pc)
        <4>1. stamps'[d][r] = Version(r)
          BY <1>3, <3>1 DEF ReadReferences
        <4>2. inst[r] # None /\ r \in Mounted(d)
          BY <1>a, <2>1, <3>1, CallFacts DEF Named, TypeOK
        <4>3. Version(r) <= object[inst[r]].rv
          BY <1>a, <2>1, <3>1, VersionFacts
        <4> QED
          BY <4>1, <4>2, <4>3
      <3>2. CASE ~ (d \in Calls[pc].on /\ r \in Named(pc))
        <4>1. stamps'[d][r] = stamps[d][r]
          BY <1>3, <3>2 DEF ReadReferences
        <4> QED
          BY <2>4, <4>1 DEF StampsBehind, Behind
      <3> QED
        BY <3>1, <3>2
    <2> QED
      BY <2>1, <2>3, <2>4 DEF StampsBehind, Behind
  <1>4. CASE ApplyGateway
    BY <1>4, <1>e DEF ApplyGateway, GatewayCall, ProxyCall, Idle
  <1>5. CASE ApplyProxy \/ Fail
    BY <1>5, <1>c DEF ApplyProxy, Fail, EndReconcile
  <1>6. CASE ClawSync
    BY <1>6, <1>d, <1>e DEF ClawSync
  <1>7. CASE SecretSync \/ EditSpec \/ UNCHANGED vars
             \/ (\E d \in Deployments : DeploymentSync(d) \/ PodStart(d) \/ PodRestart(d))
             \/ (\E o \in Objects : ObjectChange(o)) \/ (\E o \in Deletable : DeleteOwn(o))
    <2>1. UNCHANGED <<stamps, inst, pc>>
      BY <1>7, Zenon DEF SecretSync, EditSpec, DeploymentSync, PodStart, PodRestart,
                         ObjectChange, DeleteOwn, vars
    <2> QED
      BY <1>e, <2>1
  <1> QED
    BY <1>1, <1>2, <1>3, <1>4, <1>5, <1>6, <1>7 DEF Next, Reconcile

\* The stamps of the Deployments are versions their references have had.
LEMMA DepsStep ==
  ASSUME TypeInv, TypeInv', StampsBehind, DepsBehind, [Next]_vars
  PROVE  DepsBehind'
  <1>a. TypeOK /\ TypeOK'
    BY DEF TypeInv
  <1>b. ASSUME NEW d \in Deployments
        PROVE  Behind(object', dep[d].refs, dep[d].stamps)
    BY <1>a, BehindStays, VersionsGrow DEF DepsBehind, TypeOK, Templates
  <1>c. ASSUME NEW d \in Deployments, object' = object
        PROVE  Behind(object', Desired(d).refs, Desired(d).stamps)
    BY <1>c DEF Desired, StampsBehind, Behind
  <1>1. ASSUME NEW d \in Deployments, applyDeployment(d), object' = object
        PROVE  DepsBehind'
    <2>1. \A e \in Deployments : dep'[e] = dep[e] \/ dep'[e] = Desired(e)
      BY <1>1, <1>a DEF applyDeployment, TypeOK
    <2> QED
      BY <1>1, <1>b, <1>c, <2>1 DEF DepsBehind
  <1>2. CASE ApplyGateway \/ ApplyProxy
    <2>1. /\ object' = object
          /\ applyDeployment("gateway") \/ applyDeployment("proxy")
      BY <1>2 DEF ApplyGateway, ApplyProxy, world
    <2> QED
      BY <1>1, <2>1 DEF Deployments
  <1>3. CASE dep' = dep
    BY <1>3, <1>b DEF DepsBehind
  <1>4. CASE Dequeue \/ applyGatewaySecret \/ applyProxyCA \/ ReadReferences \/ Fail
             \/ ClawSync \/ SecretSync \/ EditSpec \/ UNCHANGED vars
             \/ (\E d \in Deployments : DeploymentSync(d) \/ PodStart(d) \/ PodRestart(d))
             \/ (\E o \in Objects : ObjectChange(o)) \/ (\E o \in Deletable : DeleteOwn(o))
    <2>1. dep' = dep
      BY <1>4, Zenon DEF Dequeue, applyGatewaySecret, applyProxyCA, ReadReferences, Fail,
         ClawSync, SecretSync, EditSpec, DeploymentSync, PodStart, PodRestart,
         ObjectChange, DeleteOwn, vars, cluster
    <2> QED
      BY <1>3, <2>1
  <1> QED
    BY <1>2, <1>4 DEF Next, Reconcile

\* A pod loads what its template is stamped with, or something newer.
LEMMA PodsStep ==
  ASSUME TypeInv, TypeInv', DepsBehind, PodsInv, [Next]_vars
  PROVE  PodsInv'
  <1>a. TypeOK /\ TypeOK'
    BY DEF TypeInv
  <1>b. ASSUME NEW d \in Deployments
        PROVE  Behind(object', pod[d].template.refs, pod[d].template.stamps)
    BY <1>a, BehindStays, VersionsGrow DEF PodsInv, PodsBehind, TypeOK, Pods, Templates
  <1>1. CASE pod' = pod
    <2>1. PodsBehind'
      BY <1>1, <1>b DEF PodsBehind
    <2>2. LoadedExists'
      BY <1>1, <1>a, VersionsGrow
         DEF PodsInv, LoadedExists, TypeOK, Pods, Templates, UserObjects, Versions
    <2> QED
      BY <1>1, <2>1, <2>2 DEF PodsInv, LoadedCoversStamp, OnlyAppliedRun
  <1>2. ASSUME NEW d \in Deployments, NEW t \in Templates, Started(d, t), object' = object,
               Behind(object, t.refs, t.stamps)
        PROVE  PodsInv'
    <2>1. /\ pod'[d].up /\ pod'[d].template = t
          /\ \A r \in Refs :
               pod'[d].loaded[r] = IF t.refs[r] = None THEN 0 ELSE object[t.refs[r]].rv
          /\ \A e \in Deployments \ {d} : pod'[e] = pod[e]
      BY <1>2, <1>a DEF Started, TypeOK
    <2>2. PodsBehind'
      BY <1>2, <1>b, <2>1 DEF PodsBehind
    <2>3. LoadedCoversStamp'
      <3>1. ASSUME NEW r \in Refs PROVE t.stamps[r] <= pod'[d].loaded[r]
        <4>1. t.stamps[r] \in Nat /\ t.refs[r] \in Objects \cup {None}
          BY ConstantsAssumption DEF Templates, Versions
        <4>2. t.refs[r] # None => object[t.refs[r]].rv \in Nat
          BY <1>a, <4>1 DEF TypeOK, UserObjects
        <4>3. t.stamps[r] # 0 => t.refs[r] # None /\ t.stamps[r] <= object[t.refs[r]].rv
          BY <1>2 DEF Behind
        <4> QED
          BY <2>1, <4>1, <4>2, <4>3
      <3> QED
        BY <2>1, <3>1 DEF PodsInv, LoadedCoversStamp
    <2>4. LoadedExists'
      <3>1. \A r \in Refs : t.refs[r] # None => pod'[d].loaded[r] <= object[t.refs[r]].rv
        BY <1>a, <2>1 DEF Templates, TypeOK, UserObjects
      <3> QED
        BY <1>2, <2>1, <3>1 DEF PodsInv, LoadedExists
    <2>5. OnlyAppliedRun'
      BY <2>1 DEF PodsInv, OnlyAppliedRun
    <2> QED
      BY <2>2, <2>3, <2>4, <2>5 DEF PodsInv
  <1>3. ASSUME NEW d \in Deployments, PodStart(d) \/ PodRestart(d) PROVE PodsInv'
    <2>1. object' = object /\ dep[d] \in Templates /\ pod[d].template \in Templates
      BY <1>3, <1>a DEF PodStart, PodRestart, world, TypeOK, Pods
    <2>2. Started(d, dep[d]) \/ Started(d, pod[d].template)
      BY <1>3 DEF PodStart, PodRestart
    <2>3. /\ Behind(object, dep[d].refs, dep[d].stamps)
          /\ Behind(object, pod[d].template.refs, pod[d].template.stamps)
      BY DEF DepsBehind, PodsInv, PodsBehind
    <2> QED
      BY <1>2, <2>1, <2>2, <2>3
  <1>4. CASE Reconcile \/ ClawSync \/ SecretSync \/ EditSpec \/ UNCHANGED vars
             \/ (\E d \in Deployments : DeploymentSync(d))
             \/ (\E o \in Objects : ObjectChange(o)) \/ (\E o \in Deletable : DeleteOwn(o))
    <2>1. pod' = pod
      BY <1>4, Zenon
         DEF Reconcile, Dequeue, applyGatewaySecret, applyProxyCA, ReadReferences,
             ApplyGateway, ApplyProxy, applyDeployment, Fail, ClawSync, SecretSync,
             EditSpec, DeploymentSync, ObjectChange, DeleteOwn, vars, cluster
    <2> QED
      BY <1>1, <2>1
  <1> QED
    BY <1>3, <1>4 DEF Next

-----------------------------------------------------------------------------
(* What is not rolled out yet will be *)

\* While the Claw's copies, the Deployments and the objects stand still and no
\* event is lost, only the worker's own progress matters.
LEMMA TrackedStays ==
  ASSUME NEW d \in Deployments, NEW r \in RolledOut \cap Mounted(d), Tracked(d, r),
         UNCHANGED <<cache, inst, pc, stamps, dep, depCache>>, queued => queued',
         undelivered \subseteq undelivered', cache[r] \in undelivered' \/ UNCHANGED object
  PROVE  Tracked(d, r)'
  <1>1. CASE queued \/ cache[r] \in undelivered \/ depCache[d] # dep[d]
    BY <1>1 DEF Tracked
  <1>2. CASE OnTrack(d, r)
    BY <1>2 DEF Tracked, OnTrack, Latest, WriteAt, ReadAt
  <1> QED
    BY <1>1, <1>2 DEF Tracked

\* A call that leaves the stamp of r alone does not skip the one that reads it.
LEMMA CallKeepsTrack ==
  ASSUME TypeOK, StampsBehind, StampsBehind', NEW d \in Deployments,
         NEW r \in RolledOut \cap Mounted(d), Tracked(d, r),
         pc \in GatewaySecretCall..(GatewayCall - 1), pc' = NextCall,
         UNCHANGED <<cache, inst, queued, object, dep, depCache>>,
         undelivered \subseteq undelivered',
         stamps'[d][r] = stamps[d][r], pc # ReadAt(d, r) \/ inst[r] = None
  PROVE  Tracked(d, r)'
  <1>1. CASE queued \/ cache[r] \in undelivered \/ depCache[d] # dep[d]
    BY <1>1 DEF Tracked
  <1>2. CASE OnTrack(d, r)
    <2>1. pc' \in (pc + 1)..GatewayCall /\ \A j \in (pc + 1)..(pc' - 1) : ~ Acts(j)
      BY NextCallFacts
    <2>2. pc # Idle /\ pc <= WriteAt(d) /\ pc' # Idle /\ pc' <= WriteAt(d)
      BY <2>1 DEF GatewaySecretCall, GatewayCall, ProxyCall, Idle, WriteAt
    <2>3. inst = cache /\ (pc <= ReadAt(d, r) \/ stamps[d][r] = Latest(r))
      BY <1>2, <2>2 DEF OnTrack
    <2>4. Latest(r)' = Latest(r)
      BY DEF Latest
    <2>5. CASE inst[r] = None
      <3>1. stamps'[d][r] = 0 /\ Latest(r) = 0
        BY <2>3, <2>5 DEF StampsBehind, Behind, Latest, RolledOut
      <3> QED
        BY <2>2, <2>3, <2>4, <3>1 DEF Tracked, OnTrack, WriteAt
    <2>6. CASE inst[r] # None
      <3>1. ReadAt(d, r) \in 6..12 /\ Acts(ReadAt(d, r))
        BY <2>6, ReadAtFacts DEF Acts, Named
      <3>2. pc <= ReadAt(d, r) => pc' <= ReadAt(d, r)
        BY <2>1, <2>6, <3>1 DEF GatewaySecretCall, GatewayCall
      <3>3. ReadAt(d, r)' = ReadAt(d, r) /\ WriteAt(d)' = WriteAt(d)
        BY DEF ReadAt, WriteAt
      <3> QED
        BY <2>2, <2>3, <2>4, <3>2, <3>3 DEF Tracked, OnTrack
    <2> QED
      BY <2>5, <2>6
  <1> QED
    BY <1>1, <1>2 DEF Tracked

\* The call that reads r stamps its latest version, also when repository access
\* has read the object before.
LEMMA ReadKeepsTrack ==
  ASSUME TypeOK, AllTracked, StampsBehind, ReadReferences, NEW d \in Deployments,
         NEW r \in RolledOut \cap Mounted(d), pc = ReadAt(d, r), inst[r] # None
  PROVE  Tracked(d, r)'
  <1>a. /\ ReadCall /\ pc' = NextCall
        /\ UNCHANGED <<cache, inst, queued, object, undelivered, dep, depCache>>
    BY DEF ReadReferences, claw, cluster, world
  <1>b. Tracked(d, r) /\ r \in Refs
    BY DEF AllTracked, RolledOut
  <1>1. CASE queued \/ cache[r] \in undelivered \/ depCache[d] # dep[d]
    BY <1>1, <1>a DEF Tracked
  <1>2. CASE ~ (queued \/ cache[r] \in undelivered \/ depCache[d] # dep[d])
    <2>1. OnTrack(d, r)
      BY <1>2, <1>b DEF Tracked
    <2>2. /\ pc \in 6..12 /\ pc < WriteAt(d)
          /\ r \in Named(pc) /\ d \in Calls[pc].on
      BY ReadAtFacts DEF Named
    <2>3. pc' \in (pc + 1)..GatewayCall
      BY <1>a, <2>2, NextCallFacts DEF GatewaySecretCall, GatewayCall
    <2>4. inst = cache
      BY <2>1, <2>2 DEF OnTrack, Idle, WriteAt, GatewayCall, ProxyCall
    <2>5. stamps'[d][r] = Version(r)
      BY <1>b, <2>2 DEF ReadReferences
    <2>6. Version(r) = Latest(r)
      <3>1. CASE memoised(r)
        <4>1. pc = 9 /\ d = "proxy" /\ cache["github"] = cache[r]
          BY <1>a, <2>2, <2>4, <3>1, CallFacts DEF memoised, TypeOK
        <4>2. "github" \in RolledOut \cap Mounted("proxy")
          BY DEF RolledOut, Refs, Mounted, configureProxyForCredentials
        <4>3. OnTrack("proxy", "github")
          BY <1>2, <4>1, <4>2 DEF AllTracked, Tracked
        <4>4. stamps["proxy"]["github"] = Latest("github")
          BY <4>1, <4>3 DEF OnTrack, ReadAt, WriteAt, Idle, ProxyCall
        <4> QED
          BY <3>1, <4>1, <4>4 DEF Version, Latest
      <3>2. CASE ~ memoised(r)
        BY <2>4, <3>2 DEF Version, Latest
      <3> QED
        BY <3>1, <3>2
    <2>7. pc' # Idle /\ pc' <= WriteAt(d)
      BY <2>2, <2>3 DEF WriteAt, GatewayCall, ProxyCall, Idle
    <2>8. inst' = cache' /\ stamps'[d][r] = Latest(r)'
      BY <1>a, <2>4, <2>5, <2>6 DEF Latest
    <2> QED
      BY <2>7, <2>8 DEF Tracked, OnTrack, WriteAt
  <1> QED
    BY <1>1, <1>2

\* The Deployment that is written has the stamps of the Reconcile.
LEMMA WriteKeepsTrack ==
  ASSUME TypeOK, NEW d \in Deployments, NEW r \in RolledOut \cap Mounted(d),
         Tracked(d, r), pc = WriteAt(d), applyDeployment(d),
         pc' \in Nat, pc' = Idle \/ pc' > WriteAt(d),
         UNCHANGED <<cache, queued, object, undelivered>>
  PROVE  Tracked(d, r)'
  <1>a. depCache' = depCache
    BY DEF applyDeployment
  <1>1. CASE queued \/ cache[r] \in undelivered
    BY <1>1 DEF Tracked
  <1>2. CASE depCache[d] # dep[d]
    BY <1>2, <1>a DEF applyDeployment, Desired, Tracked
  <1>3. CASE OnTrack(d, r) /\ depCache[d] = dep[d]
    <2>1. pc # Idle /\ ~ pc <= ReadAt(d, r)
      BY ReadAtFacts DEF WriteAt, GatewayCall, ProxyCall, Idle
    <2>2. inst = cache /\ stamps[d][r] = Latest(r)
      BY <1>3, <2>1 DEF OnTrack, WriteAt, GatewayCall, ProxyCall
    <2>3. dep'[d] = Desired(d)
      BY <1>3 DEF applyDeployment, TypeOK
    <2>4. /\ dep'[d].applied /\ dep'[d].refs[r] = cache[r]
          /\ dep'[d].stamps[r] = Latest(r)
      BY <2>2, <2>3 DEF Desired, RolledOut
    <2>5. ~ (pc' # Idle /\ pc' <= WriteAt(d))
      BY DEF WriteAt, GatewayCall, ProxyCall, Idle
    <2>6. Latest(r)' = Latest(r) /\ WriteAt(d)' = WriteAt(d)
      BY DEF Latest, WriteAt
    <2> QED
      BY <2>4, <2>5, <2>6 DEF Tracked, OnTrack
  <1> QED
    BY <1>1, <1>2, <1>3 DEF Tracked

\* Every step keeps track of what has to be rolled out.
LEMMA TrackedStep ==
  ASSUME TypeInv, TypeInv', StampsBehind, StampsBehind', AllTracked, [Next]_vars
  PROVE  AllTracked'
  <1>a. TypeOK /\ TypeOK'
    BY DEF TypeInv
  <1> SUFFICES ASSUME NEW d \in Deployments, NEW r \in RolledOut \cap Mounted(d)
               PROVE  Tracked(d, r)'
    BY DEF AllTracked, Mounted, RolledOut
  <1>b. Tracked(d, r) /\ r \in Refs \ {"persona"}
    BY DEF AllTracked, RolledOut
  <1>1. CASE Dequeue
    <2>1. pc' = 1 /\ inst' = cache'
      BY <1>1, Zenon DEF Dequeue, claw, GatewaySecretCall
    <2>2. ReadAt(d, r)' \in 6..12 /\ WriteAt(d)' \in 14..15
      BY ReadAtFacts DEF ReadAt, WriteAt, GatewayCall, ProxyCall
    <2> QED
      BY <2>1, <2>2 DEF Tracked, OnTrack, Idle
  <1>2. CASE applyGatewaySecret \/ applyProxyCA
    <2>1. /\ pc \in GatewaySecretCall..(GatewayCall - 1) /\ pc' = NextCall
          /\ pc \in {1, 3}
      BY <1>2 DEF applyGatewaySecret, applyProxyCA, GatewaySecretCall, ProxyCACall,
                  GatewayCall
    <2>2. UNCHANGED <<cache, inst, queued, object, dep, depCache, stamps>>
      BY <1>2 DEF applyGatewaySecret, applyProxyCA, claw, cluster
    <2>3. undelivered \subseteq undelivered'
      BY <1>2 DEF applyGatewaySecret, applyProxyCA, Generate
    <2>4. pc # ReadAt(d, r)
      BY <2>1, ReadAtFacts
    <2> QED
      BY <1>a, <1>b, <2>1, <2>2, <2>3, <2>4, CallKeepsTrack
  <1>3. CASE ReadReferences
    <2>1. /\ ReadCall /\ pc' = NextCall
          /\ UNCHANGED <<cache, inst, queued, object, undelivered, dep, depCache>>
      BY <1>3 DEF ReadReferences, claw, cluster, world
    <2>2. pc \in GatewaySecretCall..(GatewayCall - 1)
      BY <1>a, <2>1, CallFacts DEF TypeOK
    <2>3. CASE pc = ReadAt(d, r) /\ inst[r] # None
      BY <1>3, <1>a, <2>3, ReadKeepsTrack
    <2>4. CASE d \in Calls[pc].on /\ r \in Named(pc) /\ pc # ReadAt(d, r)
      <3>1. FALSE
        <4>1. pc \in {2, 4, 5, 6, 7, 8, 9, 10, 11, 12, 13}
          BY <2>1, <2>2 DEF ReadCall, WriteCalls, GatewaySecretCall, ProxyCACall,
                            GatewayCall, ProxyCall
        <4>2. /\ Calls[6] = [refs |-> {"github"}, on |-> {"proxy", "gateway"}, memo |-> FALSE]
              /\ Calls[8] = [refs |-> {"persona"}, on |-> {"gateway"}, memo |-> FALSE]
              /\ Calls[9] = [refs |-> {"credential", "channel", "webSearch"},
                             on |-> {"proxy"}, memo |-> TRUE]
              /\ Calls[10] = [refs |-> {"mcp"}, on |-> {"gateway"}, memo |-> FALSE]
              /\ Calls[11] = [refs |-> {"channel"}, on |-> {"gateway"}, memo |-> FALSE]
              /\ Calls[12] = [refs |-> {"git"}, on |-> {"gateway"}, memo |-> FALSE]
              /\ \A i \in {2, 4, 5, 7, 13} : Calls[i].on = {}
          BY DEF Calls, Call, validateRepoAccessSecrets,
                 stampRepoAccessSecretVersionAnnotation, stampSecretVersionAnnotation,
                 stampMcpSecretVersionAnnotation, stampChannelSecretVersionAnnotation,
                 stampGitSecretVersion, resolvePersonaRef, resolveCredentials,
                 validateMcpServerSecrets, validateWebSearchConfig, validateGitSecretRef,
                 resolveAuthPassword
        <4> QED
          BY <1>b, <2>4, <4>1, <4>2 DEF Named, ReadAt, Deployments
      <3> QED
        BY <3>1
    <2>5. CASE ~ (d \in Calls[pc].on /\ r \in Named(pc)) /\ ~ (pc = ReadAt(d, r) /\ inst[r] # None)
      <3>1. stamps'[d][r] = stamps[d][r]
        BY <1>3, <1>b, <2>5 DEF ReadReferences
      <3> QED
        BY <1>a, <1>b, <2>1, <2>2, <2>5, <3>1, CallKeepsTrack
    <2> QED
      BY <2>3, <2>4, <2>5 DEF Named
  <1>4. CASE ApplyGateway
    <2>1. /\ pc = 14 /\ pc' = 15 /\ applyDeployment("gateway")
          /\ UNCHANGED <<cache, inst, queued, stamps, object, undelivered, depCache>>
      BY <1>4 DEF ApplyGateway, applyDeployment, claw, world, GatewayCall, ProxyCall
    <2>2. CASE d = "gateway"
      BY <1>a, <1>b, <2>1, <2>2, WriteKeepsTrack DEF WriteAt, GatewayCall
    <2>3. CASE d = "proxy"
      <3>1. dep'[d] = dep[d] /\ WriteAt(d) = 15 /\ ReadAt(d, r) \in 6..12
        BY <1>a, <2>1, <2>3, ReadAtFacts DEF applyDeployment, TypeOK, WriteAt, ProxyCall
      <3>2. CASE queued \/ cache[r] \in undelivered \/ depCache[d] # dep[d]
        BY <2>1, <3>1, <3>2 DEF Tracked
      <3>3. CASE OnTrack(d, r)
        <4>1. inst = cache /\ stamps[d][r] = Latest(r)
          BY <2>1, <3>1, <3>3 DEF OnTrack, Idle
        <4> QED
          BY <2>1, <3>1, <4>1 DEF Tracked, OnTrack, Latest, WriteAt, Idle
      <3> QED
        BY <1>b, <3>2, <3>3 DEF Tracked
    <2> QED
      BY <2>2, <2>3 DEF Deployments
  <1>5. CASE ApplyProxy
    <2>1. /\ pc = 15 /\ pc' = Idle /\ applyDeployment("proxy")
          /\ UNCHANGED <<cache, queued, object, undelivered, depCache>>
      BY <1>5 DEF ApplyProxy, EndReconcile, applyDeployment, claw, world, ProxyCall
    <2>2. CASE d = "proxy"
      BY <1>a, <1>b, <2>1, <2>2, WriteKeepsTrack DEF WriteAt, ProxyCall, Idle
    <2>3. CASE d = "gateway"
      <3>1. dep'[d] = dep[d] /\ WriteAt(d) = 14
        BY <1>a, <2>1, <2>3 DEF applyDeployment, TypeOK, WriteAt, GatewayCall
      <3>2. CASE queued \/ cache[r] \in undelivered \/ depCache[d] # dep[d]
        BY <2>1, <3>1, <3>2 DEF Tracked
      <3>3. CASE OnTrack(d, r)
        <4>1. /\ dep[d].applied /\ dep[d].refs[r] = cache[r]
              /\ dep[d].stamps[r] = Latest(r)
          BY <2>1, <3>1, <3>3 DEF OnTrack
        <4> QED
          BY <2>1, <3>1, <4>1 DEF Tracked, OnTrack, Latest
      <3> QED
        BY <1>b, <3>2, <3>3 DEF Tracked
    <2> QED
      BY <2>2, <2>3 DEF Deployments
  <1>6. CASE Fail \/ ClawSync
    BY <1>6 DEF Fail, ClawSync, Tracked
  <1>7. CASE SecretSync
    <2>1. /\ UNCHANGED <<cache, inst, object, pc, stamps, dep, depCache>>
          /\ queued \/ (\E s \in undelivered : clawReferencesSecret(cache, s)) => queued'
      BY <1>7, Zenon DEF SecretSync, claw, cluster
    <2>2. cache[r] \in undelivered => queued'
      BY <1>b, <2>1 DEF clawReferencesSecret
    <2>3. CASE queued \/ cache[r] \in undelivered \/ depCache[d] # dep[d]
      BY <2>1, <2>2, <2>3 DEF Tracked
    <2>4. CASE OnTrack(d, r)
      BY <2>1, <2>4 DEF Tracked, OnTrack, Latest, WriteAt, ReadAt
    <2> QED
      BY <1>b, <2>3, <2>4 DEF Tracked
  <1>8. ASSUME NEW e \in Deployments, DeploymentSync(e) PROVE Tracked(d, r)'
    BY <1>8 DEF DeploymentSync, Tracked
  <1>9. ASSUME NEW e \in Deployments, PodStart(e) \/ PodRestart(e) PROVE Tracked(d, r)'
    BY <1>9, <1>b, TrackedStays DEF PodStart, PodRestart, claw, world
  <1>10. CASE EditSpec \/ UNCHANGED vars
    BY <1>10, <1>b, TrackedStays DEF EditSpec, cluster, vars
  <1>11. ASSUME NEW o \in Objects, ObjectChange(o) PROVE Tracked(d, r)'
    <2>1. /\ UNCHANGED <<cache, inst, queued, pc, stamps, dep, depCache>>
          /\ undelivered' = undelivered \cup ({o} \cap Secrets)
          /\ \A q \in Objects \ {o} : object'[q] = object[q]
      BY <1>11, <1>a DEF ObjectChange, claw, cluster, TypeOK
    <2>2. cache[r] \in Secrets \cup {None} /\ None \notin Objects
      BY <1>a, <1>b, ConstantsAssumption DEF TypeOK
    <2>3. CASE cache[r] = o
      BY <2>1, <2>2, <2>3 DEF Tracked
    <2>4. CASE cache[r] # o
      <3>1. Latest(r)' = Latest(r)
        BY <2>1, <2>2, <2>4 DEF Latest, Objects
      <3>2. CASE queued \/ cache[r] \in undelivered \/ depCache[d] # dep[d]
        BY <2>1, <3>2 DEF Tracked
      <3>3. CASE OnTrack(d, r)
        BY <2>1, <3>1, <3>3 DEF Tracked, OnTrack, WriteAt, ReadAt
      <3> QED
        BY <1>b, <3>2, <3>3 DEF Tracked
    <2> QED
      BY <2>3, <2>4
  <1>12. ASSUME NEW o \in Deletable, DeleteOwn(o) PROVE Tracked(d, r)'
    BY <1>12, <1>b, TrackedStays DEF DeleteOwn, claw, cluster
  <1> QED
    BY <1>1, <1>2, <1>3, <1>4, <1>5, <1>6, <1>7, <1>8, <1>9, <1>10, <1>11, <1>12
    DEF Next, Reconcile

\* A new Claw satisfies the invariant: its key is queued.
LEMMA InitInv == Init => Inv
  <1> SUFFICES ASSUME Init PROVE Inv
    OBVIOUS
  <1>1. \A d \in Deployments :
          stamps[d] = NoStamps /\ dep[d] = NoTemplate /\ pod[d] = NoPod
    BY DEF Init
  <1>2. StampsBehind /\ DepsBehind /\ PodsBehind
    BY <1>1 DEF StampsBehind, DepsBehind, PodsBehind, Behind, NoStamps, NoTemplate, NoPod
  <1>3. LoadedCoversStamp /\ LoadedExists /\ OnlyAppliedRun
    BY <1>1 DEF LoadedCoversStamp, LoadedExists, OnlyAppliedRun, NoStamps, NoRefs,
                NoTemplate, NoPod
  <1>4. AllTracked
    BY DEF Init, AllTracked, Tracked
  <1> QED
    BY <1>2, <1>3, <1>4, InitType DEF Inv, PodsInv

\* Every step preserves the invariant.
LEMMA NextInv == Inv /\ [Next]_vars => Inv'
  <1> SUFFICES ASSUME Inv, [Next]_vars PROVE Inv'
    OBVIOUS
  <1>1. TypeInv'
    BY NextType DEF Inv
  <1>2. StampsBehind'
    BY <1>1, StampsStep DEF Inv
  <1>3. DepsBehind' /\ PodsInv'
    BY <1>1, DepsStep, PodsStep DEF Inv
  <1>4. AllTracked'
    BY <1>1, <1>2, TrackedStep DEF Inv
  <1> QED
    BY <1>1, <1>2, <1>3, <1>4 DEF Inv

\* The inductive invariant holds in every state.
THEOREM Invariance == Spec => []Inv
  BY InitInv, NextInv, PTL DEF Spec

\* The state of the roll-out stays well typed.
THEOREM TypeCorrect == Spec => []TypeOK
  <1>1. Inv => TypeOK
    BY DEF Inv, TypeInv
  <1> QED
    BY <1>1, Invariance, PTL

\* No pod runs with a version older than the one stamped on its template
\* (stampSecretVersionAnnotation and its siblings, userSecretCache), whatever
\* the informers have delivered.
THEOREM StampsCovered == Spec => []LoadedCoversStamp
  <1>1. Inv => LoadedCoversStamp
    BY DEF Inv, PodsInv
  <1> QED
    BY <1>1, Invariance, PTL

\* An operator at rest has rolled out the latest version of every Secret that
\* is watched and stamped, in whatever order Secrets were read, rotated and
\* reported and the spec was edited (Reconcile, findClawsReferencingSecret).
THEOREM RolledOutWhenQuiet == Spec => []RolledOutAtRest
  <1>1. Inv => RolledOutAtRest
    <2> SUFFICES ASSUME Inv, Quiescent, NEW d \in Deployments,
                        NEW r \in RolledOut \cap Mounted(d)
                 PROVE  /\ pod[d].up /\ pod[d].template.refs[r] = spec[r]
                        /\ spec[r] # None => pod[d].loaded[r] = object[spec[r]].rv
      BY DEF RolledOutAtRest, UpToDate
    <2>1. TypeOK /\ Tracked(d, r) /\ r \in Refs
      BY DEF Inv, TypeInv, AllTracked, RolledOut
    <2>2. OnTrack(d, r) /\ cache = spec /\ pod[d].template = dep[d] /\ pc = Idle
      BY <2>1 DEF Quiescent, Tracked
    <2>3. /\ pod[d].template.applied /\ pod[d].template.refs[r] = spec[r]
          /\ pod[d].template.stamps[r] = Latest(r)
      BY <2>2 DEF OnTrack
    <2>4. pod[d].up
      BY <2>3 DEF Inv, PodsInv, OnlyAppliedRun
    <2>5. ASSUME spec[r] # None PROVE pod[d].loaded[r] = object[spec[r]].rv
      <3>1. pod[d].template.stamps[r] = object[spec[r]].rv
        BY <2>2, <2>3, <2>5 DEF Latest
      <3>2. pod[d].template.stamps[r] <= pod[d].loaded[r]
        BY <2>1 DEF Inv, PodsInv, LoadedCoversStamp
      <3>3. pod[d].loaded[r] <= object[spec[r]].rv
        BY <2>1, <2>3, <2>5 DEF Inv, PodsInv, LoadedExists
      <3>4. pod[d].loaded[r] \in Nat /\ pod[d].template.stamps[r] \in Nat
        BY <2>1, ConstantsAssumption DEF TypeOK, Pods, Templates, Versions
      <3> QED
        BY <3>1, <3>2, <3>3, <3>4
    <2> QED
      BY <2>3, <2>4, <2>5
  <1> QED
    BY <1>1, Invariance, PTL

-----------------------------------------------------------------------------
(* The operator's own Secrets *)

\* The steps that leave the operator's own Secrets, their copies, the worker and
\* the pods alone.
Elsewhere ==
    \/ ApplyGateway \/ ApplyProxy \/ Fail \/ ClawSync \/ EditSpec
    \/ ReadReferences
    \/ \E d \in Deployments : DeploymentSync(d)
    \/ \E o \in Objects : ObjectChange(o)

\* Nothing but the informer and the writes of the Secrets touches them.
LEMMA ElsewhereFacts ==
  ASSUME TypeOK, Elsewhere \/ UNCHANGED vars
  PROVE  /\ UNCHANGED <<own, ownCache, pod>> /\ undelivered \subseteq undelivered'
         /\ pc' = pc \/ pc' = Idle \/ pc' > GatewaySecretCall
         /\ pc' \in GatewaySecretCall..ProxyCACall => pc \in GatewaySecretCall..ProxyCACall
  <1> USE DEF Idle, GatewaySecretCall, ProxyCACall, GatewayCall, ProxyCall
  <1>1. UNCHANGED <<own, ownCache, pod>> /\ undelivered \subseteq undelivered'
    <2>1. UNCHANGED <<own, ownCache, pod>>
      BY Zenon DEF Elsewhere, ApplyGateway, ApplyProxy, applyDeployment, Fail, ClawSync,
             EditSpec, ReadReferences, DeploymentSync, ObjectChange, vars, operator,
             cluster
    <2>2. undelivered' = undelivered \/ \E o \in Objects : ObjectChange(o)
      BY Zenon DEF Elsewhere, ApplyGateway, ApplyProxy, Fail, ClawSync, EditSpec,
                   ReadReferences, DeploymentSync, vars, world
    <2> QED
      BY <2>1, <2>2 DEF ObjectChange
  <1>2. CASE ReadReferences
    <2>1. pc \in GatewaySecretCall..(GatewayCall - 1) /\ pc' = NextCall
      BY <1>2, CallFacts DEF ReadReferences, TypeOK
    <2>2. pc' \in (pc + 1)..GatewayCall
      BY <2>1, NextCallFacts
    <2> QED
      BY <1>1, <2>1, <2>2
  <1>3. CASE ApplyGateway
    BY <1>1, <1>3 DEF ApplyGateway
  <1>4. CASE ApplyProxy \/ Fail
    BY <1>1, <1>4 DEF ApplyProxy, Fail, EndReconcile
  <1>5. CASE ClawSync \/ EditSpec \/ UNCHANGED vars
             \/ (\E d \in Deployments : DeploymentSync(d))
             \/ (\E o \in Objects : ObjectChange(o))
    <2>1. pc' = pc
      BY <1>5, Zenon DEF ClawSync, EditSpec, DeploymentSync, ObjectChange, vars
    <2> QED
      BY <1>1, <2>1
  <1> QED
    BY <1>2, <1>3, <1>4, <1>5 DEF Elsewhere

\* Copies of own Secrets are exact up to undelivered events.
LEMMA OwnCacheStep ==
  ASSUME TypeOK, OwnCacheExact, [Next]_vars
  PROVE  OwnCacheExact'
  <1>1. CASE Dequeue \/ (\E d \in Deployments : PodStart(d) \/ PodRestart(d))
    BY <1>1 DEF Dequeue, PodStart, PodRestart, operator, world, OwnCacheExact
  <1>2. ASSUME NEW o \in Own, Generate(o), UNCHANGED ownCache PROVE OwnCacheExact'
    BY <1>2 DEF Generate, OwnCacheExact, TypeOK
  <1>3. CASE applyGatewaySecret
    <2>1. CASE ownCache["token"] # 0
      <3>1. /\ own' = [own EXCEPT !["token"] = ownCache["token"]]
            /\ undelivered \subseteq undelivered' /\ ownCache' = ownCache
            /\ own' # own => "token" \in undelivered'
        BY <1>3, <2>1 DEF applyGatewaySecret
      <3> QED
        BY <3>1 DEF OwnCacheExact, TypeOK
    <2>2. CASE ownCache["token"] = 0
      BY <1>2, <1>3, <2>2 DEF applyGatewaySecret, Own
    <2> QED
      BY <2>1, <2>2
  <1>4. CASE applyProxyCA
    <2>1. CASE ownCache["ca"] # 0
      BY <1>4, <2>1 DEF applyProxyCA, OwnCacheExact
    <2>2. CASE ownCache["ca"] = 0
      BY <1>2, <1>4, <2>2 DEF applyProxyCA, Own
    <2> QED
      BY <2>1, <2>2
  <1>5. CASE SecretSync
    BY <1>5 DEF SecretSync, OwnCacheExact
  <1>6. ASSUME NEW o \in Deletable, DeleteOwn(o) PROVE OwnCacheExact'
    BY <1>6, ConstantsAssumption DEF DeleteOwn, OwnCacheExact, TypeOK
  <1>7. CASE Elsewhere \/ UNCHANGED vars
    <2>1. UNCHANGED <<own, ownCache>> /\ undelivered \subseteq undelivered'
      BY <1>7, ElsewhereFacts
    <2> QED
      BY <2>1 DEF OwnCacheExact
  <1> QED
    BY <1>1, <1>3, <1>4, <1>5, <1>6, <1>7 DEF Next, Reconcile, Elsewhere

\* A Reconcile that has not applied the token yet knows it or finds it deleted.
LEMMA TokenStep ==
  ASSUME OwnWritesLag = FALSE, TypeOK, TokenInv, [Next]_vars
  PROVE  TokenInv'
  <1>a. OwnCacheExact'
    BY OwnCacheStep DEF TokenInv
  <1>b. "token" \in Own
    BY DEF Own
  <1>1. CASE Dequeue
    BY <1>1, <1>a, <1>b DEF Dequeue, operator, TokenInv, OwnCacheExact, TokenKnown
  <1>2. CASE applyGatewaySecret \/ applyProxyCA
    <2>1. pc \in GatewaySecretCall..(GatewayCall - 1) /\ pc' = NextCall
      BY <1>2 DEF applyGatewaySecret, applyProxyCA, GatewaySecretCall, ProxyCACall,
                  GatewayCall
    <2>2. pc' # GatewaySecretCall
      BY <2>1, NextCallFacts DEF GatewaySecretCall, GatewayCall
    <2> QED
      BY <1>a, <2>2 DEF TokenInv, TokenKnown
  <1>3. CASE SecretSync
    BY <1>3, <1>a DEF SecretSync, TokenInv, TokenKnown
  <1>4. ASSUME NEW d \in Deployments, PodStart(d) \/ PodRestart(d) PROVE TokenInv'
    BY <1>4, <1>a DEF PodStart, PodRestart, operator, TokenInv, TokenKnown
  <1>5. ASSUME NEW o \in Deletable, DeleteOwn(o) PROVE TokenInv'
    <2>1. own'["token"] \in {0, own["token"]} /\ UNCHANGED <<ownCache, pc>>
      BY <1>5, <1>b, ConstantsAssumption DEF DeleteOwn, TypeOK
    <2> QED
      BY <1>a, <2>1 DEF TokenInv, TokenKnown
  <1>6. CASE Elsewhere \/ UNCHANGED vars
    <2>1. UNCHANGED <<own, ownCache>>
          /\ (pc' = pc \/ pc' = Idle \/ pc' > GatewaySecretCall)
      BY <1>6, ElsewhereFacts
    <2> QED
      BY <1>a, <2>1 DEF TokenInv, TokenKnown, Idle, GatewaySecretCall
  <1> QED
    BY <1>1, <1>2, <1>3, <1>4, <1>5, <1>6 DEF Next, Reconcile, Elsewhere

\* When a Reconcile sees the Secrets the previous one generated, the gateway
\* token changes only through a deletion (applyGatewaySecret).
THEOREM TokenKept ==
  ASSUME OwnWritesLag = FALSE
  PROVE  Spec => TokenPreserved
  <1> DEFINE Kept == own["token"] # 0 /\ own'["token"] # 0 => own'["token"] = own["token"]
  <1>1. Init => TokenInv
    BY DEF Init, TokenInv, OwnCacheExact, TokenKnown, Idle, GatewaySecretCall
  <1>2. Inv /\ TokenInv /\ [Next]_vars => TokenInv'
    BY TokenStep DEF Inv, TypeInv
  <1>3. Inv /\ TokenInv /\ [Next]_vars => [Kept]_vars
    <2> SUFFICES ASSUME Inv, TokenInv, [Next]_vars, own' # own PROVE Kept
      BY DEF vars
    <2>a. TypeOK /\ "token" \in Own
      BY DEF Inv, TypeInv, Own
    <2>1. CASE applyGatewaySecret
      <3>1. own["token"] \in {0, ownCache["token"]}
        BY <2>1 DEF applyGatewaySecret, TokenInv, TokenKnown
      <3>2. ownCache["token"] # 0 => own'["token"] = ownCache["token"]
        BY <2>1, <2>a DEF applyGatewaySecret, TypeOK
      <3> QED
        BY <3>1, <3>2
    <2>2. CASE applyProxyCA
      BY <2>2, <2>a DEF applyProxyCA, Generate, TypeOK
    <2>3. ASSUME NEW o \in Deletable, DeleteOwn(o) PROVE Kept
      BY <2>3, <2>a, ConstantsAssumption DEF DeleteOwn, TypeOK
    <2>4. CASE Dequeue \/ SecretSync \/ (\E d \in Deployments : PodStart(d) \/ PodRestart(d))
      BY <2>4, Zenon DEF Dequeue, SecretSync, PodStart, PodRestart, operator
    <2>5. CASE Elsewhere \/ UNCHANGED vars
      BY <2>5, <2>a, ElsewhereFacts
    <2> QED
      BY <2>1, <2>2, <2>3, <2>4, <2>5 DEF Next, Reconcile, Elsewhere
  <1> QED
    BY <1>1, <1>2, <1>3, Invariance, PTL DEF Spec, TokenPreserved

\* Nobody generates a second CA, and every pod has the one there is.
LEMMA CAStep ==
  ASSUME OwnWritesLag = FALSE, "ca" \notin Deletable, TypeOK, CAInv, [Next]_vars
  PROVE  CAInv'
  <1>a. OwnCacheExact'
    BY OwnCacheStep DEF CAInv
  <1>b. "ca" \in Own /\ "token" \in Own
    BY DEF Own
  <1>c. ASSUME own'["ca"] = own["ca"], ownCache' = ownCache, pod' = pod,
               pc' \in GatewaySecretCall..ProxyCACall => pc \in GatewaySecretCall..ProxyCACall
        PROVE  CAInv'
    BY <1>a, <1>c DEF CAInv, CAKnown, OneCA
  <1>1. CASE Dequeue
    <2>1. undelivered \cap Own = {} /\ UNCHANGED <<own, ownCache, pod>>
      BY <1>1 DEF Dequeue, operator, cluster
    <2> QED
      BY <1>a, <1>b, <2>1 DEF CAInv, OwnCacheExact, CAKnown, OneCA
  <1>2. CASE applyGatewaySecret
    <2>1. own'["ca"] = own["ca"] /\ UNCHANGED <<ownCache, pod>>
      BY <1>2, <1>b DEF applyGatewaySecret, Generate, TypeOK, cluster
    <2> QED
      BY <1>2, <1>c, <2>1 DEF applyGatewaySecret, GatewaySecretCall, ProxyCACall
  <1>3. CASE applyProxyCA
    <2>1. ownCache["ca"] = own["ca"] /\ UNCHANGED <<ownCache, pod>>
      BY <1>3 DEF applyProxyCA, CAInv, CAKnown, GatewaySecretCall, ProxyCACall, cluster
    <2>2. pc' \notin GatewaySecretCall..ProxyCACall
      BY <1>3, NextCallFacts DEF applyProxyCA, GatewaySecretCall, ProxyCACall, GatewayCall
    <2>3. CASE own["ca"] # 0
      BY <1>3, <1>c, <2>1, <2>2, <2>3 DEF applyProxyCA
    <2>4. CASE own["ca"] = 0
      <3>1. \A d \in Deployments : ~ pod[d].up
        BY <2>4 DEF CAInv, OneCA
      <3> QED
        BY <1>a, <2>1, <2>2, <3>1 DEF CAInv, CAKnown, OneCA
    <2> QED
      BY <2>3, <2>4
  <1>4. CASE SecretSync
    BY <1>4, <1>a DEF SecretSync, cluster, CAInv, CAKnown, OneCA
  <1>5. ASSUME NEW d \in Deployments, PodStart(d) \/ PodRestart(d) PROVE CAInv'
    <2>1. UNCHANGED <<own, ownCache, pc>>
      BY <1>5 DEF PodStart, PodRestart, operator
    <2>2. PICK t : Started(d, t)
      BY <1>5 DEF PodStart, PodRestart
    <2>3. pod'[d].ca = own["ca"] /\ \A e \in Deployments \ {d} : pod'[e] = pod[e]
      BY <2>2 DEF Started, TypeOK
    <2>4. own["ca"] # 0
      BY <2>2, <1>b DEF Started
    <2> QED
      BY <1>a, <2>1, <2>3, <2>4 DEF CAInv, CAKnown, OneCA
  <1>6. ASSUME NEW o \in Deletable, DeleteOwn(o) PROVE CAInv'
    <2>1. own'["ca"] = own["ca"] /\ UNCHANGED <<ownCache, pod, pc>>
      BY <1>6, <1>b, ConstantsAssumption DEF DeleteOwn, TypeOK, cluster
    <2> QED
      BY <1>c, <2>1
  <1>7. CASE Elsewhere \/ UNCHANGED vars
    BY <1>7, <1>c, ElsewhereFacts
  <1> QED
    BY <1>1, <1>2, <1>3, <1>4, <1>5, <1>6, <1>7 DEF Next, Reconcile, Elsewhere

\* ... and as long as nobody deletes the CA, gateway and proxy have loaded the
\* same one, whenever their pods started or restarted (applyProxyCA).
THEOREM OneCALoaded ==
  ASSUME OwnWritesLag = FALSE, "ca" \notin Deletable
  PROVE  Spec => []GatewayTrustsProxy
  <1>1. Init => CAInv
    BY DEF Init, CAInv, OwnCacheExact, CAKnown, OneCA, NoPod, Idle, GatewaySecretCall,
           ProxyCACall
  <1>2. Inv /\ CAInv /\ [Next]_vars => CAInv'
    BY CAStep DEF Inv, TypeInv
  <1>3. CAInv => GatewayTrustsProxy
    BY DEF CAInv, OneCA, GatewayTrustsProxy, Deployments
  <1> QED
    BY <1>1, <1>2, <1>3, Invariance, PTL DEF Spec
=============================================================================
