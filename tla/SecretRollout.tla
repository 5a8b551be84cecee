----------------------------- MODULE SecretRollout -----------------------------
(***************************************************************************)
(* How a change of a user's Secret reaches the pods of a Claw, and how the *)
(* operator keeps the two Secrets it owns (gateway token, proxy CA).       *)
(*                                                                         *)
(* Pods read Secrets when their containers start.  Reconcile therefore     *)
(* stamps the resourceVersion of every referenced Secret on the pod        *)
(* templates: a new version makes a new template, a new template new pods. *)
(* User Secrets are read from the API server one after the other, each at  *)
(* its own moment of a Reconcile; the Secrets the operator owns are read   *)
(* through a cache.  A Secret's event is mapped to the Claws that          *)
(* reference it in the Claw cache.                                         *)
(*                                                                         *)
(* The Claw of this module is neither idled nor migrated, its Route has a  *)
(* host and its spec is valid apart from the Secrets; the status is        *)
(* ClawLifecycle's.                                                        *)
(***************************************************************************)
EXTENDS Integers, Sequences

CONSTANTS
    Secrets,       \* the user's Secrets
    ConfigMaps,    \* the user's ConfigMaps, for persona files
    Specs,         \* the references the user may put in the spec
    Deletable,     \* the operator's own Secrets the user may delete
    OwnWritesLag,  \* a Reconcile may miss a Secret the previous one generated
    MaxGenerated,  \* bound: tokens and CAs generated
    MaxChanges     \* bound: changes the user makes

None == "none"

\* The places of the spec that name a Secret; persona names a ConfigMap.
Refs == {"credential", "channel", "webSearch", "mcp", "github", "git",
         "password", "persona"}

Objects == Secrets \cup ConfigMaps

Own == {"token", "ca"}

ASSUME ConstantsAssumption ==
    /\ None \notin Objects
    /\ Specs \subseteq [Refs -> Objects \cup {None}]
    /\ \A s \in Specs : \A r \in Refs \ {"persona"} : s[r] \in Secrets \cup {None}
    /\ Specs # {}
    /\ Deletable \subseteq Own
    /\ OwnWritesLag \in BOOLEAN
    /\ MaxGenerated \in Nat
    /\ MaxChanges \in Nat

VARIABLES
    spec,         \* the references of the Claw in the API server
    cache,        \* ... in the Claw informer's copy
    inst,         \* ... in the copy Reconcile works on
    object,       \* the user's Secrets and ConfigMaps in the API server
    undelivered,  \* Secrets with events the informer has not delivered yet
    queued,       \* the key is in the work queue
    pc,           \* where the worker is in Reconcile
    stamps,       \* the annotations this Reconcile has put on the templates
    dep,          \* the Deployments' templates in the API server
    depCache,     \* ... in the Deployment informer's copies
    pod,          \* the pod of each Deployment
    own,          \* the operator's own Secrets, by the value they hold
    ownCache,     \* ... in the Secret informer's copies
    generated,    \* values generated so far
    changes       \* changes the user has made so far

vars == <<spec, cache, inst, object, undelivered, queued, pc, stamps, dep,
          depCache, pod, own, ownCache, generated, changes>>

Deployments == {"gateway", "proxy"}

\* usable: the object exists and has the key the spec names.
UserObjects == [rv: 1..(MaxChanges + 1), usable: BOOLEAN]

\* resourceVersions; every change of an object makes the next one.
Versions == 0..(MaxChanges + 1)

\* applied: the Deployment exists.
Templates == [applied: BOOLEAN, refs: [Refs -> Objects \cup {None}],
              stamps: [Refs -> Versions]]

NoStamps == [r \in Refs |-> 0]
NoRefs == [r \in Refs |-> None]
NoTemplate == [applied |-> FALSE, refs |-> NoRefs, stamps |-> NoStamps]

\* 0 for an own Secret: it does not exist.  up: the pod has started, with the
\* versions it loaded and the CA it found.
Values == 0..MaxGenerated

Pods == [up: BOOLEAN, template: Templates, loaded: [Refs -> Versions], ca: Values]

NoPod == [up |-> FALSE, template |-> NoTemplate, loaded |-> NoStamps, ca |-> 0]

-----------------------------------------------------------------------------
(* What Reconcile reads and what the pods mount *)

\* The references each Deployment's template mounts or takes environment
\* variables from.
configureProxyForCredentials == {"credential", "channel", "github"}
configureProxyForWebSearch == {"webSearch"}
configureGatewayForMcpServers == {"mcp"}
configureGatewayForChannels == {"channel"}
configureGatewayForRepoAccess == {"github"}
configureClawDeploymentForAuth == {"password"}
configureAgentFiles == {"git"}
configurePersonaGuard == {"persona"}

Mounted(d) ==
    IF d = "proxy"
    THEN configureProxyForCredentials \cup configureProxyForWebSearch
    ELSE configureGatewayForMcpServers \cup configureGatewayForChannels
           \cup configureGatewayForRepoAccess \cup configureClawDeploymentForAuth
           \cup configureAgentFiles \cup configurePersonaGuard

\* A call of Reconcile: the references it reads and the templates it stamps
\* with their versions (none for a validation).  memo: an object that repository
\* access has read in this Reconcile is not read again.
Call(refs, on, memo) == [refs |-> refs, on |-> on, memo |-> memo]

\* (Mutant) The annotation of the git Secret is forgotten.
stampGitNothing == Call({"git"}, {}, FALSE)

resolveCredentials == Call({"credential", "channel"}, {}, FALSE)
validateMcpServerSecrets == Call({"mcp"}, {}, FALSE)
validateWebSearchConfig == Call({"webSearch"}, {}, FALSE)

\* Both stamps of the GitHub Secret, this one and the one on the proxy, use the
\* copy that the validation memoises.
stampRepoAccessSecretVersionAnnotation == {"gateway"}
validateRepoAccessSecrets ==
    Call({"github"}, {"proxy"} \cup stampRepoAccessSecretVersionAnnotation, FALSE)
validateGitSecretRef == Call({"git"}, {}, FALSE)

\* The data is read once; its hash is stamped on the gateway.
resolvePersonaRef == Call({"persona"}, {"gateway"}, FALSE)
stampSecretVersionAnnotation ==
    Call({"credential", "channel", "webSearch"}, {"proxy"}, TRUE)
stampMcpSecretVersionAnnotation == Call({"mcp"}, {"gateway"}, FALSE)
stampChannelSecretVersionAnnotation == Call({"channel"}, {"gateway"}, FALSE)
stampGitSecretVersion == Call({"git"}, {"gateway"}, FALSE)
resolveAuthPassword == Call({"password"}, {}, FALSE)

\* A call that writes.
Write == Call({}, {}, FALSE)

\* The calls of Reconcile in their order.
Calls ==
    << Write,                                \* applyGatewaySecret
       resolveCredentials,
       Write,                                \* applyProxyCA
       validateMcpServerSecrets,
       validateWebSearchConfig,
       validateRepoAccessSecrets,
       validateGitSecretRef,
       resolvePersonaRef,
       stampSecretVersionAnnotation,
       stampMcpSecretVersionAnnotation,
       stampChannelSecretVersionAnnotation,
       stampGitSecretVersion,
       resolveAuthPassword,
       Write,                                \* the gateway Deployment
       Write >>                              \* the proxy Deployment

Idle == 0
GatewaySecretCall == 1
ProxyCACall == 3
GatewayCall == 14
ProxyCall == 15
WriteCalls == {GatewaySecretCall, ProxyCACall, GatewayCall, ProxyCall}

-----------------------------------------------------------------------------
TypeOK ==
    /\ spec \in Specs
    /\ cache \in Specs
    /\ inst \in Specs
    /\ object \in [Objects -> UserObjects]
    /\ undelivered \subseteq Secrets \cup Own
    /\ queued \in BOOLEAN
    /\ pc \in 0..ProxyCall
    /\ stamps \in [Deployments -> [Refs -> Versions]]
    /\ dep \in [Deployments -> Templates]
    /\ depCache \in [Deployments -> Templates]
    /\ pod \in [Deployments -> Pods]
    /\ own \in [Own -> Values]
    /\ ownCache \in [Own -> Values]
    /\ generated \in Values
    /\ changes \in 0..MaxChanges

\* The user has created the Secrets and a Claw.
Init ==
    /\ spec \in Specs
    /\ cache = spec
    /\ inst = spec
    /\ object = [o \in Objects |-> [rv |-> 1, usable |-> TRUE]]
    /\ undelivered = {}
    /\ queued = TRUE
    /\ pc = Idle
    /\ stamps = [d \in Deployments |-> NoStamps]
    /\ dep = [d \in Deployments |-> NoTemplate]
    /\ depCache = dep
    /\ pod = [d \in Deployments |-> NoPod]
    /\ own = [o \in Own |-> 0]
    /\ ownCache = own
    /\ generated = 0
    /\ changes = 0

claw     == <<spec, cache>>
cluster  == <<dep, depCache, pod>>
operator == <<own, ownCache, generated>>
world    == <<object, undelivered, changes>>

-----------------------------------------------------------------------------
(* Reconcile *)

Named(i) == {r \in Calls[i].refs : inst[r] # None}

\* Calls for which the spec has nothing to read return at once.
Acts(i) == i \in WriteCalls \/ Named(i) # {}

NextCall ==
    CHOOSE i \in (pc + 1)..ProxyCall :
        Acts(i) /\ \A j \in (pc + 1)..(i - 1) : ~ Acts(j)

Dequeue ==
    /\ pc = Idle
    /\ queued
    /\ OwnWritesLag \/ undelivered \cap Own = {}
    /\ queued' = FALSE
    /\ inst' = cache
    /\ pc' = GatewaySecretCall
    /\ UNCHANGED <<claw, stamps, cluster, operator, world>>

\* (Mutant) The worker goes on after the last call.
EndReconcileLate ==
    /\ pc' = pc + 1
    /\ inst' = cache
    /\ stamps' = [d \in Deployments |-> NoStamps]

\* The copy and what was put on the templates are dropped.
EndReconcile ==
    /\ pc' = Idle
    /\ inst' = cache
    /\ stamps' = [d \in Deployments |-> NoStamps]

\* A new random value; SSA with force creates or overwrites the Secret.
Generate(o) ==
    /\ generated < MaxGenerated
    /\ generated' = generated + 1
    /\ own' = [own EXCEPT ![o] = generated + 1]
    /\ undelivered' = undelivered \cup {o}

\* (Mutant) The token of every Reconcile is a new one.
applyNewGatewaySecret ==
    /\ pc = GatewaySecretCall
    /\ Generate("token")
    /\ pc' = NextCall
    /\ UNCHANGED <<claw, inst, queued, stamps, cluster, ownCache, object, changes>>

\* A token the cache shows is applied again, else one is generated.
applyGatewaySecret ==
    /\ pc = GatewaySecretCall
    /\ IF ownCache["token"] # 0
       THEN /\ own' = [own EXCEPT !["token"] = ownCache["token"]]
            /\ undelivered' = IF own' = own THEN undelivered
                              ELSE undelivered \cup {"token"}
            /\ UNCHANGED generated
       ELSE Generate("token")
    /\ pc' = NextCall
    /\ UNCHANGED <<claw, inst, queued, stamps, cluster, ownCache, object, changes>>

\* (Mutant) A new CA for every Reconcile.
applyNewProxyCA ==
    /\ pc = ProxyCACall
    /\ Generate("ca")
    /\ pc' = NextCall
    /\ UNCHANGED <<claw, inst, queued, stamps, cluster, ownCache, object, changes>>

\* A CA the cache shows is left alone, else one is generated.
applyProxyCA ==
    /\ pc = ProxyCACall
    /\ IF ownCache["ca"] # 0 THEN UNCHANGED <<own, undelivered, generated>>
       ELSE Generate("ca")
    /\ pc' = NextCall
    /\ UNCHANGED <<claw, inst, queued, stamps, cluster, ownCache, object, changes>>

\* (Mutant) The memo ignores the name it is asked for.
memoisedAny(r) == Calls[pc].memo /\ inst["github"] # None

\* userSecretCache: the name has been read for repository access.
memoised(r) == Calls[pc].memo /\ inst["github"] # None /\ inst[r] = inst["github"]

Version(r) ==
    IF memoised(r) THEN stamps["proxy"]["github"] ELSE object[inst[r]].rv

\* Repository access and persona are stamped from the copy that was validated.
Validates == Calls[pc].on = {} \/ Named(pc) \cap {"github", "persona"} # {}

\* A validation needs the object and its key, a stamp only the object.
Missing(r) == ~ memoised(r) /\ ~ object[inst[r]].usable

ReadCall == pc # Idle /\ pc \notin WriteCalls

ReadReferences ==
    /\ ReadCall
    /\ Validates => \A r \in Named(pc) : ~ Missing(r)
    /\ stamps' = [d \in Deployments |-> [r \in Refs |->
                    IF d \in Calls[pc].on /\ r \in Named(pc) THEN Version(r)
                    ELSE stamps[d][r]]]
    /\ pc' = NextCall
    /\ UNCHANGED <<claw, inst, queued, cluster, operator, world>>

\* The template as this Reconcile has built it.
Desired(d) ==
    [applied |-> TRUE,
     refs |-> [r \in Refs |-> IF r \in Mounted(d) THEN inst[r] ELSE None],
     stamps |-> stamps[d]]

\* CreateOrUpdate: nothing to write if the cached template is as desired, else
\* a write that is refused when the cache is stale.
applyDeployment(d) ==
    /\ \/ depCache[d] = Desired(d) /\ UNCHANGED dep
       \/ /\ depCache[d] # Desired(d)
          /\ depCache[d] = dep[d]
          /\ dep' = [dep EXCEPT ![d] = Desired(d)]
    /\ UNCHANGED <<depCache, pod>>

applyRefused(d) == depCache[d] # Desired(d) /\ depCache[d] # dep[d]

ApplyGateway ==
    /\ pc = GatewayCall
    /\ applyDeployment("gateway")
    /\ pc' = ProxyCall
    /\ UNCHANGED <<claw, inst, queued, stamps, operator, world>>

ApplyProxy ==
    /\ pc = ProxyCall
    /\ applyDeployment("proxy")
    /\ EndReconcile
    /\ UNCHANGED <<claw, queued, operator, world>>

\* A Secret is missing or lacks its key, or a cached Deployment is stale.
Refused ==
    \/ ReadCall /\ \E r \in Named(pc) : Missing(r)
    \/ pc = GatewayCall /\ applyRefused("gateway")
    \/ pc = ProxyCall /\ applyRefused("proxy")

\* The error is returned and the controller requeues the key.
Fail ==
    /\ Refused
    /\ EndReconcile
    /\ queued' = TRUE
    /\ UNCHANGED <<claw, cluster, operator, world>>

-----------------------------------------------------------------------------
(* Informers *)

ClawSync ==
    /\ cache # spec
    /\ cache' = spec
    /\ queued' = TRUE
    /\ inst' = IF pc = Idle THEN spec ELSE inst
    /\ UNCHANGED <<spec, pc, stamps, cluster, operator, world>>

\* (Mutant) Only credentials are searched for the Secret's name.
credentialReferencesSecret(refs, s) == refs["credential"] = s

clawReferencesSecret(refs, s) == \E r \in Refs \ {"persona"} : refs[r] = s

\* The Secret informer has one ordered stream of events.  Those of the
\* operator's own Secrets enqueue their owner (Owns); for the user's,
\* findClawsReferencingSecret looks the name up in the cached Claws.
SecretSync ==
    /\ undelivered # {}
    /\ undelivered' = {}
    /\ ownCache' = own
    /\ queued' = (\/ queued
                  \/ undelivered \cap Own # {}
                  \/ \E s \in undelivered : clawReferencesSecret(cache, s))
    /\ UNCHANGED <<claw, inst, object, pc, stamps, cluster, own, generated,
                   changes>>

\* Owns(Deployment).
DeploymentSync(d) ==
    /\ depCache[d] # dep[d]
    /\ depCache' = [depCache EXCEPT ![d] = dep[d]]
    /\ queued' = TRUE
    /\ UNCHANGED <<claw, inst, pc, stamps, dep, pod, operator, world>>

-----------------------------------------------------------------------------
(* The cluster and the user *)

Referenced(refs) == {r \in Refs : refs[r] # None}

Usable(refs) == \A r \in Referenced(refs) : object[refs[r]].usable

\* Containers start once everything they mount exists, and load it.
Started(d, template) ==
    /\ template.applied
    /\ Usable(template.refs)
    /\ \A o \in Own : own[o] # 0
    /\ pod' = [pod EXCEPT ![d] =
                 [up |-> TRUE, template |-> template,
                  loaded |-> [r \in Refs |->
                     IF template.refs[r] = None THEN 0
                     ELSE object[template.refs[r]].rv],
                  ca |-> own["ca"]]]

\* The deployment controller replaces the pod of an old template.
PodStart(d) ==
    /\ ~ pod[d].up \/ pod[d].template # dep[d]
    /\ Started(d, dep[d])
    /\ UNCHANGED <<claw, inst, queued, pc, stamps, dep, depCache, operator,
                   world>>

\* The pod's node is drained or the pod is evicted: same template, new pod.
PodRestart(d) ==
    /\ pod[d].up
    /\ Started(d, pod[d].template)
    /\ UNCHANGED <<claw, inst, queued, pc, stamps, dep, depCache,
                   operator, world>>

EditSpec ==
    /\ changes < MaxChanges
    /\ changes' = changes + 1
    /\ spec' \in Specs \ {spec}
    /\ UNCHANGED <<cache, inst, queued, pc, stamps, cluster, operator, object,
                   undelivered>>

\* The user rotates, breaks, deletes or recreates a Secret or a ConfigMap; the
\* informer of ConfigMaps selects by a label that the user's do not carry.
ObjectChange(o) ==
    /\ changes < MaxChanges
    /\ changes' = changes + 1
    /\ \E u \in BOOLEAN :
         object' = [object EXCEPT ![o] = [rv |-> object[o].rv + 1, usable |-> u]]
    /\ undelivered' = undelivered \cup ({o} \cap Secrets)
    /\ UNCHANGED <<claw, inst, queued, pc, stamps, cluster, operator>>

DeleteOwn(o) ==
    /\ changes < MaxChanges
    /\ changes' = changes + 1
    /\ own[o] # 0
    /\ own' = [own EXCEPT ![o] = 0]
    /\ undelivered' = undelivered \cup {o}
    /\ UNCHANGED <<claw, inst, queued, pc, stamps, cluster, ownCache, generated,
                   object>>

-----------------------------------------------------------------------------
Reconcile ==
    \/ Dequeue \/ applyGatewaySecret \/ applyProxyCA \/ ReadReferences
    \/ ApplyGateway \/ ApplyProxy \/ Fail

Next ==
    \/ Reconcile
    \/ ClawSync \/ SecretSync
    \/ \E d \in Deployments : DeploymentSync(d) \/ PodStart(d) \/ PodRestart(d)
    \/ EditSpec
    \/ \E o \in Objects : ObjectChange(o)
    \/ \E o \in Deletable : DeleteOwn(o)

\* The queue is served, the watches deliver and pods that can start do.
Fairness ==
    /\ WF_vars(Reconcile)
    /\ WF_vars(ClawSync)
    /\ WF_vars(SecretSync)
    /\ \A d \in Deployments : WF_vars(DeploymentSync(d)) /\ WF_vars(PodStart(d))

Spec == Init /\ [][Next]_vars /\ Fairness

-----------------------------------------------------------------------------
(* Properties *)

\* A pod never runs with a version older than the one stamped on its template:
\* the stamp was read from the API server before the pod started.  This is
\* what makes the comparison of templates a comparison of Secrets
\* (stampSecretVersionAnnotation and its siblings, userSecretCache).
LoadedCoversStamp ==
    \A d \in Deployments, r \in Refs :
        pod[d].template.stamps[r] <= pod[d].loaded[r]

\* The references whose changes are both watched and stamped: not the password
\* (never stamped) and not the persona (its ConfigMap is not watched).
RolledOut == Refs \ {"password", "persona"}

\* The pods run with the current version of everything the spec references.
UpToDate ==
    \A d \in Deployments : \A r \in RolledOut \cap Mounted(d) :
        /\ pod[d].up
        /\ pod[d].template.refs[r] = spec[r]
        /\ spec[r] # None => pod[d].loaded[r] = object[spec[r]].rv

\* Nothing is queued, in progress, undelivered or rolling out.
Quiescent ==
    /\ pc = Idle /\ ~ queued
    /\ cache = spec /\ undelivered = {}
    /\ \A d \in Deployments : depCache[d] = dep[d] /\ pod[d].template = dep[d]

\* When the operator has come to rest on usable Secrets, the pods run with the
\* latest version of each, although every Secret was read at another moment
\* of a Reconcile and its event may have met an older Claw in the cache.
RolledOutAtRest == Quiescent /\ Usable(spec) => UpToDate

\* A rotated Secret reaches the pods once all references are usable.
RotationReachesPods == <>[]Usable(spec) => <>[]UpToDate

\* The gateway trusts the certificates the proxy issues: both loaded the same
\* CA, whenever each of them started (applyProxyCA).
GatewayTrustsProxy ==
    (\A d \in Deployments : pod[d].up) => pod["gateway"].ca = pod["proxy"].ca

\* The gateway token is preserved across Reconciles: it is replaced only after
\* the user has deleted the Secret (applyGatewaySecret).
TokenPreserved ==
    [][own["token"] # 0 /\ own'["token"] # 0 => own'["token"] = own["token"]]_vars
=============================================================================
