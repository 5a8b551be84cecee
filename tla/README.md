# A TLA+ model of claw-operator

claw-operator is a Kubernetes operator. From a `Claw` resource it runs an
OpenClaw gateway and, beside it, a credential proxy that holds the user's
secrets; from a `ClawDevicePairingRequest` it approves a device in the gateway.
This directory holds TLA+ models of the parts of the operator and of the proxy
whose correctness depends on interleavings, stale caches, failing calls, kills
between two writes and matching rules, the TLC configurations that check them and the TLAPS proofs
about them. Paths below are relative to `src/`; `RC` stands for
`internal/controller/claw_resource_controller.go`.

## 1. The system

| component | state | operations | interacts with |
|---|---|---|---|
| Device pairing controller (`claw_device_pairing_request_controller.go`) | the request's condition and observed generation | Reconcile: find the pod, write Processing, exec `openclaw devices approve` (30 s), record the outcome | API server, pod cache, the gateway pod |
| Claw controller (`RC`, `claw_idle.go`, `claw_status.go`) | Claw status, the two Deployments | Reconcile: idle / resume, validate, apply ~15 objects, publish status | API server, informer caches, every component below |
| Metrics (`claw_operator_metrics.go`) | gauges in the process | record, clear, refresh at start | Claw controller |
| Doctor migration (`claw_migration.go`, `merge.js` in `configmap.yaml`) | Job, `status.migration`, `migration.json` | pause the gateway, run the Job on its volume, record, resume; init container refuses an unmigrated 7.2 image | Claw controller, Job and Deployment controllers, volume |
| Credential resolution and proxy configuration (`claw_credentials.go`, `claw_providers.go`, `claw_channels.go`, `claw_repo_access.go`, `claw_web_search.go`, `claw_proxy.go`) | the proxy's ConfigMap | defaults, validation, route generation and ordering | Claw controller, proxy |
| Credential proxy (`internal/proxy`, `cmd/proxy`) | routes loaded at start, one connection per CONNECT | match host and path, tunnel or intercept, inject a credential, gateway mode | gateway, upstreams |
| Own Secrets (`applyGatewaySecret`, `applyProxyCA`) | gateway token, proxy CA | generate once, re-apply | Secret cache, pods |
| Secret watch and roll-out stamps (`RC`, `claw_deployment.go`, `claw_proxy.go`, `user_secret_cache.go`) | version annotations on pod templates | read, validate and stamp each referenced Secret; map a Secret's event to Claws | API server, caches, pods |
| Generated configuration (`enrichConfigAndNetworkPolicy`, `claw_channels.go`, `claw_memory_*.go`, `claw_mcp.go`, `claw_web_search.go`, `claw_workspace.go`, `claw_diagnostics.go`, `claw_plugins.go`) | the gateway's ConfigMap, its pod template | generate `operator-7.2.json`, files, skills, the list of plugins and the hash of all of it | Claw controller, init containers |
| Init containers (`merge.js`, `generatePluginInstallScript`) | `openclaw.json`, the record of the operator's entries, the workspace, the plugins and their manifest, all on the volume | merge, prune, seed, clean up and install at every pod start | ConfigMap, template, the user and the gateway, who edit the same files |
| Egress (`claw_egress.go`, `configureGatewayNoProxy`, `claw_diagnostics.go`) | two NetworkPolicies, NO_PROXY | classify URLs, generate rules | proxy routes, cluster DNS |
| Service monitor, images, resources, mounts | none of their own | generate objects from the spec | Claw controller |

What is hard here. Every decision of the controllers is made on a cached copy
that may lag behind the API server, and each kind of object has its own lag. A
write based on an old copy is refused; a decision *not* to write based on an old
copy is not. One Reconcile makes dozens of calls any of which may fail, and it
must be possible to start again from any prefix. Some things are watched
(Claws, Deployments, Secrets), some are not (Jobs, Routes, pods, the user's
ConfigMaps). Metrics live in the process only. The proxy and the operator each
have a notion of "this domain is covered", and they must agree; so must the four
functions that decide how a URL is reached. The volume outlives every pod: what
one start leaves on it, complete or not, the next start, perhaps of another
version of the Claw, has to cope with, without losing what the user put there.

What makes each part correct is stated as properties in section 4.

## 2. Modules

| module | models | uses |
|---|---|---|
| `DevicePairing` | the pairing controller | |
| `ClawLifecycle` | Reconcile's control flow for idle, resume, rejection, Deployments, status, metrics | |
| `PvcLock` | abstract: gateway and Job take turns on the volume | |
| `DoctorMigration` | the migration part of Reconcile, the Job, the init container's gate | `INSTANCE PvcLock` |
| `ProxyConfig` | pure: from the spec to the proxy's routes | |
| `EgressPolicy` | pure: from the spec to the two egress policies and NO_PROXY | extends `ProxyConfig` |
| `CredentialProxy` | the proxy on routes the operator generated | extends `EgressPolicy` |
| `MCProxy` | Claws, hosts and paths for TLC | extends `CredentialProxy` |
| `SecretRollout` | how Secrets reach pods, and the operator's own Secrets | |
| `MCSecretRollout` | two specs for TLC | extends `SecretRollout` |
| `ConfigMerge` | pure: `merge.js` on a configuration, its record and the workspace | |
| `OperatorConfig` | pure: from the spec to configuration, files, skills, plugins and pod template | extends `ConfigMerge` |
| `GatewayStartup` | applying, roll-out, init containers, user, kills | extends `OperatorConfig` |
| `MCGatewayStartup` | seven versions of a Claw for TLC | extends `GatewayStartup` |
| `*_proofs` | theorems about the module they are named after | `TLAPS`; `OperatorConfig_proofs` extends `ConfigMerge_proofs`, `GatewayStartup_proofs` extends both |

Conventions. A variable without suffix is the object in the API server, `...Cache`
(or `cache`) the informer's copy, `inst` the copy Reconcile works on, and
`...Fresh` says that a copy has the server's resourceVersion, which stands for
the optimistic-concurrency check of an update. `pc` is the worker's place in
Reconcile. One action is everything between two calls that change or read
shared state. A definition marked *(Mutant)* is a plausible mistake in the
definition that follows it; it is used by no specification and serves to show
that a property notices the mistake.

How the modules divide Reconcile: `ClawLifecycle` follows a Claw without
migration from the first read to the status write and treats the validity of
the inputs as one value; `DoctorMigration` follows a Claw that is valid and not
idled through the pause, the ConfigMap, the Deployment and the Job;
`SecretRollout` follows the reads of Secrets and the stamps of a Claw that is
neither idled nor migrated; `GatewayStartup` follows the ConfigMap and the gateway's
Deployment of such a Claw into the pod and onto the volume. `PROJECT.json` maps every definition to its lines.

Abstractions worth knowing:

* `ClawLifecycle`: a version is the rank of a CalVer, a non-CalVer tag, or
  unset. Of the applied objects only the Deployments are kept.
* `DoctorMigration`: a pod is `up` or `dying`; the Job's controllers are a
  choice of outcomes (success, failure with and without a failed pod).
* `ProxyConfig`: a domain is a sequence of label ranks, so that sorting domains
  is meaningful; a path is a sequence of one-letter segments. Names, regexes and
  header contents are not kept. The routes are a set, each with the place at which
  the code appends it, and `SortRoutes` puts them in the order of the code's two
  stable sorts; routes appended while iterating over a Go map share a place, and
  differ in their domains.
* `SecretRollout`: a call that reads several Secrets reads them in one step; a
  Secret is a version and whether it is usable (exists, has its key). The
  Deployment holds, per reference, the Secret it mounts and the stamped version.
* `ConfigMerge`, `OperatorConfig`: a configuration is a function from leaves
  (object, entry, field) to values, so a deep merge is a union in which the second
  wins, and a list is one value; fields no step tells apart are represented by one of them. Entries of
  `models.providers`, `agents.defaults.models`, `agents.defaults.modelPolicy`,
  `channels` and `plugins.entries` are the ones the record is about.
* `GatewayStartup`: a version of the Claw is its index in `Claws`, and so is what
  is generated from it. A pod mounts the ConfigMap when it starts and may see a
  newer one when it reads it. A kill may hit between any two writes, and within
  the write of `openclaw.json`, of the record (torn: reads as empty) and of the
  manifest (created, still empty). `history` only serves the properties: which
  leaves are the user's, which entries the record lost, which directories are in
  no manifest.
* `EgressPolicy`: a rule is a destination (anywhere, a namespace, the proxy's pods)
  and a TCP port; the port of a Service is taken to be its pods' port. Where a
  name really leads is stated separately (`IsServiceName`, `NamespaceOf`), from the
  cluster's DNS and not from the operator's classification.

## 3. Runs

TLC, two workers. `CHECK_DEADLOCK FALSE` is set where the system may rest: once
the user makes no more changes and everything has converged there is nothing to
do. In `DevicePairing` pods come and go without bound, so deadlock is checked.

| run | bounds | what it shows |
|---|---|---|
| `pairing` | 2 request IDs, 3 generations, 2 pods, 1 restart | the pairing controller's safety and liveness |
| `lifecycle` | 2 changes, 1 restart, 1 failure, all input states | idle status, metric, convergence at rest |
| `versions` | 2 versions, 2 changes | the high-water mark |
| `lifecycle_live` | 2 changes, 1 failure | idling, resuming and clearing converge |
| `doctor` | 2 images (one 7.2), 2 edits, 1 failure | the lock, one Job, the gate, no silent pause, termination |
| `proxy` | all Claws with at most 2 of 12 credentials, 5 sets of MCP servers, repository access, web search, built-ins; 8 hosts, 9 paths; and all with at most 1 credential, 3 sets of servers in and outside the cluster, bypass or not, 6 telemetry settings | routes and matching together, and with the egress policies |
| `rollout` | 2 specs, 2 Secrets, 1 ConfigMap, 2 changes, 4 generated values | stamps, watch, own Secrets |
| `startup` | 7 versions of the Claw (merge, overwrite, user-managed, one that is refused), 2 edits, 2 kills, 1 act of the user | configuration, plugins and workspace reach the gateway |
| `pairing_edit`, `doctor_stop`, `doctor_approval`, `proxy_stable` | small | the code does not do what a document or comment says (section 6) |

Why these bounds are enough to meet the hazards. Each hazard listed in
`PROJECT.json` needs one of: a change while a Reconcile is running, a second
change before the caches have caught up, a failed call, a restart. Two changes,
one failure and one restart allow every pair of them in every order, and a
property of the "at rest" kind speaks about the state after all of them. Two
images, versions, request IDs and Secrets are the least that can be confused
with each other. In `proxy`, two credentials are the least that can compete for a
host; the hosts contain the apex, a subdomain and a port form of each declared
domain. `MaxGenerated` admits the two values that are generated in a normal life
and one more for each deletion; the change bound is reached first. In `startup`, two
edits are the least for an entry to be withdrawn while the record of an earlier
start is still there, or for a Claw to be changed back; two kills the least for
a start that finds what a killed start left to be killed itself. The versions
share a channel, a model, a plugin and a file in ways that let each be withdrawn,
taken over, replaced and set by the user.

## 4. Properties

*Pairing.* `PairedHasApproval`: DevicePaired is recorded only after an approval of
a request ID of this resource. `NoExecOnceRecorded`: no exec starts for a
generation the server records as paired, however old the cache.
`ProcessingResolves`, `StatusCatchesUp`: Processing is left again, the observed
generation catches up.

*Life cycle.* `IdleStatusConsistent`: while the Idle condition is there, the
Claw is not shown as ready or reachable. `MetricAtRest`, `IdleAtRest`,
`RunningAtRest`: at rest the metric, the Deployments and the status agree with the
spec. `HighWaterMark`: lastDeployedVersion never moves from one CalVer to a
smaller one. `IdleConverges`, `ResumeConverges`, `MetricsCleared`: liveness.

*Migration.* `LockSpec`: the controller implements `PvcLock` under the mapping
"the gateway holds the volume while its Deployment wants a replica, the doctor
while a Job is active". `OneJob`, `MigratedMeansSucceeded`, `GateHolds`,
`ResumedAtRest`, `MigrationResolves`.

*Proxy.* `CredentialInScope`: a credential travels only where the Claw declares
it, and on the paths it allows; the routes of kubeconfigs, MCP servers and gateway
mode do not look at allowedPaths, and the property says so. `AllowlistEnforced`: nothing else is reachable. `McpNeverShadows`: the route of
an MCP server takes no request away from a credential. `MostSpecificWins`: among
credentials of one domain the most specific path decides. `TunnelTransparent`: a
connection is tunnelled only if every request in it would have been sent on
unchanged. They are stated over the Claw, without routes, so they check the
operator's generation and the proxy's matching against each other.

`EgressAsDeclared`: the two policies, NO_PROXY and the routes agree: every MCP
server, cluster and collector the Claw declares is let through on the way its
requests take, a borrowed credential is not bypassed, and the gateway reaches
directly only what is meant. What this is not true of is excluded by name and
listed in section 6: the names `WayKnown` leaves out, and the collector whose name
is misread.

*Start of the gateway.* `SpecReachesGateway`: at rest the gateway runs with all that the
Claw's last version generates. `WithdrawnPruned`: and without what earlier versions
generated, unless the record was lost to a kill. `UserSettingsSurvive`: the user's own
entries, selected model and files are neither merged away nor pruned.
`SelectionValid`: the selected model and fallbacks are always among the models of
the file. `VectorRecallAsReported`: the MemoryStack condition tells the truth about
the file on the volume. `GatewayComesUp`: whatever a kill left, an operator-managed
gateway comes up.

*Secrets.* `LoadedCoversStamp`: no pod runs older data than its template's
stamps. `RolledOutAtRest`, `RotationReachesPods`: a rotated Secret reaches the
pods, although each is read at another moment and its event may meet an older
Claw in the cache. `GatewayTrustsProxy`: both pods loaded the same CA.
`TokenPreserved`: the token changes only after the user deleted it.

Fairness. Weak fairness on Reconcile: the work queue serves a queued key
(requeues after errors included). Weak fairness on the deliveries of each
informer: a watch that lags eventually delivers. Weak fairness on the starting
process, on pods that can start, on the deployment controller's status and on
the end of a Job (`activeDeadlineSeconds`). In `GatewayStartup` weak fairness on the
operator, on the creation and replacement of pods, and on the containers, which
the kubelet restarts when they fail; the last is written out with its enabling
condition `ContainersCanRun`, because TLC evaluates `ENABLED` of that action
slowly. Nothing is assumed of the user. In
`DevicePairing` strong fairness says that a call which can succeed is not refused
for ever by the network; without it a pairing could time out for ever, and the
code retries for as long as that. In the other modules the number of failures is
bounded instead.

`OwnWritesLag = FALSE` in `doctor` and `rollout` assumes that a Reconcile sees what
the previous Reconcile of the same process wrote to the Jobs, Deployments or
Secrets it decides on. Nothing in the code guarantees it, informers usually
deliver within milliseconds while the requeue takes seconds. With
`OwnWritesLag = TRUE`, TLC finds that the gateway may be resumed during a Job
(`LockSpec`), and that a token generated a moment ago is generated again
(`TokenPreserved`, against docs/architecture.md:9, "preserved across
reconciles"): the Deployment's event queues the Claw, the Secret's has not
arrived, `applyGatewaySecret` finds no Secret in the cache and overwrites it with
force. The theorems that do not need the assumption do not make it.

## 5. Proofs

Proved for all values of the constants, each from an inductive invariant `Inv` that
is established by `InitInv` and preserved by `NextInv`, and that TLC checked on the
run of the module first.

* `DevicePairing_proofs`: `TypeCorrect`, `PairedIsBacked`, `NoRepeatedExec`. `Inv` adds to
  the type: a cache with the server's resourceVersion is the server's object;
  the generations of caches lie behind; an exec in progress carries the ID of a
  generation the cache has seen, and after a success that ID is approved; both
  the object and its cached copy are backed by an approval. The last is needed
  because the status written next is computed from the cached copy.
  `ApprovedUnlessEditedDuringExec`: in behaviours without an edit between the start of an
  exec and the record of its outcome, `PairedMeansApproved` holds, so that edit is
  all there is to `pairing_edit`.
* `ClawLifecycle_proofs`: `TypeCorrect`, `IdleConsistent`, `HighWater`. `Inv` adds that
  fresh copies are exact, that every copy, however old, is consistent, and that
  past the write of `Unidle` the copy in hand has no Idle condition, so no later
  write of the same Reconcile brings it back. `MetricCorrectAtRest`,
  `IdledAtRest` and `RunsAtRest` need a second invariant (`RestInvariance`): unless a
  Reconcile is queued or an informer has something to deliver, what the last
  Reconcile left agrees with the spec, and while one runs, what it has already
  done at `pc` agrees with the copy in hand or the write that follows will be
  refused and the key is queued again.
* `DoctorMigration_proofs`: `TypeCorrect`, `MigratedSucceeded`, `Gated` and `ResumedWhenQuiet`
  without assumption on the caches; `ImplementsLock` (refinement of `PvcLock`) and
  `SingleJob` under `OwnWritesLag = FALSE`. The second invariant relates the worker's
  decision (`pause`) to the Jobs and the Deployment on the server: a Reconcile that
  has decided not to pause runs while no Job is active, and one that creates a
  Job has seen the gateway scaled down. `ResumedWhenQuiet` needs that a paused gateway
  is always owed a Reconcile (a requeue, an event, a Job still active) or is
  reported as failed. Two theorems delimit the findings: `ApprovedIfJobsReadOnce`, that
  without a Job event between the two reads of the Jobs in one Reconcile every Job
  was asked for, and `StoppedIfStatusCountsPods`, that if `status.replicas`
  counted every pod when it is read, the gateway would stay stopped for the whole
  time of the Job (it rests on the lock, so on `OwnWritesLag = FALSE`).
* `SecretRollout_proofs`: `TypeCorrect`, `StampsCovered` and `RolledOutWhenQuiet` without
  assumption on the caches. `Inv` says that what a call has read, what is stamped
  and what a pod has loaded are each at most the Secret's version and in this
  order, and, for every Deployment and reference, that it is *on track*: the
  present version is stamped, or a Reconcile that will stamp it is running, or
  one is owed because an event is queued or undelivered and the copy of the Claw
  it will meet refers to the Secret. `TokenKept` assumes `OwnWritesLag = FALSE`, and
  `OneCALoaded` that and that the CA Secret is not deleted; for both assumptions see
  sections 4 and 6, where the code does without.
* `ConfigMerge_proofs`: for every configuration, record and generated configuration,
  what pruning takes away (the withdrawn entries and no other leaf but of the
  selection), and what each of the three ways of writing `openclaw.json` keeps,
  brings, records and selects (`MergedConfig`, `UserManagedConfig`, `FreshConfig`).
* `OperatorConfig_proofs`: what the steps of `enrichConfigAndNetworkPolicy` do to
  the objects the properties look at, as frame lemmas; from them `GeneratedSelects`
  and `GeneratedRecall`.
* `GatewayStartup_proofs`: `TypeCorrect`, `UserSettingsKept`, `SelectionAlwaysValid`,
  `WithdrawnAlwaysPruned`, `SpecAlwaysReachesGateway`, `RecallAsReported`: every invariant the run
  checks. The invariant says of the file that the record (or what the start under
  way will record) lists entries that the mounted data declares and the file has,
  and that every other entry is the user's, a seed's or an orphan; that the
  user's own leaves are in the file and no record names their entries; that the
  leaves due from the mounted data are there unless edited since; that what is
  selected is offered. Of the plugins it says that whatever is neither in the
  manifest nor installed by the container under way is the user's or a stray. The
  record's part is what makes `UserSettingsKept` inductive: a prune removes recorded
  entries only, and a user can add an own entry only where there was none, so it
  is in no record.
* `CredentialProxy_proofs`: `TunnelAlwaysTransparent`, `AllowlistAlwaysEnforced`,
  `CredentialAlwaysInScope`, `McpNeverEverShadows`, `MostSpecificAlwaysWins` and
  `EgressAlwaysAsDeclared`, for every Claw, host and path: every invariant the run
  checks. The argument has four layers. The order of the config is a
  strict total order of what is appended, so the sorted config has exactly the
  appended routes (`SortedRoutes`). Each of these comes from a built-in domain, the web
  search, an MCP server or a credential (own, cluster or companion), and every
  credential has its routes (`PlacedFacts`, `ConfigFacts`). `MatchRoute` returns a route of
  the best tier that matches the host, and within it one with the longest entry
  that matches the path, or one without entries when there is none
  (`MatchRouteFacts`, `RouteOfHost`). The invariant of the process (`Invariance`): what the
  ConfigMap holds and the proxy has loaded is a config of the Claw, and the
  connection and the answer are what those routes decide. The crux of
  `McpNeverEverShadows` is that the operator's `domainCovered` and the proxy's
  `domainMatches` agree on every host but the apex of a suffix domain
  (`ServerShadowsNone`). `EgressAlwaysAsDeclared` rests on two facts about every URL and
  every server: the operator's reading of a name agrees with that of DNS for the
  names of Services, and otherwise is the label `TakenFor` says (`TargetFacts`);
  and what makes an MCP server need no route has a route itself, unless it is a
  Kubernetes credential (`ServerHasRoute`). Its invariant needs, besides the routes,
  that the loaded config passed `validateMcpCredentialRefBypass`.
  `StableUnlessRefsDiffer`: if the MCP servers on one host that reference a credential
  reference the same one, reconciling an unchanged Claw leaves the routes alone
  (`ConfigStable`), so `proxy_stable` shows the only way in which they can change.

Assumptions: the named assumptions of each module, evaluated by TLC in every run.
They are non-empty sets, natural bounds, `DefaultVersion` a CalVer; of
`SecretRollout`, that references other than the persona's are to Secrets; of
`GatewayStartup`, that the versions are well-formed Claws of which the first is
accepted (`ClawsAssumption`), that plugins are lists (`PluginsAssumption`), and that where
`spec.config.raw` and the seeds select models, they select ones the same Claw offers
(`SelectionAssumption`; the operator does not check it, and without it the user's own
raw configuration would make `SelectionValid` false). Of `ProxyConfig` and
`CredentialProxy`: the tables of providers, channels and built-in domains have the
shape of the code's tables; requests have a host and a path; and the Claws are
well-formed (`WellFormed`): what the API server enforces by the schema, that a
cluster's server has a port and only a credential of type kubernetes has clusters,
that the URLs of MCP servers and collectors have a host, and things the operator does
not check, namely that no credential is called `websearch` and that no suffix domain
is a lone dot or has a port (section 6). Of `EgressPolicy`: no IP address ends in `.svc` or
`.svc.cluster.local` (`NamesAssumption`).

The hypotheses of the theorems that delimit findings (`NoEditDuringExec`, `JobsReadOnce`,
`StatusCountsPods`, `RefsAgree`) are not assumptions about the code: the code does not
ensure them, and the four runs that expect a violation leave them out.

Only model-checked: liveness (`ENABLED` and fairness are out of the prover's reach),
that is `ProcessingResolves`, `StatusCatchesUp`, `IdleConverges`, `ResumeConverges`,
`MetricsCleared`, `MigrationResolves`, `RotationReachesPods` and `GatewayComesUp`; and what folds
compute, such as `path.Clean` (the theorems hold whatever it returns), which would
need induction over data. Every other property that a passing run checks is also a
theorem.

## 6. Where code and documents disagree

With a run that shows it (`PROJECT.json`, findings): an edit during the exec is
recorded as paired (`pairing_edit`); the Job starts while a gateway pod still runs (`doctor_stop`); a
Job is created for an image nobody asked to migrate (`doctor_approval`); the routes
of an unchanged Claw depend on Go's map iteration (`proxy_stable`).

Noticed while modelling; no property forbids it, and unless it says otherwise
the models contain the behaviour:

* `rejectValidation` does not record the metric, so a rejected Claw keeps its previous
  one (RC:736; openspec/specs/operator-prometheus-metrics/spec.md:21: failed
  "SHALL be 1").
* PairingFailed repeats the exec through its own status write
  (openspec/specs/device-pairing-exec/spec.md:10).
* The rejection of user-managed config (RC:461) precedes the removal of Idle, so
  Idle=True can stay beside ValidationFailed (comment at RC:477).
* A non-CalVer tag overwrites the high-water mark (`claw_status.go:373`), and an
  omitted version is recorded as the default (RC:457).
* Available is read without observedGeneration (`claw_status.go:51`).
* `rejectValidation` leaves the URL (RC:736).
* A Job that fails without a failed pod is never reported (`claw_migration.go:233`);
  a withdrawn request after a failed write of Pending leaves the gateway paused
  with MigrationFailed.
* A passthrough for an MCP server on the apex of a suffix credential shadows it
  (`claw_proxy.go:419`); longer suffix domains are not preferred to shorter ones.
* `/` in allowedPaths matches only `/` (`internal/proxy/config.go:66`); gateway mode does
  not consult allowedPaths (`server.go`, `serveGateway`).
* An MCP credentialRef is ignored when another credential covers the host; one
  that names a Kubernetes credential keeps the proxy from starting.
* The GCP token source keeps the context of the first request
  (`injector_gcp.go:73`).
* The password Secret is watched but not stamped; the persona ConfigMap is
  stamped but not watched, because the cache selects labelled ConfigMaps only
  (`cmd/main.go:213`; docs/user-guide.md lists it as a limitation).
* Deleting the CA Secret generates a new CA without restarting the pods
  (`Deletable` therefore holds only the token in `rollout`).
* A credential named `websearch` or `repo-access-github` shares its annotation key
  with the web search or repository access (`claw_proxy.go:673`). One named
  `websearch` also shares the environment variable of the web search key
  (`claw_proxy.go:338`; not in the model).
* A kill between the two writes of `merge.js`, or within the second, followed by a
  version that withdraws an entry, leaves the entry on the volume for good
  (`history.orphans`; the comment at configmap.yaml:629 says "prune what it no
  longer declares"). A torn `openclaw.json` is replaced by the seed in merge mode
  and keeps a user-managed gateway from starting.
* Removed MCP servers and skills stay on the volume: `mcp.servers` is not a managed
  path, and `copyAlways` never deletes.
* Plugins (docs/user-guide.md, "User-installed plugins are preserved", "Removed
  plugins are cleaned up", "Crash-safe"): without a manifest an operator-managed
  start removes every directory, the user's included; when the list becomes
  empty there is no init-plugins and the old plugins stay; a user-managed start
  that was killed between install and manifest fails for ever
  (`GatewayComesUp` is therefore about operator-managed Claws).
* A pod of template 1 that mounts ConfigMap 2 keeps running with it when the Claw
  is changed back before the roll-out (`Settled` excludes it).
* For a user-managed Claw the MemoryStack condition says "with vector recall", but
  `memory.search` is not merged after the first start; without any memory layer
  a stale `enabled: false` is never repaired.
* A bare Service name with `inClusterBypass` gets its rule on the gateway's policy
  while its requests go through the proxy; of a pod's own name
  (`pod.service.ns.svc`) the wrong label is taken for the namespace, so a collector or
  a bypassed server there is not let through and a namespace that happens to be
  called like the Service is (`Misread`); a collector's
  host is in NO_PROXY for every port; the API server of a kubeconfig under `.svc` is
  reached around the proxy when the bypass is on; a collector outside the
  cluster opens its port to every destination.
* Metrics alone give the collector no egress rule; a logs endpoint of its own gets
  a rule but is not what the gateway is configured with (`claw_diagnostics.go:61`;
  `claw_types.go:947`).
* Of two default agents the one on the volume wins over spec.config.raw
  (configmap.yaml:559; not in the model). `spec.skills.configMaps` are not
  watched (not in the model).
* The `domain` of a Kubernetes credential gets no route, but counts as covered
  (`claw_proxy.go:163`, `claw_proxy.go:221`): an MCP server, a web search provider or a
  built-in domain there has no route either and is blocked.
* A suffix domain with a port (`.example.com:8443`) matches no host, because the
  proxy compares it with the host without its port (`internal/proxy/config.go:113`); not in
  the model.
* When the List in `findClawsReferencingSecret` fails, the event is lost (RC:1853).

## 7. Not modelled, and the plan

Not modelled: TLS, certificates and token caching of the proxy; the text of
manifests and configuration; kubeconfig parsing; flag parsing; generated deep
copies; the agent roster (`normalize72AgentRoster`), the configuration for images
before 7.2 (`legacyOperatorJSON`), fetching agent files from git or an image, skills
from ConfigMaps, read-only paths and the persona guard; the metrics port, its
ingress rule and the ServiceMonitor; images, resources and mounts of the
Deployments. They are sequential data construction or external I/O without a
decision the properties above depend on.

Plan: `SecretRollout` and `GatewayStartup` with the gateway paused or idled, so that a
change during an idle period or a migration is rolled out on resume.
