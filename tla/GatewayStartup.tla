----------------------------- MODULE GatewayStartup -----------------------------
(***************************************************************************)
(* The way of a Claw's configuration to its running gateway: the operator  *)
(* applies the ConfigMap and then the Deployment, a pod of that template   *)
(* starts, its init containers merge the configuration into the files of   *)
(* the volume and install the plugins, and the gateway runs, with a user   *)
(* who edits the same files.  Pods are killed and rolled out at any point; *)
(* the volume stays.                                                       *)
(*                                                                         *)
(* A Claw is given by its position in Claws, and so is what is generated   *)
(* from it.  0 stands for none.                                            *)
(***************************************************************************)
EXTENDS OperatorConfig, FiniteSets

CONSTANTS
    Claws,         \* the versions of the Claw: a sequence of Claws
    SeedConfig,    \* the ConfigMap's openclaw.json, the same for all
    UserEdits,     \* what the user may write: a set of [leaf, value]
    UserPlugins,   \* the plugins the user may install
    MaxEdits,      \* bound on the changes of the Claw
    MaxKills,      \* bound on the kills of pods and of the operator
    MaxTouches     \* bound on what the user does to the files

Versions == DOMAIN Claws

ASSUME ClawsAssumption ==
    /\ Len(Claws) \in Nat \ {0} /\ Versions = 1..Len(Claws)
    /\ \A v \in Versions : WellFormed(Claws[v])
    /\ Accepted(Claws[1])
ASSUME BoundsAssumption == {MaxEdits, MaxKills, MaxTouches} \subseteq Nat

\* What is generated from each version, computed once.
Data == [v \in Versions |-> GeneratedData(Claws[v])]
Template == [v \in Versions |-> TemplateOf(Claws[v])]
Valid == {v \in Versions : Accepted(Claws[v])}

ASSUME PluginsAssumption == \A v \in Versions : Template[v].plugins \in Seq(STRING)

\* Where raw and the seeds select models, they select some that the same Claw offers.
ASSUME SelectionAssumption ==
    /\ Selects(SeedConfig, ModelsIn(SeedConfig))
    /\ \A v \in Versions :
          /\ Selects(Claws[v].raw, ModelsIn(Claws[v].raw) \cup CatalogModels(Claws[v]))
          /\ Selects(Claws[v].agent.seed, ModelsIn(Claws[v].agent.seed))

VARIABLES
    spec,      \* the version the API server has
    job,       \* the version whose Deployment a reconcile has still to apply, or 0
    configMap, \* the version of the ConfigMap
    deployment,\* the version of the Deployment
    pod,       \* the gateway's pod: [phase, tmpl, mount, record, todo, before]
    file,      \* openclaw.json: [kind, cfg]
    record,    \* managed-runtime-config.json: a set of entries
    workspace, \* the files and skills of the workspace
    ext,       \* the directories under extensions
    manifest,  \* extensions/.operator-managed: [there, dirs]
    history,   \* what the properties need to know of the past
    budget     \* [edits, kills, touches] still allowed

cluster == <<spec, job, configMap, deployment>>
volume == <<file, record, workspace, ext, manifest>>
vars == <<spec, job, configMap, deployment, pod, file, record, workspace, ext, manifest,
          history, budget>>

\* gone, or the step its containers are at: init-config writes openclaw.json,
\* then the record, then the workspace; init-plugins cleans up, then installs and
\* writes the manifest; then the gateway is up.
Phases == {"gone", "config", "record", "workspace", "clean", "install", "up"}

NoPod == [phase |-> "gone", tmpl |-> 0, mount |-> 0, record |-> {}, todo |-> <<>>, before |-> {}]

\* The file is missing, torn by a kill while it was written, or a configuration.
Missing == [kind |-> "missing", cfg |-> Empty]
Torn == [kind |-> "torn", cfg |-> Empty]
Written(cfg) == [kind |-> "json", cfg |-> cfg]

\* mine: the leaves and values of entries the user added and no one else wrote.
\* edited: the leaves the user wrote since the last start.  touched: the entries
\* the user ever wrote to or the seeds brought.  orphans: the entries the record
\* lost.  theirs: the user's plugins.  strays: directories that are in no manifest.
\* notes: the workspace files the user wrote.
Nothing == [mine |-> Empty, edited |-> {}, touched |-> {}, orphans |-> {}, theirs |-> {},
            strays |-> {}, notes |-> {}]

Init ==
    /\ spec = 1 /\ job = 0 /\ configMap = 1 /\ deployment = 1
    /\ pod = NoPod
    /\ file = Missing
    /\ record = {}
    /\ workspace = Empty
    /\ ext = {}
    /\ manifest = [there |-> FALSE, dirs |-> {}]
    /\ history = Nothing
    /\ budget = [edits |-> MaxEdits, kills |-> MaxKills, touches |-> MaxTouches]

-----------------------------------------------------------------------------
(* The operator *)

EditClaw(v) ==
    /\ budget.edits > 0 /\ v # spec
    /\ spec' = v
    /\ budget' = [budget EXCEPT !.edits = @ - 1]
    /\ UNCHANGED <<job, configMap, deployment, pod, volume, history>>

\* A reconcile reads the Claw and applies the ConfigMap before the Deployment.
ApplyConfigMap ==
    /\ job = 0 /\ spec \in Valid
    /\ {configMap, deployment} # {spec}
    /\ job' = spec
    /\ configMap' = spec
    /\ UNCHANGED <<spec, deployment, pod, volume, history, budget>>

ApplyDeployment ==
    /\ job # 0
    /\ deployment' = job
    /\ job' = 0
    /\ UNCHANGED <<spec, configMap, pod, volume, history, budget>>

\* The apply fails, or the operator dies, between the two; the retry starts over.
OperatorFails ==
    /\ job # 0 /\ budget.kills > 0
    /\ job' = 0
    /\ budget' = [budget EXCEPT !.kills = @ - 1]
    /\ UNCHANGED <<spec, configMap, deployment, pod, volume, history>>

-----------------------------------------------------------------------------
(* The pod *)

\* (Mutant) The pod mounts what a reconcile is still applying.
StartPodEarly ==
    /\ pod.phase = "gone"
    /\ pod' = [NoPod EXCEPT !.phase = "config", !.tmpl = deployment, !.mount = job]
    /\ UNCHANGED <<cluster, volume, history, budget>>

\* The Deployment has one replica and the strategy Recreate.
StartPod ==
    /\ pod.phase = "gone"
    /\ pod' = [NoPod EXCEPT !.phase = "config", !.tmpl = deployment, !.mount = configMap]
    /\ UNCHANGED <<cluster, volume, history, budget>>

\* A changed template takes the pod down, whatever it is at.
RollOut ==
    /\ pod.phase # "gone"
    /\ Template[pod.tmpl] # Template[deployment]
    /\ pod' = NoPod
    /\ history' = [history EXCEPT !.orphans = @ \cup (pod.record \ record)]
    /\ UNCHANGED <<cluster, volume, budget>>

\* An eviction, a lost node, an out-of-memory kill.
KillPod ==
    /\ pod.phase # "gone" /\ budget.kills > 0
    /\ pod' = NoPod
    /\ budget' = [budget EXCEPT !.kills = @ - 1]
    /\ history' = [history EXCEPT !.orphans = @ \cup (pod.record \ record)]
    /\ UNCHANGED <<cluster, volume>>

At(phase) == pod.phase = phase

Env == Template[pod.tmpl]

-----------------------------------------------------------------------------
(* init-config *)

\* What merge.js makes of the files.  A file that is not JSON is replaced by the
\* seed in merge mode; a user-managed start fails on it, again and again.
MergeResult(ops) ==
    IF Env.mgmt = "user" /\ file.kind # "missing"
    THEN userManagedConfig(file.cfg, ops, record)
    ELSE IF Env.mode = "merge" /\ file.kind # "missing"
    THEN mergedConfig(IF file.kind = "torn" THEN SeedConfig ELSE file.cfg, ops, record)
    ELSE freshConfig(deepMerge(SeedConfig, Env.agent.seed), ops)

KeepsUserEdits(kind) == kind = "json" /\ (Env.mgmt = "user" \/ Env.mode = "merge")

\* Of the user's own entries, those the start may not change: in merge mode what
\* the operator declares is the operator's, and so is an equal entry in a
\* user-managed file; the selected model stays as long as it is among the models.
StillMine(ops, cfg) ==
    {l \in DOMAIN history.mine :
        IF l = Primary THEN history.mine[l] \in ModelsIn(cfg)
        ELSE IF Env.mgmt = "user"
        THEN Entry(l) \notin Owned(file.cfg, ops, record) /\ l \notin LeavesAt(ops, InfrastructurePaths)
        ELSE Entry(l) \notin Entries(ops) /\ l \notin DOMAIN ops}

WriteConfig ==
    /\ At("config")
    /\ ~ (Env.mgmt = "user" /\ file.kind = "torn")
    /\ \E mounted \in {pod.mount, configMap} :
       \E ops \in {Data[mounted].ops} :
       \E result \in {MergeResult(ops)} :
          LET keeps == KeepsUserEdits(file.kind)
          IN  /\ file' = Written(result.cfg)
              /\ pod' = [pod EXCEPT !.phase = "record", !.mount = mounted, !.record = result.record]
              /\ history' = [history EXCEPT
                    !.mine = IF keeps THEN Only(@, StillMine(ops, result.cfg)) ELSE Empty,
                    !.touched = IF keeps THEN @ ELSE Entries(deepMerge(SeedConfig, Env.agent.seed)),
                    !.orphans = IF keeps THEN @ ELSE {},
                    !.edited = {}]
    /\ UNCHANGED <<cluster, record, workspace, ext, manifest, budget>>

\* The pod is killed while it writes the file.
TearConfig ==
    /\ At("config") /\ budget.kills > 0
    /\ ~ (Env.mgmt = "user" /\ file.kind = "torn")
    /\ file' = Torn
    /\ pod' = NoPod
    /\ history' = [history EXCEPT !.mine = Empty, !.touched = {}, !.orphans = {}, !.edited = {}]
    /\ budget' = [budget EXCEPT !.kills = @ - 1]
    /\ UNCHANGED <<cluster, record, workspace, ext, manifest>>

WriteRecord ==
    /\ At("record")
    /\ record' = pod.record
    /\ pod' = [pod EXCEPT !.phase = "workspace", !.record = {}]
    /\ history' = [history EXCEPT !.orphans = @ \ pod.record]
    /\ UNCHANGED <<cluster, file, workspace, ext, manifest, budget>>

\* A torn record reads as an empty one.
TearRecord ==
    /\ At("record") /\ budget.kills > 0
    /\ record' = {}
    /\ pod' = NoPod
    /\ history' = [history EXCEPT !.orphans = @ \cup record \cup pod.record]
    /\ budget' = [budget EXCEPT !.kills = @ - 1]
    /\ UNCHANGED <<cluster, file, workspace, ext, manifest>>

SeedWorkspace ==
    /\ At("workspace")
    /\ workspace' = seededWorkspace(workspace, Data[pod.mount], Env.agent, Env.mgmt)
    /\ pod' = [pod EXCEPT !.phase = IF Env.plugins = <<>> THEN "up" ELSE "clean"]
    /\ history' = [history EXCEPT !.notes = @ \ (DOMAIN Data[pod.mount].skills
                        \cup (IF Env.agent.always THEN DOMAIN Env.agent.files ELSE {})
                        \cup (IF Env.mgmt = "user" THEN builtinSkillNames ELSE {}))]
    /\ UNCHANGED <<cluster, file, record, ext, manifest, budget>>

-----------------------------------------------------------------------------
(* init-plugins *)

\* (Mutant) Without a manifest nothing is removed.
CleanManifested ==
    /\ At("clean")
    /\ LET left == ext \ manifest.dirs
       IN  /\ ext' = left
           /\ pod' = [pod EXCEPT !.phase = "install", !.before = left, !.todo = Env.plugins]
           /\ history' = [history EXCEPT !.theirs = @ \cap left,
                 !.strays = IF manifest.there THEN @ \cap left ELSE left \ history.theirs]
    /\ manifest' = [there |-> FALSE, dirs |-> {}]
    /\ UNCHANGED <<cluster, file, record, workspace, budget>>

\* What the manifest of the last complete install lists goes, with the manifest;
\* without one everything goes, unless unmanaged plugins are to be preserved.
CleanPlugins ==
    /\ At("clean")
    /\ LET preserve == Env.mgmt = "user"
           left == IF manifest.there THEN ext \ manifest.dirs ELSE IF preserve THEN ext ELSE {}
       IN  /\ ext' = left
           /\ pod' = [pod EXCEPT !.phase = "install", !.before = left, !.todo = Env.plugins]
           /\ history' = [history EXCEPT !.theirs = @ \cap left,
                 !.strays = IF ~ manifest.there /\ preserve THEN left \ history.theirs ELSE @ \cap left]
    /\ manifest' = [there |-> FALSE, dirs |-> {}]
    /\ UNCHANGED <<cluster, file, record, workspace, budget>>

\* openclaw plugins install: it fails when the directory exists, and then the
\* container starts over.
InstallPlugin ==
    /\ At("install") /\ pod.todo # <<>>
    /\ IF Head(pod.todo) \in ext
       THEN /\ pod' = [pod EXCEPT !.phase = "clean", !.before = {}, !.todo = <<>>]
            /\ UNCHANGED ext
       ELSE /\ pod' = [pod EXCEPT !.todo = Tail(@)]
            /\ ext' = ext \cup {Head(pod.todo)}
    /\ UNCHANGED <<cluster, file, record, workspace, manifest, history, budget>>

WriteManifest ==
    /\ At("install") /\ pod.todo = <<>>
    /\ manifest' = [there |-> TRUE, dirs |-> ext \ pod.before]
    /\ pod' = [pod EXCEPT !.phase = "up", !.before = {}]
    /\ UNCHANGED <<cluster, file, record, workspace, ext, history, budget>>

\* The pod is killed after the shell has created the manifest, still empty.
TearManifest ==
    /\ At("install") /\ pod.todo = <<>> /\ budget.kills > 0
    /\ manifest' = [there |-> TRUE, dirs |-> {}]
    /\ pod' = NoPod
    /\ history' = [history EXCEPT !.strays = @ \cup (ext \ pod.before)]
    /\ budget' = [budget EXCEPT !.kills = @ - 1]
    /\ UNCHANGED <<cluster, file, record, workspace, ext>>

-----------------------------------------------------------------------------
(* The user, through the running gateway *)

Touch == At("up") /\ budget.touches > 0 /\ budget' = [budget EXCEPT !.touches = @ - 1]

\* An edit of openclaw.json.  A leaf of an entry no one has is the user's own; so is
\* the selected model, but not the list of fallbacks, which every start may shorten.
UserSets(l, v) ==
    /\ Touch
    /\ l = Primary => v \in ModelsIn(file.cfg)
    /\ l = Fallbacks => v \subseteq ModelsIn(file.cfg)
    /\ file' = Written(Set(file.cfg, l, v))
    /\ history' = [history EXCEPT
          !.edited = @ \cup {l},
          !.touched = @ \cup {Entry(l)},
          !.mine = IF \/ l = Primary \/ l \in DOMAIN @
                      \/ l # Fallbacks /\ LeavesOf(file.cfg, {Entry(l)}) = {}
                   THEN Set(@, l, v) ELSE @]
    /\ UNCHANGED <<cluster, pod, record, workspace, ext, manifest>>

UserInstalls(p) ==
    /\ Touch /\ p \notin ext
    /\ ext' = ext \cup {p}
    /\ history' = [history EXCEPT !.theirs = @ \cup {p}]
    /\ UNCHANGED <<cluster, pod, file, record, workspace, manifest>>

UserWrites(f) ==
    /\ Touch /\ f \in DOMAIN workspace
    /\ workspace' = [workspace EXCEPT ![f] = "user"]
    /\ history' = [history EXCEPT !.notes = @ \cup {f}]
    /\ UNCHANGED <<cluster, pod, file, record, ext, manifest>>

-----------------------------------------------------------------------------
Operate == ApplyConfigMap \/ ApplyDeployment

RunContainers ==
    \/ WriteConfig \/ WriteRecord \/ SeedWorkspace
    \/ CleanPlugins \/ InstallPlugin \/ WriteManifest

Next ==
    \/ Operate \/ StartPod \/ RollOut \/ RunContainers
    \/ \E v \in Versions : EditClaw(v)
    \/ OperatorFails \/ KillPod \/ TearConfig \/ TearRecord \/ TearManifest
    \/ \E e \in UserEdits : UserSets(e.leaf, e.value)
    \/ \E p \in UserPlugins : UserInstalls(p)
    \/ \E f \in {"AGENTS", "platform"} : UserWrites(f)

\* When RunContainers is enabled.
ContainersCanRun ==
    /\ ~ At("gone") /\ ~ At("up")
    /\ ~ (At("config") /\ Env.mgmt = "user" /\ file.kind = "torn")

\* The controller retries, the Deployment controller creates and replaces pods,
\* the kubelet starts containers and restarts the ones that fail: three actors,
\* each weakly fair.  The last conjunct is WF_vars(RunContainers) with its enabling
\* condition spelled out.  Nothing is assumed of the user, of edits or of kills.
Fairness ==
    /\ WF_vars(Operate) /\ WF_vars(StartPod) /\ WF_vars(RollOut)
    /\ []<>(~ ContainersCanRun) \/ []<><<RunContainers>>_vars

Spec == Init /\ [][Next]_vars /\ Fairness

-----------------------------------------------------------------------------
(* Properties *)

\* Types of the state; a pod that is gone keeps nothing, and neither does a torn
\* file: the phases in which a container may be killed leave no half-read state.
TypeOK ==
    /\ {spec, configMap, deployment} \subseteq Versions /\ job \in Versions \cup {0}
    /\ pod.phase \in Phases
    /\ IF At("gone") THEN pod = NoPod ELSE {pod.tmpl, pod.mount} \subseteq Versions
    /\ pod.record # {} => At("record")
    /\ file.kind \in {"missing", "torn", "json"} /\ (file.kind # "json" => file.cfg = Empty)
    /\ manifest.there \in BOOLEAN /\ (~ manifest.there => manifest.dirs = {})
    /\ {budget.edits, budget.kills, budget.touches} \subseteq Nat

\* Nothing is left to apply or to roll out, and the gateway runs.
AtRest ==
    /\ At("up") /\ job = 0
    /\ configMap = spec /\ deployment = spec
    /\ Template[pod.tmpl] = Template[deployment]

\* The pod read the data its template's hash was made of.  Not always so: the
\* ConfigMap is applied first, and a pod of the old template may mount it.  Then
\* the new template's roll-out puts it right, unless the Claw is changed back first.
Settled == AtRest /\ Data[pod.mount] = Data[pod.tmpl]

OperatorManaged == Claws[spec].mgmt = "operator"

\* Once at rest, the gateway runs with all that the Claw's present version
\* generates, whatever earlier versions, kills in the middle of the init
\* containers, failed applies and user edits came before: every leaf of
\* operator-7.2.json (of a user-managed file, the infrastructure and the entries
\* the operator owns) is in openclaw.json but for later edits and the selected
\* model; the plugins are installed, and those of an earlier version are gone
\* unless a kill hid them; the skills are those of the Claw.
SpecReachesGateway ==
    Settled =>
        LET ops == Data[spec].ops
            due == IF OperatorManaged THEN DOMAIN ops \ Selection
                   ELSE LeavesAt(ops, InfrastructurePaths) \cup LeavesOf(ops, record)
        IN  /\ \A l \in due \ history.edited : l \in DOMAIN file.cfg /\ file.cfg[l] = ops[l]
            /\ ToSet(Env.plugins) \subseteq ext
            /\ OperatorManaged /\ Env.plugins # <<>> =>
                   ext \subseteq ToSet(Env.plugins) \cup history.theirs \cup history.strays
            /\ \A s \in DOMAIN Data[spec].skills :
                   s \in DOMAIN workspace /\ (workspace[s] = Data[spec].skills[s] \/ s \in history.notes)
            /\ ~ OperatorManaged => builtinSkillNames \cap DOMAIN workspace = {}

\* What the operator no longer declares does not linger: once at rest, an entry of
\* a managed object of openclaw.json is declared now, or it is the user's, or the
\* seed's, or the record that would prune it was lost to a kill between the two
\* writes of merge.js.
WithdrawnPruned ==
    Settled =>
        Entries(file.cfg) \subseteq
            Entries(Data[spec].ops) \cup history.touched \cup history.orphans

\* An entry the user added, which the operator did not declare since, is there with
\* the user's value, and a model the user selected stays selected as long as it is
\* offered; so do the workspace files the user wrote.  Neither pruning nor merging
\* touches them, in merge mode and in a user-managed file.
UserSettingsSurvive ==
    /\ file.kind = "json" =>
          \A l \in DOMAIN history.mine : l \in DOMAIN file.cfg /\ file.cfg[l] = history.mine[l]
    /\ \A f \in history.notes : f \in DOMAIN workspace /\ workspace[f] = "user"

\* pruneRemovedModelSelections: the selected model and its fallbacks, which survive
\* every merge, are always among the models of the same file.
SelectionValid ==
    file.kind = "json" => Selects(file.cfg, ModelsIn(file.cfg))

\* When the MemoryStack condition says "with vector recall" of an operator-managed
\* gateway at rest, its openclaw.json does not disable memory search, although an
\* earlier version of the Claw may have left enabled: false on the volume.
VectorRecallAsReported ==
    /\ Settled /\ OperatorManaged
    /\ MemoryStackCondition(Claws[spec]) = "vectorRecall"
    /\ SearchEnabled \notin history.edited
    => /\ SearchProvider \in DOMAIN file.cfg
       /\ SearchEnabled \in DOMAIN file.cfg => file.cfg[SearchEnabled] = "true"

\* The init containers are crash-safe for an operator-managed Claw: whatever a kill
\* left on the volume, and whatever the user installed, once the Claw stays as it
\* is and acceptable the gateway comes up with it.
GatewayComesUp == <>[](OperatorManaged /\ spec \in Valid) => []<>AtRest
=============================================================================
