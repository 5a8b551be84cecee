-------------------------- MODULE GatewayStartup_proofs -------------------------
(***************************************************************************)
(* The way of a Claw's configuration to its gateway, for every list of     *)
(* versions of the Claw, every seed and every edit of the user, and any    *)
(* number of changes, kills and edits.                                     *)
(***************************************************************************)
EXTENDS GatewayStartup, OperatorConfig_proofs

-----------------------------------------------------------------------------
(* The inductive invariant *)

\* The fields of the state's records, which the types leave open.
TypeInv ==
    /\ TypeOK
    /\ DOMAIN pod = DOMAIN NoPod /\ DOMAIN history = DOMAIN Nothing
    /\ pod.todo \in Seq(STRING)
    /\ budget \in [edits : Nat, kills : Nat, touches : Nat]

\* init-config has written openclaw.json; it has also written the workspace.
PastConfig == pod.phase \in Phases \ {"gone", "config"}
PastWorkspace == pod.phase \in {"clean", "install", "up"}

\* What the start that wrote the file records, or has recorded.
Recorded == IF At("record") THEN pod.record ELSE record

FileInv == /\ PastConfig => file.kind = "json"
           /\ file.kind # "json" => history.mine = Empty

\* The record lists entries that the mounted data declares and the file has, and
\* every other entry of the file is accounted for.
RecordInv ==
    /\ PastConfig => Recorded \subseteq Entries(file.cfg) \cap Entries(Data[pod.mount].ops)
    /\ Entries(file.cfg) \subseteq Recorded \cup history.touched \cup history.orphans

\* The user's own leaves are in the file, and no record names their entries.
MineInv ==
    \A l \in DOMAIN history.mine :
        /\ l # Fallbacks
        /\ l \in DOMAIN file.cfg /\ file.cfg[l] = history.mine[l]
        /\ l # Primary => Entry(l) \notin record \cup pod.record

NotesInv == \A f \in history.notes : f \in DOMAIN workspace /\ workspace[f] = "user"

\* The leaves of the mounted data that the start brings.
Due ==
    LET ops == Data[pod.mount].ops
    IN  IF Env.mgmt = "operator" THEN DOMAIN ops \ Selection
        ELSE LeavesAt(ops, InfrastructurePaths) \cup LeavesOf(ops, Recorded)

DueInv ==
    PastConfig =>
        \A l \in Due : /\ l \in DOMAIN file.cfg
                       /\ l \in history.edited \/ file.cfg[l] = Data[pod.mount].ops[l]

SelectInv == Selects(file.cfg, ModelsIn(file.cfg))

\* What a complete install leaves is in the manifest, and what one under way
\* leaves in the container; all else under extensions is the user's or a stray.
PluginsInv ==
    /\ At("install") =>
           /\ ~ manifest.there
           /\ ToSet(Env.plugins) \subseteq ext \cup ToSet(pod.todo)
           /\ ToSet(pod.todo) \subseteq ToSet(Env.plugins)
           /\ ext \subseteq pod.before \cup ToSet(Env.plugins)
           /\ pod.before \subseteq history.theirs \cup history.strays
    /\ manifest.there => ext \subseteq manifest.dirs \cup history.theirs \cup history.strays
    /\ At("up") /\ Env.plugins # <<>> =>
           /\ manifest.there /\ manifest.dirs \subseteq ToSet(Env.plugins)
           /\ ToSet(Env.plugins) \subseteq ext

SkillsInv ==
    PastWorkspace =>
        IF Env.mgmt = "operator"
        THEN \A s \in DOMAIN Data[pod.mount].skills :
                /\ s \in DOMAIN workspace
                /\ workspace[s] = Data[pod.mount].skills[s] \/ s \in history.notes
        ELSE builtinSkillNames \cap DOMAIN workspace = {}

Inv == /\ TypeInv /\ FileInv /\ RecordInv /\ MineInv /\ NotesInv
       /\ DueInv /\ SelectInv /\ PluginsInv /\ SkillsInv

-----------------------------------------------------------------------------
(* Facts about the state *)

LEMMA VersionFacts ==
  /\ 1 \in Versions /\ 0 \notin Versions
  /\ \A v \in Versions : /\ Data[v] = GeneratedData(Claws[v])
                         /\ Template[v] = TemplateOf(Claws[v])
                         /\ Template[v].plugins \in Seq(STRING)
                         /\ Template[v].mgmt \in {"operator", "user"}
  <1>1. 1 \in Versions /\ 0 \notin Versions
    BY ClawsAssumption
  <1>2. ASSUME NEW v \in Versions
        PROVE  /\ Data[v] = GeneratedData(Claws[v]) /\ Template[v] = TemplateOf(Claws[v])
               /\ Template[v].plugins \in Seq(STRING)
               /\ Template[v].mgmt \in {"operator", "user"}
    <2>1. Data[v] = GeneratedData(Claws[v]) /\ Template[v] = TemplateOf(Claws[v])
      BY DEF Data, Template
    <2>2. TemplateOf(Claws[v]).mgmt = Claws[v].mgmt
      BY DEF TemplateOf
    <2>3. Claws[v].mgmt \in {"operator", "user"}
      BY ClawsAssumption DEF WellFormed
    <2> QED
      BY <2>1, <2>2, <2>3, PluginsAssumption
  <1> QED
    BY <1>1, <1>2

LEMMA EmptyFacts == DOMAIN Empty = {} /\ Entries(Empty) = {}
  BY DEF Empty, Entries, LeavesAt

\* What a pod that is not there, and a history without events, are.
LEMMA RecordFacts ==
  /\ NoPod.phase = "gone" /\ NoPod.record = {} /\ NoPod.todo = <<>> /\ NoPod.before = {}
  /\ NoPod.tmpl = 0 /\ NoPod.mount = 0
  /\ DOMAIN NoPod = {"phase", "tmpl", "mount", "record", "todo", "before"}
  /\ DOMAIN Nothing = {"mine", "edited", "touched", "orphans", "theirs", "strays", "notes"}
  /\ Nothing.mine = Empty /\ Nothing.edited = {} /\ Nothing.touched = {} /\ Nothing.orphans = {}
  /\ Nothing.theirs = {} /\ Nothing.strays = {} /\ Nothing.notes = {}
  BY DEF NoPod, Nothing

-----------------------------------------------------------------------------
(* Types *)

LEMMA InitType == Init => TypeInv
  <1> SUFFICES ASSUME Init PROVE TypeInv
    OBVIOUS
  <1>1. /\ spec = 1 /\ job = 0 /\ configMap = 1 /\ deployment = 1 /\ pod = NoPod /\ history = Nothing
        /\ file = Missing /\ manifest = [there |-> FALSE, dirs |-> {}]
        /\ budget = [edits |-> MaxEdits, kills |-> MaxKills, touches |-> MaxTouches]
    BY DEF Init
  <1>2. budget \in [edits : Nat, kills : Nat, touches : Nat]
    BY <1>1, BoundsAssumption
  <1>3. TypeOK
    BY <1>1, <1>2, VersionFacts, RecordFacts DEF TypeOK, At, Phases, Missing
  <1>4. pod.todo \in Seq(STRING)
    BY <1>1, RecordFacts
  <1> QED
    BY <1>1, <1>2, <1>3, <1>4 DEF TypeInv

\* The pod's records keep their fields, and so do the budgets their types.
LEMMA NextType == TypeInv /\ [Next]_vars => TypeInv'
  <1> SUFFICES ASSUME TypeInv, [Next]_vars PROVE TypeInv'
    OBVIOUS
  <1>t. /\ {spec, configMap, deployment} \subseteq Versions /\ job \in Versions \cup {0}
        /\ pod.phase \in Phases
        /\ pod.phase = "gone" => pod = NoPod
        /\ pod.phase # "gone" => {pod.tmpl, pod.mount} \subseteq Versions
        /\ pod.record # {} => pod.phase = "record"
        /\ file.kind \in {"missing", "torn", "json"} /\ (file.kind # "json" => file.cfg = Empty)
        /\ manifest.there \in BOOLEAN /\ (~ manifest.there => manifest.dirs = {})
        /\ DOMAIN pod = {"phase", "tmpl", "mount", "record", "todo", "before"}
        /\ DOMAIN history = {"mine", "edited", "touched", "orphans", "theirs", "strays", "notes"}
        /\ pod.todo \in Seq(STRING)
        /\ budget \in [edits : Nat, kills : Nat, touches : Nat]
    BY RecordFacts DEF TypeInv, TypeOK, At
  <1> DEFINE
        Cluster == {spec, configMap, deployment} \subseteq Versions /\ job \in Versions \cup {0}
        Pod == /\ pod.phase \in Phases
               /\ pod.phase = "gone" => pod = NoPod
               /\ pod.phase # "gone" => {pod.tmpl, pod.mount} \subseteq Versions
               /\ pod.record # {} => pod.phase = "record"
               /\ DOMAIN pod = {"phase", "tmpl", "mount", "record", "todo", "before"}
               /\ pod.todo \in Seq(STRING)
        Volume == /\ file.kind \in {"missing", "torn", "json"} /\ (file.kind # "json" => file.cfg = Empty)
                  /\ manifest.there \in BOOLEAN /\ (~ manifest.there => manifest.dirs = {})
        Rest == /\ DOMAIN history = {"mine", "edited", "touched", "orphans", "theirs", "strays", "notes"}
                /\ budget \in [edits : Nat, kills : Nat, touches : Nat]
  <1>q. SUFFICES Cluster' /\ Pod' /\ Volume' /\ Rest'
    <2>1. Rest' => {budget'.edits, budget'.kills, budget'.touches} \subseteq Nat
      OBVIOUS
    <2> QED
      BY <2>1, RecordFacts DEF TypeInv, TypeOK, At
  <1>p. ASSUME pod' = NoPod PROVE Pod'
    <2>1. <<>> \in Seq(STRING)
      OBVIOUS
    <2> QED
      BY <1>p, <2>1, RecordFacts DEF Phases
  <1>1. CASE \E v \in Versions : EditClaw(v)
    BY <1>1, <1>t DEF EditClaw, volume
  <1>2. CASE ApplyConfigMap \/ ApplyDeployment
    BY <1>2, <1>t DEF ApplyConfigMap, ApplyDeployment, volume
  <1>3. CASE OperatorFails
    BY <1>3, <1>t DEF OperatorFails, volume
  <1>4. CASE StartPod
    <2>1. Pod'
      BY <1>4, <1>t, RecordFacts DEF StartPod, Phases
    <2> QED
      BY <1>4, <1>t, <2>1 DEF StartPod, cluster, volume
  <1>5. CASE RollOut \/ KillPod
    <2>1. Pod' /\ Cluster' /\ Volume'
      BY <1>5, <1>t, <1>p DEF RollOut, KillPod, cluster, volume
    <2> QED
      BY <1>5, <1>t, <2>1 DEF RollOut, KillPod
  <1>6. CASE WriteConfig
    <2>1. PICK mounted \in {pod.mount, configMap} :
              \E ops \in {Data[mounted].ops} : \E result \in {MergeResult(ops)} :
                 /\ file' = Written(result.cfg)
                 /\ pod' = [pod EXCEPT !.phase = "record", !.mount = mounted, !.record = result.record]
                 /\ DOMAIN history' = DOMAIN history
                 /\ UNCHANGED <<cluster, manifest, budget>>
      BY <1>6 DEF WriteConfig
    <2>2. Pod'
      BY <1>6, <1>t, <2>1 DEF WriteConfig, At, Phases
    <2> QED
      BY <1>t, <2>1, <2>2 DEF cluster, Written
  <1>7. CASE TearConfig
    BY <1>7, <1>t, <1>p DEF TearConfig, cluster, Torn
  <1>8. CASE WriteRecord
    <2>1. Pod'
      BY <1>8, <1>t DEF WriteRecord, At, Phases
    <2> QED
      BY <1>8, <1>t, <2>1 DEF WriteRecord, cluster
  <1>9. CASE TearRecord
    BY <1>9, <1>t, <1>p DEF TearRecord, cluster
  <1>10. CASE SeedWorkspace
    <2>1. Pod'
      BY <1>10, <1>t DEF SeedWorkspace, At, Phases
    <2> QED
      BY <1>10, <1>t, <2>1 DEF SeedWorkspace, cluster
  <1>11. CASE CleanPlugins
    <2>1. Env.plugins \in Seq(STRING)
      BY <1>11, <1>t, VersionFacts DEF CleanPlugins, At, Env
    <2>2. Pod'
      BY <1>11, <1>t, <2>1 DEF CleanPlugins, At, Phases
    <2> QED
      BY <1>11, <1>t, <2>2 DEF CleanPlugins, cluster
  <1>12. CASE InstallPlugin
    <2>1. <<>> \in Seq(STRING) /\ Tail(pod.todo) \in Seq(STRING)
      BY <1>12, <1>t DEF InstallPlugin
    <2>2. Pod'
      <3>1. CASE pod' = [pod EXCEPT !.phase = "clean", !.before = {}, !.todo = <<>>]
        BY <1>12, <1>t, <2>1, <3>1 DEF InstallPlugin, At, Phases
      <3>2. CASE pod' = [pod EXCEPT !.todo = Tail(@)]
        BY <1>12, <1>t, <2>1, <3>2 DEF InstallPlugin, At, Phases
      <3> QED
        BY <1>12, <3>1, <3>2 DEF InstallPlugin
    <2> QED
      BY <1>12, <1>t, <2>2 DEF InstallPlugin, cluster
  <1>13. CASE WriteManifest
    <2>1. Pod'
      BY <1>13, <1>t DEF WriteManifest, At, Phases
    <2> QED
      BY <1>13, <1>t, <2>1 DEF WriteManifest, cluster
  <1>14. CASE TearManifest
    BY <1>14, <1>t, <1>p DEF TearManifest, cluster
  <1>15. CASE \E e \in UserEdits : UserSets(e.leaf, e.value)
    BY <1>15, <1>t DEF UserSets, Touch, cluster, Written
  <1>16. CASE \E p \in UserPlugins : UserInstalls(p)
    BY <1>16, <1>t DEF UserInstalls, Touch, cluster
  <1>17. CASE \E f \in {"AGENTS", "platform"} : UserWrites(f)
    BY <1>17, <1>t DEF UserWrites, Touch, cluster
  <1>18. CASE UNCHANGED vars
    BY <1>18, <1>t DEF vars
  <1> QED
    BY <1>1, <1>2, <1>3, <1>4, <1>5, <1>6, <1>7, <1>8, <1>9, <1>10, <1>11, <1>12, <1>13, <1>14,
       <1>15, <1>16, <1>17, <1>18 DEF Next, Operate, RunContainers

\* The types of the state hold whatever the pods, the operator and the user do: a pod
\* that is gone keeps nothing, and a file that is not complete is not read as one.
THEOREM TypeCorrect == Spec => []TypeOK
  <1>1. TypeInv => TypeOK
    BY DEF TypeInv
  <1> QED
    BY <1>1, InitType, NextType, PTL DEF Spec

-----------------------------------------------------------------------------
(* What init-config makes of the files *)

\* The three ways of writing the file, told apart by what a start may do with it:
\* what it keeps, what it brings, and what it records.
LEMMA StartFacts ==
  ASSUME TypeInv, FileInv, MineInv, SelectInv, At("config"), ~ (Env.mgmt = "user" /\ file.kind = "torn"),
         NEW v \in Versions
  PROVE  LET ops == Data[v].ops
             r == MergeResult(ops)
             seed == deepMerge(SeedConfig, Env.agent.seed)
         IN  /\ r.record \subseteq Entries(r.cfg) \cap Entries(ops)
             /\ KeepsUserEdits(file.kind) =>
                   Entries(r.cfg) \subseteq r.record \cup (Entries(file.cfg) \ record)
             /\ ~ KeepsUserEdits(file.kind) => Entries(r.cfg) \subseteq r.record \cup Entries(seed)
             /\ \A l \in IF Env.mgmt = "operator" THEN DOMAIN ops \ Selection
                         ELSE LeavesAt(ops, InfrastructurePaths) \cup LeavesOf(ops, r.record) :
                   l \in DOMAIN r.cfg /\ r.cfg[l] = ops[l]
             /\ KeepsUserEdits(file.kind) =>
                   \A l \in StillMine(ops, r.cfg) :
                      /\ l \in DOMAIN r.cfg /\ r.cfg[l] = history.mine[l]
                      /\ l # Primary => Entry(l) \notin r.record
             /\ Selects(r.cfg, ModelsIn(r.cfg))
  <1> DEFINE ops == Data[v].ops
             r == MergeResult(ops)
             seed == deepMerge(SeedConfig, Env.agent.seed)
             due == IF Env.mgmt = "operator" THEN DOMAIN ops \ Selection
                    ELSE LeavesAt(ops, InfrastructurePaths) \cup LeavesOf(ops, r.record)
             Kept(base) == \A l \in StillMine(ops, r.cfg) :
                              /\ l \in DOMAIN r.cfg /\ r.cfg[l] = base[l]
                              /\ l # Primary => Entry(l) \notin r.record
  <1>1. Selects(ops, ModelsIn(ops))
    <2>a. Data[v] = GeneratedData(Claws[v])
      BY VersionFacts
    <2>1. ops = GeneratedConfig(Claws[v])
      BY <2>a DEF GeneratedData
    <2>2. WellFormed(Claws[v]) /\ Selects(Claws[v].raw, ModelsIn(Claws[v].raw) \cup CatalogModels(Claws[v]))
      BY ClawsAssumption, SelectionAssumption
    <2> QED
      BY <2>1, <2>2, GeneratedSelects
  <1>2. pod.tmpl \in Versions /\ file.kind \in {"missing", "torn", "json"}
    BY RecordFacts DEF TypeInv, TypeOK, At
  <1>3. Env.mgmt \in {"operator", "user"}
    BY <1>2, VersionFacts DEF Env
  <1>4. Selects(seed, ModelsIn(seed))
    <2>a. Env = TemplateOf(Claws[pod.tmpl])
      BY <1>2, VersionFacts DEF Env
    <2>1. Env.agent.seed = Claws[pod.tmpl].agent.seed
      BY <2>a DEF TemplateOf
    <2>2. Selects(SeedConfig, ModelsIn(SeedConfig)) /\ Selects(Env.agent.seed, ModelsIn(Env.agent.seed))
      BY <1>2, <2>1, SelectionAssumption
    <2> QED
      BY <2>2, FreshConfig DEF freshConfig
  <1>5. \A l \in DOMAIN history.mine :
           /\ l # Fallbacks /\ l \in DOMAIN file.cfg /\ file.cfg[l] = history.mine[l]
           /\ l # Primary => Entry(l) \notin record
    BY DEF MineInv
  <1>6. Selects(file.cfg, ModelsIn(file.cfg))
    BY DEF SelectInv
  <1> HIDE DEF ops, seed
  <1>7. CASE Env.mgmt = "user" /\ file.kind # "missing"
    <2>1. r = userManagedConfig(file.cfg, ops, record) /\ KeepsUserEdits(file.kind)
      BY <1>2, <1>7 DEF MergeResult, KeepsUserEdits
    <2>2. StillMine(ops, r.cfg) =
            {l \in DOMAIN history.mine :
               IF l = Primary THEN history.mine[l] \in ModelsIn(r.cfg)
               ELSE Entry(l) \notin Owned(file.cfg, ops, record) /\ l \notin LeavesAt(ops, InfrastructurePaths)}
      BY <1>7 DEF StillMine
    <2> DEFINE owned == Owned(file.cfg, ops, record)
    <2> HIDE DEF r
    <2>3. /\ r.record = owned /\ owned \subseteq Entries(ops) /\ owned \subseteq Entries(r.cfg)
          /\ Entries(r.cfg) \subseteq owned \cup (Entries(file.cfg) \ record)
          /\ Selects(r.cfg, ModelsIn(r.cfg))
      BY <1>1, <1>6, <2>1, UserManagedConfig
    <2>4. \A l \in DOMAIN ops : l[1] \in InfrastructurePaths \/ Entry(l) \in owned =>
                                   l \in DOMAIN r.cfg /\ r.cfg[l] = ops[l]
      BY <2>1, UserManagedConfig
    <2>5. \A l \in DOMAIN file.cfg \ Selection :
             /\ l \notin LeavesAt(ops, InfrastructurePaths)
             /\ Entry(l) \notin record /\ Entry(l) \notin owned
             => l \in DOMAIN r.cfg /\ r.cfg[l] = file.cfg[l]
      BY <2>1, UserManagedConfig
    <2>6. Primary \in DOMAIN file.cfg /\ file.cfg[Primary] \in ModelsIn(r.cfg) =>
             Primary \in DOMAIN r.cfg /\ r.cfg[Primary] = file.cfg[Primary]
      BY <2>1, UserManagedConfig
    <2> HIDE DEF owned
    <2>7. \A l \in due : l \in DOMAIN r.cfg /\ r.cfg[l] = ops[l]
      BY <1>7, <2>3, <2>4 DEF LeavesAt, LeavesOf
    <2>8. ASSUME NEW l \in StillMine(ops, r.cfg)
          PROVE  /\ l \in DOMAIN r.cfg /\ r.cfg[l] = history.mine[l]
                 /\ l # Primary => Entry(l) \notin r.record
      <3>1. l \in DOMAIN history.mine
        BY <2>2
      <3>2. CASE l = Primary
        BY <1>5, <2>2, <2>6, <3>1, <3>2
      <3>3. CASE l # Primary
        <4>1. Entry(l) \notin owned /\ l \notin LeavesAt(ops, InfrastructurePaths)
          BY <2>2, <3>3 DEF owned
        <4>2. l \notin Selection
          BY <1>5, <3>1, <3>3 DEF Selection
        <4> QED
          BY <1>5, <2>3, <2>5, <3>1, <3>3, <4>1, <4>2
      <3> QED
        BY <3>2, <3>3
    <2> QED
      BY <2>1, <2>3, <2>7, <2>8 DEF r, ops, seed
  <1>8. CASE ~ (Env.mgmt = "user" /\ file.kind # "missing") /\ Env.mode = "merge" /\ file.kind = "json"
    <2>1. r = mergedConfig(file.cfg, ops, record) /\ KeepsUserEdits(file.kind) /\ Env.mgmt = "operator"
      BY <1>3, <1>8 DEF MergeResult, KeepsUserEdits
    <2>2. StillMine(ops, r.cfg) =
            {l \in DOMAIN history.mine :
               IF l = Primary THEN history.mine[l] \in ModelsIn(r.cfg)
               ELSE Entry(l) \notin Entries(ops) /\ l \notin DOMAIN ops}
      BY <1>8, <2>1 DEF StillMine
    <2> HIDE DEF r
    <2>3. /\ r.record = Entries(ops) /\ Entries(ops) \subseteq Entries(r.cfg)
          /\ Entries(r.cfg) \subseteq Entries(ops) \cup (Entries(file.cfg) \ record)
          /\ Selects(r.cfg, ModelsIn(r.cfg))
      BY <1>1, <1>6, <2>1, MergedConfig
    <2>4. \A l \in DOMAIN ops \ Selection : l \in DOMAIN r.cfg /\ r.cfg[l] = ops[l]
      BY <2>1, MergedConfig
    <2>5. \A l \in DOMAIN file.cfg \ Selection :
             l \notin DOMAIN ops /\ Entry(l) \notin record =>
                 l \in DOMAIN r.cfg /\ r.cfg[l] = file.cfg[l]
      BY <2>1, MergedConfig
    <2>6. Primary \in DOMAIN file.cfg /\ file.cfg[Primary] \in ModelsIn(r.cfg) =>
             Primary \in DOMAIN r.cfg /\ r.cfg[Primary] = file.cfg[Primary]
      BY <2>1, MergedConfig
    <2>7. \A l \in due : l \in DOMAIN r.cfg /\ r.cfg[l] = ops[l]
      BY <2>1, <2>4
    <2>8. ASSUME NEW l \in StillMine(ops, r.cfg)
          PROVE  /\ l \in DOMAIN r.cfg /\ r.cfg[l] = history.mine[l]
                 /\ l # Primary => Entry(l) \notin r.record
      <3>1. l \in DOMAIN history.mine
        BY <2>2
      <3>2. CASE l = Primary
        BY <1>5, <2>2, <2>6, <3>1, <3>2
      <3>3. CASE l # Primary
        <4>1. Entry(l) \notin Entries(ops) /\ l \notin DOMAIN ops
          BY <2>2, <3>3
        <4>2. l \notin Selection
          BY <1>5, <3>1, <3>3 DEF Selection
        <4> QED
          BY <1>5, <2>3, <2>5, <3>1, <3>3, <4>1, <4>2
      <3> QED
        BY <3>2, <3>3
    <2> QED
      BY <2>1, <2>3, <2>7, <2>8 DEF r, ops, seed
  <1>9. CASE ~ (Env.mgmt = "user" /\ file.kind # "missing") /\ Env.mode = "merge" /\ file.kind = "torn"
    <2>1. r = mergedConfig(SeedConfig, ops, record) /\ ~ KeepsUserEdits(file.kind) /\ Env.mgmt = "operator"
      BY <1>3, <1>9 DEF MergeResult, KeepsUserEdits
    <2> HIDE DEF r
    <2>2. Entries(SeedConfig) \subseteq Entries(seed)
      BY MergedEntries DEF seed
    <2>3. /\ r.record = Entries(ops) /\ Entries(ops) \subseteq Entries(r.cfg)
          /\ Entries(r.cfg) \subseteq Entries(ops) \cup (Entries(SeedConfig) \ record)
          /\ Selects(r.cfg, ModelsIn(r.cfg))
      BY <1>1, <2>1, MergedConfig, SelectionAssumption
    <2>4. \A l \in DOMAIN ops \ Selection : l \in DOMAIN r.cfg /\ r.cfg[l] = ops[l]
      BY <2>1, MergedConfig
    <2> QED
      BY <2>1, <2>2, <2>3, <2>4 DEF r, ops, seed
  <1>10. CASE ~ (Env.mgmt = "user" /\ file.kind # "missing") /\ (Env.mode # "merge" \/ file.kind = "missing")
    <2>1. r = freshConfig(seed, ops)
      BY <1>10 DEF MergeResult, seed
    <2>2. ~ KeepsUserEdits(file.kind)
      BY <1>10 DEF KeepsUserEdits
    <2> HIDE DEF r
    <2>3. /\ r.record = Entries(ops) /\ Entries(r.cfg) = Entries(ops) \cup Entries(seed)
          /\ Selects(r.cfg, ModelsIn(r.cfg))
      BY <1>1, <1>4, <2>1, FreshConfig
    <2>4. \A l \in DOMAIN ops : l \in DOMAIN r.cfg /\ r.cfg[l] = ops[l]
      BY <2>1, FreshConfig
    <2>5. \A l \in due : l \in DOMAIN r.cfg /\ r.cfg[l] = ops[l]
      BY <2>4 DEF LeavesAt, LeavesOf
    <2> QED
      BY <2>2, <2>3, <2>5 DEF r, ops, seed
  <1> QED
    BY <1>2, <1>7, <1>8, <1>9, <1>10

-----------------------------------------------------------------------------
(* openclaw.json and its record *)

\* The part of the invariant that is about openclaw.json and the record.
ConfigInv == FileInv /\ RecordInv /\ MineInv /\ DueInv /\ SelectInv

\* What the part depends on.
LEMMA ConfigFrame ==
  ASSUME ConfigInv, UNCHANGED <<file, record>>,
         pod'.tmpl = pod.tmpl, pod'.mount = pod.mount, pod'.record = pod.record,
         PastConfig' => PastConfig, At("record")' <=> At("record"),
         history'.mine = history.mine, history'.touched = history.touched,
         history'.orphans = history.orphans, history'.edited = history.edited
  PROVE  ConfigInv'
  <1>1. Recorded' = Recorded
    BY DEF Recorded, At
  <1>2. Due' = Due
    BY <1>1 DEF Due, Env
  <1>3. FileInv' /\ MineInv' /\ SelectInv'
    BY DEF ConfigInv, FileInv, MineInv, SelectInv
  <1>4. RecordInv'
    BY <1>1 DEF ConfigInv, RecordInv
  <1>5. DueInv'
    BY <1>2 DEF ConfigInv, DueInv
  <1> QED
    BY <1>3, <1>4, <1>5 DEF ConfigInv

\* A pod goes away, with what it had still to record.
LEMMA ConfigPodGone ==
  ASSUME TypeInv, ConfigInv, pod' = NoPod, UNCHANGED file,
         history'.mine = history.mine, history'.touched = history.touched,
         record' \subseteq record,
         record \cup pod.record \subseteq record' \cup history'.orphans,
         history.orphans \subseteq history'.orphans
  PROVE  ConfigInv'
  <1>1. pod'.phase = "gone" /\ pod'.record = {}
    BY RecordFacts
  <1>2. ~ PastConfig' /\ ~ At("record")'
    BY <1>1 DEF PastConfig, At, Phases
  <1>3. FileInv' /\ SelectInv' /\ DueInv'
    BY <1>2 DEF ConfigInv, FileInv, SelectInv, DueInv
  <1>4. MineInv'
    BY <1>1 DEF ConfigInv, MineInv
  <1>5. Recorded \subseteq record \cup pod.record
    BY DEF Recorded
  <1>6. RecordInv'
    BY <1>2, <1>5 DEF ConfigInv, RecordInv, Recorded
  <1> QED
    BY <1>3, <1>4, <1>6 DEF ConfigInv

LEMMA ConfigWriteConfig ==
  ASSUME TypeInv, ConfigInv, WriteConfig
  PROVE  ConfigInv'
  <1>1. PICK mounted \in {pod.mount, configMap} :
            LET r == MergeResult(Data[mounted].ops)
            IN  /\ file' = Written(r.cfg)
                /\ pod' = [pod EXCEPT !.phase = "record", !.mount = mounted, !.record = r.record]
                /\ history' = [history EXCEPT
                      !.mine = IF KeepsUserEdits(file.kind)
                               THEN Only(@, StillMine(Data[mounted].ops, r.cfg)) ELSE Empty,
                      !.touched = IF KeepsUserEdits(file.kind) THEN @
                                  ELSE Entries(deepMerge(SeedConfig, Env.agent.seed)),
                      !.orphans = IF KeepsUserEdits(file.kind) THEN @ ELSE {},
                      !.edited = {}]
    BY DEF WriteConfig
  <1> DEFINE ops == Data[mounted].ops
             r == MergeResult(ops)
             seed == deepMerge(SeedConfig, Env.agent.seed)
             keeps == KeepsUserEdits(file.kind)
             still == StillMine(ops, r.cfg)
  <1>2. /\ pod.phase = "config" /\ mounted \in Versions
        /\ {"phase", "tmpl", "mount", "record"} \subseteq DOMAIN pod
        /\ {"mine", "touched", "orphans", "edited"} \subseteq DOMAIN history
        /\ ~ (Env.mgmt = "user" /\ file.kind = "torn")
        /\ UNCHANGED record
    BY RecordFacts DEF WriteConfig, At, TypeInv, TypeOK
  <1>3. /\ r.record \subseteq Entries(r.cfg) \cap Entries(ops)
        /\ keeps => Entries(r.cfg) \subseteq r.record \cup (Entries(file.cfg) \ record)
        /\ ~ keeps => Entries(r.cfg) \subseteq r.record \cup Entries(seed)
        /\ \A l \in IF Env.mgmt = "operator" THEN DOMAIN ops \ Selection
                    ELSE LeavesAt(ops, InfrastructurePaths) \cup LeavesOf(ops, r.record) :
              l \in DOMAIN r.cfg /\ r.cfg[l] = ops[l]
        /\ keeps => \A l \in still : /\ l \in DOMAIN r.cfg /\ r.cfg[l] = history.mine[l]
                                     /\ l # Primary => Entry(l) \notin r.record
        /\ Selects(r.cfg, ModelsIn(r.cfg))
    BY <1>2, StartFacts DEF ConfigInv, At
  <1>4. still \subseteq DOMAIN history.mine
    BY DEF StillMine
  <1>5. /\ file'.kind = "json" /\ file'.cfg = r.cfg
        /\ pod'.phase = "record" /\ pod'.tmpl = pod.tmpl /\ pod'.mount = mounted /\ pod'.record = r.record
        /\ history'.mine = IF keeps THEN Only(history.mine, still) ELSE Empty
        /\ history'.touched = IF keeps THEN history.touched ELSE Entries(seed)
        /\ history'.orphans = IF keeps THEN history.orphans ELSE {}
    BY <1>1, <1>2 DEF Written
  <1> HIDE DEF ops, r, seed, keeps, still
  <1>6. Recorded = record /\ Recorded' = r.record /\ Env' = Env /\ PastConfig'
    BY <1>2, <1>5 DEF Recorded, At, Env, PastConfig, Phases
  <1>7. FileInv' /\ SelectInv'
    BY <1>3, <1>5 DEF FileInv, SelectInv
  <1>8. RecordInv'
    BY <1>3, <1>5, <1>6 DEF ConfigInv, RecordInv, ops
  <1>9. MineInv'
    <2>1. CASE keeps
      <3>1. /\ DOMAIN history'.mine = still
            /\ \A l \in still : history'.mine[l] = history.mine[l]
        BY <1>4, <1>5, <2>1 DEF Only
      <3> QED
        BY <1>2, <1>3, <1>4, <1>5, <2>1, <3>1 DEF ConfigInv, MineInv
    <2>2. CASE ~ keeps
      BY <1>5, <2>2, EmptyFacts DEF MineInv
    <2> QED
      BY <2>1, <2>2
  <1>10. DueInv'
    BY <1>3, <1>5, <1>6 DEF DueInv, Due, ops
  <1> QED
    BY <1>7, <1>8, <1>9, <1>10 DEF ConfigInv

LEMMA ConfigWriteRecord ==
  ASSUME TypeInv, ConfigInv, WriteRecord
  PROVE  ConfigInv'
  <1>1. /\ pod.phase = "record" /\ UNCHANGED file /\ record' = pod.record
        /\ pod'.phase = "workspace" /\ pod'.record = {}
        /\ pod'.tmpl = pod.tmpl /\ pod'.mount = pod.mount
        /\ history'.mine = history.mine /\ history'.touched = history.touched
        /\ history'.edited = history.edited /\ history'.orphans = history.orphans \ pod.record
    BY RecordFacts DEF WriteRecord, At, TypeInv
  <1>2. Recorded' = Recorded /\ Recorded = pod.record /\ Env' = Env /\ PastConfig
    BY <1>1 DEF Recorded, At, Env, PastConfig, Phases
  <1>3. FileInv' /\ SelectInv' /\ MineInv'
    BY <1>1, <1>2 DEF ConfigInv, FileInv, SelectInv, MineInv
  <1>4. RecordInv'
    BY <1>1, <1>2 DEF ConfigInv, RecordInv
  <1>5. Due' = Due
    BY <1>1, <1>2 DEF Due
  <1>6. DueInv'
    BY <1>1, <1>2, <1>5 DEF ConfigInv, DueInv
  <1> QED
    BY <1>3, <1>4, <1>6 DEF ConfigInv

LEMMA ConfigUserSets ==
  ASSUME TypeInv, ConfigInv, NEW l, NEW v, UserSets(l, v)
  PROVE  ConfigInv'
  <1> DEFINE cfg == Set(file.cfg, l, v)
             own == \/ l = Primary \/ l \in DOMAIN history.mine
                    \/ l # Fallbacks /\ LeavesOf(file.cfg, {Entry(l)}) = {}
  <1>1. /\ pod.phase = "up" /\ UNCHANGED <<pod, record>>
        /\ l = Primary => v \in ModelsIn(file.cfg)
        /\ l = Fallbacks => v \subseteq ModelsIn(file.cfg)
        /\ file'.kind = "json" /\ file'.cfg = cfg
        /\ history'.edited = history.edited \cup {l}
        /\ history'.touched = history.touched \cup {Entry(l)}
        /\ history'.orphans = history.orphans
        /\ history'.mine = IF own THEN Set(history.mine, l, v) ELSE history.mine
    BY RecordFacts DEF UserSets, Touch, At, TypeInv, Written
  <1>2. /\ DOMAIN cfg = DOMAIN file.cfg \cup {l} /\ cfg[l] = v
        /\ \A k \in DOMAIN file.cfg : k # l => cfg[k] = file.cfg[k]
    BY DEF Set
  <1>3. Entries(file.cfg) \subseteq Entries(cfg) /\ Entries(cfg) \subseteq Entries(file.cfg) \cup {Entry(l)}
    BY <1>2 DEF Entries, LeavesAt
  <1>4. ModelsIn(file.cfg) \subseteq ModelsIn(cfg)
    BY <1>2 DEF ModelsIn, LeavesAt
  <1>5. pod.record = {} /\ Recorded = record /\ Recorded' = Recorded /\ Due' = Due /\ PastConfig
    BY <1>1 DEF TypeInv, TypeOK, At, Recorded, Due, Env, PastConfig, Phases
  <1> HIDE DEF cfg
  <1>6. FileInv'
    BY <1>1 DEF FileInv
  <1>7. RecordInv'
    BY <1>1, <1>3, <1>5 DEF ConfigInv, RecordInv
  <1>8. MineInv'
    <2>1. own => l # Fallbacks /\ (l # Primary => Entry(l) \notin record)
      <3>1. CASE l = Primary
        BY <3>1, SelectionFacts
      <3>2. CASE l \in DOMAIN history.mine
        BY <3>2 DEF ConfigInv, MineInv
      <3>3. CASE l # Fallbacks /\ LeavesOf(file.cfg, {Entry(l)}) = {}
        <4>1. Entry(l) \notin Entries(file.cfg)
          BY <3>3, EntryFacts DEF LeavesOf
        <4> QED
          BY <1>5, <3>3, <4>1 DEF ConfigInv, RecordInv
      <3> QED
        BY <3>1, <3>2, <3>3
    <2>2. CASE own
      <3>1. /\ DOMAIN history'.mine = DOMAIN history.mine \cup {l} /\ history'.mine[l] = v
            /\ \A k \in DOMAIN history.mine : k # l => history'.mine[k] = history.mine[k]
        BY <1>1, <2>2 DEF Set
      <3> QED
        BY <1>1, <1>2, <1>5, <2>1, <2>2, <3>1 DEF ConfigInv, MineInv
    <2>3. CASE ~ own
      BY <1>1, <1>2, <2>3 DEF ConfigInv, MineInv
    <2> QED
      BY <2>2, <2>3
  <1>9. DueInv'
    BY <1>1, <1>2, <1>5 DEF ConfigInv, DueInv
  <1>10. SelectInv'
    BY <1>1, <1>2, <1>4 DEF ConfigInv, SelectInv, Selects
  <1> QED
    BY <1>6, <1>7, <1>8, <1>9, <1>10 DEF ConfigInv

-----------------------------------------------------------------------------
(* The workspace *)

WorkspaceInv == NotesInv /\ SkillsInv

LEMMA WorkspaceFrame ==
  ASSUME WorkspaceInv, UNCHANGED workspace, history'.notes = history.notes,
         PastWorkspace' => PastWorkspace /\ pod'.tmpl = pod.tmpl /\ pod'.mount = pod.mount
  PROVE  WorkspaceInv'
  <1>1. NotesInv'
    BY DEF WorkspaceInv, NotesInv
  <1>2. SkillsInv'
    BY DEF WorkspaceInv, SkillsInv, Env
  <1> QED
    BY <1>1, <1>2 DEF WorkspaceInv

\* What seeding the workspace does: the operator's skills are written, a user-managed
\* workspace loses the builtin ones, and every file that is not overwritten stays.
LEMMA SeededFacts ==
  ASSUME NEW ws, NEW data, NEW agent, NEW mgmt
  PROVE  LET r == seededWorkspace(ws, data, agent, mgmt)
         IN  /\ mgmt # "user" => \A s \in DOMAIN data.skills : s \in DOMAIN r /\ r[s] = data.skills[s]
             /\ mgmt = "user" => builtinSkillNames \cap DOMAIN r = {}
             /\ \A f \in DOMAIN ws :
                   /\ f \notin DOMAIN data.skills
                   /\ agent.always => f \notin DOMAIN agent.files
                   /\ mgmt = "user" => f \notin builtinSkillNames
                   => f \in DOMAIN r /\ r[f] = ws[f]
  <1> DEFINE agents == IF agent.always THEN deepMerge(ws, agent.files) ELSE Seed(ws, agent.files)
             own == Seed(agents, data.files)
             marker == [f \in {"deployment"} |-> "builtin"]
             builtin == [f \in {"AGENTS", "SOUL", "BOOTSTRAP"} |-> "builtin"]
             r == seededWorkspace(ws, data, agent, mgmt)
  <1>1. \A f \in DOMAIN ws : (agent.always => f \notin DOMAIN agent.files) =>
                                f \in DOMAIN agents /\ agents[f] = ws[f]
    BY DEF deepMerge, Seed
  <1>2. \A f \in DOMAIN agents : f \in DOMAIN own /\ own[f] = agents[f]
    <2> HIDE DEF agents
    <2> QED
      BY DEF deepMerge, Seed
  <1> HIDE DEF agents
  <1>3. CASE mgmt = "user"
    <2> DEFINE kept == Drop(own, builtinSkillNames)
    <2>1. r = Seed(kept, marker)
      BY <1>3 DEF seededWorkspace, agents
    <2>2. /\ DOMAIN kept = DOMAIN own \ builtinSkillNames
          /\ \A f \in DOMAIN kept : kept[f] = own[f]
      <3> HIDE DEF own
      <3> QED
        BY DEF Drop, Only
    <2> HIDE DEF own, kept
    <2>3. /\ DOMAIN r = DOMAIN kept \cup {"deployment"}
          /\ \A f \in DOMAIN kept : r[f] = kept[f]
      <3> HIDE DEF r
      <3> QED
        BY <2>1 DEF Seed, deepMerge
    <2>4. "deployment" \notin builtinSkillNames
      BY DEF builtinSkillNames
    <2> HIDE DEF r
    <2>5. builtinSkillNames \cap DOMAIN r = {}
      BY <2>2, <2>3, <2>4
    <2> QED
      BY <1>1, <1>2, <1>3, <2>2, <2>3, <2>5 DEF r
  <1>4. CASE mgmt # "user"
    <2> DEFINE kept == Seed(own, builtin)
    <2>1. r = deepMerge(kept, data.skills)
      BY <1>4 DEF seededWorkspace, agents
    <2>2. \A f \in DOMAIN own : f \in DOMAIN kept /\ kept[f] = own[f]
      <3> HIDE DEF own
      <3> QED
        BY DEF Seed, deepMerge
    <2> HIDE DEF own, kept
    <2>3. /\ DOMAIN r = DOMAIN kept \cup DOMAIN data.skills
          /\ \A f \in DOMAIN data.skills : r[f] = data.skills[f]
          /\ \A f \in DOMAIN kept : f \notin DOMAIN data.skills => r[f] = kept[f]
      <3> HIDE DEF r
      <3> QED
        BY <2>1 DEF deepMerge
    <2> HIDE DEF r
    <2> QED
      BY <1>1, <1>2, <1>4, <2>2, <2>3 DEF r
  <1> QED
    BY <1>3, <1>4

LEMMA WorkspaceSeed ==
  ASSUME TypeInv, WorkspaceInv, SeedWorkspace
  PROVE  WorkspaceInv'
  <1> DEFINE data == Data[pod.mount]
  <1>1. /\ pod.phase = "workspace" /\ pod'.tmpl = pod.tmpl /\ pod'.mount = pod.mount
        /\ workspace' = seededWorkspace(workspace, data, Env.agent, Env.mgmt)
        /\ history'.notes = history.notes \ (DOMAIN data.skills
                               \cup (IF Env.agent.always THEN DOMAIN Env.agent.files ELSE {})
                               \cup (IF Env.mgmt = "user" THEN builtinSkillNames ELSE {}))
    BY RecordFacts DEF SeedWorkspace, At, TypeInv
  <1>2. Env.mgmt \in {"operator", "user"}
    BY <1>1, VersionFacts DEF TypeInv, TypeOK, At, Env
  <1>3. Env' = Env /\ Data[pod'.mount] = data
    BY <1>1 DEF Env
  <1> HIDE DEF data
  <1>4. /\ Env.mgmt # "user" => \A s \in DOMAIN data.skills : s \in DOMAIN workspace' /\ workspace'[s] = data.skills[s]
        /\ Env.mgmt = "user" => builtinSkillNames \cap DOMAIN workspace' = {}
        /\ \A f \in DOMAIN workspace :
              /\ f \notin DOMAIN data.skills
              /\ Env.agent.always => f \notin DOMAIN Env.agent.files
              /\ Env.mgmt = "user" => f \notin builtinSkillNames
              => f \in DOMAIN workspace' /\ workspace'[f] = workspace[f]
    BY <1>1, SeededFacts
  <1>5. NotesInv'
    BY <1>1, <1>4 DEF WorkspaceInv, NotesInv
  <1>6. SkillsInv'
    BY <1>2, <1>3, <1>4 DEF SkillsInv
  <1> QED
    BY <1>5, <1>6 DEF WorkspaceInv

LEMMA WorkspaceUserWrites ==
  ASSUME TypeInv, WorkspaceInv, NEW f, UserWrites(f)
  PROVE  WorkspaceInv'
  <1>1. /\ UNCHANGED pod /\ f \in DOMAIN workspace /\ workspace' = [workspace EXCEPT ![f] = "user"]
        /\ history'.notes = history.notes \cup {f}
    BY RecordFacts DEF UserWrites, TypeInv
  <1>2. /\ DOMAIN workspace' = DOMAIN workspace /\ workspace'[f] = "user"
        /\ \A g \in DOMAIN workspace : g # f => workspace'[g] = workspace[g]
    BY <1>1
  <1>3. NotesInv'
    BY <1>1, <1>2 DEF WorkspaceInv, NotesInv
  <1>4. SkillsInv'
    BY <1>1, <1>2 DEF WorkspaceInv, SkillsInv, PastWorkspace, Env
  <1> QED
    BY <1>3, <1>4 DEF WorkspaceInv

-----------------------------------------------------------------------------
(* The plugins *)

LEMMA HeadAndTail ==
  ASSUME NEW s \in Seq(STRING), s # <<>>
  PROVE  ToSet(s) = {Head(s)} \cup ToSet(Tail(s))
  <1>1. /\ Len(s) \in Nat \ {0} /\ DOMAIN s = 1..Len(s) /\ Head(s) = s[1]
        /\ DOMAIN Tail(s) = 1..(Len(s) - 1)
        /\ \A i \in 1..(Len(s) - 1) : Tail(s)[i] = s[i + 1]
    OBVIOUS
  <1>2. ASSUME NEW x \in ToSet(s) PROVE x \in {Head(s)} \cup ToSet(Tail(s))
    <2>1. PICK i \in 1..Len(s) : x = s[i]
      BY <1>1, <1>2 DEF ToSet
    <2>2. CASE i = 1
      BY <1>1, <2>1, <2>2
    <2>3. CASE i # 1
      <3>1. i - 1 \in 1..(Len(s) - 1) /\ (i - 1) + 1 = i
        BY <1>1, <2>3
      <3>2. Tail(s)[i - 1] = x
        BY <1>1, <2>1, <3>1
      <3> QED
        BY <1>1, <3>1, <3>2 DEF ToSet
    <2> QED
      BY <2>2, <2>3
  <1>3. ASSUME NEW x \in {Head(s)} \cup ToSet(Tail(s)) PROVE x \in ToSet(s)
    <2>1. CASE x = Head(s)
      BY <1>1, <2>1 DEF ToSet
    <2>2. CASE x \in ToSet(Tail(s))
      <3>1. PICK i \in 1..(Len(s) - 1) : x = Tail(s)[i]
        BY <1>1, <2>2 DEF ToSet
      <3>2. i + 1 \in 1..Len(s) /\ x = s[i + 1]
        BY <1>1, <3>1
      <3> QED
        BY <1>1, <3>2 DEF ToSet
    <2> QED
      BY <1>3, <2>1, <2>2
  <1> QED
    BY <1>2, <1>3

\* The steps of init-plugins leave openclaw.json, the record and the workspace alone.
LEMMA PluginStep ==
  ASSUME TypeInv, CleanPlugins \/ InstallPlugin \/ WriteManifest
  PROVE  /\ pod.phase \in {"clean", "install"} /\ pod'.phase \in {"clean", "install", "up"}
         /\ UNCHANGED <<file, record, workspace>>
         /\ pod'.tmpl = pod.tmpl /\ pod'.mount = pod.mount /\ pod'.record = pod.record
  <1>1. DOMAIN pod = {"phase", "tmpl", "mount", "record", "todo", "before"}
    BY RecordFacts DEF TypeInv
  <1>2. CASE CleanPlugins
    BY <1>1, <1>2 DEF CleanPlugins, At
  <1>3. CASE InstallPlugin
    <2>1. CASE pod' = [pod EXCEPT !.phase = "clean", !.before = {}, !.todo = <<>>]
      BY <1>1, <1>3, <2>1 DEF InstallPlugin, At
    <2>2. CASE pod' = [pod EXCEPT !.todo = Tail(@)]
      BY <1>1, <1>3, <2>2 DEF InstallPlugin, At
    <2> QED
      BY <1>3, <2>1, <2>2 DEF InstallPlugin
  <1>4. CASE WriteManifest
    BY <1>1, <1>4 DEF WriteManifest, At
  <1> QED
    BY <1>2, <1>3, <1>4

LEMMA PluginsFrame ==
  ASSUME PluginsInv, UNCHANGED <<ext, manifest>>,
         history'.theirs = history.theirs, history'.strays = history.strays,
         At("install")' => At("install") /\ UNCHANGED pod,
         At("up")' => (At("up") \/ Env'.plugins = <<>>) /\ pod'.tmpl = pod.tmpl
  PROVE  PluginsInv'
  BY DEF PluginsInv, Env

LEMMA PluginsClean ==
  ASSUME TypeInv, PluginsInv, CleanPlugins
  PROVE  PluginsInv'
  <1> DEFINE preserve == Env.mgmt = "user"
             left == IF manifest.there THEN ext \ manifest.dirs ELSE IF preserve THEN ext ELSE {}
  <1>1. /\ ext' = left /\ ~ manifest'.there
        /\ pod'.phase = "install" /\ pod'.before = left /\ pod'.todo = Env.plugins /\ pod'.tmpl = pod.tmpl
        /\ history'.theirs = history.theirs \cap left
        /\ history'.strays = IF ~ manifest.there /\ preserve THEN left \ history.theirs
                             ELSE history.strays \cap left
    BY RecordFacts DEF CleanPlugins, TypeInv
  <1>2. left \subseteq history'.theirs \cup history'.strays
    BY <1>1 DEF PluginsInv
  <1>3. Env' = Env
    BY <1>1 DEF Env
  <1> HIDE DEF left
  <1> QED
    BY <1>1, <1>2, <1>3 DEF PluginsInv, At

LEMMA PluginsInstall ==
  ASSUME TypeInv, PluginsInv, InstallPlugin
  PROVE  PluginsInv'
  <1>1. /\ pod.phase = "install" /\ pod.todo # <<>> /\ pod.todo \in Seq(STRING)
        /\ UNCHANGED <<manifest, history>> /\ {"phase", "todo", "before", "tmpl"} \subseteq DOMAIN pod
    BY RecordFacts DEF InstallPlugin, At, TypeInv
  <1>2. CASE Head(pod.todo) \in ext
    <2>1. UNCHANGED ext /\ pod'.phase = "clean"
      BY <1>1, <1>2 DEF InstallPlugin
    <2> QED
      BY <1>1, <2>1 DEF PluginsInv, At
  <1>3. CASE Head(pod.todo) \notin ext
    <2>1. /\ ext' = ext \cup {Head(pod.todo)} /\ pod'.phase = "install" /\ pod'.todo = Tail(pod.todo)
          /\ pod'.before = pod.before /\ pod'.tmpl = pod.tmpl
      BY <1>1, <1>3 DEF InstallPlugin
    <2>2. ToSet(pod.todo) = {Head(pod.todo)} \cup ToSet(Tail(pod.todo))
      BY <1>1, HeadAndTail
    <2>3. Env' = Env
      BY <2>1 DEF Env
    <2> QED
      BY <1>1, <2>1, <2>2, <2>3 DEF PluginsInv, At
  <1> QED
    BY <1>2, <1>3

LEMMA PluginsManifest ==
  ASSUME TypeInv, PluginsInv, WriteManifest
  PROVE  PluginsInv'
  <1>1. /\ pod.phase = "install" /\ pod.todo = <<>> /\ UNCHANGED <<ext, history>>
        /\ manifest'.there /\ manifest'.dirs = ext \ pod.before
        /\ pod'.phase = "up" /\ pod'.tmpl = pod.tmpl
    BY RecordFacts DEF WriteManifest, At, TypeInv
  <1>2. ToSet(pod.todo) = {}
    BY <1>1 DEF ToSet
  <1>3. Env' = Env
    BY <1>1 DEF Env
  <1> QED
    BY <1>1, <1>2, <1>3 DEF PluginsInv, At

LEMMA PluginsTear ==
  ASSUME TypeInv, PluginsInv, TearManifest
  PROVE  PluginsInv'
  <1>1. /\ pod.phase = "install" /\ UNCHANGED ext /\ manifest'.dirs = {} /\ pod'.phase = "gone"
        /\ history'.theirs = history.theirs /\ history'.strays = history.strays \cup (ext \ pod.before)
    BY RecordFacts DEF TearManifest, At, TypeInv
  <1> QED
    BY <1>1 DEF PluginsInv, At

LEMMA PluginsUserInstalls ==
  ASSUME TypeInv, PluginsInv, NEW p, UserInstalls(p)
  PROVE  PluginsInv'
  <1>1. /\ pod.phase = "up" /\ UNCHANGED <<pod, manifest>> /\ ext' = ext \cup {p}
        /\ history'.theirs = history.theirs \cup {p} /\ history'.strays = history.strays
    BY RecordFacts DEF UserInstalls, Touch, At, TypeInv
  <1> QED
    BY <1>1 DEF PluginsInv, At, Env

-----------------------------------------------------------------------------
(* The invariant *)

LEMMA InitInv == Init => Inv
  <1> SUFFICES ASSUME Init PROVE Inv
    OBVIOUS
  <1>1. /\ pod = NoPod /\ file = Missing /\ record = {} /\ workspace = Empty
        /\ ext = {} /\ manifest = [there |-> FALSE, dirs |-> {}] /\ history = Nothing
    BY DEF Init
  <1>2. pod.phase = "gone" /\ file.cfg = Empty /\ ~ manifest.there
    BY <1>1, RecordFacts DEF Missing
  <1>3. ~ PastConfig /\ ~ PastWorkspace /\ ~ At("record") /\ ~ At("install") /\ ~ At("up")
    BY <1>2 DEF PastConfig, PastWorkspace, At
  <1>4. FileInv /\ RecordInv /\ MineInv /\ NotesInv
    BY <1>1, <1>2, <1>3, RecordFacts, EmptyFacts DEF FileInv, RecordInv, MineInv, NotesInv
  <1>5. DueInv /\ SelectInv /\ PluginsInv /\ SkillsInv
    BY <1>2, <1>3, EmptyFacts DEF DueInv, SelectInv, Selects, PluginsInv, SkillsInv
  <1> QED
    BY <1>4, <1>5, InitType DEF Inv

\* Every step keeps what the invariant says of openclaw.json and the record.
LEMMA NextConfig == TypeInv /\ ConfigInv /\ [Next]_vars => ConfigInv'
  <1> SUFFICES ASSUME TypeInv, ConfigInv, [Next]_vars PROVE ConfigInv'
    OBVIOUS
  <1> USE RecordFacts
  <1>d. /\ DOMAIN pod = DOMAIN NoPod /\ DOMAIN history = DOMAIN Nothing
        /\ pod.phase = "gone" => pod = NoPod
        /\ pod.record # {} => pod.phase = "record"
    BY DEF TypeInv, TypeOK, At
  <1>1. CASE UNCHANGED <<file, record, pod, history>>
    BY <1>1, ConfigFrame DEF PastConfig, At
  <1>2. CASE StartPod
    <2>1. /\ pod = NoPod /\ UNCHANGED <<file, record, history>>
          /\ pod'.phase = "config" /\ pod'.record = {}
      BY <1>2, <1>d DEF StartPod, volume
    <2>2. ~ PastConfig' /\ Recorded' = Recorded
      BY <2>1 DEF PastConfig, Recorded, At
    <2>3. FileInv' /\ MineInv' /\ SelectInv' /\ DueInv'
      BY <2>1, <2>2 DEF ConfigInv, FileInv, MineInv, SelectInv, DueInv
    <2>4. RecordInv'
      BY <2>1, <2>2 DEF ConfigInv, RecordInv
    <2> QED
      BY <2>3, <2>4 DEF ConfigInv
  <1>3. CASE RollOut \/ KillPod
    <2>1. /\ pod' = NoPod /\ UNCHANGED <<file, record>>
          /\ history' = [history EXCEPT !.orphans = @ \cup (pod.record \ record)]
      BY <1>3 DEF RollOut, KillPod, volume
    <2> QED
      BY <1>d, <2>1, ConfigPodGone
  <1>4. CASE WriteConfig
    BY <1>4, ConfigWriteConfig
  <1>5. CASE TearConfig
    <2>1. /\ file'.kind = "torn" /\ file'.cfg = Empty /\ pod'.phase = "gone" /\ history'.mine = Empty
      BY <1>5, <1>d DEF TearConfig, Torn
    <2>2. ~ PastConfig'
      BY <2>1 DEF PastConfig
    <2> QED
      BY <2>1, <2>2, EmptyFacts DEF ConfigInv, FileInv, RecordInv, MineInv, DueInv, SelectInv, Selects
  <1>6. CASE WriteRecord
    BY <1>6, ConfigWriteRecord
  <1>7. CASE TearRecord
    <2>1. /\ pod' = NoPod /\ UNCHANGED file /\ record' = {}
          /\ history' = [history EXCEPT !.orphans = @ \cup record \cup pod.record]
      BY <1>7 DEF TearRecord
    <2> QED
      BY <1>d, <2>1, ConfigPodGone
  <1>8. CASE SeedWorkspace
    <2>1. /\ pod.phase = "workspace" /\ UNCHANGED <<file, record>> /\ pod'.phase \in {"clean", "up"}
          /\ pod'.tmpl = pod.tmpl /\ pod'.mount = pod.mount /\ pod'.record = pod.record
          /\ history'.mine = history.mine /\ history'.touched = history.touched
          /\ history'.orphans = history.orphans /\ history'.edited = history.edited
      BY <1>8, <1>d DEF SeedWorkspace, At
    <2>2. PastConfig /\ ~ At("record") /\ ~ At("record")'
      BY <2>1 DEF PastConfig, At, Phases
    <2> QED
      BY <2>1, <2>2, ConfigFrame
  <1>9. CASE CleanPlugins \/ InstallPlugin \/ WriteManifest
    <2>1. /\ pod.phase \in {"clean", "install"} /\ UNCHANGED <<file, record>>
          /\ pod'.phase \in {"clean", "install", "up"}
          /\ pod'.tmpl = pod.tmpl /\ pod'.mount = pod.mount /\ pod'.record = pod.record
      BY <1>9, PluginStep
    <2>2. /\ history'.mine = history.mine /\ history'.touched = history.touched
          /\ history'.orphans = history.orphans /\ history'.edited = history.edited
      BY <1>9, <1>d DEF CleanPlugins, InstallPlugin, WriteManifest
    <2>3. PastConfig /\ ~ At("record") /\ ~ At("record")'
      BY <2>1 DEF PastConfig, At, Phases
    <2> QED
      BY <2>1, <2>2, <2>3, ConfigFrame
  <1>10. CASE TearManifest
    <2>1. /\ pod' = NoPod /\ UNCHANGED <<file, record>> /\ pod.phase = "install"
          /\ history' = [history EXCEPT !.strays = @ \cup (ext \ pod.before)]
      BY <1>10 DEF TearManifest, At
    <2> QED
      BY <1>d, <2>1, ConfigPodGone
  <1>11. CASE \E e \in UserEdits : UserSets(e.leaf, e.value)
    BY <1>11, ConfigUserSets
  <1>12. CASE \E p \in UserPlugins : UserInstalls(p)
    <2>1. UNCHANGED <<file, record, pod>> /\ \E p : history' = [history EXCEPT !.theirs = @ \cup {p}]
      BY <1>12 DEF UserInstalls
    <2> QED
      BY <1>d, <2>1, ConfigFrame DEF PastConfig, At
  <1>13. CASE \E f \in {"AGENTS", "platform"} : UserWrites(f)
    <2>1. UNCHANGED <<file, record, pod>> /\ \E f : history' = [history EXCEPT !.notes = @ \cup {f}]
      BY <1>13 DEF UserWrites
    <2> QED
      BY <1>d, <2>1, ConfigFrame DEF PastConfig, At
  <1>14. CASE Operate \/ OperatorFails \/ (\E v \in Versions : EditClaw(v)) \/ UNCHANGED vars
    BY <1>1, <1>14 DEF Operate, ApplyConfigMap, ApplyDeployment, OperatorFails, EditClaw, volume, vars
  <1> QED
    BY <1>2, <1>3, <1>4, <1>5, <1>6, <1>7, <1>8, <1>9, <1>10, <1>11, <1>12, <1>13, <1>14
       DEF Next, RunContainers

\* Every step keeps what it says of the workspace.
LEMMA NextWorkspace == TypeInv /\ WorkspaceInv /\ [Next]_vars => WorkspaceInv'
  <1> SUFFICES ASSUME TypeInv, WorkspaceInv, [Next]_vars PROVE WorkspaceInv'
    OBVIOUS
  <1> USE RecordFacts
  <1>d. DOMAIN pod = DOMAIN NoPod /\ DOMAIN history = DOMAIN Nothing
    BY DEF TypeInv
  <1>1. ASSUME UNCHANGED workspace, history'.notes = history.notes, ~ PastWorkspace' PROVE WorkspaceInv'
    BY <1>1, WorkspaceFrame
  <1>2. ASSUME UNCHANGED <<workspace, pod>>, history'.notes = history.notes PROVE WorkspaceInv'
    BY <1>2, WorkspaceFrame DEF PastWorkspace
  <1>3. CASE StartPod \/ RollOut \/ KillPod \/ TearConfig \/ TearRecord \/ TearManifest
    <2>1. UNCHANGED workspace /\ pod'.phase \in {"gone", "config"}
      BY <1>3, <1>d DEF StartPod, RollOut, KillPod, TearConfig, TearRecord, TearManifest, volume
    <2>2. history'.notes = history.notes
      BY <1>3, <1>d DEF StartPod, RollOut, KillPod, TearConfig, TearRecord, TearManifest
    <2> QED
      BY <1>1, <2>1, <2>2 DEF PastWorkspace
  <1>4. CASE WriteConfig \/ WriteRecord
    <2>1. UNCHANGED workspace /\ pod'.phase \in {"record", "workspace"}
      BY <1>4, <1>d DEF WriteConfig, WriteRecord
    <2>2. history'.notes = history.notes
      BY <1>4, <1>d DEF WriteConfig, WriteRecord
    <2> QED
      BY <1>1, <2>1, <2>2 DEF PastWorkspace
  <1>5. CASE SeedWorkspace
    BY <1>5, WorkspaceSeed
  <1>6. CASE CleanPlugins \/ InstallPlugin \/ WriteManifest
    <2>1. /\ pod.phase \in {"clean", "install"} /\ UNCHANGED workspace
          /\ pod'.tmpl = pod.tmpl /\ pod'.mount = pod.mount
      BY <1>6, PluginStep
    <2>2. history'.notes = history.notes
      BY <1>6, <1>d DEF CleanPlugins, InstallPlugin, WriteManifest
    <2> QED
      BY <2>1, <2>2, WorkspaceFrame DEF PastWorkspace
  <1>7. CASE \E e \in UserEdits : UserSets(e.leaf, e.value)
    <2>1. UNCHANGED <<workspace, pod>> /\ history'.notes = history.notes
      BY <1>7, <1>d DEF UserSets
    <2> QED
      BY <1>2, <2>1
  <1>8. CASE \E p \in UserPlugins : UserInstalls(p)
    BY <1>2, <1>8, <1>d DEF UserInstalls
  <1>9. CASE \E f \in {"AGENTS", "platform"} : UserWrites(f)
    BY <1>9, WorkspaceUserWrites
  <1>10. CASE Operate \/ OperatorFails \/ (\E v \in Versions : EditClaw(v)) \/ UNCHANGED vars
    BY <1>2, <1>10 DEF Operate, ApplyConfigMap, ApplyDeployment, OperatorFails, EditClaw, volume, vars
  <1> QED
    BY <1>3, <1>4, <1>5, <1>6, <1>7, <1>8, <1>9, <1>10 DEF Next, RunContainers

\* Every step keeps what it says of the plugins.
LEMMA NextPlugins == TypeInv /\ PluginsInv /\ [Next]_vars => PluginsInv'
  <1> SUFFICES ASSUME TypeInv, PluginsInv, [Next]_vars PROVE PluginsInv'
    OBVIOUS
  <1> USE RecordFacts
  <1>d. DOMAIN pod = DOMAIN NoPod /\ DOMAIN history = DOMAIN Nothing
    BY DEF TypeInv
  <1>1. ASSUME UNCHANGED <<ext, manifest>>, ~ At("install")', ~ At("up")',
               history'.theirs = history.theirs, history'.strays = history.strays
        PROVE  PluginsInv'
    BY <1>1, PluginsFrame
  <1>2. ASSUME UNCHANGED <<ext, manifest, pod>>,
               history'.theirs = history.theirs, history'.strays = history.strays
        PROVE  PluginsInv'
    BY <1>2, PluginsFrame DEF At
  <1>3. CASE StartPod \/ RollOut \/ KillPod \/ TearConfig \/ TearRecord
    <2>1. UNCHANGED <<ext, manifest>> /\ pod'.phase \in {"gone", "config"}
      BY <1>3, <1>d DEF StartPod, RollOut, KillPod, TearConfig, TearRecord, volume
    <2>2. history'.theirs = history.theirs /\ history'.strays = history.strays
      BY <1>3, <1>d DEF StartPod, RollOut, KillPod, TearConfig, TearRecord
    <2> QED
      BY <1>1, <2>1, <2>2 DEF At
  <1>4. CASE WriteConfig \/ WriteRecord
    <2>1. UNCHANGED <<ext, manifest>> /\ pod'.phase \in {"record", "workspace"}
      BY <1>4, <1>d DEF WriteConfig, WriteRecord
    <2>2. history'.theirs = history.theirs /\ history'.strays = history.strays
      BY <1>4, <1>d DEF WriteConfig, WriteRecord
    <2> QED
      BY <1>1, <2>1, <2>2 DEF At
  <1>5. CASE SeedWorkspace
    <2>1. /\ UNCHANGED <<ext, manifest>> /\ pod'.tmpl = pod.tmpl
          /\ pod'.phase = IF Env.plugins = <<>> THEN "up" ELSE "clean"
      BY <1>5, <1>d DEF SeedWorkspace
    <2>2. history'.theirs = history.theirs /\ history'.strays = history.strays
      BY <1>5, <1>d DEF SeedWorkspace
    <2>3. Env' = Env
      BY <2>1 DEF Env
    <2> QED
      BY <2>1, <2>2, <2>3, PluginsFrame DEF At
  <1>6. CASE CleanPlugins
    BY <1>6, PluginsClean
  <1>7. CASE InstallPlugin
    BY <1>7, PluginsInstall
  <1>8. CASE WriteManifest
    BY <1>8, PluginsManifest
  <1>9. CASE TearManifest
    BY <1>9, PluginsTear
  <1>10. CASE \E e \in UserEdits : UserSets(e.leaf, e.value)
    <2>1. UNCHANGED <<ext, manifest, pod>> /\ history'.theirs = history.theirs /\ history'.strays = history.strays
      BY <1>10, <1>d DEF UserSets
    <2> QED
      BY <1>2, <2>1
  <1>11. CASE \E p \in UserPlugins : UserInstalls(p)
    BY <1>11, PluginsUserInstalls
  <1>12. CASE \E f \in {"AGENTS", "platform"} : UserWrites(f)
    BY <1>2, <1>12, <1>d DEF UserWrites
  <1>13. CASE Operate \/ OperatorFails \/ (\E v \in Versions : EditClaw(v)) \/ UNCHANGED vars
    BY <1>2, <1>13 DEF Operate, ApplyConfigMap, ApplyDeployment, OperatorFails, EditClaw, volume, vars
  <1> QED
    BY <1>3, <1>4, <1>5, <1>6, <1>7, <1>8, <1>9, <1>10, <1>11, <1>12, <1>13 DEF Next, RunContainers

\* The invariant holds in every state.
THEOREM Invariance == Spec => []Inv
  <1>1. Inv /\ [Next]_vars => Inv'
    BY NextType, NextConfig, NextWorkspace, NextPlugins DEF Inv, ConfigInv, WorkspaceInv
  <1> QED
    BY <1>1, InitInv, PTL DEF Spec

-----------------------------------------------------------------------------
(* The properties *)

\* An entry the user added stays with the user's value until the operator declares
\* it, the model the user selected as long as it is offered, and the files the user
\* wrote until the operator's own are written over them: over all starts, kills and
\* versions (mergeManagedObjectEntries, pruneManagedRuntimeEntries, seedIfMissing).
THEOREM UserSettingsKept == Spec => []UserSettingsSurvive
  <1>1. Inv => UserSettingsSurvive
    BY DEF Inv, MineInv, NotesInv, UserSettingsSurvive
  <1> QED
    BY <1>1, Invariance, PTL

\* The selected models are always among the models of the same openclaw.json
\* (pruneRemovedModelSelections), given seeds and raw configurations that select
\* only what they offer.
THEOREM SelectionAlwaysValid == Spec => []SelectionValid
  <1>1. Inv => SelectionValid
    BY DEF Inv, SelectInv, SelectionValid
  <1> QED
    BY <1>1, Invariance, PTL

\* A gateway at rest that mounted its own template's data mounted the data of the
\* Claw's present version, and runs with that version's settings.
LEMMA SettledFacts ==
  ASSUME TypeInv, Settled
  PROVE  /\ spec \in Versions /\ pod.phase = "up"
         /\ Data[pod.mount] = Data[spec] /\ Env.mgmt = Claws[spec].mgmt
         /\ PastConfig /\ PastWorkspace /\ Recorded = record
         /\ Claws[spec].mgmt \in {"operator", "user"}
  <1>1. /\ spec \in Versions /\ pod.phase = "up" /\ pod.tmpl \in Versions
        /\ Template[pod.tmpl] = Template[spec] /\ Data[pod.mount] = Data[pod.tmpl]
    BY DEF TypeInv, TypeOK, Settled, AtRest, At
  <1>2. /\ Template[spec] = TemplateOf(Claws[spec]) /\ Template[pod.tmpl] = TemplateOf(Claws[pod.tmpl])
        /\ Data[spec] = GeneratedData(Claws[spec]) /\ Data[pod.tmpl] = GeneratedData(Claws[pod.tmpl])
        /\ Template[spec].mgmt \in {"operator", "user"}
    BY <1>1, VersionFacts
  <1>3. ASSUME NEW v \in Versions
        PROVE  TemplateOf(Claws[v]).hash.data = GeneratedData(Claws[v]) /\ TemplateOf(Claws[v]).mgmt = Claws[v].mgmt
    BY DEF TemplateOf, stampGatewayConfigHash
  <1>4. Data[pod.tmpl] = Data[spec]
    BY <1>1, <1>2, <1>3
  <1>5. Env.mgmt = Claws[spec].mgmt /\ Claws[spec].mgmt \in {"operator", "user"}
    BY <1>1, <1>2, <1>3 DEF Env
  <1> QED
    BY <1>1, <1>4, <1>5 DEF PastConfig, PastWorkspace, Recorded, At, Phases

\* What the operator no longer declares does not linger in the gateway's
\* configuration, unless the record that would prune it was lost
\* (pruneManagedRuntimeEntries).
THEOREM WithdrawnAlwaysPruned == Spec => []WithdrawnPruned
  <1>1. Inv => WithdrawnPruned
    <2> SUFFICES ASSUME Inv, Settled
                 PROVE  Entries(file.cfg) \subseteq
                           Entries(Data[spec].ops) \cup history.touched \cup history.orphans
      BY DEF WithdrawnPruned
    <2>1. Data[pod.mount] = Data[spec] /\ PastConfig
      BY SettledFacts DEF Inv
    <2> QED
      BY <2>1 DEF Inv, RecordInv
  <1> QED
    BY <1>1, Invariance, PTL

\* The gateway at rest has what the Claw's present version generates, whatever came
\* before: its configuration, its plugins, its skills (merge.js, init-plugins,
\* stampGatewayConfigHash).
THEOREM SpecAlwaysReachesGateway == Spec => []SpecReachesGateway
  <1>1. ASSUME Inv, Settled
        PROVE  LET ops == Data[spec].ops
                   due == IF OperatorManaged THEN DOMAIN ops \ Selection
                          ELSE LeavesAt(ops, InfrastructurePaths) \cup LeavesOf(ops, record)
               IN  \A l \in due \ history.edited : l \in DOMAIN file.cfg /\ file.cfg[l] = ops[l]
    <2>1. Data[pod.mount] = Data[spec] /\ Env.mgmt = Claws[spec].mgmt /\ PastConfig /\ Recorded = record
      BY <1>1, SettledFacts DEF Inv
    <2> QED
      BY <1>1, <2>1 DEF Inv, DueInv, Due, OperatorManaged
  <1>2. ASSUME Inv, Settled
        PROVE  /\ ToSet(Env.plugins) \subseteq ext
               /\ OperatorManaged /\ Env.plugins # <<>> =>
                     ext \subseteq ToSet(Env.plugins) \cup history.theirs \cup history.strays
    <2>1. At("up")
      BY <1>2 DEF Settled, AtRest
    <2>2. CASE Env.plugins = <<>>
      <3>1. ToSet(Env.plugins) = {}
        BY <2>2 DEF ToSet
      <3> QED
        BY <2>2, <3>1
    <2>3. CASE Env.plugins # <<>>
      BY <1>2, <2>1, <2>3 DEF Inv, PluginsInv
    <2> QED
      BY <2>2, <2>3
  <1>3. ASSUME Inv, Settled
        PROVE  /\ \A s \in DOMAIN Data[spec].skills :
                     s \in DOMAIN workspace /\ (workspace[s] = Data[spec].skills[s] \/ s \in history.notes)
               /\ ~ OperatorManaged => builtinSkillNames \cap DOMAIN workspace = {}
    <2>1. /\ Data[pod.mount] = Data[spec] /\ Env.mgmt = Claws[spec].mgmt /\ PastWorkspace
          /\ Claws[spec].mgmt \in {"operator", "user"} /\ spec \in Versions
      BY <1>3, SettledFacts DEF Inv
    <2>2. CASE Claws[spec].mgmt = "operator"
      BY <1>3, <2>1, <2>2 DEF Inv, SkillsInv, OperatorManaged
    <2>3. CASE Claws[spec].mgmt = "user"
      <3>1. Data[spec] = GeneratedData(Claws[spec])
        BY <2>1, VersionFacts
      <3>2. Data[spec].skills = Empty
        BY <2>3, <3>1 DEF GeneratedData
      <3>3. DOMAIN Data[spec].skills = {}
        BY <3>2, EmptyFacts
      <3> QED
        BY <1>3, <2>1, <2>3, <3>3 DEF Inv, SkillsInv, OperatorManaged
    <2> QED
      BY <2>1, <2>2, <2>3
  <1>4. Inv => SpecReachesGateway
    BY <1>1, <1>2, <1>3 DEF SpecReachesGateway
  <1> QED
    BY <1>4, Invariance, PTL

\* A gateway of which the status says "with vector recall" has memory search on
\* (setMemoryStackCondition, injectMemoryStack).
THEOREM RecallAsReported == Spec => []VectorRecallAsReported
  <1>1. Inv => VectorRecallAsReported
    <2> SUFFICES ASSUME Inv, Settled, OperatorManaged,
                        MemoryStackCondition(Claws[spec]) = "vectorRecall",
                        SearchEnabled \notin history.edited
                 PROVE  /\ SearchProvider \in DOMAIN file.cfg
                        /\ SearchEnabled \in DOMAIN file.cfg => file.cfg[SearchEnabled] = "true"
      BY DEF VectorRecallAsReported
    <2>1. /\ Data[pod.mount] = Data[spec] /\ Env.mgmt = "operator" /\ PastConfig /\ spec \in Versions
      BY SettledFacts DEF Inv, OperatorManaged
    <2>2. Data[spec] = GeneratedData(Claws[spec]) /\ WellFormed(Claws[spec])
      BY <2>1, VersionFacts, ClawsAssumption
    <2>3. Data[spec].ops = GeneratedConfig(Claws[spec])
      BY <2>2 DEF GeneratedData
    <2>4. /\ SearchProvider \in DOMAIN Data[spec].ops /\ SearchEnabled \in DOMAIN Data[spec].ops
          /\ Data[spec].ops[SearchEnabled] = "true"
      BY <2>2, <2>3, GeneratedRecall
    <2>5. SearchProvider \notin Selection /\ SearchEnabled \notin Selection
      BY DEF SearchProvider, SearchEnabled, Selection, Primary, Fallbacks
    <2> QED
      BY <2>1, <2>4, <2>5 DEF Inv, DueInv, Due
  <1> QED
    BY <1>1, Invariance, PTL
=============================================================================
