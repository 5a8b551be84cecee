----------------------------- MODULE OperatorConfig -----------------------------
(***************************************************************************)
(* What the operator makes of a Claw for its gateway's pods: the           *)
(* configuration it generates (operator-7.2.json), the workspace files and *)
(* skills beside it in the ConfigMap, the plugins to install, and the pod  *)
(* template that carries the hash of all this.                             *)
(*                                                                         *)
(* A Claw is a record:                                                     *)
(*   creds     the credentials: a sequence of [provider, type, channel]    *)
(*   custom    customProviders: a sequence of [name, models]               *)
(*   raw       spec.config.raw, a configuration                            *)
(*   mode      mergeMode: "merge" or "overwrite"                           *)
(*   mgmt      management: "operator" or "user"                            *)
(*   auth      "token" or "password"                                       *)
(*   dreaming  the dreaming layer: "off", "" or its frequency              *)
(*   wiki      the wiki layer: "off", "" or its mode                       *)
(*   mcp       the names of mcpServers                                     *)
(*   search    the webSearch provider, or None                             *)
(*   traces, logs, metrics, installs   what is enabled                     *)
(*   plugins   spec.plugins, a sequence of packages                        *)
(*   files, skills   workspace.files and skills.content, by name           *)
(*   images    the names of skills.images                                  *)
(*   agent     agentFiles: [files, always, seed], seed a configuration     *)
(***************************************************************************)
EXTENDS ConfigMerge, Naturals, Sequences, SequencesExt

CONSTANTS
    Catalog,       \* provider key -> the sequence of its models
    VertexKey,     \* provider -> its key when the Vertex SDK serves it
    VertexPlugin,  \* provider -> [package, id] of its Vertex plugin
    Embedding,     \* the providers with an embedding adapter
    KeyedSearch,   \* the search providers that need a key
    RouteHost      \* the gateway's host, known before anything is generated

None == "none"

ASSUME CatalogAssumption == \A k \in DOMAIN Catalog : Catalog[k] \in Seq(STRING)

\* What the API server checks of a Claw, as far as it matters here.
WellFormed(claw) ==
    /\ claw.creds \in Seq([provider : STRING, type : STRING, channel : STRING])
    /\ claw.custom \in Seq([name : STRING, models : Seq(STRING)])
    /\ claw.mgmt \in {"operator", "user"}

-----------------------------------------------------------------------------
(* Providers and models *)

usesVertexSDK(c) == c.type = "gcp" /\ c.provider \notin {None, "google"}

\* The credentials that stand for a provider of models.
Serves(c) == c.provider # None /\ c.type # "path_token"

Serving(claw) == SelectSeq(claw.creds, Serves)

ProviderKeyOf(c) == IF usesVertexSDK(c) THEN VertexKey[c.provider] ELSE c.provider

\* The base URL is in the entry; a Vertex provider and a direct one differ in it.
injectProviders(cfg, claw) ==
    LET serving == Serving(claw)
        keys == {ProviderKeyOf(c) : c \in ToSet(serving)} \cup {p.name : p \in ToSet(claw.custom)}
    IN  deepMerge(Drop(cfg, LeavesAt(cfg, {"providers"})),
                  [l \in {<<"providers", k, "baseUrl">> : k \in keys} |-> "upstream"])

\* The Vertex plugins of the credentials.
VertexPlugins(claw) ==
    {VertexPlugin[c.provider] : c \in {d \in ToSet(claw.creds) :
                                          usesVertexSDK(d) /\ d.provider \in DOMAIN VertexPlugin}}

injectProviderPlugins(cfg, claw) ==
    LET absent == {p.id : p \in {q \in VertexPlugins(claw) : <<"plugins", q.id>> \notin Entries(cfg)}}
    IN  deepMerge(cfg, [l \in {<<"plugins", id, "enabled">> : id \in absent} |-> "true"])

\* The catalogue of each credential, then those of the custom providers; most may
\* be empty.
Catalogs(claw) ==
    LET known(c) == IF Serves(c) /\ ProviderKeyOf(c) \in DOMAIN Catalog
                    THEN Catalog[ProviderKeyOf(c)] ELSE <<>>
    IN  [i \in DOMAIN claw.creds |-> known(claw.creds[i])]
        \o [i \in DOMAIN claw.custom |-> claw.custom[i].models]

CatalogModels(claw) == UNION {ToSet(Catalogs(claw)[i]) : i \in DOMAIN Catalogs(claw)}

\* Catalogue entries fill gaps; the models that may be used are the ones listed,
\* unless raw says; the first catalogue with a model gives the selection that raw
\* leaves open, without fallbacks if it is a custom provider's.
injectModelCatalog(cfg, claw) ==
    LET all == Catalogs(claw)
        models == CatalogModels(claw)
        first == CHOOSE i \in DOMAIN all : all[i] # <<>> /\ \A j \in 1..(i - 1) : all[j] = <<>>
        listed == deepMerge([l \in {<<"models", m, "alias">> : m \in models \ ModelsIn(cfg)} |-> "catalog"],
                            cfg)
        allowed == IF LeavesAt(cfg, {"modelPolicy"}) # {} THEN listed
                   ELSE Set(listed, <<"modelPolicy", "allow", "">>, ModelsIn(listed))
        selected == SetDefault(allowed, Primary, all[first][1])
        fallbacks == IF first > Len(claw.creds) THEN {} ELSE ToSet(Tail(all[first]))
    IN  IF models = {} THEN cfg
        ELSE IF fallbacks = {} THEN selected
        ELSE SetDefault(selected, Fallbacks, fallbacks)

-----------------------------------------------------------------------------
(* Memory *)

SearchEnabled == <<"memory", "search", "enabled">>
SearchProvider == <<"memory", "search", "provider">>
ContextEngine == <<"slots", "contextEngine", "">>

userHasMemorySearchConfig(cfg) == \E l \in DOMAIN cfg : Entry(l) = <<"memory", "search">>

\* GCP credentials do not count.
EmbeddingCreds(claw) ==
    SelectSeq(claw.creds, LAMBDA c : c.type # "gcp" /\ c.provider \in Embedding)

injectMemorySearch(cfg, claw) ==
    IF userHasMemorySearchConfig(cfg) THEN cfg
    ELSE IF EmbeddingCreds(claw) # <<>> THEN Set(cfg, SearchProvider, EmbeddingCreds(claw)[1].provider)
    ELSE Set(cfg, SearchEnabled, "false")

memoryStackEnabled(claw) == claw.dreaming # "off" \/ claw.wiki # "off"

\* A field of the Claw overwrites, a default does not.
FieldOrDefault(cfg, l, field, default) ==
    IF field # "" THEN Set(cfg, l, field)
    ELSE IF default # "" THEN SetDefault(cfg, l, default)
    ELSE cfg

injectDreaming(cfg, frequency) ==
    FieldOrDefault(SetDefault(cfg, <<"plugins", "memory-core", "enabled">>, "true"),
                   <<"plugins", "memory-core", "frequency">>, frequency, "")

\* The many fields of the entry that are plain defaults are one.
injectWiki(cfg, mode) ==
    LET moded == FieldOrDefault(SetDefault(cfg, <<"plugins", "memory-wiki", "enabled">>, "true"),
                                <<"plugins", "memory-wiki", "vaultMode">>, mode, "bridge")
    IN  IF moded[<<"plugins", "memory-wiki", "vaultMode">>] = "bridge"
        THEN SetDefault(moded, <<"plugins", "memory-wiki", "bridge">>, "true")
        ELSE moded

\* (Mutant) A flag that an earlier start left on the volume is not repaired.
injectMemoryStackLayers(cfg, claw) ==
    LET dreaming == IF claw.dreaming # "off" THEN injectDreaming(cfg, claw.dreaming) ELSE cfg
    IN  IF ~ memoryStackEnabled(claw) \/ ContextEngine \in DOMAIN cfg THEN cfg
        ELSE IF claw.wiki # "off" THEN injectWiki(dreaming, claw.wiki)
        ELSE dreaming

injectMemoryStack(cfg, claw) ==
    LET repaired == IF EmbeddingCreds(claw) # <<>> /\ ~ userHasMemorySearchConfig(claw.raw)
                    THEN Set(cfg, SearchEnabled, "true") ELSE cfg
        dreaming == IF claw.dreaming # "off" THEN injectDreaming(repaired, claw.dreaming) ELSE repaired
    IN  IF ~ memoryStackEnabled(claw) \/ ContextEngine \in DOMAIN cfg THEN cfg
        ELSE IF claw.wiki # "off" THEN injectWiki(dreaming, claw.wiki)
        ELSE dreaming

\* setMemoryStackCondition: what the status says of the memory layers.
MemoryStackCondition(claw) ==
    IF ~ memoryStackEnabled(claw) THEN "absent"
    ELSE IF ContextEngine \in DOMAIN claw.raw THEN "userManaged"
    ELSE IF userHasMemorySearchConfig(claw.raw) THEN "asRawSays"
    ELSE IF EmbeddingCreds(claw) # <<>> THEN "vectorRecall"
    ELSE "noVectorRecall"

-----------------------------------------------------------------------------
(* Channels, MCP servers, web search, diagnostics, bootstrap *)

DeclaredChannels(claw) == {c.channel : c \in ToSet(claw.creds)} \ {None}

\* The channels replace what raw has; their plugin entries do too.
injectChannels(cfg, claw) ==
    LET channels == DeclaredChannels(claw)
        plugins == {<<"plugins", c>> : c \in channels}
        rest == Drop(cfg, LeavesAt(cfg, {"channels"}) \cup LeavesOf(cfg, plugins))
    IN  IF channels = {} THEN cfg
        ELSE deepMerge(rest,
                 [l \in {<<"channels", c, "config">> : c \in channels}
                        \cup {<<"plugins", c, "enabled">> : c \in channels} |-> "true"])

injectMcpServers(cfg, claw) ==
    IF claw.mcp = {} THEN cfg
    ELSE deepMerge(Drop(cfg, LeavesAt(cfg, {"mcp"})),
                   [l \in {<<"mcp", m, "url">> : m \in claw.mcp} |-> "declared"])

injectWebSearch(cfg, claw) ==
    LET tools == deepMerge(Drop(cfg, LeavesOf(cfg, {<<"tools", "search">>})),
                           [l \in {<<"tools", "search", "provider">>} |-> claw.search])
    IN  IF claw.search = None THEN cfg
        ELSE IF claw.search \in KeyedSearch
             THEN Set(tools, <<"plugins", claw.search, "webSearch">>, "placeholder")
             ELSE tools

injectDiagnosticsConfig(cfg, claw) ==
    LET on == {s \in {"traces", "logs", "metrics"} : claw[s]}
        signals == deepMerge(cfg, [l \in {<<"diagnostics", "otel", s>> : s \in on \cup {"enabled"}} |-> "true"])
    IN  IF on = {} THEN cfg
        ELSE SetDefault(signals, <<"diagnostics", "otel", "endpoint">>, "collector")

\* What only an operator-managed gateway gets: skipDefaultPersonality, and
\* injectBootstrapHook unless raw has the hook.
injectBootstrap(cfg, claw) ==
    LET hook == <<"hooks", "bootstrap-extra-files", "">>
    IN  IF claw.mgmt = "user" THEN cfg
        ELSE SetDefault(Set(cfg, <<"defaults", "skipOptionalBootstrapFiles", "">>, "persona"), hook, "operator")

-----------------------------------------------------------------------------
(* The ConfigMap and the pod template *)

\* enforceInfrastructureKeys, enforceTrustedProxies, disableUpdateCheck,
\* injectRouteHost and injectAuthMode.  Of the fixed values, one stands for all.
enforceInfrastructure(cfg, claw) ==
    LET origins == <<"gateway", "controlUi", "allowedOrigins">>
        hosts == IF origins \in DOMAIN cfg THEN cfg[origins] ELSE {}
        fixed == [l \in {<<"gateway", "bind", "">>, <<"update", "checkOnStart", "">>} |-> "fixed"]
    IN  Set(Set(deepMerge(cfg, fixed), origins, hosts \cup {RouteHost}),
            <<"gateway", "auth", "mode">>, claw.auth)

\* The steps of enrichConfigAndNetworkPolicy, in its order: up to the models, up to
\* memory, and the rest.  The template has the fixed infrastructure only, so raw is
\* all there is to start from.
OfferingConfig(claw) ==
    injectModelCatalog(injectProviderPlugins(injectProviders(
        enforceInfrastructure(claw.raw, claw), claw), claw), claw)

RecallingConfig(claw) ==
    injectMemoryStack(injectMemorySearch(OfferingConfig(claw), claw), claw)

GeneratedConfig(claw) ==
    injectBootstrap(injectDiagnosticsConfig(injectWebSearch(injectMcpServers(injectChannels(
        RecallingConfig(claw), claw), claw), claw), claw), claw)

validateUniqueProviders(claw) ==
    LET serving == Serving(claw)
    IN  IsInjective([i \in DOMAIN serving |-> ProviderKeyOf(serving[i])]
                    \o [i \in DOMAIN claw.custom |-> claw.custom[i].name])

validateUniqueChannels(claw) ==
    LET channels == SelectSeq(claw.creds, LAMBDA c : c.channel # None)
    IN  IsInjective([i \in DOMAIN channels |-> channels[i].channel])

validateWorkspaceFiles(claw) == DOMAIN claw.files \cap builtinSkillNames = {}

\* No builtin skill is replaced, and no skill comes from two sources.
validateSkills(claw) ==
    /\ (DOMAIN claw.skills \cup claw.images) \cap builtinSkillNames = {}
    /\ DOMAIN claw.skills \cap claw.images = {}

\* What is refused before anything is applied.
Accepted(claw) ==
    /\ validateUniqueProviders(claw) /\ validateUniqueChannels(claw)
    /\ validateWorkspaceFiles(claw) /\ validateSkills(claw)

\* The skill about the clusters, when a credential is for one.
injectKubernetesSkill(claw) ==
    [s \in {"kubernetes" : c \in {d \in ToSet(claw.creds) : d.type = "kubernetes"}} |-> "builtin"]

\* The operator's skills: the platform's, the clusters' and the Claw's own.
injectSkillFiles(claw) ==
    deepMerge(deepMerge(claw.skills, injectKubernetesSkill(claw)), [s \in {"platform"} |-> "builtin"])

\* The ConfigMap's data.
GeneratedData(claw) ==
    [ops |-> GeneratedConfig(claw), files |-> claw.files,
     skills |-> IF claw.mgmt = "user" THEN Empty ELSE injectSkillFiles(claw)]

requiredDiagnosticsPlugins(claw) ==
    (IF claw.traces \/ claw.logs THEN <<"diagnostics-otel">> ELSE <<>>)
    \o (IF claw.metrics THEN <<"diagnostics-prometheus">> ELSE <<>>)

operatorRequiredPlugins(claw) ==
    SetToSeq({p.package : p \in VertexPlugins(claw)}) \o requiredDiagnosticsPlugins(claw)

\* Declared plugins first; a required one that is declared is not repeated.
effectivePlugins(claw) ==
    claw.plugins
    \o SelectSeq(operatorRequiredPlugins(claw), LAMBDA p : p \notin ToSet(claw.plugins))

PluginsOf(claw) ==
    IF claw.mgmt = "user" THEN operatorRequiredPlugins(claw) ELSE effectivePlugins(claw)

\* The list init-plugins installs; without the container, none.
configurePluginsInitContainer(claw) == IF claw.installs THEN PluginsOf(claw) ELSE <<>>

\* (Mutant) Only the plugins are hashed.
hashPlugins(claw) == [data |-> <<>>, plugins |-> ToSet(PluginsOf(claw))]

\* Of the hash, all that matters is what goes into it.
stampGatewayConfigHash(claw) == [data |-> GeneratedData(claw), plugins |-> ToSet(PluginsOf(claw))]

\* The pod template: the environment of init-config, what init-plugins installs and
\* the hash.
TemplateOf(claw) ==
    [mode |-> claw.mode, mgmt |-> claw.mgmt, agent |-> claw.agent,
     plugins |-> configurePluginsInitContainer(claw), hash |-> stampGatewayConfigHash(claw)]
=============================================================================
