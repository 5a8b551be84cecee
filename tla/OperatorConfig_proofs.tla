-------------------------- MODULE OperatorConfig_proofs -------------------------
(***************************************************************************)
(* What the configuration the operator generates for a Claw selects, and   *)
(* what it says about memory search, for every Claw: each step of          *)
(* enrichConfigAndNetworkPolicy leaves the objects of the other steps      *)
(* alone.                                                                  *)
(***************************************************************************)
EXTENDS OperatorConfig, ConfigMerge_proofs, WellFoundedInduction

-----------------------------------------------------------------------------
(* Steps that leave objects alone *)

\* c and d have the same leaves, with the same values, in the objects paths.
SameAt(c, d, paths) ==
    \A l : l[1] \in paths => /\ l \in DOMAIN d <=> l \in DOMAIN c
                             /\ l \in DOMAIN c => d[l] = c[l]

LEMMA SameAtTrans ==
  ASSUME NEW c, NEW d, NEW e, NEW paths, SameAt(c, d, paths), SameAt(d, e, paths)
  PROVE  SameAt(c, e, paths)
  BY DEF SameAt

LEMMA SameAtSubset ==
  ASSUME NEW c, NEW d, NEW paths, NEW fewer \in SUBSET paths, SameAt(c, d, paths)
  PROVE  SameAt(c, d, fewer)
  BY DEF SameAt

LEMMA SameAtLeaf ==
  ASSUME NEW c, NEW d, NEW paths, SameAt(c, d, paths), NEW l, l[1] \in paths
  PROVE  /\ l \in DOMAIN d <=> l \in DOMAIN c
         /\ l \in DOMAIN c => d[l] = c[l]
  BY DEF SameAt

LEMMA SameAtRefl ==
  ASSUME NEW c, NEW paths
  PROVE  SameAt(c, c, paths)
  BY DEF SameAt

LEMMA SameAtSet ==
  ASSUME NEW c, NEW l, NEW v, NEW paths, l[1] \notin paths
  PROVE  SameAt(c, Set(c, l, v), paths) /\ SameAt(c, SetDefault(c, l, v), paths)
  BY DEF SameAt, Set, SetDefault

LEMMA SameAtMerge ==
  ASSUME NEW c, NEW d, NEW paths, \A l \in DOMAIN d : l[1] \notin paths
  PROVE  SameAt(c, deepMerge(c, d), paths)
  BY DEF SameAt, deepMerge

LEMMA SameAtDrop ==
  ASSUME NEW c, NEW S, NEW paths, \A l \in S : l[1] \notin paths
  PROVE  SameAt(c, Drop(c, S), paths)
  BY DEF SameAt, Drop, Only

\* Dropping leaves and then merging others in.
LEMMA SameAtReplace ==
  ASSUME NEW c, NEW S, NEW d, NEW paths,
         \A l \in S : l[1] \notin paths, \A l \in DOMAIN d : l[1] \notin paths
  PROVE  SameAt(c, deepMerge(Drop(c, S), d), paths)
  BY SameAtDrop, SameAtMerge, SameAtTrans

\* The objects of the selection, the models and the memory.
Studied == {"model", "models", "memory", "slots"}

LEMMA InfrastructureFrame ==
  ASSUME NEW cfg, NEW claw
  PROVE  SameAt(cfg, enforceInfrastructure(cfg, claw), Studied)
  <1> DEFINE origins == <<"gateway", "controlUi", "allowedOrigins">>
             hosts == IF origins \in DOMAIN cfg THEN cfg[origins] ELSE {}
             fixed == [l \in {<<"gateway", "bind", "">>, <<"update", "checkOnStart", "">>} |-> "fixed"]
             c1 == deepMerge(cfg, fixed)
             c2 == Set(c1, origins, hosts \cup {RouteHost})
             c3 == Set(c2, <<"gateway", "auth", "mode">>, claw.auth)
  <1>1. enforceInfrastructure(cfg, claw) = c3
    BY DEF enforceInfrastructure
  <1>2. SameAt(cfg, c1, Studied)
    <2>1. \A l \in DOMAIN fixed : l[1] \in {"gateway", "update"}
      <3>1. <<"gateway", "bind", "">>[1] = "gateway" /\ <<"update", "checkOnStart", "">>[1] = "update"
        OBVIOUS
      <3> QED
        BY <3>1, Zenon
    <2>2. \A l \in DOMAIN fixed : l[1] \notin Studied
      BY <2>1 DEF Studied
    <2> HIDE DEF fixed
    <2> QED
      BY <2>2, SameAtMerge
  <1>3. SameAt(c1, c2, Studied)
    <2> HIDE DEF c1
    <2>1. origins[1] \notin Studied
      BY DEF Studied
    <2> HIDE DEF origins
    <2> QED
      BY <2>1, SameAtSet
  <1>4. SameAt(c2, c3, Studied)
    <2> HIDE DEF c2
    <2>1. <<"gateway", "auth", "mode">>[1] \notin Studied
      BY DEF Studied
    <2> QED
      BY <2>1, SameAtSet
  <1> HIDE DEF c1, c2, c3
  <1> QED
    BY <1>1, <1>2, <1>3, <1>4, SameAtTrans

LEMMA ProvidersFrame ==
  ASSUME NEW cfg, NEW claw
  PROVE  SameAt(cfg, injectProviders(cfg, claw), Studied)
  <1> DEFINE keys == {ProviderKeyOf(c) : c \in ToSet(Serving(claw))} \cup {p.name : p \in ToSet(claw.custom)}
             new == [l \in {<<"providers", k, "baseUrl">> : k \in keys} |-> "upstream"]
             old == LeavesAt(cfg, {"providers"})
  <1>1. injectProviders(cfg, claw) = deepMerge(Drop(cfg, old), new)
    BY DEF injectProviders
  <1>2. \A l \in old : l[1] \notin Studied
    BY DEF LeavesAt, Studied
  <1>3. \A l \in DOMAIN new : l[1] \notin Studied
    BY DEF Studied
  <1> HIDE DEF old, new
  <1> QED
    BY <1>1, <1>2, <1>3, SameAtReplace

LEMMA ProviderPluginsFrame ==
  ASSUME NEW cfg, NEW claw
  PROVE  SameAt(cfg, injectProviderPlugins(cfg, claw), Studied)
  <1> DEFINE absent == {p.id : p \in {q \in VertexPlugins(claw) : <<"plugins", q.id>> \notin Entries(cfg)}}
             new == [l \in {<<"plugins", id, "enabled">> : id \in absent} |-> "true"]
  <1>1. injectProviderPlugins(cfg, claw) = deepMerge(cfg, new)
    BY DEF injectProviderPlugins
  <1>2. \A l \in DOMAIN new : l[1] \notin Studied
    BY DEF Studied
  <1> HIDE DEF new
  <1> QED
    BY <1>1, <1>2, SameAtMerge

LEMMA ChannelsFrame ==
  ASSUME NEW cfg, NEW claw
  PROVE  SameAt(cfg, injectChannels(cfg, claw), Studied)
  <1> DEFINE channels == DeclaredChannels(claw)
             plugins == {<<"plugins", c>> : c \in channels}
             old == LeavesAt(cfg, {"channels"}) \cup LeavesOf(cfg, plugins)
             new == [l \in {<<"channels", c, "config">> : c \in channels}
                           \cup {<<"plugins", c, "enabled">> : c \in channels} |-> "true"]
  <1>1. CASE channels = {}
    BY <1>1, SameAtRefl DEF injectChannels
  <1>2. CASE channels # {}
    <2>1. injectChannels(cfg, claw) = deepMerge(Drop(cfg, old), new)
      BY <1>2 DEF injectChannels
    <2>2. \A l \in old : l[1] \notin Studied
      BY DEF LeavesAt, LeavesOf, Entry, Studied
    <2>3. \A l \in DOMAIN new : l[1] \notin Studied
      BY DEF Studied
    <2> HIDE DEF old, new
    <2> QED
      BY <2>1, <2>2, <2>3, SameAtReplace
  <1> QED
    BY <1>1, <1>2

LEMMA McpFrame ==
  ASSUME NEW cfg, NEW claw
  PROVE  SameAt(cfg, injectMcpServers(cfg, claw), Studied)
  <1> DEFINE old == LeavesAt(cfg, {"mcp"})
             new == [l \in {<<"mcp", m, "url">> : m \in claw.mcp} |-> "declared"]
  <1>1. CASE claw.mcp = {}
    BY <1>1, SameAtRefl DEF injectMcpServers
  <1>2. CASE claw.mcp # {}
    <2>1. injectMcpServers(cfg, claw) = deepMerge(Drop(cfg, old), new)
      BY <1>2 DEF injectMcpServers
    <2>2. \A l \in old : l[1] \notin Studied
      BY DEF LeavesAt, Studied
    <2>3. \A l \in DOMAIN new : l[1] \notin Studied
      BY DEF Studied
    <2> HIDE DEF old, new
    <2> QED
      BY <2>1, <2>2, <2>3, SameAtReplace
  <1> QED
    BY <1>1, <1>2

LEMMA WebSearchFrame ==
  ASSUME NEW cfg, NEW claw
  PROVE  SameAt(cfg, injectWebSearch(cfg, claw), Studied)
  <1> DEFINE old == LeavesOf(cfg, {<<"tools", "search">>})
             new == [l \in {<<"tools", "search", "provider">>} |-> claw.search]
             tools == deepMerge(Drop(cfg, old), new)
             key == <<"plugins", claw.search, "webSearch">>
  <1>1. injectWebSearch(cfg, claw) \in {cfg, tools, Set(tools, key, "placeholder")}
    BY DEF injectWebSearch
  <1>2. \A l \in old : l[1] \notin Studied
    BY DEF LeavesOf, Entry, Studied
  <1>3. \A l \in DOMAIN new : l[1] \notin Studied
    BY DEF Studied
  <1>4. key[1] \notin Studied
    BY DEF Studied
  <1> HIDE DEF old, new, key
  <1>5. SameAt(cfg, tools, Studied)
    BY <1>2, <1>3, SameAtReplace
  <1> HIDE DEF tools
  <1>6. SameAt(cfg, Set(tools, key, "placeholder"), Studied)
    BY <1>4, <1>5, SameAtSet, SameAtTrans
  <1> QED
    BY <1>1, <1>5, <1>6, SameAtRefl

LEMMA DiagnosticsFrame ==
  ASSUME NEW cfg, NEW claw
  PROVE  SameAt(cfg, injectDiagnosticsConfig(cfg, claw), Studied)
  <1> DEFINE on == {s \in {"traces", "logs", "metrics"} : claw[s]}
             new == [l \in {<<"diagnostics", "otel", s>> : s \in on \cup {"enabled"}} |-> "true"]
             signals == deepMerge(cfg, new)
             endpoint == <<"diagnostics", "otel", "endpoint">>
  <1>1. injectDiagnosticsConfig(cfg, claw) \in {cfg, SetDefault(signals, endpoint, "collector")}
    BY DEF injectDiagnosticsConfig
  <1>2. \A l \in DOMAIN new : l[1] \notin Studied
    BY DEF Studied
  <1>3. endpoint[1] \notin Studied
    BY DEF Studied
  <1> HIDE DEF new, endpoint
  <1>4. SameAt(cfg, signals, Studied)
    BY <1>2, SameAtMerge
  <1> HIDE DEF signals
  <1>5. SameAt(cfg, SetDefault(signals, endpoint, "collector"), Studied)
    BY <1>3, <1>4, SameAtSet, SameAtTrans
  <1> QED
    BY <1>1, <1>5, SameAtRefl

LEMMA BootstrapFrame ==
  ASSUME NEW cfg, NEW claw
  PROVE  SameAt(cfg, injectBootstrap(cfg, claw), Studied)
  <1> DEFINE hook == <<"hooks", "bootstrap-extra-files", "">>
             skip == <<"defaults", "skipOptionalBootstrapFiles", "">>
             skipping == Set(cfg, skip, "persona")
  <1>1. injectBootstrap(cfg, claw) \in {cfg, SetDefault(skipping, hook, "operator")}
    BY DEF injectBootstrap
  <1>2. hook[1] \notin Studied /\ skip[1] \notin Studied
    BY DEF Studied
  <1> HIDE DEF hook, skip
  <1>3. SameAt(cfg, skipping, Studied)
    BY <1>2, SameAtSet
  <1> HIDE DEF skipping
  <1>4. SameAt(cfg, SetDefault(skipping, hook, "operator"), Studied)
    BY <1>2, <1>3, SameAtSet, SameAtTrans
  <1> QED
    BY <1>1, <1>4, SameAtRefl

-----------------------------------------------------------------------------
(* The models *)

\* A nonempty set of natural numbers has a least element.
LEMMA LeastIndex ==
  ASSUME NEW T, T \subseteq Nat, T # {}
  PROVE  \E m \in T : \A k \in T : m <= k
  <1> DEFINE Less == {ss \in Nat \X Nat : ss[1] < ss[2]}
  <1>1. OpToRel(<, Nat) = Less
    BY Zenon DEF OpToRel
  <1>2. IsWellFoundedOn(Less, Nat)
    BY <1>1, NatLessThanWellFounded, Zenon
  <1> HIDE DEF Less
  <1>3. PICK x \in T : \A y \in T : ~ (<<y, x>> \in Less)
    BY <1>2, WFMin, Zenon
  <1>4. \A y \in T : y < x => <<y, x>> \in Less
    BY DEF Less
  <1>5. \A y \in T : ~ (y < x)
    BY <1>3, <1>4
  <1> QED
    BY <1>5

LEMMA CatalogsType ==
  ASSUME NEW claw, WellFormed(claw)
  PROVE  Catalogs(claw) \in Seq(Seq(STRING))
  <1> DEFINE known(c) == IF Serves(c) /\ ProviderKeyOf(c) \in DOMAIN Catalog
                         THEN Catalog[ProviderKeyOf(c)] ELSE <<>>
             served == [i \in DOMAIN claw.creds |-> known(claw.creds[i])]
             custom == [i \in DOMAIN claw.custom |-> claw.custom[i].models]
  <1>1. ASSUME NEW c PROVE known(c) \in Seq(STRING)
    <2>1. CASE Serves(c) /\ ProviderKeyOf(c) \in DOMAIN Catalog
      BY <2>1, CatalogAssumption
    <2>2. CASE ~ (Serves(c) /\ ProviderKeyOf(c) \in DOMAIN Catalog)
      <3>1. known(c) = <<>>
        BY <2>2
      <3>2. <<>> \in Seq(STRING)
        OBVIOUS
      <3> QED
        BY <3>1, <3>2
    <2> QED
      BY <2>1, <2>2
  <1> HIDE DEF known
  <1>2. served \in Seq(Seq(STRING))
    <2>1. claw.creds \in Seq([provider : STRING, type : STRING, channel : STRING])
      BY DEF WellFormed
    <2>2. DOMAIN claw.creds = 1..Len(claw.creds) /\ Len(claw.creds) \in Nat
      BY <2>1
    <2> QED
      BY <1>1, <2>2
  <1>3. custom \in Seq(Seq(STRING))
    <2>1. claw.custom \in Seq([name : STRING, models : Seq(STRING)])
      BY DEF WellFormed
    <2> DEFINE P == [name : STRING, models : Seq(STRING)]
    <2>2. \A p \in P : p.models \in Seq(STRING)
      OBVIOUS
    <2> HIDE DEF P
    <2>3. claw.custom \in Seq(P)
      BY <2>1 DEF P
    <2>4. /\ DOMAIN claw.custom = 1..Len(claw.custom) /\ Len(claw.custom) \in Nat
          /\ \A i \in DOMAIN claw.custom : claw.custom[i] \in P
      BY <2>3
    <2> QED
      BY <2>2, <2>4
  <1>4. Catalogs(claw) = served \o custom
    BY DEF Catalogs, known
  <1> HIDE DEF served, custom
  <1> QED
    BY <1>2, <1>3, <1>4

\* If there is a model at all, a first catalogue has one; its models are among them.
LEMMA FirstCatalog ==
  ASSUME NEW claw, WellFormed(claw), CatalogModels(claw) # {}
  PROVE  LET all == Catalogs(claw)
             first == CHOOSE i \in DOMAIN all : all[i] # <<>> /\ \A j \in 1..(i - 1) : all[j] = <<>>
         IN  /\ all[first][1] \in CatalogModels(claw)
             /\ ToSet(Tail(all[first])) \subseteq CatalogModels(claw)
  <1> DEFINE all == Catalogs(claw)
             full == {i \in DOMAIN all : all[i] # <<>>}
             first == CHOOSE i \in DOMAIN all : all[i] # <<>> /\ \A j \in 1..(i - 1) : all[j] = <<>>
  <1>1. all \in Seq(Seq(STRING))
    BY CatalogsType
  <1>2. CatalogModels(claw) = UNION {ToSet(all[i]) : i \in DOMAIN all}
    BY DEF CatalogModels
  <1> HIDE DEF all
  <1>3. DOMAIN all = 1..Len(all) /\ Len(all) \in Nat /\ \A i \in DOMAIN all : all[i] \in Seq(STRING)
    BY <1>1
  <1>4. full # {}
    <2>1. PICK i \in DOMAIN all : ToSet(all[i]) # {}
      BY <1>2
    <2>2. all[i] # <<>>
      BY <2>1 DEF ToSet
    <2> QED
      BY <2>2
  <1>5. full \subseteq Nat
    BY <1>3
  <1>6. PICK m \in full : \A k \in full : m <= k
    BY <1>4, <1>5, LeastIndex
  <1>7. \A j \in 1..(m - 1) : all[j] = <<>>
    BY <1>3, <1>6
  <1>8. first \in DOMAIN all /\ all[first] # <<>>
    BY <1>6, <1>7
  <1> HIDE DEF first
  <1>9. all[first] \in Seq(STRING) /\ ToSet(all[first]) \subseteq CatalogModels(claw)
    BY <1>2, <1>3, <1>8
  <1>10. all[first][1] \in ToSet(all[first]) /\ ToSet(Tail(all[first])) \subseteq ToSet(all[first])
    BY <1>8, <1>9 DEF ToSet
  <1>11. all[first][1] \in CatalogModels(claw) /\ ToSet(Tail(all[first])) \subseteq CatalogModels(claw)
    BY <1>9, <1>10
  <1> QED
    BY <1>11 DEF all, first

\* injectModelCatalog selects models it lists, and leaves a selection of raw's alone.
LEMMA ModelCatalogSelects ==
  ASSUME NEW cfg, NEW claw, WellFormed(claw)
  PROVE  LET r == injectModelCatalog(cfg, claw)
         IN  /\ Selects(cfg, ModelsIn(cfg) \cup CatalogModels(claw)) => Selects(r, ModelsIn(r))
             /\ SameAt(cfg, r, {"memory", "slots"})
  <1> DEFINE all == Catalogs(claw)
             models == CatalogModels(claw)
             first == CHOOSE i \in DOMAIN all : all[i] # <<>> /\ \A j \in 1..(i - 1) : all[j] = <<>>
             new == [l \in {<<"models", m, "alias">> : m \in models \ ModelsIn(cfg)} |-> "catalog"]
             listed == deepMerge(new, cfg)
             policy == <<"modelPolicy", "allow", "">>
             allowed == IF LeavesAt(cfg, {"modelPolicy"}) # {} THEN listed
                        ELSE Set(listed, policy, ModelsIn(listed))
             primary == all[first][1]
             selected == SetDefault(allowed, Primary, primary)
             fallbacks == IF first > Len(claw.creds) THEN {} ELSE ToSet(Tail(all[first]))
             r == injectModelCatalog(cfg, claw)
             Given == Selects(cfg, ModelsIn(cfg) \cup CatalogModels(claw))
  <1>1. CASE models = {}
    <2>1. r = cfg
      BY <1>1 DEF injectModelCatalog
    <2>2. Given => Selects(cfg, ModelsIn(cfg))
      BY <1>1
    <2> QED
      BY <2>1, <2>2, SameAtRefl
  <1>2. CASE models # {}
    <2>1. r \in {selected, SetDefault(selected, Fallbacks, fallbacks)}
      BY <1>2 DEF injectModelCatalog
    <2>2. primary \in models /\ fallbacks \subseteq models
      BY <1>2, FirstCatalog
    <2> HIDE DEF first, primary, fallbacks, all, r
    <2>3. /\ DOMAIN listed = DOMAIN new \cup DOMAIN cfg
          /\ \A l \in DOMAIN cfg : listed[l] = cfg[l]
          /\ \A l \in DOMAIN new : l[1] = "models"
      BY DEF deepMerge
    <2>4. models \subseteq ModelsIn(listed) /\ ModelsIn(cfg) \subseteq ModelsIn(listed)
      <3>1. ASSUME NEW m \in models \ ModelsIn(cfg) PROVE m \in ModelsIn(listed)
        <4>1. <<"models", m, "alias">> \in DOMAIN listed
          BY <3>1, <2>3
        <4>2. <<"models", m, "alias">>[1] = "models" /\ <<"models", m, "alias">>[2] = m
          OBVIOUS
        <4> QED
          BY <4>1, <4>2 DEF ModelsIn, LeavesAt
      <3>2. ModelsIn(cfg) \subseteq ModelsIn(listed)
        BY <2>3 DEF ModelsIn, LeavesAt
      <3> QED
        BY <3>1, <3>2
    <2>5. SameAt(cfg, listed, {"model", "memory", "slots"})
      BY <2>3 DEF SameAt
    <2> HIDE DEF listed, new
    <2>6. SameAt(listed, allowed, {"model", "models", "memory", "slots"})
      <3>1. policy[1] \notin {"model", "models", "memory", "slots"}
        OBVIOUS
      <3> HIDE DEF policy
      <3> QED
        BY <3>1, SameAtSet, SameAtRefl
    <2> HIDE DEF allowed
    <2>7. SameAt(cfg, allowed, {"model", "memory", "slots"})
      BY <2>5, <2>6 DEF SameAt
    <2>8. ASSUME NEW d, SameAt(listed, d, {"models"}) PROVE models \cup ModelsIn(cfg) \subseteq ModelsIn(d)
      <3>1. ModelsIn(listed) \subseteq ModelsIn(d)
        BY <2>8 DEF SameAt, ModelsIn, LeavesAt
      <3> QED
        BY <2>4, <3>1
    <2>9. /\ Primary \in DOMAIN cfg => allowed[Primary] = cfg[Primary]
          /\ Fallbacks \in DOMAIN cfg => allowed[Fallbacks] = cfg[Fallbacks]
          /\ Primary \in DOMAIN allowed <=> Primary \in DOMAIN cfg
          /\ Fallbacks \in DOMAIN allowed <=> Fallbacks \in DOMAIN cfg
      <3>1. Primary[1] = "model" /\ Fallbacks[1] = "model"
        BY DEF Primary, Fallbacks
      <3> QED
        BY <2>7, <3>1 DEF SameAt
    <2>10. Given => Selects(allowed, models \cup ModelsIn(cfg))
      BY <2>9 DEF Selects
    <2> HIDE DEF Given
    <2>11. Given => Selects(selected, models \cup ModelsIn(cfg))
      BY <2>2, <2>10, SelectionFacts DEF Selects, SetDefault, Set
    <2>12. SameAt(allowed, selected, {"models", "memory", "slots"})
      <3>1. Primary[1] \notin {"models", "memory", "slots"}
        BY DEF Primary
      <3> QED
        BY <3>1, SameAtSet
    <2> HIDE DEF selected
    <2>13. Given => Selects(r, models \cup ModelsIn(cfg))
      BY <2>1, <2>2, <2>11, SelectionFacts DEF Selects, SetDefault, Set
    <2>14. SameAt(selected, r, {"models", "memory", "slots"})
      <3>1. Fallbacks[1] \notin {"models", "memory", "slots"}
        BY DEF Fallbacks
      <3> QED
        BY <2>1, <3>1, SameAtSet, SameAtRefl
    <2>15. SameAt(listed, r, {"models"}) /\ SameAt(cfg, r, {"memory", "slots"})
      BY <2>6, <2>7, <2>12, <2>14 DEF SameAt
    <2>16. Given => Selects(r, ModelsIn(r))
      BY <2>8, <2>13, <2>15 DEF Selects
    <2> QED
      BY <2>15, <2>16 DEF r, Given
  <1> QED
    BY <1>1, <1>2

-----------------------------------------------------------------------------
(* Memory *)

LEMMA FieldFrame ==
  ASSUME NEW cfg, NEW l, NEW field, NEW default, NEW paths, l[1] \notin paths
  PROVE  SameAt(cfg, FieldOrDefault(cfg, l, field, default), paths)
  BY SameAtSet, SameAtRefl DEF FieldOrDefault

LEMMA DreamingFrame ==
  ASSUME NEW cfg, NEW frequency
  PROVE  SameAt(cfg, injectDreaming(cfg, frequency), Studied)
  <1> DEFINE l == <<"plugins", "memory-core", "enabled">>
             k == <<"plugins", "memory-core", "frequency">>
             c1 == SetDefault(cfg, l, "true")
  <1>1. injectDreaming(cfg, frequency) = FieldOrDefault(c1, k, frequency, "")
    BY DEF injectDreaming
  <1>2. l[1] \notin Studied /\ k[1] \notin Studied
    BY DEF Studied
  <1> HIDE DEF l, k
  <1>3. SameAt(cfg, c1, Studied)
    BY <1>2, SameAtSet
  <1> HIDE DEF c1
  <1> QED
    BY <1>1, <1>2, <1>3, FieldFrame, SameAtTrans

LEMMA WikiFrame ==
  ASSUME NEW cfg, NEW mode
  PROVE  SameAt(cfg, injectWiki(cfg, mode), Studied)
  <1> DEFINE l == <<"plugins", "memory-wiki", "enabled">>
             k == <<"plugins", "memory-wiki", "vaultMode">>
             b == <<"plugins", "memory-wiki", "bridge">>
             c1 == SetDefault(cfg, l, "true")
             moded == FieldOrDefault(c1, k, mode, "bridge")
  <1>1. injectWiki(cfg, mode) \in {moded, SetDefault(moded, b, "true")}
    BY DEF injectWiki
  <1>2. l[1] \notin Studied /\ k[1] \notin Studied /\ b[1] \notin Studied
    BY DEF Studied
  <1> HIDE DEF l, k, b
  <1>3. SameAt(cfg, c1, Studied)
    BY <1>2, SameAtSet
  <1> HIDE DEF c1
  <1>4. SameAt(cfg, moded, Studied)
    BY <1>2, <1>3, FieldFrame, SameAtTrans
  <1> HIDE DEF moded
  <1>5. SameAt(cfg, SetDefault(moded, b, "true"), Studied)
    BY <1>2, <1>4, SameAtSet, SameAtTrans
  <1> QED
    BY <1>1, <1>4, <1>5

LEMMA MemorySearchFrame ==
  ASSUME NEW cfg, NEW claw
  PROVE  SameAt(cfg, injectMemorySearch(cfg, claw), {"model", "models", "slots"})
  <1> DEFINE Others == {"model", "models", "slots"}
  <1>1. SearchProvider[1] \notin Others /\ SearchEnabled[1] \notin Others
    BY DEF SearchProvider, SearchEnabled
  <1> HIDE DEF Others
  <1>2. SameAt(cfg, injectMemorySearch(cfg, claw), Others)
    BY <1>1, SameAtSet, SameAtRefl DEF injectMemorySearch
  <1> QED
    BY <1>2 DEF Others

\* What injectMemoryStack does after its early return: the flag is repaired or left,
\* and the layers are plugins.
LEMMA MemoryStackFrame ==
  ASSUME NEW cfg, NEW claw
  PROVE  LET r == injectMemoryStack(cfg, claw)
             repaired == IF EmbeddingCreds(claw) # <<>> /\ ~ userHasMemorySearchConfig(claw.raw)
                         THEN Set(cfg, SearchEnabled, "true") ELSE cfg
         IN  /\ SameAt(cfg, r, {"model", "models"})
             /\ memoryStackEnabled(claw) /\ ContextEngine \notin DOMAIN cfg => SameAt(repaired, r, Studied)
  <1> DEFINE r == injectMemoryStack(cfg, claw)
             repaired == IF EmbeddingCreds(claw) # <<>> /\ ~ userHasMemorySearchConfig(claw.raw)
                         THEN Set(cfg, SearchEnabled, "true") ELSE cfg
             dreaming == IF claw.dreaming # "off" THEN injectDreaming(repaired, claw.dreaming) ELSE repaired
  <1>1. SameAt(cfg, repaired, {"model", "models"})
    <2>1. SearchEnabled[1] \notin {"model", "models"}
      BY DEF SearchEnabled
    <2> QED
      BY <2>1, SameAtSet, SameAtRefl
  <1>2. CASE ~ memoryStackEnabled(claw) \/ ContextEngine \in DOMAIN cfg
    BY <1>2, SameAtRefl DEF injectMemoryStack
  <1>3. CASE memoryStackEnabled(claw) /\ ContextEngine \notin DOMAIN cfg
    <2>1. r = IF claw.wiki # "off" THEN injectWiki(dreaming, claw.wiki) ELSE dreaming
      BY <1>3 DEF injectMemoryStack
    <2> HIDE DEF repaired, r
    <2>2. SameAt(repaired, dreaming, Studied)
      BY DreamingFrame, SameAtRefl
    <2> HIDE DEF dreaming
    <2>3. SameAt(repaired, r, Studied)
      BY <2>1, <2>2, WikiFrame, SameAtTrans
    <2>4. SameAt(cfg, r, {"model", "models"})
      BY <1>1, <2>3 DEF SameAt, Studied
    <2> QED
      BY <2>3, <2>4 DEF r, repaired
  <1> QED
    BY <1>2, <1>3

-----------------------------------------------------------------------------
(* The generated configuration *)

\* The last five steps leave the selection, the models and the memory alone.
LEMMA LastSteps ==
  ASSUME NEW c, NEW claw
  PROVE  SameAt(c, injectBootstrap(injectDiagnosticsConfig(injectWebSearch(
                       injectMcpServers(injectChannels(c, claw), claw), claw), claw), claw), Studied)
  <1> DEFINE c1 == injectChannels(c, claw)
             c2 == injectMcpServers(c1, claw)
             c3 == injectWebSearch(c2, claw)
             c4 == injectDiagnosticsConfig(c3, claw)
             c5 == injectBootstrap(c4, claw)
  <1>1. SameAt(c, c1, Studied)
    BY ChannelsFrame
  <1>2. SameAt(c1, c2, Studied)
    BY McpFrame
  <1>3. SameAt(c2, c3, Studied)
    BY WebSearchFrame
  <1>4. SameAt(c3, c4, Studied)
    BY DiagnosticsFrame
  <1>5. SameAt(c4, c5, Studied)
    BY BootstrapFrame
  <1> HIDE DEF c1, c2, c3, c4, c5
  <1>6. SameAt(c, c5, Studied)
    BY <1>1, <1>2, <1>3, <1>4, <1>5, SameAtTrans
  <1> QED
    BY <1>6 DEF c1, c2, c3, c4, c5

\* The first three do, too.
LEMMA FirstSteps ==
  ASSUME NEW claw
  PROVE  SameAt(claw.raw, injectProviderPlugins(injectProviders(
                              enforceInfrastructure(claw.raw, claw), claw), claw), Studied)
  <1> DEFINE c1 == enforceInfrastructure(claw.raw, claw)
             c2 == injectProviders(c1, claw)
             c3 == injectProviderPlugins(c2, claw)
  <1>1. SameAt(claw.raw, c1, Studied)
    BY InfrastructureFrame
  <1>2. SameAt(c1, c2, Studied)
    BY ProvidersFrame
  <1>3. SameAt(c2, c3, Studied)
    BY ProviderPluginsFrame
  <1> HIDE DEF c1, c2, c3
  <1>4. SameAt(claw.raw, c3, Studied)
    BY <1>1, <1>2, <1>3, SameAtTrans
  <1> QED
    BY <1>4 DEF c1, c2, c3

LEMMA SameSelects ==
  ASSUME NEW c, NEW d, NEW more, SameAt(c, d, {"model", "models"}), Selects(c, ModelsIn(c) \cup more)
  PROVE  Selects(d, ModelsIn(d) \cup more)
  <1>1. Primary[1] = "model" /\ Fallbacks[1] = "model"
    BY DEF Primary, Fallbacks
  <1>2. ModelsIn(c) = ModelsIn(d)
    BY DEF SameAt, ModelsIn, LeavesAt
  <1> QED
    BY <1>1, <1>2 DEF Selects, SameAt

\* The operator selects models it lists (injectModelCatalog and all that runs before
\* and after it), if what raw selects is listed by raw or in the catalogues.
THEOREM GeneratedSelects ==
  ASSUME NEW claw, WellFormed(claw),
         Selects(claw.raw, ModelsIn(claw.raw) \cup CatalogModels(claw))
  PROVE  Selects(GeneratedConfig(claw), ModelsIn(GeneratedConfig(claw)))
  <1> DEFINE provided == injectProviderPlugins(injectProviders(
                             enforceInfrastructure(claw.raw, claw), claw), claw)
             offering == injectModelCatalog(provided, claw)
             found == injectMemorySearch(offering, claw)
             recalling == injectMemoryStack(found, claw)
             g == GeneratedConfig(claw)
  <1>1. SameAt(claw.raw, provided, {"model", "models"})
    BY FirstSteps DEF SameAt, Studied
  <1>2. SameAt(recalling, g, {"model", "models"})
    BY LastSteps DEF GeneratedConfig, RecallingConfig, OfferingConfig, SameAt, Studied
  <1>3. SameAt(found, recalling, {"model", "models"})
    BY MemoryStackFrame
  <1>4. SameAt(offering, found, {"model", "models"})
    BY MemorySearchFrame DEF SameAt
  <1> HIDE DEF provided, g
  <1>5. Selects(provided, ModelsIn(provided) \cup CatalogModels(claw))
    BY <1>1, SameSelects
  <1>6. Selects(offering, ModelsIn(offering))
    BY <1>5, ModelCatalogSelects
  <1> HIDE DEF offering, found, recalling
  <1>7. SameAt(offering, g, {"model", "models"})
    BY <1>2, <1>3, <1>4, SameAtTrans
  <1>8. Selects(offering, ModelsIn(offering) \cup {})
    BY <1>6
  <1>9. Selects(g, ModelsIn(g) \cup {})
    BY <1>7, <1>8, SameSelects
  <1> QED
    BY <1>9 DEF g

\* When the MemoryStack condition reports vector recall, the configuration names a
\* provider for memory search and says that it is enabled.
THEOREM GeneratedRecall ==
  ASSUME NEW claw, WellFormed(claw),
         MemoryStackCondition(claw) = "vectorRecall"
  PROVE  /\ SearchProvider \in DOMAIN GeneratedConfig(claw)
         /\ SearchEnabled \in DOMAIN GeneratedConfig(claw)
         /\ GeneratedConfig(claw)[SearchEnabled] = "true"
  <1> DEFINE provided == injectProviderPlugins(injectProviders(
                             enforceInfrastructure(claw.raw, claw), claw), claw)
             offering == injectModelCatalog(provided, claw)
             found == injectMemorySearch(offering, claw)
             recalling == injectMemoryStack(found, claw)
             repaired == Set(found, SearchEnabled, "true")
             g == GeneratedConfig(claw)
  <1>1. /\ memoryStackEnabled(claw) /\ ContextEngine \notin DOMAIN claw.raw
        /\ ~ userHasMemorySearchConfig(claw.raw) /\ EmbeddingCreds(claw) # <<>>
    BY DEF MemoryStackCondition
  <1>a. SameAt(claw.raw, provided, Studied)
    BY FirstSteps
  <1>b. SameAt(recalling, g, Studied)
    BY LastSteps DEF GeneratedConfig, RecallingConfig, OfferingConfig
  <1> HIDE DEF provided, offering, found, recalling, g
  <1>2. SameAt(claw.raw, provided, {"memory", "slots"})
    <2>1. {"memory", "slots"} \in SUBSET Studied
      BY DEF Studied
    <2> QED
      BY <1>a, <2>1, SameAtSubset
  <1>4. SameAt(claw.raw, offering, {"memory", "slots"})
    <2>1. SameAt(provided, offering, {"memory", "slots"})
      BY ModelCatalogSelects DEF offering
    <2> QED
      BY <1>2, <2>1, SameAtTrans
  <1>5. ~ userHasMemorySearchConfig(offering) /\ ContextEngine \notin DOMAIN offering
    <2>1. ContextEngine[1] \in {"memory", "slots"}
      BY DEF ContextEngine
    <2>2. \A l : Entry(l) = <<"memory", "search">> => l[1] \in {"memory", "slots"}
      BY DEF Entry
    <2>3. ContextEngine \notin DOMAIN offering
      BY <1>1, <1>4, <2>1, SameAtLeaf
    <2>4. ASSUME NEW l \in DOMAIN offering, Entry(l) = <<"memory", "search">> PROVE FALSE
      <3>1. l \in DOMAIN claw.raw
        BY <1>4, <2>2, <2>4, SameAtLeaf
      <3> QED
        BY <1>1, <2>4, <3>1 DEF userHasMemorySearchConfig
    <2> QED
      BY <2>3, <2>4 DEF userHasMemorySearchConfig
  <1>6. found = Set(offering, SearchProvider, EmbeddingCreds(claw)[1].provider)
    BY <1>1, <1>5 DEF injectMemorySearch, found
  <1>7. SearchProvider \in DOMAIN found /\ ContextEngine \notin DOMAIN found
    <2>1. ContextEngine # SearchProvider
      BY DEF ContextEngine, SearchProvider
    <2> QED
      BY <1>5, <1>6, <2>1 DEF Set
  <1>8. SameAt(repaired, recalling, Studied)
    BY <1>1, <1>7, MemoryStackFrame DEF recalling
  <1>9. /\ SearchProvider \in DOMAIN repaired /\ SearchEnabled \in DOMAIN repaired
        /\ repaired[SearchEnabled] = "true"
    BY <1>7 DEF Set
  <1> HIDE DEF repaired
  <1>10. SearchProvider[1] \in Studied /\ SearchEnabled[1] \in Studied
    BY DEF SearchProvider, SearchEnabled, Studied
  <1>11. /\ SearchProvider \in DOMAIN recalling /\ SearchEnabled \in DOMAIN recalling
         /\ recalling[SearchEnabled] = "true"
    BY <1>8, <1>9, <1>10, SameAtLeaf
  <1>12. /\ SearchProvider \in DOMAIN g /\ SearchEnabled \in DOMAIN g
         /\ g[SearchEnabled] = "true"
    BY <1>b, <1>10, <1>11, SameAtLeaf
  <1> QED
    BY <1>12 DEF g
=============================================================================
