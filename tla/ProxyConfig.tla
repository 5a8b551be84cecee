------------------------------ MODULE ProxyConfig -------------------------------
(***************************************************************************)
(* The routes of the credential proxy, as the operator generates them from *)
(* the Claw: credentials, GitHub repository access, MCP servers, the web   *)
(* search provider and the built-in passthrough domains.                   *)
(*                                                                         *)
(* A domain name is the sequence of its labels, left to right, each given  *)
(* by its rank among the labels in use, so that comparing names compares   *)
(* ranks; a leading 0 stands for the leading dot of a suffix domain.  Port *)
(* 0 stands for a name without port.  Names are in lower case.  A path is  *)
(* the sequence of what stands after each slash ("/" is <<"">> and "/a/"   *)
(* is <<"a", "">>); its segments are one letter long.                      *)
(***************************************************************************)
EXTENDS Integers, Sequences, FiniteSets, SequencesExt

CONSTANTS
    Providers,   \* knownProviders: a function to [type, domain, header, base]
    Channels,    \* knownChannels: a function to [type, domain, token, key, companions]
    Builtins,    \* builtinPassthroughDomains: a sequence of [domain, paths]
    GoogleAPIs,  \* ".googleapis.com"
    Vertex,      \* the host vertexAIBaseURL returns
    GithubAPI,   \* githubAPIDomain
    GithubGit    \* githubGitDomain

None == "none"
NoHost == [name |-> <<>>, port |-> 0]

\* The values of a route's injector, in alphabetical order; the empty one is
\* what buildCredentialRoute leaves for a Kubernetes credential.
Injectors == <<"", "api_key", "basic", "bearer", "gcp", "kubernetes", "none",
               "oauth2", "path_token">>

IsSuffixDomain(d) == d.name # <<>> /\ d.name[1] = 0

\* Names with a port, NoHost among them.
Names == [name : Seq(Nat), port : Nat]

Types == ToSet(Injectors)

\* A suffix domain is more than its dot and has no port.
IsDomain(d) == IsSuffixDomain(d) => Len(d.name) > 1 /\ d.port = 0

\* The host of a URL: some labels, none of which is the leading dot.
Labels == Nat \ {0}

IsHostName(h) == h.name \in Seq(Labels) /\ h.name # <<>> /\ h.port = 0

ASSUME ProvidersAssumption ==
    \A p \in DOMAIN Providers :
        /\ Providers[p] \in [type : Types, domain : Names, header : BOOLEAN, base : BOOLEAN]
        /\ IsDomain(Providers[p].domain)

ASSUME ChannelsAssumption ==
    \A c \in DOMAIN Channels :
        /\ Channels[c] \in [type : Types, domain : Names, token : STRING, key : BOOLEAN,
                            companions : Seq(Names)]
        /\ IsDomain(Channels[c].domain)
        /\ \A i \in DOMAIN Channels[c].companions : IsDomain(Channels[c].companions[i])

ASSUME BuiltinsAssumption ==
    /\ Builtins \in Seq([domain : Names, paths : Seq(Seq(STRING))])
    /\ \A i \in DOMAIN Builtins : ~ IsSuffixDomain(Builtins[i].domain)

ASSUME DomainsAssumption ==
    \A d \in {GoogleAPIs, GithubAPI, GithubGit} : d \in Names /\ IsDomain(d)

-----------------------------------------------------------------------------
(* Credentials *)

\* A credential as the Claw declares it; "" and NoHost stand for what is left to
\* the defaults.  paths: allowedPaths.  headers: it has default headers.  key: it
\* has an apiKey config.  token: pathToken.prefix.  clusters: the servers of its
\* kubeconfig.
Credential(name, type, domain) ==
    [name |-> name, type |-> type, domain |-> domain, provider |-> None,
     channel |-> None, paths |-> <<>>, headers |-> FALSE, key |-> FALSE,
     token |-> "", clusters |-> {}]

Credentials ==
    [name : STRING, type : Types, domain : Names, provider : STRING, channel : STRING,
     paths : Seq(Seq(STRING)), headers : BOOLEAN, key : BOOLEAN, token : STRING,
     clusters : SUBSET Names]

\* What the API server checks of a Claw, and what is taken from a kubeconfig: a
\* credential has a known type and channel; only one of type kubernetes has
\* clusters, and the server of a cluster has its port; an MCP server, a host name.
\* Taken for granted: no credential is called websearch, which would give it the
\* environment variable of the web search key, and no suffix domain is a lone dot
\* or has a port, with which it would match no host.
WellFormed(spec) ==
    /\ spec.creds \in Seq(Credentials)
    /\ \A c \in ToSet(spec.creds) :
          /\ c.name \notin {None, "websearch"}
          /\ IsDomain(c.domain)
          /\ c.channel \in DOMAIN Channels \cup {None}
          /\ IsFiniteSet(c.clusters)
          /\ c.clusters # {} => c.type = "kubernetes"
          /\ \A s \in c.clusters : ~ IsSuffixDomain(s) /\ s.port # 0
    /\ spec.repos \in Seq([plain : Seq(STRING), git : Seq(STRING)])
    /\ IsFiniteSet(spec.mcp)
    /\ \A m \in spec.mcp : m.host \in Names /\ IsHostName(m.host)
    /\ spec.search.domain \in Names /\ ~ IsSuffixDomain(spec.search.domain)
    /\ spec.search.injector \in Types

OrElse(value, unset, default) == IF value = unset THEN default ELSE value

resolveChannelDefaults(c) ==
    LET d == Channels[c.channel]
    IN  [c EXCEPT !.type = OrElse(@, "", d.type), !.domain = OrElse(@, NoHost, d.domain),
                  !.token = OrElse(@, "", d.token), !.key = @ \/ d.key]

canonicalProviderID(p) == IF p \in {"codex", "openai-codex"} THEN "openai" ELSE p

resolveProviderDefaults(c) ==
    LET p == canonicalProviderID(c.provider)
        known == p \in DOMAIN Providers
        type == IF known THEN OrElse(c.type, "", Providers[p].type) ELSE c.type
        domain == CASE type \in {"api_key", "bearer"} /\ known -> Providers[p].domain
                    [] type = "gcp" -> GoogleAPIs
                    [] OTHER -> NoHost
    IN  [c EXCEPT !.provider = p, !.type = type, !.domain = OrElse(@, NoHost, domain),
                  !.key = @ \/ (type = "api_key" /\ known /\ Providers[p].header)]

withDefaults(c) == IF c.channel # None THEN resolveChannelDefaults(c) ELSE resolveProviderDefaults(c)

Declared(spec) == [i \in DOMAIN spec.creds |-> withDefaults(spec.creds[i])]

\* The two entries of each repository: its path, without and with ".git".
githubAllowedPaths(repos) ==
    [k \in 1..(2 * Len(repos)) |->
        IF k % 2 = 1 THEN repos[(k + 1) \div 2].plain ELSE repos[k \div 2].git]

\* The credentials derived from spec.repoAccess.github, unless a credential with
\* the same name or domain is declared.  spec.github: what is enabled.
githubRepoAccessCredentials(spec) ==
    LET api == Credential("github-api", "bearer", GithubAPI)
        git == [Credential("github-git", "basic", GithubGit)
                  EXCEPT !.paths = githubAllowedPaths(spec.repos)]
        free(c) == \A d \in ToSet(Declared(spec)) : d.name # c.name /\ d.domain # c.domain
    IN  (IF "api" \in spec.github /\ free(api) THEN <<api>> ELSE <<>>)
        \o (IF "git" \in spec.github /\ free(git) THEN <<git>> ELSE <<>>)

\* What is required once the defaults are in: a type, a domain (a channel may do
\* without, a kubeconfig has its own), the config of the type; unique names and
\* providers.  That the Secrets are there is among ClawLifecycle's inputs, and
\* customProviders have no part in the routes.
credentialsValid(spec) ==
    LET creds == Declared(spec)
    IN  /\ \A c \in ToSet(creds) :
               /\ c.type # ""
               /\ c.domain # NoHost \/ c.type = "kubernetes" \/ c.channel # None
               /\ c.type = "api_key" => c.key
               /\ c.type = "path_token" => c.token # ""
        /\ \A i, j \in DOMAIN creds :
               i # j => /\ creds[i].name # creds[j].name
                        /\ creds[i].provider = None \/ creds[i].provider # creds[j].provider

resolveCredentials(spec) == Declared(spec) \o githubRepoAccessCredentials(spec)

-----------------------------------------------------------------------------
(* Routes *)

Route(domain, injector, cred) ==
    [domain |-> domain, injector |-> injector, cred |-> cred, paths |-> <<>>,
     headers |-> FALSE, token |-> "", prefix |-> "", upstream |-> NoHost,
     servers |-> {}]

Passthrough(domain) == Route(domain, "none", None)

usesVertexSDK(c) == c.type = "gcp" /\ c.provider \notin {None, "google"}

\* The upstream of a provider's gateway route.
resolveProviderInfo(c) ==
    LET based == c.provider \in DOMAIN Providers /\ Providers[c.provider].base
    IN  CASE c.type = "gcp" -> Vertex
          [] c.type # "gcp" /\ ~ IsSuffixDomain(c.domain) -> c.domain
          [] c.type # "gcp" /\ IsSuffixDomain(c.domain) /\ based -> Providers[c.provider].domain
          [] OTHER -> [c.domain EXCEPT !.name = Tail(@)]

generateCompanionRoutes(c) ==
    IF c.channel = None THEN <<>>
    ELSE LET companions == Channels[c.channel].companions
         IN  [i \in DOMAIN companions |-> Passthrough(companions[i])]

buildCredentialRoute(c) ==
    [Route(c.domain, IF c.type = "kubernetes" THEN "" ELSE c.type,
           IF c.type = "none" THEN None ELSE c.name)
        EXCEPT !.paths = c.paths, !.headers = c.headers, !.token = c.token]

\* A route and where it is appended: what comes from one set, in any order, is
\* appended at one place.
Placed(group, n, r) == [at |-> <<group, n>>, route |-> r]

\* The routes of one credential: one per cluster, or its own, which is also a
\* gateway route when it serves a provider, and those of its companions.
RoutesOf(c, group) ==
    IF c.type = "kubernetes"
    THEN {Placed(group, 0, [Route(s, "kubernetes", c.name)
                               EXCEPT !.headers = c.headers, !.servers = c.clusters])
            : s \in c.clusters}
    ELSE LET gateway == c.provider # None /\ c.type # "path_token" /\ ~ usesVertexSDK(c)
             own == IF gateway
                    THEN [buildCredentialRoute(c)
                            EXCEPT !.prefix = c.name, !.upstream = resolveProviderInfo(c)]
                    ELSE buildCredentialRoute(c)
             companions == generateCompanionRoutes(c)
         IN  {Placed(group, 0, own) : d \in {c.domain} \ {NoHost}}
             \cup {Placed(group, i, companions[i]) : i \in DOMAIN companions}

\* (Mutant) A suffix domain does not cover its subdomains.
domainCoveredExactly(d, covered) == d \in covered

domainCovered(d, covered) ==
    \/ d \in covered
    \/ \E s \in covered : IsSuffixDomain(s) /\ IsStrictSuffix(Tail(s.name), d.name)

\* (Mutant) The allowlist is not consulted.
filterBuiltinPassthroughsNot(allowlist) == DOMAIN Builtins

\* The positions of the built-in domains that stay.  An allowlist that is absent
\* keeps all of them; here it is then the set of all of them.
filterBuiltinPassthroughs(allowlist) == {i \in DOMAIN Builtins : Builtins[i].domain \in allowlist}

\* The web search route; spec.search is [domain, injector], NoHost for none.
webSearchRoute(search) ==
    Route(search.domain, search.injector,
          IF search.injector = "none" THEN None ELSE "websearch")

\* The hosts of MCP servers that get a route.
mcpHosts(servers, covered) == {h \in {m.host : m \in servers} : ~ domainCovered(h, covered)}

\* An MCP server that references a credential borrows its route for its host.
mcpCredentialRoute(c, host) ==
    [buildCredentialRoute(c) EXCEPT !.domain = host, !.paths = <<>>, !.headers = FALSE]

-----------------------------------------------------------------------------
(* Order *)

NameLess(a, b) ==
    \E i \in DOMAIN b :
        /\ \A j \in 1..(i - 1) : j \in DOMAIN a /\ a[j] = b[j]
        /\ i \in DOMAIN a => a[i] < b[i]

DomainLess(a, b) == NameLess(a.name, b.name) \/ (a.name = b.name /\ a.port < b.port)

InjectorRank(inj) == CHOOSE i \in DOMAIN Injectors : Injectors[i] = inj

routeLess(a, b) ==
    \/ DomainLess(a.domain, b.domain)
    \/ /\ a.domain = b.domain
       /\ \/ a.paths # <<>> /\ b.paths = <<>>
          \/ /\ (a.paths # <<>>) = (b.paths # <<>>)
             /\ InjectorRank(a.injector) < InjectorRank(b.injector)

\* The order of the config: exact before suffix domains, each part sorted by
\* routeLess; sort.SliceStable leaves equal routes as they were appended.
Before(a, b) ==
    LET suffix(c) == IsSuffixDomain(c.route.domain)
        appended == \/ a.at[1] < b.at[1]
                    \/ a.at[1] = b.at[1] /\ a.at[2] < b.at[2]
    IN  \/ ~ suffix(a) /\ suffix(b)
        \/ /\ suffix(a) = suffix(b)
           /\ \/ routeLess(a.route, b.route)
              \/ ~ routeLess(b.route, a.route) /\ appended

\* The k-th route is the one with k - 1 before it.
SortRoutes(placed) ==
    LET rank == [c \in placed |-> Cardinality({d \in placed : Before(d, c)})]
    IN  [k \in 1..Cardinality(placed) |-> (CHOOSE c \in placed : rank[c] = k - 1).route]

-----------------------------------------------------------------------------
(* generateProxyConfig *)

credentialDomains(spec) == {c.domain : c \in ToSet(resolveCredentials(spec))}

builtinRoutes(spec) ==
    {i \in filterBuiltinPassthroughs(spec.builtins) : Builtins[i].domain \notin credentialDomains(spec)}

\* Before the web search: the domains of credentials and built-in ones.
CoveredFirst(spec) == credentialDomains(spec) \cup {Builtins[i].domain : i \in builtinRoutes(spec)}

\* The domain of the web search, unless it needs no route.
searchDomains(spec) ==
    {d \in {spec.search.domain} \ {NoHost} : ~ domainCovered(d, CoveredFirst(spec))}

Covered(spec) == CoveredFirst(spec) \cup searchDomains(spec)

\* The servers with a credentialRef, and the hosts that get a route for it.
Refs(spec) == {m \in spec.mcp : m.ref # None}

credentialHosts(spec) == mcpHosts(Refs(spec), Covered(spec))

passthroughHosts(spec) ==
    mcpHosts(spec.mcp \ Refs(spec), Covered(spec) \cup credentialHosts(spec))

credByName(spec, n) == CHOOSE c \in ToSet(resolveCredentials(spec)) : c.name = n

\* All that is appended, in its order; server[h] is the server whose credential
\* host h gets.
PlacedRoutes(spec, server) ==
    LET creds == resolveCredentials(spec)
    IN  {Placed(0, i, [Passthrough(Builtins[i].domain) EXCEPT !.paths = Builtins[i].paths])
           : i \in builtinRoutes(spec)}
        \cup {Placed(1, 0, webSearchRoute(spec.search)) : d \in searchDomains(spec)}
        \cup {Placed(2, 0, mcpCredentialRoute(credByName(spec, server[h].ref), h))
                 : h \in credentialHosts(spec)}
        \cup {Placed(3, 0, Passthrough(h)) : h \in passthroughHosts(spec)}
        \cup UNION {RoutesOf(creds[i], 3 + i) : i \in DOMAIN creds}

\* mcpServers is a Go map, iterated in any order: of the servers with one host, any
\* may be the first.
FirstServers(spec) ==
    {f \in [credentialHosts(spec) -> Refs(spec)] : \A h \in credentialHosts(spec) : f[h].host = h}

\* What generateProxyConfig may return for a Claw: no config at all when an MCP
\* server references an unknown credential.
generateProxyConfig(spec) ==
    IF \A m \in Refs(spec) : \E c \in ToSet(resolveCredentials(spec)) : c.name = m.ref
    THEN {SortRoutes(PlacedRoutes(spec, f)) : f \in FirstServers(spec)}
    ELSE {}
=============================================================================
