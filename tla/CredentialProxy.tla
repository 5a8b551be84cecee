----------------------------- MODULE CredentialProxy ----------------------------
(***************************************************************************)
(* The credential proxy beside one gateway: the operator writes its routes *)
(* to a ConfigMap, the proxy loads them when it starts, and then decides   *)
(* on each CONNECT and each request: block it, tunnel it, or forward it,   *)
(* perhaps with a credential.                                              *)
(***************************************************************************)
EXTENDS EgressPolicy, FiniteSetsExt

CONSTANTS
    Claws,       \* the Claws considered
    Hosts,       \* the hosts the gateway may ask for
    Paths,       \* the paths of its requests
    OAuthHost    \* oauth2.googleapis.com

ASSUME RequestsAssumption ==
    /\ Hosts \subseteq Names /\ NoHost \notin Hosts
    /\ Paths \subseteq Seq(STRING) /\ <<>> \notin Paths
ASSUME ClawsAssumption == \A c \in Claws : WellFormed(c) /\ EndpointsFormed(c)

VARIABLES
    claw,        \* the Claw's spec
    config,      \* the ConfigMap: [set, routes]
    proxy,       \* the proxy process: [up, routes]
    conn,        \* the CONNECT of the gateway's connection: [host, mode]
    out          \* what became of the last request on that connection

vars == <<claw, config, proxy, conn, out>>

NoConn == [host |-> NoHost, mode |-> "none"]

\* What the proxy did with a request: kind, the host and path it was sent on to,
\* the credential it carries, the route that served it, and whether the proxy
\* handler or the gateway handler did.
Answer(kind, via, i) ==
    [kind |-> kind, host |-> NoHost, path |-> <<"">>, cred |-> None, route |-> i, via |-> via]

Idle == Answer("idle", "", 0)

-----------------------------------------------------------------------------
(* Matching hosts and paths *)

domainMatches(d, h) ==
    IF IsSuffixDomain(d) THEN IsSuffix(Tail(d.name), h.name)
    ELSE IF d.port # 0 THEN h = d
    ELSE h.name = d.name

\* The positions of the routes of the best tier: host:port, host, suffix.
matchingRoutes(routes, h) ==
    LET matches == {i \in DOMAIN routes : domainMatches(routes[i].domain, h)}
        suffix == {i \in matches : IsSuffixDomain(routes[i].domain)}
        portExact == {i \in matches \ suffix : routes[i].domain.port # 0}
        exact == matches \ (suffix \cup portExact)
    IN  IF portExact # {} THEN portExact ELSE IF exact # {} THEN exact ELSE suffix

\* path.Clean: the segments that remain.
Clean(p) ==
    LET step(done, s) == IF s \in {"", "."} THEN done
                         ELSE IF s # ".." THEN Append(done, s)
                         ELSE IF done = <<>> THEN <<>> ELSE Front(done)
    IN  FoldLeft(step, <<>>, p)

pathEntryMatches(p, entry) ==
    \/ Clean(p) = Clean(entry)
    \/ Last(entry) = "" /\ Clean(entry) # <<>> /\ IsPrefix(Clean(entry), Clean(p))

\* (Mutant) Every path is allowed.
PathAllowedAlways(r, p) == TRUE

PathAllowed(r, p) ==
    r.paths = <<>> \/ \E i \in DOMAIN r.paths : pathEntryMatches(p, r.paths[i])

\* The length of an entry: one for each slash and for each letter.
EntryLen(entry) == Len(entry) + Cardinality({k \in DOMAIN entry : entry[k] # ""})

\* (Mutant) The first route with a matching entry wins.
MatchRouteFirst(routes, h, p) ==
    LET matches == matchingRoutes(routes, h)
        usable == {i \in matches : p = <<>> \/ PathAllowed(routes[i], p)}
    IN  IF usable # {} THEN Min(usable) ELSE IF matches # {} THEN Min(matches) ELSE 0

\* The route for a host and a path, 0 if none; at CONNECT the path is empty.
MatchRoute(routes, h, p) ==
    LET matches == matchingRoutes(routes, h)
        lengths(i) == {EntryLen(e) : e \in {e \in ToSet(routes[i].paths) : pathEntryMatches(p, e)}}
        allowing == {i \in matches : lengths(i) # {}}
        best == {i \in allowing : \A j \in allowing : \A m \in lengths(j) : \E l \in lengths(i) : l >= m}
        catchAll == {i \in matches : routes[i].paths = <<>>}
    IN  IF matches = {} THEN 0
        ELSE IF Cardinality(matches) = 1 \/ p = <<>> THEN Min(matches)
        ELSE IF best # {} THEN Min(best)
        ELSE IF catchAll # {} THEN Min(catchAll)
        ELSE 0

\* (Mutant) A path restriction does not ask for interception.
NeedsMITMNoPaths(r) == r.injector # "none" \/ r.headers

NeedsMITM(r) == r.injector # "none" \/ r.paths # <<>> \/ r.headers

NeedsMITMForHost(routes, h) == \E i \in matchingRoutes(routes, h) : NeedsMITM(routes[i])

\* What is left of a path without its gateway prefix.
stripPrefix(p) == IF Len(p) = 1 THEN <<"">> ELSE Tail(p)

\* The gateway route for a path, 0 if none.
MatchRouteByPath(routes, p) ==
    LET matches == {i \in DOMAIN routes : /\ routes[i].prefix # "" /\ routes[i].upstream # NoHost
                                          /\ routes[i].prefix = p[1]}
    IN  IF matches = {} THEN 0 ELSE Min(matches)

-----------------------------------------------------------------------------
(* Injection *)

\* An unknown or misconfigured injector is an error.
NewInjectorAccepts(r) ==
    r.injector # "" /\ (r.injector = "path_token" => r.token # "")

NewServerAccepts(routes) == \A i \in DOMAIN routes : NewInjectorAccepts(routes[i])

isTokenVendingRequest(h, p) == h.name = OAuthHost.name /\ p = <<"token">>

normalizeRequestHost(h) == IF h.port = 0 THEN [h EXCEPT !.port = 443] ELSE h

PathTokenInject(r, p) == p[1] = r.token

KubernetesInject(r, h) == normalizeRequestHost(h) \in r.servers

\* Whether Inject can succeed, and whether it can fail: an environment variable
\* that is empty, a token endpoint or a key file that gives no token.
InjectCanSucceed(r, h, p) ==
    /\ r.injector = "path_token" => PathTokenInject(r, p)
    /\ r.injector = "kubernetes" => KubernetesInject(r, h)

InjectCanFail(r, h, p) ==
    r.injector \notin {"none", "kubernetes"} \/ ~ InjectCanSucceed(r, h, p)

\* The answers once a route is chosen and allows the path: a POST for a token is
\* answered on the spot; otherwise the request goes to (host, path).
Serve(i, h, p, via, host, path) ==
    LET r == proxy.routes[i]
        sent == [Answer("forwarded", via, i) EXCEPT !.host = host, !.path = path, !.cred = r.cred]
    IN  (IF r.injector = "gcp" /\ isTokenVendingRequest(h, p) THEN {Answer("vended", via, i)} ELSE {})
        \cup (IF InjectCanSucceed(r, h, p) THEN {sent} ELSE {})
        \cup (IF InjectCanFail(r, h, p) THEN {Answer("badGateway", via, i)} ELSE {})

\* The proxy's handler for a request to an absolute URL.
ProxyAnswers(h, p) ==
    LET i == MatchRoute(proxy.routes, h, p)
    IN  IF i = 0 THEN {Answer("blocked", "proxy", 0)}
        ELSE IF ~ PathAllowed(proxy.routes[i], p) THEN {Answer("pathBlocked", "proxy", i)}
        ELSE Serve(i, h, p, "proxy", h, p)

serveGateway(i, h, p) == Serve(i, h, p, "gateway", proxy.routes[i].upstream, stripPrefix(p))

-----------------------------------------------------------------------------
Init ==
    /\ claw \in Claws
    /\ config = [set |-> FALSE, routes |-> <<>>]
    /\ proxy = [up |-> FALSE, routes |-> <<>>]
    /\ conn = NoConn
    /\ out = Idle

\* A reconcile writes the routes, unless the credentials are rejected or an MCP
\* server names an unknown one or one it could not get.
applyProxyResources ==
    /\ credentialsValid(claw) /\ validateMcpCredentialRefBypass(claw)
    /\ \E routes \in generateProxyConfig(claw) : config' = [set |-> TRUE, routes |-> routes]
    /\ UNCHANGED <<claw, proxy, conn, out>>

\* The proxy container starts, after a roll-out or on its own, with what the
\* ConfigMap holds; its connections end.  It exits if the routes are not accepted.
Start ==
    /\ config.set
    /\ proxy' = IF NewServerAccepts(config.routes) THEN [up |-> TRUE, routes |-> config.routes]
                ELSE [up |-> FALSE, routes |-> <<>>]
    /\ conn' = NoConn
    /\ out' = Idle
    /\ UNCHANGED <<claw, config>>

\* A new connection with CONNECT.
Connect(h) ==
    /\ proxy.up
    /\ conn' = [host |-> h,
                mode |-> IF MatchRoute(proxy.routes, h, <<>>) = 0 THEN "rejected"
                         ELSE IF NeedsMITMForHost(proxy.routes, h) THEN "mitm"
                         ELSE "tunnel"]
    /\ out' = Idle
    /\ UNCHANGED <<claw, config, proxy>>

\* A request inside an intercepted connection.
MitmRequest(p) ==
    /\ proxy.up
    /\ conn.mode = "mitm"
    /\ out' \in ProxyAnswers(conn.host, p)
    /\ UNCHANGED <<claw, config, proxy, conn>>

\* A plain request on a connection without CONNECT: for an absolute URL, or for the proxy itself
\* (NoHost), which only serves its health and the gateway routes.
Handle(h, p) ==
    /\ proxy.up
    /\ LET i == MatchRouteByPath(proxy.routes, p)
       IN  out' \in IF p = <<"healthz">> THEN {Answer("healthy", "", 0)}
                    ELSE IF i # 0 THEN serveGateway(i, h, p)
                    ELSE IF h = NoHost THEN {Answer("refused", "", 0)}
                    ELSE ProxyAnswers(h, p)
    /\ conn' = NoConn
    /\ UNCHANGED <<claw, config, proxy>>

Next ==
    \/ applyProxyResources
    \/ Start
    \/ \E h \in Hosts : Connect(h)
    \/ \E p \in Paths : MitmRequest(p)
    \/ \E h \in Hosts \cup {NoHost}, p \in Paths : Handle(h, p)

Spec == Init /\ [][Next]_vars

-----------------------------------------------------------------------------
(* What the Claw declares, said without routes *)

Creds == ToSet(resolveCredentials(claw))

\* h is d, on its port if it has one, or under it when d is a suffix domain; the apex
\* counts as under it.
Under(h, d) ==
    \/ h.name = d.name /\ d.port \in {0, h.port}
    \/ IsSuffixDomain(d) /\ \E k \in DOMAIN h.name : SubSeq(h.name, k, Len(h.name)) = Tail(d.name)

\* A credential is meant for its domain, or for the servers of its kubeconfig.
MeantFor(c, h) ==
    IF c.type = "kubernetes" THEN h \in c.clusters
    ELSE c.domain # NoHost /\ Under(h, c.domain)

LentTo(c, h) == \E m \in claw.mcp : m.ref = c.name /\ m.host.name = h.name

Entries(paths, p) == {e \in ToSet(paths) : pathEntryMatches(p, e)}

\* The hosts open to everyone: built-in, of companions, of the web search.
Open(h) ==
    \/ \E d \in claw.builtins : \E i \in DOMAIN Builtins : Builtins[i].domain = d /\ Under(h, d)
    \/ \E c \in Creds : \E r \in ToSet(generateCompanionRoutes(c)) : Under(h, r.domain)
    \/ claw.search.domain # NoHost /\ Under(h, claw.search.domain)

Sent == out.kind = "forwarded"

-----------------------------------------------------------------------------
(* Properties *)

\* A credential only travels where the Claw declares it: to its domain, on a path
\* its allowedPaths permit; to the servers of its kubeconfig; to an MCP server that
\* references it; to its provider's upstream through the gateway routes, which, like
\* a kubeconfig's and an MCP server's, do not look at allowedPaths; the web search
\* key only to the search provider.
CredentialInScope ==
    (Sent /\ out.cred # None) =>
        \/ out.cred = "websearch" /\ Under(out.host, claw.search.domain)
        \/ \E c \in Creds :
               /\ c.name = out.cred
               /\ \/ /\ out.via = "proxy"
                     /\ \/ LentTo(c, out.host)
                        \/ /\ MeantFor(c, out.host)
                           /\ \/ c.type = "kubernetes" \/ c.paths = <<>>
                              \/ Entries(c.paths, out.path) # {}
                  \/ /\ out.via = "gateway"
                     /\ \/ MeantFor(c, out.host)
                        \/ c.type = "gcp" /\ out.host = Vertex
                        \/ /\ IsSuffixDomain(c.domain) /\ c.provider \in DOMAIN Providers
                           /\ out.host = Providers[c.provider].domain

\* The proxy is an allowlist (ProxyConfig and MatchRoute together): it tunnels or
\* forwards only to hosts of credentials, MCP servers, and the open hosts that
\* spec.network.builtinPassthroughs leaves.
AllowlistEnforced ==
    \A h \in (IF Sent /\ out.via = "proxy" THEN {out.host} ELSE {})
             \cup (IF conn.mode = "tunnel" THEN {conn.host} ELSE {}) :
        \/ Open(h)
        \/ \E c \in Creds : MeantFor(c, h)
        \/ \E m \in claw.mcp : m.host.name = h.name

\* The route of an MCP server never takes a request away from a credential meant
\* for its host (domainCovered), unless the host is also open to everyone, is
\* declared with a credential of type none, or is the apex of a suffix domain.
McpNeverShadows ==
    (Sent /\ out.via = "proxy" /\ out.cred = None /\ ~ Open(out.host)) =>
        \A c \in Creds : MeantFor(c, out.host) =>
            \/ c.type = "none"
            \/ \E d \in Creds : d.type = "none" /\ MeantFor(d, out.host)
            \/ IsSuffixDomain(c.domain) /\ out.host.name = Tail(c.domain.name)

\* Of the credentials declared for one and the same domain, the request carries
\* the one whose allowedPaths name its path most specifically (MatchRoute).
MostSpecificWins ==
    (Sent /\ out.via = "proxy") =>
        \A c, d \in Creds :
            ( /\ c.name = out.cred /\ MeantFor(c, out.host) /\ ~ LentTo(c, out.host)
              /\ d.domain = c.domain /\ "kubernetes" \notin {c.type, d.type} ) =>
                \A e \in Entries(d.paths, out.path) :
                    \E f \in Entries(c.paths, out.path) : EntryLen(f) >= EntryLen(e)

\* A connection is tunnelled only if the proxy would have sent every request in
\* it on unchanged: what CONNECT decides without the path (NeedsMITMForHost)
\* agrees with what MatchRoute decides with it.
TunnelTransparent ==
    conn.mode = "tunnel" =>
        \A p \in Paths :
            LET i == MatchRoute(proxy.routes, conn.host, p)
            IN  /\ i # 0
                /\ PathAllowed(proxy.routes[i], p)
                /\ proxy.routes[i].cred = None /\ ~ proxy.routes[i].headers

\* The gateway's request to a host is let through on the way it takes: directly, or
\* by the proxy, which needs a route for it.
Reaches(name, port) ==
    IF GoesDirect(claw, name) THEN Admits(GatewayEgress(claw), name, port)
    ELSE /\ Admits(ProxyEgress(claw), name, port)
         /\ MatchRoute(proxy.routes, [name |-> name, port |-> port], <<>>) # 0

\* The collectors, when the gateway's policy lets it reach them.
Collectors ==
    IF claw.traces.enabled \/ claw.logs.enabled
    THEN {claw.traces.endpoint, logsEndpoint(claw)} \ {NoURL} ELSE {}

\* A name under svc that is not a Service's, such as a pod's own: classifyServiceURL
\* takes its second label for the namespace, which it is not.
Misread(name) == HasSvcSuffix(name) /\ ~ IsServiceName(name)

TakenFor(name) == IF Misread(name) THEN name[2] ELSE NamespaceOf(name)

\* What the gateway is meant to reach without the proxy: pairs of name and port.
Direct ==
    {<<u.host.name, resolvePort(u)>> : u \in Collectors}
    \cup {<<m.host.name, resolvePort(m)>> :
             m \in {s \in claw.mcp :
                      claw.bypass /\ (IsServiceName(s.host.name) \/ Misread(s.host.name))}}

\* An MCP server whose way is the one the operator takes it to be.  Not so: a bare
\* name with inClusterBypass, whose rule is on the policy that is not used; a name
\* that is misread; what shares the name of the collector, which is in NO_PROXY for
\* every port; and what is under the domain of a Kubernetes credential, which counts
\* as covered but has no route.
WayKnown(name) ==
    /\ ~ (claw.bypass /\ Len(name) = 1)
    /\ ~ Misread(name)
    /\ name # otlpEndpoint(claw).host.name
    /\ ~ \E c \in Creds : c.type = "kubernetes" /\ Under([name |-> name, port |-> 0], c.domain)

\* The policies, NO_PROXY and the routes, each generated on its own, agree once the
\* proxy runs.  Every MCP server is reachable on its port, and so are the clusters
\* of the kubeconfigs (unless they are bypassed) and, for traces and logs, the
\* collector (unless its name is misread).  A server that borrows a credential is not
\* reached around the proxy.
\* And the gateway reaches directly only what is meant: but for DNS and
\* additionalEgress, the namespace its name is taken for and the port of a bypassed
\* MCP server or of a collector, and the port of a collector outside the cluster.
EgressAsDeclared ==
    (proxy.up /\ conn = NoConn /\ out = Idle /\ telemetryValid(claw)) =>
        /\ \A m \in claw.mcp :
               WayKnown(m.host.name) =>
                   /\ Reaches(m.host.name, resolvePort(m))
                   /\ m.ref # None => ~ GoesDirect(claw, m.host.name)
        /\ \A c \in Creds : \A s \in c.clusters :
               GoesDirect(claw, s.name) \/ Reaches(s.name, s.port)
        /\ LET u == otlpEndpoint(claw)
           IN  Collectors # {} /\ ~ Misread(u.host.name) => Reaches(u.host.name, resolvePort(u))
        /\ \A name \in {h.name : h \in Hosts} \cup {m.host.name : m \in claw.mcp} :
           \A port \in {80, 443} \cup {resolvePort(m) : m \in claw.mcp} :
               Admits(GatewayEgress(claw) \ (dnsRules \cup claw.extra), name, port) =>
                   \E d \in Direct :
                       d[2] = port /\ TakenFor(d[1]) \in {Anywhere, NamespaceOf(name)}

\* "identical output across reconciles" (claw_proxy.go:198): reconciling an
\* unchanged Claw again leaves the routes, and so the proxy's Deployment, alone.
ConfigStable == [][config.set => config' = config]_vars
=============================================================================
