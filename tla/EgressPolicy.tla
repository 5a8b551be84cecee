------------------------------ MODULE EgressPolicy ------------------------------
(***************************************************************************)
(* The two NetworkPolicies for what leaves the gateway's and the proxy's   *)
(* pods, as the operator generates them from the Claw, and the NO_PROXY of *)
(* the gateway, which decides which of the two ways a request takes.       *)
(*                                                                         *)
(* A URL is a record [host, port, https], with port 0 for none; ports of   *)
(* policies are TCP ports of pods, and the ones of Services are taken to   *)
(* be the same.                                                            *)
(***************************************************************************)
EXTENDS ProxyConfig

CONSTANTS
    Svc,           \* the label "svc"
    ClusterLocal,  \* the labels "cluster", "local"
    Namespace,     \* the label that is the Claw's namespace
    Addresses      \* the names that are IP addresses

NoURL == [host |-> NoHost, port |-> 0, https |-> FALSE]

-----------------------------------------------------------------------------
(* Classification *)

resolvePort(u) == IF u.port # 0 THEN u.port ELSE IF u.https THEN 443 ELSE 80

\* The suffixes .svc and .svc.cluster.local, which are also those of noProxySuffix.
HasSvcSuffix(name) ==
    IsStrictSuffix(<<Svc>>, name) \/ IsStrictSuffix(<<Svc>> \o ClusterLocal, name)

ASSUME NamesAssumption ==
    Namespace \in Labels /\ \A a \in Addresses : ~ HasSvcSuffix(a)

\* ns 0 stands for the Claw's own namespace.
classifyServiceURL(u) ==
    LET name == u.host.name
        inCluster == name \notin Addresses /\ (Len(name) = 1 \/ HasSvcSuffix(name))
        ns == IF Len(name) = 1 \/ name[2] = Namespace THEN 0 ELSE name[2]
    IN  [port |-> resolvePort(u), external |-> ~ inCluster, ns |-> IF inCluster THEN ns ELSE 0]

classifyMcpEgressTargets(spec) == {classifyServiceURL(m) : m \in spec.mcp}

filterInCluster(targets) == {t \in targets : ~ t.external}

collectExternalNon443Ports(targets) == {t.port : t \in {u \in targets : u.external /\ u.port # 443}}

\* A Claw is rejected when an MCP server in the cluster, which the gateway reaches
\* without the proxy, needs a credential from it.
validateMcpCredentialRefBypass(spec) ==
    ~ \E m \in spec.mcp : spec.bypass /\ m.ref # None /\ ~ classifyServiceURL(m).external

-----------------------------------------------------------------------------
(* Telemetry.  spec.traces and spec.logs: [enabled, endpoint]; spec.metrics: *)
(* enabled or not.                                                           *)

logsEndpoint(spec) == OrElse(spec.logs.endpoint, NoURL, spec.traces.endpoint)

otlpEndpoint(spec) == OrElse(spec.traces.endpoint, NoURL, spec.logs.endpoint)

\* The endpoints are URLs, when they are given.
EndpointsFormed(spec) ==
    \A u \in {spec.traces.endpoint, spec.logs.endpoint} \ {NoURL} : IsHostName(u.host)

telemetryValid(spec) ==
    /\ spec.traces.enabled => spec.traces.endpoint # NoURL
    /\ spec.logs.enabled => logsEndpoint(spec) # NoURL
    /\ spec.metrics => otlpEndpoint(spec) # NoURL

classifyTelemetryEndpoints(spec) ==
    {classifyServiceURL(u) : u \in {spec.traces.endpoint, logsEndpoint(spec)} \ {NoURL}}

\* injectOTelEnvVars and configureGatewayNoProxy: the gateway's requests to name do
\* not use the proxy.
GoesDirect(spec, name) ==
    \/ spec.bypass /\ HasSvcSuffix(name)
    \/ /\ spec.traces.enabled \/ spec.logs.enabled \/ spec.metrics
       /\ name = otlpEndpoint(spec).host.name

-----------------------------------------------------------------------------
(* Rules: [to, port], to a namespace or one of these *)

Anywhere == 0
AllNamespaces == -1
ProxyPods == -2

Rule(to, port) == [to |-> to, port |-> port]

dnsRules == {Rule(AllNamespaces, 53), Rule(AllNamespaces, 5353)}

buildInClusterEgressRule(t) == Rule(IF t.ns = 0 THEN Namespace ELSE t.ns, t.port)

injectTelemetryEgressRules(spec) ==
    IF spec.traces.enabled \/ spec.logs.enabled
    THEN {IF t.external THEN Rule(Anywhere, t.port) ELSE buildInClusterEgressRule(t)
            : t \in classifyTelemetryEndpoints(spec)}
    ELSE {}

\* The rules for MCP servers in the cluster, on the policy of whoever reaches them.
InClusterRules(spec) ==
    {buildInClusterEgressRule(t) : t \in filterInCluster(classifyMcpEgressTargets(spec))}

\* spec.extra: additionalEgress.
GatewayEgress(spec) ==
    {Rule(ProxyPods, 8080)} \cup dnsRules
    \cup injectTelemetryEgressRules(spec)
    \cup (IF spec.bypass THEN InClusterRules(spec) ELSE {})
    \cup spec.extra

KubePorts(spec) == {s.port : s \in UNION {c.clusters : c \in ToSet(resolveCredentials(spec))}}

\* (Mutant) Without the rules for servers in the cluster.
ProxyEgressExternal(spec) ==
    {Rule(Anywhere, 443)} \cup dnsRules
    \cup {Rule(Anywhere, p) : p \in KubePorts(spec)
                                    \cup collectExternalNon443Ports(classifyMcpEgressTargets(spec))}

ProxyEgress(spec) ==
    {Rule(Anywhere, 443)} \cup dnsRules
    \cup (IF spec.bypass THEN {} ELSE InClusterRules(spec))
    \cup {Rule(Anywhere, p) : p \in KubePorts(spec)
                                    \cup collectExternalNon443Ports(classifyMcpEgressTargets(spec))}

-----------------------------------------------------------------------------
(* What a policy admits.  Where a name leads is what the cluster's DNS says, not *)
(* what the operator makes of it: the namespace of a Service stands before svc.  *)

\* The name of a Service as DNS has it: one label, or service.namespace.svc, also
\* followed by cluster.local.
IsServiceName(name) ==
    \/ Len(name) = 1 /\ name \notin Addresses
    \/ Len(name) = 3 /\ IsStrictSuffix(<<Svc>>, name)
    \/ Len(name) = 5 /\ IsStrictSuffix(<<Svc>> \o ClusterLocal, name)

NamespaceOf(name) ==
    IF ~ IsServiceName(name) THEN Anywhere ELSE IF Len(name) = 1 THEN Namespace ELSE name[2]

Admits(rules, name, port) ==
    \E r \in rules : /\ r.port = port
                     /\ \/ r.to = Anywhere
                        \/ IsServiceName(name) /\ r.to \in {NamespaceOf(name), AllNamespaces}
=============================================================================
