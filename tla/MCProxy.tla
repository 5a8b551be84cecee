-------------------------------- MODULE MCProxy ---------------------------------
(***************************************************************************)
(* Claws, hosts and paths for model checking CredentialProxy.  Names are   *)
(* made of the labels a = 1, b = 2, c = 3, own = 4, github = 5, ai = 6,    *)
(* k8s = 7, raw = 8, com = 9, svc = 10, cluster = 11, local = 12, other =  *)
(* 13, and 99 for an address.                                              *)
(***************************************************************************)
EXTENDS CredentialProxy

Host(name) == [name |-> name, port |-> 0]
HostPort(name, port) == [name |-> name, port |-> port]

Ai == <<6, 9>>
SubAi == <<1, 6, 9>>
Own == <<1, 9>>
K8s == <<7>>
Raw == <<8, 9>>
Git == <<5, 9>>

MCBuiltins == <<[domain |-> Host(Git), paths |-> <<>>],
                [domain |-> Host(Raw), paths |-> << <<"a", "">> >>]>>
MCGoogleAPIs == Host(<<0, 6, 9>>)
MCVertex == Host(<<2, 6, 9>>)
MCOAuthHost == Host(<<3, 6, 9>>)
MCGithubAPI == Host(<<1, 5, 9>>)
MCGithubGit == Host(Git)

MCHosts == {Host(SubAi), Host(Own), HostPort(Ai, 443), HostPort(Raw, 443), HostPort(Git, 443),
            HostPort(MCOAuthHost.name, 443), HostPort(K8s, 6443), HostPort(K8s, 443)}

MCPaths == {<<"">>, <<"a">>, <<"a", "b">>, <<"a", "..", "b">>, <<"key", "a">>, <<"key">>,
            <<"token">>, <<"bot", "a">>, <<"healthz">>}

MCProviders ==
    [p \in {"google", "anthropic", "xai"} |->
        CASE p = "google" -> [type |-> "api_key", domain |-> Host(SubAi), header |-> TRUE, base |-> TRUE]
          [] p = "anthropic" -> [type |-> "api_key", domain |-> Host(Ai), header |-> TRUE, base |-> FALSE]
          [] p = "xai" -> [type |-> "bearer", domain |-> Host(SubAi), header |-> FALSE, base |-> TRUE]]

MCChannels ==
    [c \in {"telegram", "whatsapp"} |->
        CASE c = "telegram" -> [type |-> "path_token", domain |-> Host(Own), token |-> "bot",
                                key |-> FALSE, companions |-> <<>>]
          [] c = "whatsapp" -> [type |-> "none", domain |-> NoHost, token |-> "",
                                key |-> FALSE, companions |-> <<Host(<<0, 8, 9>>)>>]]

\* One credential of each kind that generateProxyConfig tells apart, some complete
\* and some that rely on the defaults.
Pool ==
    { [Credential("key", "", NoHost) EXCEPT !.provider = "anthropic"],
      [Credential("gcp", "gcp", NoHost) EXCEPT !.provider = "google"],
      [Credential("sdk", "gcp", NoHost) EXCEPT !.provider = "anthropic"],
      [Credential("wide", "bearer", MCGoogleAPIs) EXCEPT !.provider = "xai"],
      [Credential("dir", "basic", Host(Ai)) EXCEPT !.paths = << <<"a", "">> >>],
      [Credential("file", "bearer", Host(Ai)) EXCEPT !.paths = << <<"a", "b">>, <<"b">> >>],
      [Credential("bot", "", NoHost) EXCEPT !.channel = "telegram"],
      [Credential("chat", "", NoHost) EXCEPT !.channel = "whatsapp"],
      [Credential("kube", "kubernetes", Host(<<2, 13>>)) EXCEPT
          !.clusters = {HostPort(K8s, 6443), HostPort(K8s, 443)}],
      [Credential("open", "none", Host(SubAi)) EXCEPT !.headers = TRUE],
      [Credential("mine", "oauth2", MCGithubGit) EXCEPT !.paths = << <<"a">> >>],
      [Credential("mine", "bearer", Host(Own)) EXCEPT !.provider = "codex"] }

Lists(n) == UNION {{s \in [1..k -> Pool] : IsInjective(s)} : k \in 0..n}

URL(host, port, https) == [host |-> Host(host), port |-> port, https |-> https]

Server(host, ref) == [host |-> Host(host), port |-> 0, https |-> TRUE, ref |-> ref]
Service(name, port, ref) == [host |-> Host(name), port |-> port, https |-> FALSE, ref |-> ref]

MCSvc == 10
MCClusterLocal == <<11, 12>>
MCNamespace == 4
MCAddresses == {<<99>>}

Mine == <<1, MCNamespace, MCSvc>>
Others == <<2, 13, MCSvc>> \o MCClusterLocal

NoSearch == [domain |-> NoHost, injector |-> "none"]

Signal(on, endpoint) == [enabled |-> on, endpoint |-> endpoint]
Off == Signal(FALSE, NoURL)

ClawOf(creds, mcp, github, builtins, search) ==
    [creds |-> creds, mcp |-> mcp, github |-> github,
     repos |-> <<[plain |-> <<"b", "">>, git |-> <<"c", "">>]>>,
     builtins |-> builtins, search |-> search,
     bypass |-> FALSE, traces |-> Off, logs |-> Off, metrics |-> FALSE, extra |-> {}]

MCServers == {{}, {Server(SubAi, None), Server(K8s, None)}, {Server(SubAi, "dir"), Server(Own, "gcp")},
              {Server(Own, "kube")}, {Server(Ai, None)}}

\* Servers in the cluster, by each form of name, and outside on other ports.
MCServices == {{Service(<<1>>, 9001, "dir"), Service(Others, 0, None), Server(<<99>>, None)},
               {Service(Mine, 9001, None), Service(Own, 8443, None), Service(<<2, 13>>, 9001, None)},
               {Service(Others, 9001, "key"), Service(<<1, 2, 13, MCSvc>>, 9001, None)}}

\* No telemetry; traces to a collector in another namespace and logs to another;
\* traces to a pod; logs to a collector outside; metrics alone; and metrics without
\* a collector.
MCTelemetry == {<<Off, Off, FALSE>>,
                <<Signal(TRUE, URL(<<3, 13, MCSvc>>, 4318, FALSE)), Signal(FALSE, URL(Raw, 0, TRUE)), TRUE>>,
                <<Signal(TRUE, URL(<<1, 3, 13, MCSvc>>, 4318, FALSE)), Off, FALSE>>,
                <<Off, Signal(TRUE, URL(Raw, 4318, FALSE)), FALSE>>,
                <<Signal(FALSE, URL(Raw, 4318, FALSE)), Off, TRUE>>,
                <<Off, Off, TRUE>>}

MCClaws ==
    {ClawOf(cs, m, IF g THEN {"api", "git"} ELSE {}, IF g THEN {MCGithubGit} ELSE {Host(Raw)},
            IF g THEN NoSearch ELSE [domain |-> Host(Own), injector |-> "bearer"])
       : cs \in Lists(2), m \in MCServers, g \in BOOLEAN}
    \cup
    {[ClawOf(cs, m, {}, {}, NoSearch)
        EXCEPT !.bypass = b, !.traces = t[1], !.logs = t[2], !.metrics = t[3],
               !.extra = IF b THEN {Rule(Anywhere, 8443)} ELSE {}]
       : cs \in Lists(1), m \in MCServices, b \in BOOLEAN, t \in MCTelemetry}

\* Two MCP servers on one host with different credentials.
MCTwoServers ==
    {ClawOf(cs, {Server(Own, "dir"), Server(Own, "key")}, {}, {}, NoSearch) : cs \in Lists(2)}
=============================================================================
