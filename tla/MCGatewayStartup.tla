---------------------------- MODULE MCGatewayStartup ----------------------------
(***************************************************************************)
(* Versions of a Claw for model checking GatewayStartup.                   *)
(***************************************************************************)
EXTENDS GatewayStartup

MCCatalog ==
    [k \in {"openai", "anthropic", "anthropic-vertex"} |->
        CASE k = "openai" -> <<"gpt">>
          [] k = "anthropic" -> <<"opus", "haiku">>
          [] k = "anthropic-vertex" -> <<"v-opus", "v-haiku">>]
MCVertexKey == [p \in {"anthropic"} |-> "anthropic-vertex"]
MCVertexPlugin == [p \in {"anthropic"} |-> [package |-> "vertex-provider", id |-> "vertex"]]
MCEmbedding == {"openai"}
MCKeyedSearch == {"brave"}

Cred(provider, type, channel) == [provider |-> provider, type |-> type, channel |-> channel]

OpenAI == Cred("openai", "api_key", None)
Anthropic == Cred("anthropic", "api_key", None)
AnthropicVertex == Cred("anthropic", "gcp", None)
Telegram == Cred(None, "path_token", "telegram")
Cluster == Cred(None, "kubernetes", None)

NoAgent == [files |-> Empty, always |-> FALSE, seed |-> Empty]

Base ==
    [creds |-> <<Anthropic>>, custom |-> <<>>, raw |-> Empty, mode |-> "merge", mgmt |-> "operator",
     auth |-> "token", dreaming |-> "off", wiki |-> "off", mcp |-> {}, search |-> None,
     traces |-> FALSE, logs |-> FALSE, metrics |-> FALSE, installs |-> TRUE, plugins |-> <<>>,
     files |-> Empty, skills |-> Empty, images |-> {}, agent |-> NoAgent]

One(k, v) == [x \in {k} |-> v]

MCClaws ==
    << Base,
       [Base EXCEPT !.creds = <<OpenAI, Telegram>>, !.wiki = "isolated", !.plugins = <<"p1", "p2">>,
                    !.skills = One("policy", "v1"), !.mcp = {"tool"}],
       [Base EXCEPT !.creds = <<AnthropicVertex, Cluster>>, !.plugins = <<"p1">>, !.auth = "password",
                    !.raw = One(<<"models", "gpt", "alias">>, "raw"), !.files = One("AGENTS", "v1"), !.metrics = TRUE],
       [Base EXCEPT !.creds = <<AnthropicVertex, OpenAI, Telegram>>, !.mgmt = "user", !.logs = TRUE],
       [Base EXCEPT !.mode = "overwrite", !.dreaming = "",
                    !.agent = [files |-> One("AGENTS", "bundle"), always |-> TRUE,
                               seed |-> One(<<"plugins", "bundled", "enabled">>, "true")]],
       [Base EXCEPT !.search = "brave", !.custom = <<[name |-> "local", models |-> <<"llama">>]>>],
       [Base EXCEPT !.skills = One("platform", "v1")] >>

MCSeedConfig == One(<<"skills", "1password", "enabled">>, "false")

MCUserEdits ==
    {[leaf |-> <<"channels", "telegram", "config">>, value |-> "mine"],
     [leaf |-> <<"plugins", "own", "enabled">>, value |-> "true"],
     [leaf |-> Primary, value |-> "haiku"], [leaf |-> Primary, value |-> "gpt"]}
=============================================================================
