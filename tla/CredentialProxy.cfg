\* None, one or two of twelve credentials, five sets of MCP servers, with and
\* without repository access, built-in domains and web search.
CONSTANTS
    Providers <- MCProviders
    Channels <- MCChannels
    GoogleAPIs <- MCGoogleAPIs
    Builtins <- MCBuiltins
    Vertex <- MCVertex
    GithubAPI <- MCGithubAPI
    GithubGit <- MCGithubGit
    Claws <- MCClaws
    Hosts <- MCHosts
    Paths <- MCPaths
    OAuthHost <- MCOAuthHost
    Svc <- MCSvc
    ClusterLocal <- MCClusterLocal
    Namespace <- MCNamespace
    Addresses <- MCAddresses
SPECIFICATION Spec
INVARIANT EgressAsDeclared
 
INVARIANT AllowlistEnforced
INVARIANT McpNeverShadows
INVARIANT MostSpecificWins
INVARIANT TunnelTransparent
\* A Claw whose MCP server names an unknown credential never gets a proxy.
CHECK_DEADLOCK FALSE
