\* Two MCP servers on one host that reference different credentials.
CONSTANTS
    Providers <- MCProviders
    Channels <- MCChannels
    GoogleAPIs <- MCGoogleAPIs
    Builtins <- MCBuiltins
    Vertex <- MCVertex
    GithubAPI <- MCGithubAPI
    GithubGit <- MCGithubGit
    Claws <- MCTwoServers
    Hosts <- MCHosts
    Paths <- MCPaths
    OAuthHost <- MCOAuthHost
    Svc <- MCSvc
    ClusterLocal <- MCClusterLocal
    Namespace <- MCNamespace
    Addresses <- MCAddresses
SPECIFICATION Spec
PROPERTY ConfigStable
CHECK_DEADLOCK FALSE
