\* Seven versions of a Claw, one of them refused, changed twice; two kills of a pod or
\* failures of the operator; one thing the user does.
CONSTANTS
    Catalog <- MCCatalog
    VertexKey <- MCVertexKey
    VertexPlugin <- MCVertexPlugin
    Embedding <- MCEmbedding
    KeyedSearch <- MCKeyedSearch
    RouteHost = "route"
    Claws <- MCClaws
    SeedConfig <- MCSeedConfig
    UserEdits <- MCUserEdits
    UserPlugins = {"p2", "own"}
    MaxEdits = 2
    MaxKills = 2
    MaxTouches = 1
SPECIFICATION Spec
INVARIANT TypeOK
 
INVARIANT WithdrawnPruned
INVARIANT UserSettingsSurvive
INVARIANT SelectionValid
INVARIANT VectorRecallAsReported
PROPERTY GatewayComesUp
\* Once every change is made and the gateway is up, nothing has to happen.
CHECK_DEADLOCK FALSE
