SPECIFICATION Spec
CONSTANTS
    s1 = s1
    s2 = s2
    p1 = p1
    Secrets = {s1, s2}
    ConfigMaps = {p1}
    Specs <- MCSpecs
    Deletable = {"token"}
    OwnWritesLag = FALSE
    MaxGenerated = 4
    MaxChanges = 2
CHECK_DEADLOCK FALSE
INVARIANT TypeOK
INVARIANT LoadedCoversStamp
INVARIANT RolledOutAtRest
 
 
PROPERTY RotationReachesPods
