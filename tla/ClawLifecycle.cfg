SPECIFICATION Spec
CONSTANTS
    Versions = {2}
    DefaultVersion = 2
    UserConfigs = {FALSE, TRUE}
    InputStates = {"ok", "invalid", "proxy", "password"}
    Routes = {"pending"}
    MaxChanges = 2
    MaxRestarts = 1
    MaxFailures = 1
CHECK_DEADLOCK FALSE
INVARIANT TypeOK
INVARIANT IdleStatusConsistent
INVARIANT MetricAtRest
INVARIANT IdleAtRest
INVARIANT RunningAtRest
