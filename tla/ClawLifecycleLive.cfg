SPECIFICATION Spec
CONSTANTS
    Versions = {2}
    DefaultVersion = 2
    UserConfigs = {FALSE}
    InputStates = {"ok"}
    Routes = {"pending"}
    MaxChanges = 2
    MaxRestarts = 0
    MaxFailures = 1
CHECK_DEADLOCK FALSE
PROPERTY IdleConverges
PROPERTY ResumeConverges
PROPERTY MetricsCleared
