SPECIFICATION Spec
CONSTANTS
    Versions = {2, 3}
    DefaultVersion = 2
    UserConfigs = {FALSE}
    InputStates = {"ok"}
    Routes = {"none"}
    MaxChanges = 2
    MaxRestarts = 0
    MaxFailures = 0
CHECK_DEADLOCK FALSE
PROPERTY HighWaterMark
