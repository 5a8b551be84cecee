SPECIFICATION Spec
CONSTANTS
    RequestIDs = {r1, r2}
    MaxGen = 3
    MaxPods = 2
    MaxRestarts = 1
INVARIANT TypeOK
INVARIANT PairedHasApproval
PROPERTY NoExecOnceRecorded
PROPERTY ProcessingResolves
PROPERTY StatusCatchesUp
