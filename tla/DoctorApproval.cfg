SPECIFICATION Spec
CONSTANTS
    Images = {i1, i2}
    Images72 = {i2}
    OwnWritesLag = FALSE
    MaxEdits = 1
    MaxFailures = 0
CHECK_DEADLOCK FALSE
INVARIANT JobsApproved
