SPECIFICATION Spec
CONSTANTS
    Images = {i1, i2}
    Images72 = {i2}
    OwnWritesLag = FALSE
    MaxEdits = 2
    MaxFailures = 1
CHECK_DEADLOCK FALSE
INVARIANT TypeOK
 
INVARIANT MigratedMeansSucceeded
 
INVARIANT ResumedAtRest
 
PROPERTY MigrationResolves
