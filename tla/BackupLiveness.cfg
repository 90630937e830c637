SPECIFICATION FairSpec
CHECK_DEADLOCK FALSE
CONSTANTS
    Backups = {b1}
    Restores = {r1, r2}
    Last = 1
    MaxFaults = 1
    MaxWrites = 1
PROPERTIES
    OperationsEnd
    RequestsAreAnswered
