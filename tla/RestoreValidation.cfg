SPECIFICATION Spec
CHECK_DEADLOCK FALSE
CONSTANTS
    Backups = {b1}
    Restores = {r1}
    Last = 2
    MaxFaults = 0
    MaxWrites = 0
INVARIANT
    AcceptedArchivesValid
