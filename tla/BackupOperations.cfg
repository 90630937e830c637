SPECIFICATION Spec
CHECK_DEADLOCK FALSE
CONSTANTS
    Backups = {b1}
    Restores = {r1, r2}
    Last = 2
    MaxFaults = 1
    MaxWrites = 1
SYMMETRY Symmetry
INVARIANTS
    TypeOK
    OneActiveOperation
    FinishedBackupsSelfContained
PROPERTIES
    ImplementsLog
    QuietRestoreExact
