\* Two processes, five starts, two backups kept, four seconds.
SPECIFICATION Spec
CONSTANTS
    Proc = {p1, p2}
    Tables = 2
    MaxBackups = 2
    MaxTime = 4
    MaxStarts = 5
INVARIANTS
    TypeOK
    LastBackupsKept
    FailsOnlyByRace
    TablesMissingOnlyDuringInit
    StartupInv
PROPERTY InitCompletes
CHECK_DEADLOCK FALSE
