SPECIFICATION FairSpec
CONSTANTS
    d1 = d1
    d2 = d2
    Data <- TwoContents
    Absent = Absent
    Torn = Torn
    Base = Base
    Ops <- EveryOp
    ServiceRestarts = TRUE
    MaxAttempts = 1
    MaxFaults = 2
PROPERTIES
    SetLeavesUsableSource
    RollbackRestoresSources
    OperationsEnd
    OnlyALostBackupWedges
