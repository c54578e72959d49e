SPECIFICATION Spec
CONSTANTS
    d1 = d1
    d2 = d2
    Data <- TwoContents
    Absent = Absent
    Torn = Torn
    Base = Base
    Ops <- SyncOps
    ServiceRestarts = FALSE
    MaxAttempts = 1
    MaxFaults = 0
PROPERTIES
    ReaderIsNotBehind
