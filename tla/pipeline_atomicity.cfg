SPECIFICATION Spec
CONSTANTS
    d1 = d1
    d2 = d2
    Data <- TwoContents
    Absent = Absent
    Torn = Torn
    Base = Base
    Ops <- TransactionOps
    ServiceRestarts = FALSE
    MaxAttempts = 2
    MaxFaults = 2
INVARIANTS
    TypeOK
    ReportNamesConfig
    TransactionInv
    AppliedIsLive
    NothingLeaks
PROPERTIES
    ImplementsAtomicConfig
    AnswerNotBehindStatusFile
