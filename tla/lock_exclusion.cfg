SPECIFICATION Spec
CONSTANTS
    a = a
    b = b
    c = c
    Procs <- ThreeProcs
    Deadline = 3
    MaxInodes = 2
INVARIANT MutualExclusion
INVARIANT NoOrphan
PROPERTY Answered
