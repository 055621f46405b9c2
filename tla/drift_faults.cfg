SPECIFICATION Spec
CONSTANTS
    a = a
    b = b
    s1 = s1
    s2 = s2
    f1 = f1
    f2 = f2
    Label = {a, b}
    Server = {s1}
    Stream = {f1}
    Requests <- PutCalls
    MaxCalls = 2
    MaxCommits = 3
    MaxWriterFaults = 1
    MaxSweepFaults = 2
    MinAbsentSweeps = 2
    CapMin = 0
    CapNum = 1
    CapDen = 2
INVARIANTS TypeOK MetadataWhole RowsFollowData SweptRowsWereGone SweepsAreTimid
PROPERTY GraceGranted
SYMMETRY Symmetry
