SPECIFICATION GraceSpec
CONSTANTS
    a = a
    b = b
    s1 = s1
    s2 = s2
    f1 = f1
    f2 = f2
    Label = {a, b}
    Server = {s1}
    Stream = {}
    Requests <- Churn
    MaxCalls = 3
    MaxCommits = 2
    MaxWriterFaults = 0
    MaxSweepFaults = 0
    MinAbsentSweeps = 2
    CapMin = 1
    CapNum = 1
    CapDen = 4
PROPERTY GraceIsConsecutive
