SPECIFICATION AnswersSpec
CONSTANTS
    a = a
    s1 = s1
    s2 = s2
    Label = {a}
    Server = {s1, s2}
    Stream = {}
    Requests <- WriteAndLook
    MaxCalls = 2
    MaxCommits = 2
    MaxWriterFaults = 1
    MaxSweepFaults = 0
    MinAbsentSweeps = 2
    CapMin = 1
    CapNum = 1
    CapDen = 4
INVARIANTS SerialCallsAgree EmptyOnlyWhileCreated AnswersTellTheWrite
SYMMETRY Symmetry
