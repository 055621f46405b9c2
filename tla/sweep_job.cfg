SPECIFICATION JobSpec
CONSTANTS
    a = a
    b = b
    c = c
    d = d
    e = e
    mine = mine
    other = other
    Mine = mine
    Neighbour = {other}
    Label = {a, b, c, d, e}
    MaxCalls = 1
    MaxCommits = 2
    MinAbsentSweeps = 2
    CapMin = 1
    CapNum = 1
    CapDen = 2
INVARIANTS CountersStayShort HealsInTime
PROPERTIES NeighboursDoNotStarve ImplementsQuietSweeps QuietSweepIsTimid
