SPECIFICATION ScratchSpec
CONSTANTS
    c1 = c1
    c2 = c2
    c3 = c3
    Call = {c1, c2, c3}
    MaxFaults = 0
INVARIANT CreatedOnDemand
CHECK_DEADLOCK FALSE
