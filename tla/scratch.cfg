SPECIFICATION ScratchSpec
CONSTANTS
    c1 = c1
    c2 = c2
    c3 = c3
    Call = {c1, c2, c3}
    MaxFaults = 1
INVARIANTS OnlyTheWindowLoses ReturnedIsNotStale SomebodyWins AloneSucceeds
SYMMETRY Symmetry
CHECK_DEADLOCK FALSE
