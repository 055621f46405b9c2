SPECIFICATION PutSpec
CONSTANTS
    u1 = u1
    u2 = u2
    Upload = {u1, u2}
    Modes = {"create", "replace", "append"}
    Threshold = 3
    MaxBatch = 2
    MaxRows = 6
    MaxForgets = 1
INVARIANTS SmallUploadsAtomic UploadsArriveWhole ReplaceReplaces BufferBounded RetriesRepeatNothing
SYMMETRY Symmetry
CHECK_DEADLOCK FALSE
