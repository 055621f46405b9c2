SPECIFICATION PreviewSpec
CONSTANTS
    RowCap = 3
    TotalRows = 6
    MinLimit = 2
    MaxLimit = 5
INVARIANT TruncationIsTold
CHECK_DEADLOCK FALSE
