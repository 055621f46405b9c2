SPECIFICATION RequestSpec
CONSTANTS
    Stem = {"a", "b"}
    Spelling = {1, 2}
    Name = {"orders", "users"}
    RowCap = 2
    TotalRows = 4
    MinLimit = 1
    MaxLimit = 3
    Ttl = 2
    Ticks = 2
    MaxSkew = 1
    MaxTime = 12
    BatchRows = 2
    ExportRowCap = 4
    MaxRows = 5
    Tenant <- AlikeTenants
    File = {"f", "g"}
    StagingPath <- SubPath
    Permitted <- LakeBucket
    Lake <- LakeAndNeighbour
    IngestCap = 1
    MaxBytes = 2
    MaxPuts = 2
    Writer = {"w1", "w2", "w3"}
    Shape <- ThreeShapes
    MaxChanges = 1
INVARIANTS
    PrivateIsPrivate WordDoesNotCount DoorsAgree
    ReadsAreOwn LineageIsOfReads ReadableIsRead
    PreviewIsExact
    TicketsLastTheirTime
    ReturnedIsComplete StartedStreamsClose
    StagedReadsAreMeant
PROPERTY ShapesAreKept
CHECK_DEADLOCK FALSE
