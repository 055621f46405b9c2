SPECIFICATION TxSpec
CONSTANTS
    s1 = s1
    s2 = s2
    s3 = s3
    Session = {s1, s2, s3}
    Layouts <- OneAndTwo
    Kinds = {"derive", "ingest", "repair", "delete", "get"}
    MaxTxs = 3
INVARIANT NothingStray
PROPERTIES ActsAtomically RecordsAreAtomic TransactionsEnd
CHECK_DEADLOCK FALSE
