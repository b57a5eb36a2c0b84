SPECIFICATION Spec
CONSTANTS
    Appenders = {"a1"}
    m1 = m1
    m2 = m2
    Maintainers = {m1, m2}
    Fetchers = {}
    Producers = {1}
    NoProducer = 0
    Contents = {"x", "y"}
    Requests <- GcRequests
    InitialRoots <- MissingRoot
    PageEntries = 2
    MaxPathPages = 1
    RetryBatches = 2
    SeqModulus = 8
    MaxAttempts = 1
    MaxObjects = 20
    MaxOmissions = 1
    MaxCalls <- Calls211
    MaxFailures = 1
INVARIANTS LiveGraphPresent NoIntegrityFailure RootMatchesHistory
PROPERTIES RootMovesForward ImplementsLog
CHECK_DEADLOCK FALSE
SYMMETRY Symmetry
