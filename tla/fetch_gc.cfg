SPECIFICATION FairSpec
CONSTANTS
    Appenders = {"a1"}
    Maintainers = {"m1"}
    Fetchers = {"f1"}
    Producers = {1}
    NoProducer = 0
    Contents = {"x", "y"}
    Requests <- GcRequests
    InitialRoots <- LegacyRoots
    PageEntries = 2
    MaxPathPages = 1
    RetryBatches = 2
    SeqModulus = 8
    MaxAttempts = 2
    MaxObjects = 5
    MaxOmissions = 0
    MaxCalls <- Calls111
    MaxFailures = 0
INVARIANTS NoIntegrityFailure FetchSound RootValid
PROPERTIES OperationsReturn
CHECK_DEADLOCK FALSE
