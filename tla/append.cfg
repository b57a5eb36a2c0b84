SPECIFICATION Spec
CONSTANTS
    Appenders = {"a1", "a2"}
    Maintainers = {}
    Fetchers = {}
    Producers = {1, 2}
    NoProducer = 0
    Contents = {"x", "y"}
    Requests <- MixedRequests
    InitialRoots <- MissingRoot
    PageEntries = 2
    MaxPathPages = 1
    RetryBatches = 2
    SeqModulus = 4
    MaxAttempts = 2
    MaxObjects = 20
    MaxOmissions = 0
    MaxCalls <- CallsUneven
    MaxFailures = 1
INVARIANTS TypeOK RootMatchesHistory RootValid
PROPERTIES ImplementsLog
CHECK_DEADLOCK FALSE
