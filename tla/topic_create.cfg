SPECIFICATION Spec
CONSTANTS
    B1 = B1
    B2 = B2
    B3 = B3
    Brokers = {B1, B2, B3}
    Configured <- ConfiguredThree
    Partitions = {0, 2}
    MaxCalls = 1
    MaxFailures = 1
INVARIANTS AppendsInRange CreatorsConverge
PROPERTIES CountFixed
CHECK_DEADLOCK FALSE
