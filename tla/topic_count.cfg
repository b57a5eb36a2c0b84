SPECIFICATION Spec
CONSTANTS
    B1 = B1
    B2 = B2
    B3 = B3
    Brokers = {B1, B2}
    Configured <- ConfiguredTwo
    Partitions = {0, 2}
    MaxCalls = 1
    MaxFailures = 0
INVARIANTS QueriesDurable
CHECK_DEADLOCK FALSE
