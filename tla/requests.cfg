SPECIFICATION Spec
CONSTANTS
    Topics = {"T", "U"}
    MaxTopicPartitions = 2
    MaxGroupOffsets = 2
    Missing = Missing
    DefaultPartitions = 1
    MaxPayload = 12
    BaseReserve = 2
    ItemReserve = 1
    NoProducer = NoProducer
    k1 = k1
    k2 = k2
    x1 = x1
    x2 = x2
    x3 = x3
    b1 = b1
    b2 = b2
    Conns = {x1, x2, x3}
    Brokers = {b1, b2}
    Clients = {k1, k2}
    BrokerOf <- OnBrokers
    Dials <- MayDial
    First <- Starts
    Workloads <- Worlds
    FetchMax = 8
    PartitionMax = 3
    MaxAttempts = 2
    MaxFailures = 1
    Nobody = Nobody
    Unread = Unread
INVARIANTS TypeOK IdsUnique NoLostCommit ManifestReadable CommitAnswersTrue FetchWithinBudget FetchServes CommittedWasDelivered
PROPERTIES ConsumersCatchUp
CHECK_DEADLOCK FALSE
