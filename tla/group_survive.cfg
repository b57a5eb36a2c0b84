SPECIFICATION Spec
CONSTANTS
    MemberIds = {1, 2}
    Protocols = {"range", "sticky"}
    Offers <- OneOffer
    Timeouts <- LongSession
    Values = {x}
    NoValue = NoValue
    Clients = {c1, c2}
    Slots = {1, 2, 3}
    Operations <- Joining
    MaxMembers = 2
    MaxTries = 2
    MaxCalls = 4
    MaxFailures = 0
    Horizon = 3
    MaxClock = 3
SYMMETRY ClientSymmetry
PROPERTIES SurvivorsMayRejoin
CHECK_DEADLOCK FALSE
