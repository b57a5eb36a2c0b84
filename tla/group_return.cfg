SPECIFICATION Spec
CONSTANTS
    MemberIds = {1, 2}
    Protocols = {"range", "sticky"}
    Offers <- OneOffer
    Timeouts <- Even
    Values = {x}
    NoValue = NoValue
    Clients = {c1, c2}
    Slots = {1, 2, 3}
    Operations <- AllOperations
    MaxMembers = 2
    MaxTries = 1
    MaxCalls = 3
    MaxFailures = 1
    Horizon = 1
    MaxClock = 6
INVARIANTS SlotUnique
PROPERTIES RequestsReturn
CHECK_DEADLOCK FALSE
