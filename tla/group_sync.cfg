SPECIFICATION Spec
CONSTANTS
    MemberIds = {1, 2}
    Protocols = {"range", "sticky"}
    Offers <- OneOffer
    Timeouts <- Even
    Values = {x, y}
    NoValue = NoValue
    Clients = {c1, c2}
    Slots = {1, 2, 3}
    Operations <- Rebalancing
    MaxMembers = 2
    MaxTries = 2
    MaxCalls = 5
    MaxFailures = 0
    Horizon = 1
    MaxClock = 2
VIEW WithoutBegan
SYMMETRY Symmetry
INVARIANTS TypeOK GenerationAgreed NoLostWakeup GenerationComplete
CHECK_DEADLOCK FALSE
