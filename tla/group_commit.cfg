SPECIFICATION Spec
CONSTANTS
    MemberIds = {1, 2}
    Protocols = {"range", "sticky"}
    Offers <- EitherOffer
    Timeouts <- Short
    Values = {x}
    NoValue = NoValue
    Clients = {c1, c2}
    Slots = {1, 2, 3}
    Operations <- Committing
    MaxMembers = 2
    MaxTries = 2
    MaxCalls = 6
    MaxFailures = 1
    Horizon = 1
    MaxClock = 1
VIEW WithoutHistory
SYMMETRY ClientSymmetry
INVARIANTS CommonProtocol
PROPERTIES OffsetsFenced
CHECK_DEADLOCK FALSE
