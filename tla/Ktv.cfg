SPECIFICATION KtvSpec
CONSTANTS
    Host = Host
    None = None
    g1 = g1
    g2 = g2
    Guests <- MCPair
    PerPerson = 2
    Capacity = 3
    MaxPeople = 3
    MaxSeq = 4
    MaxRooms = 2
    MaxGen = 1
    MaxFlight = 2
    MaxToggles = 2
    Rooms <- MCPair
    Codes = {x, y}
    Attempts = 2
    MaxOver = 1
    MaxHandlers = 2
CONSTRAINT Corner
SYMMETRY MCSymmetry
INVARIANTS
    TypesOK
    StageIsFair
    AnnouncedLeadsHome
PROPERTIES
    RequestsAreKept
CHECK_DEADLOCK FALSE
