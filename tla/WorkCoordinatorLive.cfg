SPECIFICATION LiveSpec
CONSTANTS
    t1 = t1
    t2 = t2
    u1 = u1
    b1 = b1
    c1 = c1
    c2 = c2
    h1 = h1
    h2 = h2
    None = None
    Rank <- MCRank
    RequiredOf <- MCNoCaps
    TypeOf <- MCMetadata
    Users <- MCUsers
    UserOf <- MCSameUser
    Tasks <- MCOneTask
    Tabs <- MCOneTab
    Configs <- MCConfigsTwo
    FirstConfig <- MCBudgetTwo
    Conns <- MCOneConn
    TabOf <- MCReconnect
    Handlers <- MCHandlers
    MaxAttempts = 2
    MaxHandoffs = 2
    MaxChanges = 1
    Fragile <- MCOneConn
    Deletable <- MCNobody
ACTION_CONSTRAINT Gently
PROPERTY
    EveryRowIsHandedOut
    SlotsComeBack
CHECK_DEADLOCK FALSE
