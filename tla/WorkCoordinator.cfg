SPECIFICATION Spec
CONSTANTS
    t1 = t1
    t2 = t2
    u1 = u1
    b1 = b1
    c1 = c1
    c2 = c2
    h1 = h1
    h2 = h2
    None = None
    Rank <- MCRank
    RequiredOf <- MCNoCaps
    TypeOf <- MCMetadata
    Users <- MCUsers
    UserOf <- MCSameUser
    Tasks <- MCTwoTasks
    Tabs <- MCOneTab
    Configs <- MCConfigs
    FirstConfig <- MCBudgetOne
    Conns <- MCTwoConns
    TabOf <- MCReconnect
    Handlers <- MCHandlers
    MaxAttempts = 2
    MaxHandoffs = 2
    MaxChanges = 1
    Fragile <- MCTwoConns
    Deletable <- MCUsers
CONSTRAINT Corner
SYMMETRY MCSymmetry
INVARIANTS
    TypeOK
    AlarmArmed
PROPERTY
    KeepsWhatItRuns
CHECK_DEADLOCK FALSE
