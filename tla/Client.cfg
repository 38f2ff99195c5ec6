SPECIFICATION ClientSpec
CONSTANTS
    None = None
    a = a
    b = b
    c = c
    Tracks = {a, b, c}
    Direct = {}
    Positions = {c}
    Queues <- MCQueues
    Ranges = 2
    MaxTasks = 2
    p1 = p1
    p2 = p2
    k1 = k1
    k2 = k2
    Prefetches = {p1, p2}
    Images = {i1}
    Keys = {k1, k2}
    KeyOf <- MCKeyOf
    StepsOf <- MCStepsOf
    Limits = {1, 2}
    MaxEntries = 1
    MaxAsks = 2
    t1 = t1
    t2 = t2
    Sockets = {s1, s2}
    Handouts = {1, 2, 3}
    Ceilings = {1, 3}
    MaxStarts = 2
    MaxUpsets = 1
CONSTRAINT Corner
INVARIANTS
    TypesOK
    RequestsHold
    ElementsFollowTheQueue
    RecoveryNeverHangs
    WorkGoesOn
PROPERTY
    NothingStartsUnshown
CHECK_DEADLOCK FALSE
