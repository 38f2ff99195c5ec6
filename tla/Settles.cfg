SPECIFICATION SettlesSpec
CONSTANTS
    None = None
    Schedules = {hourly, cleared}
    Default = hourly
    Cleared = cleared
    Handlers = {h1, h2}
    Faults = {"put", "d1", "secret"}
    MaxFaults = 1
    SameBuild = FALSE
    MaxDeploys = 1
    MaxSets = 1
    p1 = p1
    k1 = k1
    Prefetches = {p1}
    Images = {i1}
    Keys = {k1}
    KeyOf <- MCKeyOf
    StepsOf <- MCStepsOf
    Limits = {2}
    MaxEntries = 1
    MaxAsks = 1
    Here = here
    Peer = peer
    StarSongs = {k1}
    Lists = {l1}
    Configured <- MCConfigured
    MaxChanges = 1
    a = a
    b = b
    a1 = a1
    b1 = b1
    Songs <- MCSongs
    Instances <- MCInstances
    SongOf <- MCSongOf
    Size <- MCSize
    Budget = 2
    MaxFile = 3
    Writers = {w1}
    Sweepers = {sweep}
    Mishaps = {"throw", "refuse", "keep", "die"}
    Sockets = {s1, s2, s3}
    Handouts = {}
    Ceilings = {1}
    MaxStarts = 2
    MaxUpsets = 2
CONSTRAINT Corner
PROPERTIES
    EveryRequestSettles
    PeersAgree
    CopiesSettle
    ComesBack
CHECK_DEADLOCK FALSE
