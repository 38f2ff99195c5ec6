SPECIFICATION RecordsSpec
CONSTANTS
    m = m
    n = n
    new = new
    once = once
    days = days
    more = more
    win = win
    perm = perm
    h1 = h1
    h2 = h2
    None = None
    Codes = {once, days, more, win, perm}
    Users = {m, n, new}
    Members = {m, n}
    Handlers = {h1, h2}
    Untils = {1}
    Revokable = {once}
    MaxTime = 2
    MaxDeaths = 1
    Kind <- MCKind
    Span <- MCSpan
    MaxUses <- MCMaxUses
    Schedules = {hourly, often, cleared}
    Default = hourly
    Cleared = cleared
    Calls = {"get", "put", "read", "d1", "secret"}
    MaxFaults = 2
    SameBuild = TRUE
    MaxDeploys = 2
    MaxSets = 2
    First = First
    Updates = {o1, o2}
    Releases = {1, 2}
    MaxUploads = 2
    Kinds = {"direct", "queued"}
    Storages = {TRUE, FALSE}
    Requests = {r1, r2}
    MaxEdits = 1
    MaxTries = 2
SYMMETRY MCSymmetry
CONSTRAINT Corner
INVARIANTS
    TypesOK
    RecordsAgree
    UpdatesKeepOrder
    TagsOfBytes
    CoverFollows
PROPERTIES
    ActivationsAreEarned
    RestoresTheChoice
    NewerStays
CHECK_DEADLOCK FALSE
