SPECIFICATION StorageSpec
CONSTANTS
    None = None
    a = a
    b = b
    a1 = a1
    a2 = a2
    b1 = b1
    w1 = w1
    w2 = w2
    sweep = sweep
    Requests = {q1, q2, q3}
    Ops = {"upload", "delete", "copy", "move", "mirror", "migrate", "retire", "edit", "switch"}
    Paths = {p, q}
    Home = p
    Old = old
    Legacy = legacy
    Stable = stable
    Top = {t}
    Nested = {n}
    Scans = {c1, c2}
    Kinds = {"webdav", "s3", "r2"}
    MaxChanges = 1
    MayHide = TRUE
    s1 = s1
    s2 = s2
    o1 = o1
    Tracks = {s1, s2}
    Match <- MCMatch
    Upstream <- MCUpstream
    MaxRuns = 2
    MaxUpsets = 1
    x = x
    y = y
    z = z
    x1 = x1
    x2 = x2
    y1 = y1
    z1 = z1
    f1 = f1
    f2 = f2
    f3 = f3
    Works = {x, y, z}
    Pressings = {x1, x2, y1, z1}
    Admins = {m1, m2}
    Chores = {"merge", "retire", "dedupe"}
    MaxPlays = 1
    Songs <- MCSongs
    Instances <- MCInstances
    SongOf <- MCInstancesOf
    Size <- MCInstancesSize
    Budget = 2
    MaxFile = 3
    Writers <- MCWriters
    Sweepers <- MCSweep
    Faults = {"throw", "refuse", "keep", "die"}
    MaxFaults = 2
SYMMETRY MCSymmetry
CONSTRAINT Corner
INVARIANTS
    TypesOK
    CopiesAddUp
PROPERTIES
    FilesKeepTheirSongs
    ClonesAreTrue
    ScansTellTheTruth
CHECK_DEADLOCK FALSE
