SPECIFICATION Spec
CONSTANTS
    None = None
    t1 = t1
    t2 = t2
    t3 = t3
    u1 = u1
    u2 = u2
    alarm = alarm
    cron = cron
    Users <- MCUsers
    Tasks <- MCTasks
    Kind <- MCKind
    Upserted <- MCUpserted
    Sweepers <- MCSweepers
    MaxAttempts = 2
    Ttl = 1
    MaxNow = 3
    MaxClaims = 3
CONSTRAINT Small
SYMMETRY MCSymmetry
INVARIANTS
    TypeOK
    ResultFromLastClaim
    OneHolder
    FailsOnlyWhenSpent
PROPERTIES
    SweepSparesLive
    ResultsAreFinal
    KeepsThePromise
CHECK_DEADLOCK FALSE
