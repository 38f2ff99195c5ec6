SPECIFICATION Spec
CONSTANTS
    None = None
    s1 = s1
    s2 = s2
    o1 = o1
    Songs = {s1, s2}
    Match <- MCMatch
    Upstream <- MCUpstream
    MaxRuns = 1
    MaxFaults = 0
INVARIANTS
    ClonedAudioIsRegistered
CHECK_DEADLOCK FALSE
