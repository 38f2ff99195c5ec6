SPECIFICATION Spec
CONSTANTS
    None = None
    m = m
    n = n
    once = once
    Codes = {once}
    Users = {m, n}
    Members = {m, n}
    Handlers = {h1, h2}
    Untils = {}
    Revokable = {}
    MaxTime = 0
    MaxDeaths = 0
    Kind <- MCKind
    Span <- MCSpan
    MaxUses <- MCMaxUses
INVARIANTS
    RacedOutIsRefused
