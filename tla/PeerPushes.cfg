SPECIFICATION LiveSpec
CONSTANTS
    None = None
    Here = here
    Peer = peer
    Songs = {k1}
    Lists = {}
    Configured <- MCConfigured
    MaxChanges = 1
    MaxFaults = 0
PROPERTIES
    PushesEnd
CHECK_DEADLOCK FALSE
