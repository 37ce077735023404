SPECIFICATION FairSpec
CONSTANTS
    Ips = {i1}
    Clients = {alice, bob, carol}
    Reconnecting = {}
    Sessions = 1
    None = None
PROPERTY AllocateReturns
CHECK_DEADLOCK FALSE
