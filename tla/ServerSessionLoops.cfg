SPECIFICATION Spec
CONSTANTS
    Loops = {1, 2}
    MaxConns = 1
    MaxPackets = 1
    MaxCalls = 3
    Ips = {1}
    PendingCap = 1
    ChanCap = 1
    MaxAttempts = 1
INVARIANT OneReconnectLoop
CHECK_DEADLOCK FALSE
