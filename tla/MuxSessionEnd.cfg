SPECIFICATION Spec
CONSTANTS
    Flows = {1, 2}
    Talkers = {1}
    MaxFlows = 2
    MaxFlush = 1
    QueueCap = 1
    ControlCap = 1
    MaxData = 1
    MaxPackets = 1
    WireCap = 1
INVARIANT RelaysEndWithSession
CHECK_DEADLOCK FALSE
