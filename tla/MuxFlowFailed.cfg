SPECIFICATION FairSpec
CONSTANTS
    Window = 1
    MaxFrame = 1
    QueueCap = 1
    UpBytes = 1
    DownBytes = 1
PROPERTY ConnectFailureEndsFlow
CHECK_DEADLOCK FALSE
