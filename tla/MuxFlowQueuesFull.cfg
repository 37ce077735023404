SPECIFICATION Spec
CONSTANTS
    Window = 2
    MaxFrame = 2
    QueueCap = 1
    UpBytes = 2
    DownBytes = 2
PROPERTY QueuesHaveRoom
CHECK_DEADLOCK FALSE
