SPECIFICATION PackSpec
CONSTANTS
    Window = 1
    MaxFrame = 2
    QueueCap = 1
    UpBytes = 3
    DownBytes = 3
INVARIANTS
    FlowConserved
    NoOrphanTasks
    CreditsSound
    SessionSound
    FrontSound
PROPERTIES
    FlowEnds
    WaitEnds
    NoHeadOfLineBlocking
    FrontAnswers
    ProxyTunnels
CHECK_DEADLOCK FALSE
