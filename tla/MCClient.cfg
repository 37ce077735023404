SPECIFICATION PackSpec
CONSTANTS
    Senders = {s1, s2, s3}
    Pinger = ping
    Decrypter = recv
    Nobody = nobody
    MaxFrames = 4
    WireCap = 2
INVARIANTS
    NothingTooOld
    ClientSound
    TargetsSound
PROPERTIES
    ImplementsOrderedLink
    DecryptProceeds
    DeadPathsLeft
    ExitsReconnect
    TargetsReleased
CHECK_DEADLOCK FALSE
