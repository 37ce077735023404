SPECIFICATION PackSpec
CONSTANTS
    Ips = {i1, i2}
    Clients = {alice, bob}
    Reconnecting = {alice}
    Sessions = 2
    None = None
INVARIANTS
    LeasesSound
    SessionsSound
    
    DnsSound
    ExitsSound
    MessagesSound
    IdentitySound
    KeysSound
    
    BurstBounded
    RoutingSound
    CodecsSound
PROPERTIES
    TeardownEvictsOnlyItself
    
    LifecycleSound
    CachesSound
CHECK_DEADLOCK FALSE
