SPECIFICATION Spec
CONSTANTS
    Tunnels = {t1, t2}
    Flows = {f1}
    NoTunnel = NoTunnel
    PoolSize = 1
    PoolMax = 2
    MaxFlows = 1
    MaxStale = 1
    Usize = 8
PROPERTY DrainSparesOpenFlows
CHECK_DEADLOCK FALSE
