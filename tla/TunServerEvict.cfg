SPECIFICATION Spec
CONSTANTS
    Ips = {i1, i2}
    Clients = {alice, bob}
    Reconnecting = {alice, bob}
    Sessions = 2
    None = None
PROPERTY NewSenderSurvives
CHECK_DEADLOCK FALSE
