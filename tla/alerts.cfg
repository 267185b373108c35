SPECIFICATION MCSpec
CONSTANTS
    s1 = s1
    u1 = u1
    u2 = u2
    Users = {u1, u2}
    Servers = {s1}
    ListCap = 3
    MaxEvents = 4
    MaxOutages = 1
    MaxDrops = 1
    MaxMounts = 2
    MaxLoads = 2
INVARIANTS ViewComplete NoForeignEvents
PROPERTIES SocketComesBack
CHECK_DEADLOCK FALSE
