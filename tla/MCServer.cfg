\* Registry, counters and refinement: four connections from two addresses,
\* three clients, timeouts at the least values the assumptions admit.
SPECIFICATION Spec
CONSTANTS
    Client = {c1, c2, c3}
    kAway = kAway
    home = home
    away = away
    Connection = {k1, k2, k3, kAway}
    Ip = {home, away}
    Token = {t1, t2, t3}
    NoClient = NoClient
    NoConnection = NoConnection
    NoIp = NoIp
    NoToken = NoToken
    RealClientIp <- MCRealClientIp
    MaxConnectionsFromIp = 2
    MaxClientsFromIp = 2
    PingInterval = 1
    PingTimeout = 0
    ConnectTimeout = 1
    OrphanTimeout = 2
    TimerLag = 0
SYMMETRY Symmetry
INVARIANTS
    TypeOK
    RegistryExact
    WithinLimits
    EvictionFindsOrphan
    NoZombie
    JobExact
PROPERTIES
    LiveLeavesOnlyItself
    ImplementsSessions
