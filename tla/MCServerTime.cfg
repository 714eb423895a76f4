\* The job's timing and its progress: two clients, a period of two units, a
\* lag of one, and the timeouts as close to each other as the assumptions
\* admit. No symmetry: it is not sound for liveness.
SPECIFICATION FairSpec
CONSTANTS
    Client = {c1, c2}
    kAway = kAway
    home = home
    away = away
    Connection = {k1, kAway}
    Ip = {home, away}
    Token = {t1, t2}
    NoClient = NoClient
    NoConnection = NoConnection
    NoIp = NoIp
    NoToken = NoToken
    RealClientIp <- MCRealClientIp
    MaxConnectionsFromIp = 2
    MaxClientsFromIp = 2
    PingInterval = 2
    PingTimeout = 2
    ConnectTimeout = 5
    OrphanTimeout = 7
    TimerLag = 1
INVARIANTS
    BoundedRetention
PROPERTIES
    DroppedOnlyAfterPing
    SilentIsSettled
