\* Is a failure of the database told to the peer? (Postgres)
SPECIFICATION Spec
CONSTANTS
    Client = {c1}
    Ip = {home}
    NoIp = NoIp
    User = {3, 4}
    UsePg = TRUE
    GateTries = 1
    GateTimeout = 300
    NoToken = NoToken
    NoRequest = NoRequest
    Absent = Absent
    Untold = Untold
INVARIANTS
    DatabaseErrorTold
