\* Are attempts counted? Four are allowed, as in the code.
SPECIFICATION Spec
CONSTANTS
    Client = {c1}
    Ip = {home}
    NoIp = NoIp
    User = {3, 4}
    UsePg = TRUE
    GateTries = 4
    GateTimeout = 300
    NoToken = NoToken
    NoRequest = NoRequest
    Absent = Absent
    Untold = Untold
INVARIANTS
    AttemptsCounted
