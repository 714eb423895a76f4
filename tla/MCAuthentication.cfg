\* Two sessions, two accounts, either driver; Redis and the database come and
\* go. No symmetry: it is not sound for liveness.
SPECIFICATION FairSpecOfDriver
CONSTANTS
    Client = {c1, c2}
    Ip = {home}
    NoIp = NoIp
    User = {3, 4}
    UsePg = TRUE
    GateTries = 1
    GateTimeout = 300
    NoToken = NoToken
    NoRequest = NoRequest
    Absent = Absent
    Untold = Untold
INVARIANTS
    TypeOK
    ToldExact
PROPERTIES
    RefusedUnchanged
    Answered
