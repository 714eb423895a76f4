\* Two rooms, three signals of which two shut down, a crash or disk failure. No
\* symmetry: it is not sound for liveness.
SPECIFICATION FairSpec
CONSTANTS
    Name = {r1, r2}
    Uid <- OneUid
    Unowned = 99
    Nameless = Nameless
    NoMessage = NoMessage
    Signal = {USR1, TERM, INT}
    USR1 = USR1
    None = None
    MaxHistory = 2
    MaxMessage = 2
    MaxChange = 3
    MaxSignal = 3
    MaxCrash = 1
\* The bounds end the behaviours.
CHECK_DEADLOCK FALSE
INVARIANTS
    TypeOK
    RestartKeepsRooms
    IdsFresh
PROPERTIES
    ShutdownEnds
