\* A crash while rooms.dat is written.
SPECIFICATION Spec
CONSTANTS
    Name = {r1}
    Uid <- OneUid
    Unowned = 99
    Nameless = Nameless
    NoMessage = NoMessage
    Signal = {USR1, TERM, INT}
    USR1 = USR1
    None = None
    MaxHistory = 1
    MaxMessage = 2
    MaxChange = 2
    MaxSignal = 3
    MaxCrash = 1
\* The bounds end the behaviours.
CHECK_DEADLOCK FALSE
INVARIANTS
    LoadedMeansLoaded
