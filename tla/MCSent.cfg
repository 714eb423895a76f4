\* Three sessions and one room. It remembers two messages of four, beside two
\* private ones; it draws five ids for members with two nicks and two looks.
SPECIFICATION SpecOfParts
CONSTANTS
    Client = {c1, c2, c3}
    MaxHistory = 2
    MaxMessage = 4
    MaxPrivate = 2
    Nick = {n1, n2}
    Look = {gray, red}
    NoNick = NoNick
    NoMember = NoMember
    MaxId = 5
SYMMETRY Symmetry
INVARIANTS
    TypesOK
    HistoryExact
    HistoryDelivered
    PrivateConfined
    RosterExact
