\* Rights and bans: one room; guests and two users, either of whom may own the
\* room or moderate it; lists that may be extended while they are empty.
SPECIFICATION Spec
CONSTANTS
    Client = {c1, c2}
    Ip = {home}
    NoIp = NoIp
    MaxConnectionsFromIp = 2
    MaxClientsFromIp = 2
    rOld = rOld
    rNew = rNew
    rOther = rOther
    Room = {rOld}
    main = main
    other = other
    Name = {main, other}
    RoomName <- MCRoomName
    ann = ann
    Nick = {ann}
    NoNick = NoNick
    Uid = {0, 3, 4}
    Login <- MCLogin
    NoOwner = NoOwner
    NoInfo = NoInfo
    IdWidth = 3
    BanLimit = 0
    ModerLimit = 0
SYMMETRY Symmetry
INVARIANTS
    MembersDistinct
PROPERTIES
    BansHold
