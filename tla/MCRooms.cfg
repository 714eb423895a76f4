\* Membership: two rooms at once, one of which may be removed and created again
\* as another object; two sessions from two addresses that admit one each; an
\* ordinary user and guests; as few member ids as suffice. No bans, no moderators.
SPECIFICATION Spec
CONSTANTS
    Client = {c1, c2}
    Ip = {home, away}
    NoIp = NoIp
    MaxConnectionsFromIp = 1
    MaxClientsFromIp = 1
    rOld = rOld
    rNew = rNew
    rOther = rOther
    Room = {rOld, rNew, rOther}
    main = main
    other = other
    Name = {main, other}
    RoomName <- MCRoomName
    ann = ann
    Nick = {ann}
    NoNick = NoNick
    Uid = {0, 3}
    Login <- MCLogin
    NoOwner = NoOwner
    NoInfo = NoInfo
    IdWidth = 3
    BanLimit <- Closed
    ModerLimit <- Closed
SYMMETRY Symmetry
INVARIANTS
    TypeOK
    OrphansShown
    MembershipExact
    NamesUnique
PROPERTIES
    PlacesKept
