\* Two clients. Commands: each is a guest, an administrator or one of two users;
\* a room they meet in and one more; commands name the guests or one user. Lines
\* of up to six bytes, texts of up to five, nicks of up to three letters. The
\* program's own flood limits. Requests: two rooms and a name that is refused, four
\* requests in all: a room is made, another peer joins it, and it is removed.
SPECIFICATION SpecOfParts
CONSTANTS
    Client = {c1, c2}
    Room = {r1, r2}
    Uid = {0, 1, 3, 4}
    NoRoom = NoRoom
    Meeting = {r1}
    Target = {0, 3}
    MaxText = 5
    MaxNick = 3
    MaxUint = 100
    MaxLine = 6
    FloodWindow = 1
    FloodLimit = 3
    AskUid = {u1, u2}
    AskRoom = {r1, r2}
    BadName = BadName
    Guest = Guest
    NoId = NoId
    MaxAsk = 4
SYMMETRY Symmetry
\* The bound on the requests ends the behaviours.
CHECK_DEADLOCK FALSE
INVARIANTS
    TypesOK
    ReportsExact
    TextClean
    ArgumentsExact
    FloodBounded
    AnswersMatch
    FieldsVouched
PROPERTIES
    AuthorityHeld
    AnswersTrue
