------------------------------- MODULE Rooms -------------------------------
(***************************************************************************)
(* Rooms, their members and the sessions that take part in them:           *)
(* src/rooms.hpp and src/rooms.cpp, the room side of src/client.cpp, the   *)
(* packets of src/packets.cpp that change it (join, leave, create_room,    *)
(* remove_room, status, auth) and the chat commands of src/commands        *)
(* (nick, kick, ban*, unban*, addmoder, delmoder).                         *)
(*                                                                         *)
(* The connection layer is its promise, Sessions.tla, which Server.tla     *)
(* implements: a step of a session is conjoined with what the hooks of     *)
(* Client (onDisconnect, onRevive, onRemove) do to the rooms in the same   *)
(* callback.  A handler that only answers with an error changes nothing    *)
(* here and is no action.                                                  *)
(*                                                                         *)
(* A Room stands for a Room object with the name it was created with; the  *)
(* object may be used again once the room is removed.                      *)
(***************************************************************************)
EXTENDS Integers, FiniteSets

CONSTANTS Client, Ip, NoIp, MaxConnectionsFromIp, MaxClientsFromIp,
          Room,          \* Room objects
          Name,          \* names of rooms
          RoomName,      \* the name of each Room object
          Nick, NoNick,  \* nicks, and the empty string
          Uid,           \* accounts; 0 is a guest, 1 and 2 are administrators
          Login,         \* per account, the login the database has for it
          NoOwner,       \* ownerId before setOwner
          NoInfo,        \* an absent key of membersInfo
          IdWidth,       \* member ids are unsigned: 0..(IdWidth - 1)
          BanLimit,      \* 100 in the commands bannick, banuid and banip
          ModerLimit     \* 10 in the command addmoder

Guest == 0

ASSUME RoomsAssumption ==
    /\ IsFiniteSet(Client)
    /\ RoomName \in [Room -> Name]
    /\ Uid \subseteq Nat
    /\ Guest \in Uid
    /\ NoNick \notin Nick
    /\ NoInfo \notin Nick \cup {NoNick}
    /\ NoOwner \notin Uid
    /\ Login \in [Uid -> Nick \cup {NoNick}]
    /\ Login[Guest] = NoNick
    /\ IdWidth \in Nat
    /\ IdWidth > Cardinality(Client)
    /\ BanLimit \in Int
    /\ ModerLimit \in Int

VARIABLES state, from,  \* the sessions, as in Sessions
          uid,     \* Client::uid
          joined,  \* Client::rooms
          rooms,   \* Server::rooms
          room     \* the fields of each Room object

vars == <<state, from, uid, joined, rooms, room>>
sessionVars == <<state, from>>

Session == INSTANCE Sessions

Status == {"online", "away", "orphan"}

Member ==
    [client : Client, id : 0..(IdWidth - 1), nick : Nick \cup {NoNick}, status : Status]

RoomType ==
    [owner : Uid \cup {NoOwner},
     moderators : SUBSET Uid,
     bannedNicks : SUBSET Nick,
     bannedUids : SUBSET Uid,
     bannedIps : SUBSET Ip,
     nextMemberId : 0..(IdWidth - 1),
     membersInfo : [Uid -> Nick \cup {NoNick, NoInfo}],
     members : SUBSET Member]

(* The constructor of Room. *)
NewRoom ==
    [owner |-> NoOwner, moderators |-> {},
     bannedNicks |-> {}, bannedUids |-> {}, bannedIps |-> {},
     nextMemberId |-> 0,
     membersInfo |-> [u \in Uid |-> NoInfo],
     members |-> {}]

TypeOK ==
    /\ Session!SessionsTypeOK
    /\ uid \in [Client -> Uid]
    /\ joined \in [Client -> SUBSET Room]
    /\ rooms \in SUBSET Room
    /\ room \in [Room -> RoomType]

(* No state file: the server starts with no room. *)
Init ==
    /\ Session!Init
    /\ uid = [c \in Client |-> Guest]
    /\ joined = [c \in Client |-> {}]
    /\ rooms = {}
    /\ room = [r \in Room |-> NewRoom]

-----------------------------------------------------------------------------
(* Lookups and rights.                                                     *)

MembersOf(r, c) == {m \in room[r].members : m.client = c}
FindMemberByClient(r, c) == CHOOSE m \in room[r].members : m.client = c
NickTaken(r, n) == n # NoNick /\ \E m \in room[r].members : m.nick = n

IsAdmin(c) == uid[c] \in {1, 2}
IsOwner(r, c) == IsAdmin(c) \/ (uid[c] # Guest /\ uid[c] = room[r].owner)
IsModer(r, c) == IsOwner(r, c) \/ (uid[c] # Guest /\ uid[c] \in room[r].moderators)

IsBanned(r, c) == from[c] \in room[r].bannedIps \/ uid[c] \in room[r].bannedUids

(* Mutant of NextMemberId: the counter does not wrap. *)
NextMemberIdUnwrapped(r) == room[r].nextMemberId + 1

(* genNextMemberId: the next id, in the order of an unsigned counter, that *)
(* is neither zero nor in use.                                             *)
NextMemberId(r) ==
    LET After(d) == (room[r].nextMemberId + d) % IdWidth
        Free(d) == After(d) # 0 /\ \A m \in room[r].members : m.id # After(d)
        steps == CHOOSE d \in 1..IdWidth : Free(d) /\ \A e \in 1..(d - 1) : ~Free(e)
    IN  After(steps)

(* getRoomByName of Server and of Client finds a room. *)
Named(R, name) == \E q \in R : RoomName[q] = name

(* A client with a live session that is in room r: who may send a command. *)
Speaks(c, r) == state[c] = "live" /\ r \in joined[c]

-----------------------------------------------------------------------------
(* What a room becomes.                                                    *)

(* Room::removeMember: a user's nick is remembered for the next join. *)
RemoveMember(r, c) ==
    LET m == FindMemberByClient(r, c) IN
    [room[r] EXCEPT
        !.membersInfo = IF uid[c] = Guest THEN @ ELSE [@ EXCEPT ![uid[c]] = m.nick],
        !.members = @ \ {m}]

(* Member::setNick: a banned nick is refused to all but moderators. *)
SetNick(r, m, n) ==
    IF ~IsModer(r, m.client) /\ n \in room[r].bannedNicks THEN m ELSE [m EXCEPT !.nick = n]

(* Member::setStatus of the member that c is. *)
SetStatus(r, c, status) ==
    LET m == FindMemberByClient(r, c) IN
    [room[r] EXCEPT !.members = (@ \ {m}) \cup {[m EXCEPT !.status = status]}]

(* Client::onRemove: the client leaves all of its rooms. *)
OnRemove(c) ==
    /\ room' = [r \in Room |-> IF r \in joined[c] THEN RemoveMember(r, c) ELSE room[r]]
    /\ joined' = [joined EXCEPT ![c] = {}]
    /\ uid' = [uid EXCEPT ![c] = Guest]

(* Mutants of OnDisconnect: the rooms are not told, the client leaves them. *)
OnDisconnectUntold(c) == UNCHANGED <<uid, joined, room>>

OnDisconnectLeaves(c) == OnRemove(c)

(* Client::onDisconnect. *)
OnDisconnect(c) ==
    /\ room' = [r \in Room |-> IF r \in joined[c] THEN SetStatus(r, c, "orphan") ELSE room[r]]
    /\ UNCHANGED <<uid, joined>>

(* Mutant of KickMembers: Client::onKick is forgotten. *)
KickMembersUntold(r, R, K) ==
    /\ room' = [room EXCEPT ![r] = [R EXCEPT !.members = @ \ K]]
    /\ UNCHANGED joined

(* Room::kickMember, which does not remember the nick, of every member in  *)
(* K, a set with at most one member; R is the room as the command has left *)
(* it so far.                                                              *)
KickMembers(r, R, K) ==
    /\ room' = [room EXCEPT ![r] = [R EXCEPT !.members = @ \ K]]
    /\ joined' = [d \in Client |->
                     IF \E m \in K : m.client = d THEN joined[d] \ {r} ELSE joined[d]]

-----------------------------------------------------------------------------
(* Sessions: on_open, on_close, on_error, the periodic job, resumption.    *)

Connect(c, ip) ==
    /\ Session!Admit(c, ip)
    /\ UNCHANGED <<uid, joined, rooms, room>>

(* on_open removes the oldest orphan o of the address first. *)
ConnectEvicting(c, o, ip) ==
    /\ Session!AdmitEvicting(c, o, ip)
    /\ OnRemove(o)
    /\ UNCHANGED rooms

Disconnect(c) ==
    /\ Session!Disconnect(c)
    /\ OnDisconnect(c)
    /\ UNCHANGED rooms

Remove(c) ==
    /\ Session!End(c)
    /\ OnRemove(c)
    /\ UNCHANGED rooms

(* ClientsManager::reviveClient: onRemove of the current client, then      *)
(* onRevive of the target, which puts it online in all of its rooms.       *)
Revive(cur, tgt) ==
    LET Left(r) == IF r \in joined[cur] THEN RemoveMember(r, cur) ELSE room[r]
        m(r) == FindMemberByClient(r, tgt)
        Online(r) == [Left(r) EXCEPT
                         !.members = (@ \ {m(r)}) \cup {[m(r) EXCEPT !.status = "online"]}]
    IN  /\ Session!Resume(cur, tgt)
        /\ room' = [r \in Room |-> IF r \in joined[tgt] THEN Online(r) ELSE Left(r)]
        /\ joined' = [joined EXCEPT ![cur] = {}]
        /\ uid' = [uid EXCEPT ![cur] = Guest]
        /\ UNCHANGED rooms

(* PacketAuth that succeeds: the client becomes user u, wherever it is. *)
Auth(c, u) ==
    /\ state[c] = "live"
    /\ u # Guest
    /\ uid' = [uid EXCEPT ![c] = u]
    /\ UNCHANGED <<sessionVars, joined, rooms, room>>

-----------------------------------------------------------------------------
(* Joining and leaving.                                                    *)

CanAskToJoin(c, r) ==
    /\ state[c] = "live"
    /\ r \in rooms
    /\ ~Named(joined[c], RoomName[r])

(* PacketJoin of a banned client: the member id is drawn all the same. *)
JoinRefused(c, r) ==
    /\ CanAskToJoin(c, r)
    /\ ~IsModer(r, c)
    /\ IsBanned(r, c)
    /\ room' = [room EXCEPT ![r].nextMemberId = NextMemberId(r)]
    /\ UNCHANGED <<sessionVars, uid, joined, rooms>>

(* Room::getStoredMemberInfo. *)
GetStoredMemberInfo(r, c) ==
    IF uid[c] = Guest THEN NoInfo ELSE room[r].membersInfo[uid[c]]

(* The nick of auto_login: the one remembered for the user, else the login *)
(* of the account; none when it is banned for this client or taken.        *)
RememberedNick(r, c) ==
    IF GetStoredMemberInfo(r, c) # NoInfo THEN GetStoredMemberInfo(r, c) ELSE Login[uid[c]]

(* Mutant of AutoNick: the remembered nick is not looked up again. *)
AutoNickUnchecked(r, c) ==
    LET n == RememberedNick(r, c) IN
    IF ~IsModer(r, c) /\ n \in room[r].bannedNicks THEN NoNick ELSE n

AutoNick(r, c) ==
    LET n == RememberedNick(r, c) IN
    IF (~IsModer(r, c) /\ n \in room[r].bannedNicks) \/ NickTaken(r, n)
    THEN NoNick ELSE n

(* Room::addMember and Client::joinRoom: the member as it enters. *)
NewMember(r, c) ==
    [client |-> c, id |-> NextMemberId(r), nick |-> NoNick, status |-> "online"]

Join(c, r, autoLogin) ==
    /\ CanAskToJoin(c, r)
    /\ IsModer(r, c) \/ ~IsBanned(r, c)
    /\ LET m == NewMember(r, c)
           entered == IF autoLogin THEN SetNick(r, m, AutoNick(r, c)) ELSE m
       IN  room' = [room EXCEPT ![r].nextMemberId = m.id, ![r].members = @ \cup {entered}]
    /\ joined' = [joined EXCEPT ![c] = @ \cup {r}]
    /\ UNCHANGED <<sessionVars, uid, rooms>>

(* PacketLeave. *)
Leave(c, r) ==
    /\ Speaks(c, r)
    /\ room' = [room EXCEPT ![r] = RemoveMember(r, c)]
    /\ joined' = [joined EXCEPT ![c] = @ \ {r}]
    /\ UNCHANGED <<sessionVars, uid, rooms>>

(* Mutant of CreateRoom: the name is not looked up. *)
CreateRoomUnchecked(c, r) ==
    /\ state[c] = "live"
    /\ uid[c] # Guest
    /\ r \notin rooms
    /\ rooms' = rooms \cup {r}
    /\ room' = [room EXCEPT ![r] = [NewRoom EXCEPT !.owner = uid[c]]]
    /\ UNCHANGED <<sessionVars, uid, joined>>

(* PacketCreateRoom with the name of r. *)
CreateRoom(c, r) ==
    /\ state[c] = "live"
    /\ uid[c] # Guest
    /\ r \notin rooms
    /\ ~Named(rooms, RoomName[r])
    /\ rooms' = rooms \cup {r}
    /\ room' = [room EXCEPT ![r] = [NewRoom EXCEPT !.owner = uid[c]]]
    /\ UNCHANGED <<sessionVars, uid, joined>>

(* Room::onDestroy: the members leave a room that is gone. *)
OnDestroy(r) ==
    joined' = [d \in Client |->
                  IF MembersOf(r, d) # {} THEN joined[d] \ {r} ELSE joined[d]]

(* PacketRemoveRoom, by any user who owns the room, in it or not. *)
RemoveRoom(c, r) ==
    /\ state[c] = "live"
    /\ r \in rooms
    /\ uid[c] # Guest
    /\ IsOwner(r, c)
    /\ rooms' = rooms \ {r}
    /\ OnDestroy(r)
    /\ room' = [room EXCEPT ![r] = NewRoom]
    /\ UNCHANGED <<sessionVars, uid>>

-----------------------------------------------------------------------------
(* Inside a room.                                                          *)

(* /nick n. A nick of another member, or one's own again, is "taken". The  *)
(* empty nick takes the member off the list.                               *)
ChangeNick(c, r, n) ==
    LET m == FindMemberByClient(r, c) IN
    /\ Speaks(c, r)
    /\ ~NickTaken(r, n)
    /\ room' = [room EXCEPT ![r].members = (@ \ {m}) \cup {SetNick(r, m, n)}]
    /\ UNCHANGED <<sessionVars, uid, joined, rooms>>

(* PacketStatus away or back, in every room where the client has a nick. *)
ChangeStatus(c, status) ==
    /\ state[c] = "live"
    /\ status \in {"away", "online"}
    /\ room' = [r \in Room |->
                   IF r \in joined[c] /\ FindMemberByClient(r, c).nick # NoNick
                   THEN SetStatus(r, c, status) ELSE room[r]]
    /\ UNCHANGED <<sessionVars, uid, joined, rooms>>

(* /kick n: anyone with that nick, the owner and oneself included. *)
Kick(c, r, n) ==
    /\ Speaks(c, r)
    /\ IsModer(r, c)
    /\ NickTaken(r, n)
    /\ KickMembers(r, room[r], {m \in room[r].members : m.nick = n})
    /\ UNCHANGED <<sessionVars, uid, rooms>>

MayBan(c, r, list) ==
    /\ Speaks(c, r)
    /\ IsModer(r, c)
    /\ IsAdmin(c) \/ Cardinality(list) <= BanLimit

(* Mutant of BanNick: the holder stays. *)
BanNickKeepsHolder(c, r, n) ==
    /\ MayBan(c, r, room[r].bannedNicks)
    /\ n \notin room[r].bannedNicks
    /\ room' = [room EXCEPT ![r].bannedNicks = @ \cup {n}]
    /\ UNCHANGED <<sessionVars, uid, joined, rooms>>

(* /bannick n: a nick that was not banned yet is taken from its holder. *)
BanNick(c, r, n) ==
    /\ MayBan(c, r, room[r].bannedNicks)
    /\ n \notin room[r].bannedNicks
    /\ KickMembers(r, [room[r] EXCEPT !.bannedNicks = @ \cup {n}],
                   {m \in room[r].members : m.nick = n})
    /\ UNCHANGED <<sessionVars, uid, rooms>>

(* /banuid and /banip: nobody is kicked; 0 bans the guests. *)
BanUid(c, r, u) ==
    /\ MayBan(c, r, room[r].bannedUids)
    /\ room' = [room EXCEPT ![r].bannedUids = @ \cup {u}]
    /\ UNCHANGED <<sessionVars, uid, joined, rooms>>

BanIp(c, r, ip) ==
    /\ MayBan(c, r, room[r].bannedIps)
    /\ room' = [room EXCEPT ![r].bannedIps = @ \cup {ip}]
    /\ UNCHANGED <<sessionVars, uid, joined, rooms>>

UnbanNick(c, r, n) ==
    /\ Speaks(c, r)
    /\ IsModer(r, c)
    /\ room' = [room EXCEPT ![r].bannedNicks = @ \ {n}]
    /\ UNCHANGED <<sessionVars, uid, joined, rooms>>

UnbanUid(c, r, u) ==
    /\ Speaks(c, r)
    /\ IsModer(r, c)
    /\ room' = [room EXCEPT ![r].bannedUids = @ \ {u}]
    /\ UNCHANGED <<sessionVars, uid, joined, rooms>>

UnbanIp(c, r, ip) ==
    /\ Speaks(c, r)
    /\ IsModer(r, c)
    /\ room' = [room EXCEPT ![r].bannedIps = @ \ {ip}]
    /\ UNCHANGED <<sessionVars, uid, joined, rooms>>

AddModer(c, r, u) ==
    /\ Speaks(c, r)
    /\ IsOwner(r, c)
    /\ IsAdmin(c) \/ Cardinality(room[r].moderators) <= ModerLimit
    /\ u # Guest
    /\ room' = [room EXCEPT ![r].moderators = @ \cup {u}]
    /\ UNCHANGED <<sessionVars, uid, joined, rooms>>

DelModer(c, r, u) ==
    /\ Speaks(c, r)
    /\ IsOwner(r, c)
    /\ room' = [room EXCEPT ![r].moderators = @ \ {u}]
    /\ UNCHANGED <<sessionVars, uid, joined, rooms>>

-----------------------------------------------------------------------------

SessionStep ==
    \/ \E c \in Client, ip \in Ip :
         Connect(c, ip) \/ \E o \in Client : ConnectEvicting(c, o, ip)
    \/ \E c \in Client : Disconnect(c) \/ Remove(c)
    \/ \E cur, tgt \in Client : Revive(cur, tgt)

PacketStep ==
    \E c \in Client :
        \/ \E u \in Uid : Auth(c, u)
        \/ \E status \in Status : ChangeStatus(c, status)
        \/ \E r \in Room :
             \/ JoinRefused(c, r)
             \/ \E autoLogin \in BOOLEAN : Join(c, r, autoLogin)
             \/ Leave(c, r)
             \/ CreateRoom(c, r)
             \/ RemoveRoom(c, r)

CommandStep ==
    \E c \in Client, r \in Room :
        \/ \E n \in Nick \cup {NoNick} : ChangeNick(c, r, n)
        \/ \E n \in Nick : Kick(c, r, n) \/ BanNick(c, r, n) \/ UnbanNick(c, r, n)
        \/ \E u \in Uid : \/ BanUid(c, r, u) \/ UnbanUid(c, r, u)
                          \/ AddModer(c, r, u) \/ DelModer(c, r, u)
        \/ \E ip \in Ip : BanIp(c, r, ip) \/ UnbanIp(c, r, ip)

Next == SessionStep \/ PacketStep \/ CommandStep

Spec == Init /\ [][Next]_vars

-----------------------------------------------------------------------------
(* Safety.                                                                 *)

(* Client::rooms and Room::members are one relation kept in two places:    *)
(* every room of a client is a room of the server and has the client as a  *)
(* member exactly once, and every member is a client that exists and knows *)
(* of the room. onRevive, onDisconnect and removeMember dereference the    *)
(* result of findMemberByClient unchecked, and no kick, ban, eviction or   *)
(* removal of a room may leave a ghost behind.                             *)
MembershipExact ==
    /\ \A c \in Client : \A r \in joined[c] :
          r \in rooms /\ Cardinality(MembersOf(r, c)) = 1
    /\ \A r \in Room : \A m \in room[r].members :
          state[m.client] # "free" /\ r \in joined[m.client]

(* Two rooms never have the same name, so that a target names one room for *)
(* the server and for each client (getRoomByName searches both), also when *)
(* a room is created again while its former members are still connected.   *)
NamesUnique ==
    \A q, r \in rooms : RoomName[q] = RoomName[r] => q = r

(* No two members of a room can be taken for each other. Ids, which peers  *)
(* address each other by, are distinct and not zero (to_id = 0 is          *)
(* everyone), also after the counter has wrapped and while ids are drawn   *)
(* for joins that are refused; nicks are distinct, whether they came from  *)
(* /nick, from what the room remembers of a user or from the login of the  *)
(* account.                                                                *)
MembersDistinct ==
    \A r \in Room : \A m, n \in room[r].members :
        /\ m.id # 0
        /\ m.id = n.id => m = n
        /\ m.nick = n.nick /\ m.nick # NoNick => m = n

(* A member is shown as an orphan exactly while its session has no peer:   *)
(* a status that is set on join, on revival, by away and back and on       *)
(* disconnection never says otherwise.                                     *)
OrphansShown ==
    \A r \in Room : \A m \in room[r].members :
        m.status = "orphan" <=> state[m.client] = "orphan"

-----------------------------------------------------------------------------
(* What a step may never do.                                               *)

HoldsNick(r, c, n) == \E m \in room[r].members : m.client = c /\ m.nick = n

(* Bans hold for everyone but moderators of the room. Banning a nick       *)
(* leaves no holder of it; nobody comes by a banned nick afterwards, by    *)
(* /nick, by auto_login, or by leaving and returning; and nobody joins     *)
(* with a banned account or address. PacketJoin looks at these, a          *)
(* resumption and a change of account do not: who is inside stays inside.  *)
BansHold ==
    [][\A r \in rooms \cap rooms' :
          /\ \A n \in room'[r].bannedNicks \ room[r].bannedNicks :
                ~\E c \in Client : HoldsNick(r, c, n)'
          /\ \A c \in Client, n \in room'[r].bannedNicks :
                HoldsNick(r, c, n)' => HoldsNick(r, c, n) \/ IsModer(r, c)
          /\ \A c \in Client : r \in joined'[c] \ joined[c] =>
                IsModer(r, c) \/ ~IsBanned(r, c)]_vars

(* A session that is disconnected and resumed, by whatever peer, and with  *)
(* whatever happened to the resuming session in the same rooms, is still   *)
(* in its rooms, with the member id and the nick that the others know.     *)
PlacesKept ==
    [][state' # state =>
          \A c \in Client : state[c] # "free" /\ state'[c] # "free" =>
              /\ joined'[c] = joined[c]
              /\ uid'[c] = uid[c]
              /\ \A r \in joined[c] : \A m \in MembersOf(r, c) :
                    \E n \in MembersOf(r, c)' : n.id = m.id /\ n.nick = m.nick]_vars


=============================================================================
