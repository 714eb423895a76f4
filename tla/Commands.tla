------------------------------ MODULE Commands ------------------------------
(***************************************************************************)
(* The chat commands: PacketMessage::processCommand of src/packets.cpp,    *)
(* the CommandProcessors it tries in order of the rights of the member,    *)
(* and the commands that report (help, userlist, moderlist, banlist,       *)
(* roomlist, ipcounter, myrooms). Of the commands that act it keeps what   *)
(* rights and reports depend on; Rooms.tla has the rest of them, and the   *)
(* limits of the lists. The three lists of bans are one here.              *)
(***************************************************************************)
EXTENDS Integers, FiniteSets

CONSTANTS Client, Room,
          Uid,       \* accounts; 0 is a guest, 1 and 2 are administrators
          NoRoom,    \* the owner of a room that does not exist
          Meeting,   \* bound of the model: the rooms that clients enter
          Target     \* bound of the model: the accounts that commands name

ASSUME CommandsAssumption ==
    Uid \subseteq Nat /\ 0 \in Uid /\ NoRoom \notin Uid /\ Meeting \subseteq Room /\ Target \subseteq Uid

VARIABLES uid,       \* Client::uid
          member,    \* per room: the clients in it
          named,     \* per room: those of them with a nick
          owner,     \* per room: Room::ownerId, or NoRoom
          moderators, banned,   \* per room: accounts
          did        \* the last step: who said a command where, whether one ran, what it reported

rights == <<uid, member, named, owner, moderators>>
vars == <<rights, banned, did>>

(* The names of the commands of each CommandProcessor. *)
CmdAll == {"help", "nick", "gender", "color"}
CmdUser == {"me", "n", "do", "msg", "umsg"}
CmdAuthUser == {"myrooms"}
CmdModer == {"moderlist", "banlist", "bannick", "banuid", "banip", "unbannick", "unbanuid",
             "unbanip", "kick", "userlist"}
CmdOwner == {"addmoder", "delmoder"}
CmdAdmin == {"roomlist", "ipcounter"}
Reporting == {"help", "userlist", "moderlist", "banlist", "roomlist", "ipcounter", "myrooms"}
Command == UNION {CmdAll, CmdUser, CmdAuthUser, CmdModer, CmdOwner, CmdAdmin}

Nothing == [by |-> "nobody", ran |-> FALSE]

TypeOK ==
    /\ uid \in [Client -> Uid] /\ owner \in [Room -> Uid \cup {NoRoom}]
    /\ member \in [Room -> SUBSET Client] /\ \A r \in Room : named[r] \subseteq member[r]
    /\ moderators \in [Room -> SUBSET (Uid \ {0})] /\ banned \in [Room -> SUBSET Uid]
    /\ \A r \in Room : owner[r] = NoRoom => member[r] = {} /\ moderators[r] = {} /\ banned[r] = {}

Init ==
    /\ uid = [c \in Client |-> 0]
    /\ member = [r \in Room |-> {}] /\ named = [r \in Room |-> {}]
    /\ owner = [r \in Room |-> NoRoom]
    /\ moderators = [r \in Room |-> {}] /\ banned = [r \in Room |-> {}]
    /\ did = Nothing

-----------------------------------------------------------------------------
(* Rights and dispatch.                                                    *)

IsAdmin(c) == uid[c] \in {1, 2}
IsOwner(c, r) == IsAdmin(c) \/ (uid[c] # 0 /\ uid[c] = owner[r])
IsModer(c, r) == IsOwner(c, r) \/ (uid[c] # 0 /\ uid[c] \in moderators[r])

(* Mutant of Runs: the commands of a moderator are those of an owner too.  *)
RunsOwnersForModerators(c, r, cmd) ==
    \/ IsAdmin(c) /\ cmd \in CmdAdmin
    \/ IsModer(c, r) /\ cmd \in CmdOwner \cup CmdModer
    \/ c \in named[r] /\ cmd \in CmdUser
    \/ uid[c] > 0 /\ cmd \in CmdAuthUser
    \/ cmd \in CmdAll

(* processCommand finds a CommandProcessor that the member may use and     *)
(* that has the command. The processors share no name.                     *)
Runs(c, r, cmd) ==
    \/ IsAdmin(c) /\ cmd \in CmdAdmin
    \/ IsOwner(c, r) /\ cmd \in CmdOwner
    \/ IsModer(c, r) /\ cmd \in CmdModer
    \/ c \in named[r] /\ cmd \in CmdUser
    \/ uid[c] > 0 /\ cmd \in CmdAuthUser
    \/ cmd \in CmdAll

(* Mutant of Help: an owner is not shown what moderators may do. *)
HelpOwnerOnly(c, r) ==
    UNION {CmdAll, CmdUser,
           IF uid[c] > 0 THEN CmdAuthUser ELSE {},
           IF IsOwner(c, r) THEN CmdOwner ELSE IF IsModer(c, r) THEN CmdModer ELSE {},
           IF IsAdmin(c) THEN CmdAdmin ELSE {}}

(* CommandHelp::process, from texts made once of the processors' lists. *)
Help(c, r) ==
    UNION {CmdAll, CmdUser,
           IF uid[c] > 0 THEN CmdAuthUser ELSE {},
           IF IsOwner(c, r) THEN CmdOwner ELSE {},
           IF IsModer(c, r) THEN CmdModer ELSE {},
           IF IsAdmin(c) THEN CmdAdmin ELSE {}}

Exists(r) == owner[r] # NoRoom

(* CommandMyRoomList, over the rooms of the server. *)
MyRooms(c) == {r \in Room : Exists(r) /\ owner[r] = uid[c]}

(* The other commands that report: members with their addresses and        *)
(* accounts, accounts, names of rooms, counters of addresses.              *)
UserList(r) == member[r]
ModerList(r) == moderators[r]
BanList(r) == banned[r]
RoomList == {r \in Room : Exists(r)}
IpCounter == Client

Report(c, r, cmd) ==
    CASE cmd = "help" -> Help(c, r)
      [] cmd = "userlist" -> UserList(r)
      [] cmd = "moderlist" -> ModerList(r)
      [] cmd = "banlist" -> BanList(r)
      [] cmd = "roomlist" -> RoomList
      [] cmd = "ipcounter" -> IpCounter
      [] cmd = "myrooms" -> MyRooms(c)
      [] OTHER -> {}

Removed(r, D) ==
    /\ member' = [member EXCEPT ![r] = @ \ D]
    /\ named' = [named EXCEPT ![r] = @ \ D]

(* What the commands that act do; each may also refuse its argument. *)
Acts(c, r, cmd) ==
    \/ UNCHANGED <<rights, banned>>
    \/ /\ cmd = "nick"
       /\ named' = [named EXCEPT ![r] = IF c \in @ THEN @ \ {c} ELSE @ \cup {c}]
       /\ UNCHANGED <<uid, member, owner, moderators, banned>>
    \/ /\ cmd = "kick"
       /\ \E d \in named[r] : Removed(r, {d})
       /\ UNCHANGED <<uid, owner, moderators, banned>>
    \/ /\ cmd = "addmoder"
       /\ \E u \in Target \ {0} : moderators' = [moderators EXCEPT ![r] = @ \cup {u}]
       /\ UNCHANGED <<uid, member, named, owner, banned>>
    \/ /\ cmd = "delmoder"
       /\ \E u \in Target : moderators' = [moderators EXCEPT ![r] = @ \ {u}]
       /\ UNCHANGED <<uid, member, named, owner, banned>>
    \/ /\ cmd \in {"banuid", "banip", "bannick"}
       /\ \E u \in Target : banned' = [banned EXCEPT ![r] = @ \cup {u}]
       /\ \E D \in {{}} \cup (IF cmd = "bannick" THEN {{d} : d \in named[r]} ELSE {}) : Removed(r, D)
       /\ UNCHANGED <<uid, owner, moderators>>
    \/ /\ cmd \in {"unbanuid", "unbanip", "unbannick"}
       /\ \E u \in Target : banned' = [banned EXCEPT ![r] = @ \ {u}]
       /\ UNCHANGED rights

(* A line that starts with "/" of a member; cmd may be no command at all. *)
ProcessCommand(c, r, cmd) ==
    /\ c \in member[r]
    /\ IF Runs(c, r, cmd)
       THEN /\ Acts(c, r, cmd)
            /\ did' = [by |-> c, in |-> r, cmd |-> IF cmd \in Reporting THEN cmd ELSE "other",
                       ran |-> TRUE, report |-> Report(c, r, cmd)]
       ELSE /\ UNCHANGED <<rights, banned>>
            /\ did' = Nothing

-----------------------------------------------------------------------------
(* What changes the rights of a client by other ways than commands.        *)

(* PacketAuth: the client is another user from now on, also in its rooms. *)
Auth(c, u) ==
    /\ uid' = [uid EXCEPT ![c] = u]
    /\ did' = Nothing /\ UNCHANGED <<member, named, owner, moderators, banned>>

(* PacketJoin: Room::addMember refuses the banned, but for moderators. *)
Join(c, r, nick) ==
    /\ r \in Meeting /\ Exists(r) /\ c \notin member[r]
    /\ IsModer(c, r) \/ uid[c] \notin banned[r]
    /\ member' = [member EXCEPT ![r] = @ \cup {c}]
    /\ named' = [named EXCEPT ![r] = IF nick THEN @ \cup {c} ELSE @]
    /\ did' = Nothing /\ UNCHANGED <<uid, owner, moderators, banned>>

Leave(c, r) ==
    /\ c \in member[r]
    /\ Removed(r, {c})
    /\ did' = Nothing /\ UNCHANGED <<uid, owner, moderators, banned>>

CreateRoom(c, r) ==
    /\ uid[c] # 0 /\ ~Exists(r)
    /\ owner' = [owner EXCEPT ![r] = uid[c]]
    /\ did' = Nothing /\ UNCHANGED <<uid, member, named, moderators, banned>>

(* The Room object goes with its lists. *)
RemoveRoom(c, r) ==
    /\ Exists(r) /\ uid[c] # 0 /\ IsOwner(c, r)
    /\ owner' = [owner EXCEPT ![r] = NoRoom]
    /\ member' = [member EXCEPT ![r] = {}] /\ named' = [named EXCEPT ![r] = {}]
    /\ moderators' = [moderators EXCEPT ![r] = {}] /\ banned' = [banned EXCEPT ![r] = {}]
    /\ did' = Nothing /\ UNCHANGED uid

Next ==
    \E c \in Client :
        \/ \E u \in Uid \ {0} : Auth(c, u)
        \/ \E r \in Room :
              \/ \E cmd \in Command \cup {"none such"} : ProcessCommand(c, r, cmd)
              \/ \E nick \in BOOLEAN : Join(c, r, nick)
              \/ Leave(c, r) \/ CreateRoom(c, r) \/ RemoveRoom(c, r)

Spec == Init /\ [][Next]_vars

-----------------------------------------------------------------------------
(* /help shows a member with a nick exactly the commands that would run,   *)
(* whatever it has become meanwhile (authorized, moderator, owner or none  *)
(* of these any more): the lists of CommandHelp and the conditions of      *)
(* processCommand are written apart. Without a nick it shows the commands  *)
(* for users too, which do not run then.                                   *)
HelpExact ==
    did.ran /\ did.cmd = "help" =>
        did.report = {cmd \in Command : Runs(did.by, did.in, cmd)}
                         \cup (IF did.by \in named[did.in] THEN {} ELSE CmdUser)

(* A report is confined and true. The addresses and accounts of members,   *)
(* bans and moderators are shown to moderators of that room only, all      *)
(* rooms and the counters to administrators, and /myrooms shows a user the *)
(* rooms it could remove, wherever it is.                                  *)
ReportsConfined ==
    did.ran =>
        /\ did.cmd \in {"userlist", "banlist", "moderlist"} =>
              IsModer(did.by, did.in)
        /\ did.cmd \in {"roomlist", "ipcounter"} => uid[did.by] \in {1, 2}
        /\ did.cmd = "myrooms" =>
              uid[did.by] # 0 /\ \A r \in Room :
                 r \in did.report <=> owner[r] # NoRoom /\ IsOwner(did.by, r) /\ uid[did.by] = owner[r]

(* What a member is shown is exact, to whom and of what, as rights change  *)
(* between the making of a list and the next command.                      *)
ReportsExact == HelpExact /\ ReportsConfined

(* Whose authority a step had. Lists of moderators are changed by owners   *)
(* and administrators only, bans by moderators, and a room loses its lists *)
(* when it is removed; nobody gains rights by authorizing, joining, or     *)
(* creating a room anew.                                                   *)
AuthorityHeld ==
    [][\A r \in Room :
          /\ moderators'[r] # moderators[r] =>
                owner'[r] = NoRoom \/ (did'.ran /\ IsOwner(did'.by, r))
          /\ banned'[r] # banned[r] =>
                owner'[r] = NoRoom \/ (did'.ran /\ IsModer(did'.by, r))
          /\ owner'[r] # owner[r] /\ owner'[r] # NoRoom => moderators'[r] = {} /\ banned'[r] = {}]_vars

=============================================================================
