------------------------------ MODULE Requests ------------------------------
(***************************************************************************)
(* What a peer is answered: Packet::read and the constructors, deserialize *)
(* serialize and process of every packet of src/packets.cpp.               *)
(*                                                                         *)
(* A peer numbers its requests and finds the answer by the sequenceId. Some*)
(* answers are the request object itself, sent back; the model keeps for   *)
(* each field of a packet where its value comes from, and for each packet  *)
(* to whom it goes. What the handlers do to rooms is kept to what the      *)
(* packets say of it: Rooms.tla has the rest. Every client is connected:   *)
(* what a packet to one that is not comes to is in Messages.tla.           *)
(***************************************************************************)
EXTENDS Integers, Sequences, FiniteSets, SequencesExt

CONSTANTS Client, Uid,
          Room, BadName,       \* targets that create_room accepts, one that it does not
          Guest, NoRoom, NoId,
          MaxAsk               \* bound of the model on the requests of all peers

RequestsAssumption ==
    /\ BadName \notin Room /\ IsFiniteSet(Room)
    /\ Guest \notin Uid /\ NoRoom \notin Uid
    /\ MaxAsk \in Nat

VARIABLES uid, joined,         \* per client: its account, the targets it is in
          owner,               \* per target: the owner of the room, or NoRoom
          sent,                \* the packets of the last step, in order, and to whom each went
          asked,               \* requests so far, by whom ever (history)
          req                  \* what the last step served: by, type, id and target (history)

world == <<uid, joined, owner>>
vars == <<world, sent, asked, req>>

AnyTarget == Room \cup {BadName}

-----------------------------------------------------------------------------
(* The packets: where the constructor leaves each field ("none" where it   *)
(* sets nothing), the fields that deserialize takes from the peer and those*)
(* that serialize sends.                                                   *)

Default(S) == [f \in S |-> "default"]

PacketError ==
    [new |-> [target |-> "default", info |-> "default", source |-> "none", code |-> "none"],
     read |-> {}, wire |-> {"source", "target", "code", "info"}]
PacketSystem ==
    [new |-> Default({"target", "message"}), read |-> {}, wire |-> {"target", "message"}]
MessageWire == {"id", "target", "time", "color", "from_login", "from", "to", "style", "message"}
PacketMessage ==
    [new |-> Default(MessageWire), read |-> {"message", "target", "to", "time"}, wire |-> MessageWire]
PacketOnlineList ==
    [new |-> Default({"target", "list"}), read |-> {"target"}, wire |-> {"target", "list"}]
PacketAuth ==
    [new |-> [Default({"user_id", "name", "token", "ukey", "api_key", "password"}) EXCEPT !.user_id = "none"],
     read |-> {"ukey", "api_key", "name", "password", "token"}, wire |-> {"user_id", "name", "token"}]
StatusWire == {"target", "name", "status", "member_id", "user_id", "girl", "color", "data",
               "is_owner", "is_moder", "last_seen_time"}
PacketStatus ==
    [new |-> Default(StatusWire), read |-> {"target", "status"}, wire |-> StatusWire]
PacketJoin ==
    [new |-> Default({"target", "member_id", "login", "auto_login", "load_history"}),
     read |-> {"target", "auto_login", "load_history"}, wire |-> {"target", "member_id", "login"}]
PacketLeave == [new |-> Default({"target"}), read |-> {"target"}, wire |-> {"target"}]
PacketCreateRoom == [new |-> Default({"target"}), read |-> {"target"}, wire |-> {"target"}]
PacketRemoveRoom == [new |-> Default({"target"}), read |-> {"target"}, wire |-> {"target"}]
PacketPing == [new |-> Default({}), read |-> {}, wire |-> {}]

(* Packet::Type, and what Packet::read makes of each. *)
Type == [error |-> PacketError, system |-> PacketSystem, message |-> PacketMessage,
         online_list |-> PacketOnlineList, auth |-> PacketAuth, status |-> PacketStatus,
         join |-> PacketJoin, leave |-> PacketLeave, create_room |-> PacketCreateRoom,
         remove_room |-> PacketRemoveRoom, ping |-> PacketPing]

(* Packet::deserialize takes the sequenceId; PacketOnlineList::deserialize *)
(* does not call it.                                                       *)
SequenceId(q) == IF q.type = "online_list" THEN NoId ELSE q.id

(* A packet of the server, whose fields in S it sets itself. An answer to  *)
(* auth names the account, and by its token the session: resumed, when it  *)
(* is that of another session, the one that was asked for.                 *)
Make(type, id, target, S) ==
    [type |-> type, id |-> id, target |-> target, code |-> "none", user |-> Guest, resumed |-> FALSE,
     from |-> [f \in DOMAIN Type[type].new |-> IF f \in S THEN "server" ELSE Type[type].new[f]]]

(* The request itself, after deserialize and with its fields in S set. *)
This(q, S) ==
    [Make(q.type, SequenceId(q), q.target, S) EXCEPT
        !.from = [f \in DOMAIN @ |-> IF f \in Type[q.type].read \ S THEN "peer" ELSE @[f]]]

Error(q, code) ==
    [Make("error", SequenceId(q), q.target, {"source", "code", "info"}) EXCEPT
        !.code = code, !.from.target = IF q.type = "auth" THEN "default" ELSE "peer"]
System(target) == Make("system", NoId, target, PacketSystem.wire)

-----------------------------------------------------------------------------
TypeOK ==
    /\ uid \in [Client -> Uid \cup {Guest}]
    /\ joined \in [Client -> SUBSET Room]
    /\ owner \in [AnyTarget -> Uid \cup {NoRoom}] /\ owner[BadName] = NoRoom
    /\ \A c \in Client : \A r \in joined[c] : owner[r] # NoRoom
    /\ asked \in 0..MaxAsk
    /\ req \in [by: Client \cup {NoId}, type: DOMAIN Type \cup {"garbage", "none"},
               id: 1..MaxAsk \cup {NoId}, target: AnyTarget]
    /\ \A i \in DOMAIN sent :
          /\ sent[i].pack.type \in DOMAIN Type /\ sent[i].pack.target \in AnyTarget
          /\ sent[i].to \subseteq Client

(* Nobody asked for what the step did. *)
Nothing == [by |-> NoId, type |-> "none", id |-> NoId, target |-> BadName]

Init ==
    /\ uid = [c \in Client |-> Guest] /\ joined = [c \in Client |-> {}]
    /\ owner = [t \in AnyTarget |-> NoRoom]
    /\ sent = <<>> /\ asked = 0 /\ req = Nothing

(* Packets that go to each client in S. *)
To(S, packets) == [i \in DOMAIN packets |-> [to |-> S, pack |-> packets[i]]]

Sends(packets) == sent' = packets

Refuses(c, q, code) == Sends(To({c}, <<Error(q, code)>>)) /\ UNCHANGED world

Members(t) == {d \in Client : t \in joined[d]}

-----------------------------------------------------------------------------
(* The process methods.                                                    *)

(* What a join is answered, and a resumption is told, of a room. *)
Welcome(t, id) ==
    <<Make("join", id, t, {"target", "member_id", "login"}), Make("online_list", id, t, {"target", "list"})>>

(* What the members are told of one who comes or goes: nothing if he has no nick. *)
Change(t) == {<<>>, <<Make("status", NoId, t, StatusWire)>>}

(* Mutant of Join: the refusal of a banned client is not numbered. *)
JoinRefusedUnnumbered(c, q) ==
    IF q.target \in joined[c] THEN Refuses(c, q, "already_connected")
    ELSE IF owner[q.target] = NoRoom THEN Refuses(c, q, "not_found")
    ELSE Refuses(c, [q EXCEPT !.id = NoId], "user_banned")

Join(c, q) ==
    IF q.target \in joined[c] THEN Refuses(c, q, "already_connected")
    ELSE IF owner[q.target] = NoRoom THEN Refuses(c, q, "not_found")
    ELSE \/ Refuses(c, q, "user_banned")
         \/ /\ \E all \in Change(q.target) :
                  Sends(To({c}, Welcome(q.target, SequenceId(q)) \o <<System(q.target)>>)
                        \o To(Members(q.target) \cup {c}, all))
            /\ joined' = [joined EXCEPT ![c] = @ \cup {q.target}]
            /\ UNCHANGED <<uid, owner>>

(* The members, the one who goes among them, are told before the answer.   *)
Leave(c, q) ==
    IF q.target \notin joined[c] THEN Refuses(c, q, "not_found")
    ELSE /\ \E all \in Change(q.target) :
               Sends(To(Members(q.target), all) \o To({c}, <<This(q, {})>>))
         /\ joined' = [joined EXCEPT ![c] = @ \ {q.target}]
         /\ UNCHANGED <<uid, owner>>

CreateRoom(c, q) ==
    IF uid[c] = Guest THEN Refuses(c, q, "access_denied")
    ELSE IF q.target = BadName THEN Refuses(c, q, "invalid_target")
    ELSE IF owner[q.target] # NoRoom THEN Refuses(c, q, "already_exists")
    ELSE /\ Sends(To({c}, <<This(q, {})>>))
         /\ owner' = [owner EXCEPT ![q.target] = uid[c]]
         /\ UNCHANGED <<uid, joined>>

(* Mutant of RemoveRoom: the members stay. *)
RemoveRoomKeepsMembers(c, q) ==
    /\ uid[c] # Guest /\ owner[q.target] # NoRoom
    /\ Sends(To({c}, <<This(q, {})>>))
    /\ owner' = [owner EXCEPT ![q.target] = NoRoom]
    /\ UNCHANGED <<uid, joined>>

(* Every member is sent a PacketLeave, the requester before its answer; the*)
(* status of each that goes first (one stands for all). An administrator   *)
(* may remove any room.                                                    *)
RemoveRoom(c, q) ==
    IF uid[c] = Guest THEN Refuses(c, q, "access_denied")
    ELSE IF owner[q.target] = NoRoom THEN Refuses(c, q, "not_found")
    ELSE \/ owner[q.target] # uid[c] /\ Refuses(c, q, "access_denied")
         \/ /\ \E all \in Change(q.target) :
                  Sends(To(Members(q.target), all \o <<Make("leave", NoId, q.target, {"target"})>>)
                        \o To({c}, <<This(q, {})>>))
            /\ owner' = [owner EXCEPT ![q.target] = NoRoom]
            /\ joined' = [d \in Client |-> joined[d] \ {q.target}]
            /\ UNCHANGED uid

(* The packets of Welcome for each of the rooms. *)
Lists(rs) == [i \in 1..(2 * Len(rs)) |-> Welcome(rs[(i + 1) \div 2], NoId)[2 - (i % 2)]]

(* Mutant of AuthAnswer: the name is what the peer called itself. *)
AuthAnswerUnnamed(q, u, resumed) ==
    [This(q, {"user_id", "token"}) EXCEPT !.user = u, !.resumed = resumed]

AuthAnswer(q, u, resumed) ==
    [This(q, {"user_id", "name", "token"}) EXCEPT !.user = u, !.resumed = resumed]

(* Mutant of Auth: the rooms of a resumed session come before the answer.  *)
AuthAnswerLast(c, q) ==
    \E u \in Uid \cup {Guest}, S \in SUBSET {r \in Room : owner[r] # NoRoom} :
        /\ Sends(To({c}, Lists(SetToSeq(S)) \o <<AuthAnswer(q, u, TRUE)>>))
        /\ uid' = [uid EXCEPT ![c] = u] /\ joined' = [joined EXCEPT ![c] = S]
        /\ UNCHANGED owner

(* The account stays or becomes u; or the session of another peer, that is *)
(* in the rooms S, is resumed, and its rooms follow the answer. What other *)
(* members are told of either session is in Roster.tla.                    *)
Auth(c, q) ==
    \/ \E code \in {"access_denied", "incorrect_loginpass", "database_error"} : Refuses(c, q, code)
    \/ \E u \in Uid \cup {uid[c]} :
          /\ Sends(To({c}, <<AuthAnswer(q, u, FALSE)>>))
          /\ uid' = [uid EXCEPT ![c] = u]
          /\ UNCHANGED <<joined, owner>>
    \/ \E u \in Uid \cup {Guest}, S \in SUBSET {r \in Room : owner[r] # NoRoom} :
          /\ Sends(To({c}, <<AuthAnswer(q, u, TRUE)>> \o Lists(SetToSeq(S))))
          /\ uid' = [uid EXCEPT ![c] = u] /\ joined' = [joined EXCEPT ![c] = S]
          /\ UNCHANGED owner

OnlineList(c, q) ==
    IF q.target \notin joined[c] THEN Refuses(c, q, "not_found")
    ELSE /\ Sends(To({c}, <<Make("online_list", NoId, q.target, {"target", "list"})>>))
         /\ UNCHANGED world

(* What is said goes out in a packet of its own: the one of the peer may   *)
(* name another author, addressee or time. An empty text is not answered,  *)
(* and what is not to be said is answered by a line of the system.         *)
Message(c, q) ==
    /\ \/ \E out \in {<<>>, <<System(q.target)>>} : Sends(To({c}, out))
       \/ /\ q.target \in joined[c]
          /\ Sends(To(Members(q.target),
                      <<[Make("message", NoId, q.target, MessageWire) EXCEPT !.from.message = "peer"]>>))
    /\ UNCHANGED world

Status(c, q) ==
    /\ Sends(IF q.target \notin joined[c] THEN <<>>
             ELSE To(Members(q.target),
                     <<[Make("status", NoId, q.target, StatusWire) EXCEPT !.from.status = "peer"]>>))
    /\ UNCHANGED world

(* PacketError, PacketSystem and PacketPing of a peer, and what            *)
(* Packet::read rejects or throws for: nothing is answered.                *)
Ignored(c, q) == Sends(<<>>) /\ UNCHANGED world

(* Client::onPacket. A peer numbers its requests as it likes: here no two  *)
(* have one number.                                                        *)
OnPacket(c, q) ==
    /\ asked < MaxAsk /\ q.id \in {asked + 1, NoId}
    /\ asked' = asked + 1
    /\ req' = [by |-> c, type |-> q.type, id |-> q.id, target |-> q.target]
    /\ CASE q.type = "join" -> Join(c, q)
         [] q.type = "leave" -> Leave(c, q)
         [] q.type = "create_room" -> CreateRoom(c, q)
         [] q.type = "remove_room" -> RemoveRoom(c, q)
         [] q.type = "auth" -> Auth(c, q)
         [] q.type = "online_list" -> OnlineList(c, q)
         [] q.type = "message" -> Message(c, q)
         [] q.type = "status" -> Status(c, q)
         [] OTHER -> Ignored(c, q)

(* Room::kickMember, at somebody else's request. *)
Kick(c, r) ==
    /\ r \in joined[c]
    /\ \E all \in Change(r) :
          Sends(To(Members(r), all) \o To({c}, <<Make("leave", NoId, r, {"target"})>>))
    /\ joined' = [joined EXCEPT ![c] = @ \ {r}]
    /\ req' = Nothing
    /\ UNCHANGED <<uid, owner, asked>>

Request == [type: DOMAIN Type \cup {"garbage"}, id: 1..MaxAsk \cup {NoId}, target: AnyTarget]

Next == \E c \in Client : \/ \E q \in Request : OnPacket(c, q)
                          \/ \E r \in Room : Kick(c, r)

Spec == Init /\ [][Next]_vars

-----------------------------------------------------------------------------
Answered == {"auth", "join", "leave", "create_room", "remove_room", "online_list"}

(* p answers the request: it is of its kind or an error, names what was    *)
(* asked about and has its number. PacketOnlineList::deserialize drops that*)
(* number, so the answer to online_list may be without.                    *)
Answers(p) ==
    /\ p.type \in {"error", req.type} /\ p.target = req.target
    /\ p.id = req.id \/ (req.type = "online_list" /\ p.id = NoId)

(* Every request of a kind that is answered is answered in the step that   *)
(* serves it, to the peer who asked and under its number, on whatever path *)
(* the handler returns; and nothing else carries a number, neither what    *)
(* other peers are sent nor the leave of a kick, the removal told to a     *)
(* member or the rooms of a resumed session.                               *)
AnswersMatch ==
    /\ \A i \in DOMAIN sent :
          sent[i].pack.id # NoId => sent[i].pack.id = req.id /\ sent[i].to = {req.by}
    /\ req.type \in Answered =>
          \E i \in DOMAIN sent : sent[i].to = {req.by} /\ Answers(sent[i].pack)

(* Nothing is sent that no constructor or handler has set, and of what the *)
(* peer wrote only the target, the text and the kind of a status go out:   *)
(* names, ids, times and rights are the server's, also where the answer is *)
(* the request object itself.                                              *)
FieldsVouched ==
    \A i \in DOMAIN sent : LET p == sent[i].pack IN
        \A f \in Type[p.type].wire :
            /\ p.from[f] # "none"
            /\ p.from[f] = "peer" => f \in {"target", "message", "status"}

(* What s tells c of itself: which account it has, and where it is. A      *)
(* session that is resumed brings its own rooms.                           *)
TellsAccount(s, c) == c \in s.to /\ s.pack.type = "auth"
TellsIn(s, c, r) == c \in s.to /\ s.pack.type = "join" /\ s.pack.target = r
TellsOut(s, c, r) == c \in s.to /\ (s.pack.resumed \/ (s.pack.type = "leave" /\ s.pack.target = r))

(* The account of a client is the one before the step or the one it is told, *)
AccountsTold ==
    \A c \in Client :
        /\ \A i \in DOMAIN sent' : TellsAccount(sent'[i], c) => uid'[c] = sent'[i].pack.user
        /\ (\A i \in DOMAIN sent' : ~TellsAccount(sent'[i], c)) => uid'[c] = uid[c]

(* it is where the packets of the step, in their order, leave it,          *)
RoomsTold ==
    \A c \in Client, r \in Room :
        LET StaysFrom(k) == \A i \in DOMAIN sent' : i > k => ~TellsOut(sent'[i], c, r) IN
        r \in joined'[c] <=> \/ r \in joined[c] /\ StaysFrom(0)
                            \/ \E k \in DOMAIN sent' : TellsIn(sent'[k], c, r) /\ StaysFrom(k)

(* and a room is made, for the requester, or removed only when the         *)
(* requester is told so.                                                   *)
OwnersTold ==
    \A t \in AnyTarget :
        LET Yes(type) == \E i \in DOMAIN sent' : /\ sent'[i].to = {req'.by}
                                                 /\ sent'[i].pack.type = type
                                                 /\ sent'[i].pack.target = t
        IN owner'[t] = IF Yes("create_room") THEN uid[req'.by]
                       ELSE IF Yes("remove_room") THEN NoRoom ELSE owner[t]

(* What peers are told is all that happens to them: one who reads the      *)
(* packets sent to it knows its account and its rooms at all times. An     *)
(* error, then, comes with no change to anybody, a positive answer with    *)
(* the change that it names and no other, whoever is removed by another    *)
(* one's request is told, and the answer of a resumption comes before the  *)
(* rooms ("must be first packet after revive", packets.cpp:340).           *)
AnswersTrue == [][AccountsTold /\ RoomsTold /\ OwnersTold]_vars

=============================================================================
