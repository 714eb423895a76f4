------------------------------- MODULE Roster -------------------------------
(***************************************************************************)
(* The list of members that each peer of a room can put together from the  *)
(* packets it is sent: PacketJoin, PacketOnlineList, PacketStatus and      *)
(* PacketLeave of src/packets.cpp, as sent by the handlers, by setNick,    *)
(* removeMember, kickMember and onDestroy of src/rooms.cpp and by          *)
(* onRevive, onDisconnect and onRemove of src/client.cpp.                  *)
(*                                                                         *)
(* A handler runs to its end before the next one and a connection keeps    *)
(* the order of its packets, so that a view is what the peer believes once *)
(* it has read all it was sent. Who may do what is the matter of           *)
(* Rooms.tla; here everybody may.                                          *)
(***************************************************************************)
EXTENDS Integers, FiniteSets

CONSTANTS Client, Nick, Look,   \* Look: a gender and a color
          NoNick, NoMember,
          MaxId                 \* bound of the model on the ids of the room

VARIABLES state,         \* per client: "free", "live" or "orphan"
          member,        \* per client: its Member of the room, or NoMember
          nextMemberId,
          view           \* per client: the room as its peer sees it

vars == <<state, member, nextMemberId, view>>

Status == {"offline", "online", "away", "nick_change", "look_change", "back", "typing", "orphan"}

Member == [id: 1..MaxId, nick: Nick \cup {NoNick}, status: {"online", "away", "orphan"}, look: Look]

RosterAssumption == MaxId \in Nat /\ NoMember \notin Member

(* What a peer keeps of a member with a nick, and of the room. *)
Entry == [id: 1..MaxId, name: Nick, status: {"online", "away", "orphan"}, look: Look]
Outside == [inside |-> FALSE, list |-> {}]

TypeOK ==
    /\ state \in [Client -> {"free", "live", "orphan"}]
    /\ member \in [Client -> Member \cup {NoMember}]
    /\ nextMemberId \in 0..MaxId
    /\ view \in [Client -> [inside: BOOLEAN, list: SUBSET Entry]]
    /\ \A c \in Client :
          /\ state[c] = "free" => member[c] = NoMember
          /\ state[c] # "live" => view[c] = Outside

Init ==
    /\ state = [c \in Client |-> "free"]
    /\ member = [c \in Client |-> NoMember]
    /\ nextMemberId = 0
    /\ view = [c \in Client |-> Outside]

-----------------------------------------------------------------------------
(* The packets.                                                            *)

PacketStatus(m, status) ==
    [type |-> "status", id |-> m.id, name |-> m.nick, status |-> status, look |-> m.look]

Members(M) == {c \in Client : M[c] # NoMember}
Listed(M) == {M[c] : c \in {d \in Members(M) : M[d].nick # NoNick}}

PacketOnlineList(M) ==
    [type |-> "online_list",
     list |-> {[id |-> m.id, name |-> m.nick, status |-> m.status, look |-> m.look] : m \in Listed(M)}]

(* What a peer makes of a status: the packet carries the name and the look *)
(* whatever it tells, and the state of the member only where it is told.   *)
Hear(list, p) ==
    LET known == {e \in list : e.id = p.id}
        Becomes(s) == {[id |-> p.id, name |-> p.name, status |-> s, look |-> p.look]}
    IN  CASE p.status = "offline" -> list \ known
          [] p.status \in {"online", "back"} -> (list \ known) \cup Becomes("online")
          [] p.status \in {"away", "orphan"} -> (list \ known) \cup Becomes(p.status)
          [] p.status \in {"nick_change", "look_change"} ->
                (list \ known) \cup {[e EXCEPT !.name = p.name, !.look = p.look] : e \in known}
          [] p.status = "typing" -> list

(* The answer to a resumption begins another session, in no room so far. *)
Read(v, p) ==
    CASE p.type = "join" -> [inside |-> TRUE, list |-> {}]
      [] p.type \in {"leave", "auth"} -> Outside
      [] p.type = "online_list" -> [v EXCEPT !.list = p.list]
      [] p.type = "status" -> IF v.inside THEN [v EXCEPT !.list = Hear(@, p)] ELSE v

(* Client::sendPacket to those of S that have a connection. *)
Send(v, S, p) ==
    [c \in Client |-> IF c \in S /\ state[c] = "live" THEN Read(v[c], p) ELSE v[c]]

SendPacketToAll(v, M, p) == Send(v, Members(M), p)

(* A broadcast about a member that only those with a nick are worth. *)
Broadcast(v, M, c, status) ==
    IF M[c].nick = NoNick THEN v ELSE SendPacketToAll(v, M, PacketStatus(M[c], status))

-----------------------------------------------------------------------------
Connect(c) ==
    /\ state[c] = "free"
    /\ state' = [state EXCEPT ![c] = "live"]
    /\ UNCHANGED <<member, nextMemberId, view>>

(* Member::setNick with another nick: the views after it. *)
SetNick(v, M, c, nick) ==
    LET m == [M[c] EXCEPT !.nick = nick] IN
    SendPacketToAll(v, [M EXCEPT ![c] = m],
        IF M[c].nick = NoNick THEN PacketStatus(m, m.status)
        ELSE IF nick = NoNick THEN [PacketStatus(m, "offline") EXCEPT !.name = M[c].nick]
        ELSE PacketStatus(m, "nick_change"))

Free(nick) == nick = NoNick \/ \A d \in Members(member) : member[d].nick # nick

(* PacketJoin::process: the answer, the list, and the nick of auto_login. *)
Join(c, nick, look) ==
    LET M == [member EXCEPT ![c] = [id |-> nextMemberId + 1, nick |-> NoNick,
                                    status |-> "online", look |-> look]]
        answered == Send(Send(view, {c}, [type |-> "join"]), {c}, PacketOnlineList(M))
    IN  /\ state[c] = "live" /\ member[c] = NoMember /\ nextMemberId < MaxId /\ Free(nick)
        /\ member' = [M EXCEPT ![c].nick = nick]
        /\ view' = IF nick = NoNick THEN answered ELSE SetNick(answered, M, c, nick)
        /\ nextMemberId' = nextMemberId + 1
        /\ UNCHANGED state

Inside(c) == state[c] = "live" /\ member[c] # NoMember

(* CommandNick. *)
ChangeNick(c, nick) ==
    /\ Inside(c) /\ nick # member[c].nick /\ Free(nick)
    /\ member' = [member EXCEPT ![c].nick = nick]
    /\ view' = SetNick(view, member, c, nick)
    /\ UNCHANGED <<state, nextMemberId>>

(* CommandColor and CommandGender; without a nick only the member is told. *)
ChangeLook(c, look) ==
    /\ Inside(c)
    /\ member' = [member EXCEPT ![c].look = look]
    /\ view' = IF member[c].nick # NoNick THEN Broadcast(view, member', c, "look_change")
               ELSE Send(view, {c}, PacketStatus(member'[c], "look_change"))
    /\ UNCHANGED <<state, nextMemberId>>

(* PacketStatus::process. *)
ChangeStatus(c, status) ==
    /\ Inside(c) /\ member[c].nick # NoNick
    /\ member' = [member EXCEPT ![c].status = CASE status = "away" -> "away"
                                                [] status = "back" -> "online"
                                                [] status = "typing" -> @]
    /\ view' = Broadcast(view, member', c, status)
    /\ UNCHANGED <<state, nextMemberId>>

(* PacketOnlineList::process. *)
AskList(c) ==
    /\ Inside(c)
    /\ view' = Send(view, {c}, PacketOnlineList(member))
    /\ UNCHANGED <<state, member, nextMemberId>>

(* PacketLeave::process, and kickMember, which an orphan may meet too. *)
Remove(c) ==
    /\ member[c] # NoMember
    /\ member' = [member EXCEPT ![c] = NoMember]
    /\ view' = Send(Broadcast(view, member, c, "offline"), {c}, [type |-> "leave"])
    /\ UNCHANGED <<state, nextMemberId>>

(* Room::onDestroy: everybody leaves; another room of the name may follow. *)
RemoveRoom ==
    /\ Members(member) # {}
    /\ member' = [c \in Client |-> NoMember]
    /\ view' = Send(view, Members(member), [type |-> "leave"])
    /\ nextMemberId' = 0
    /\ UNCHANGED state

-----------------------------------------------------------------------------
(* Client::onDisconnect: the connection is gone before the others hear. *)
Disconnect(c) ==
    LET gone == [view EXCEPT ![c] = Outside]
        M == IF member[c] = NoMember THEN member ELSE [member EXCEPT ![c].status = "orphan"]
    IN  /\ state[c] = "live"
        /\ state' = [state EXCEPT ![c] = "orphan"]
        /\ member' = M
        /\ view' = IF member[c] = NoMember THEN gone
                   ELSE [Broadcast(gone, M, c, "orphan") EXCEPT ![c] = Outside]
        /\ UNCHANGED nextMemberId

(* Client::onRemove of c: the views and the members after it. *)
OnRemove(v, c) == IF member[c] = NoMember THEN v ELSE Broadcast(v, member, c, "offline")
Without(c) == [member EXCEPT ![c] = NoMember]

(* ClientsManager::remove. *)
End(c) ==
    /\ state[c] # "free"
    /\ state' = [state EXCEPT ![c] = "free"]
    /\ member' = Without(c)
    /\ view' = [OnRemove(view, c) EXCEPT ![c] = Outside]
    /\ UNCHANGED nextMemberId

(* Client::onRevive of tgt, for the room. *)
Revived(v, M, tgt) ==
    IF M[tgt] = NoMember THEN v
    ELSE LET listed == Read(Read(v[tgt], [type |-> "join"]), PacketOnlineList(M))
             all == [c \in Client |-> IF c = tgt THEN listed ELSE v[c]]
         IN  IF M[tgt].nick = NoNick THEN all
             ELSE LET p == PacketStatus(M[tgt], "back") IN
                  [Send(all, Members(M) \ {tgt}, p) EXCEPT ![tgt] = Read(listed, p)]

(* Mutant of Revive: the answer is the last packet. *)
ReviveAnsweredLast(cur, tgt) ==
    LET left == OnRemove(view, cur)
        passed == [left EXCEPT ![cur] = Outside, ![tgt] = left[cur]]
        M == IF member[tgt] = NoMember THEN Without(cur)
             ELSE [Without(cur) EXCEPT ![tgt].status = "online"]
        v == Revived(passed, M, tgt)
    IN  /\ state[cur] = "live" /\ state[tgt] # "free" /\ cur # tgt
        /\ state' = [state EXCEPT ![cur] = "free", ![tgt] = "live"]
        /\ member' = M
        /\ view' = [v EXCEPT ![tgt] = Read(@, [type |-> "auth"])]
        /\ UNCHANGED nextMemberId

(* PacketAuth::process with the token of tgt: the answer, then onRemove of *)
(* cur while it still has the connection, which passes to tgt for          *)
(* onRevive. The peer that tgt had is cut off.                             *)
Revive(cur, tgt) ==
    LET left == OnRemove(Send(view, {cur}, [type |-> "auth"]), cur)
        passed == [left EXCEPT ![cur] = Outside, ![tgt] = left[cur]]
        M == IF member[tgt] = NoMember THEN Without(cur)
             ELSE [Without(cur) EXCEPT ![tgt].status = "online"]
    IN  /\ state[cur] = "live" /\ state[tgt] # "free" /\ cur # tgt
        /\ state' = [state EXCEPT ![cur] = "free", ![tgt] = "live"]
        /\ member' = M
        /\ view' = Revived(passed, M, tgt)
        /\ UNCHANGED nextMemberId

Next ==
    \/ RemoveRoom
    \/ \E c \in Client :
          \/ Connect(c) \/ AskList(c) \/ Remove(c) \/ Disconnect(c) \/ End(c)
          \/ \E n \in Nick \cup {NoNick} : ChangeNick(c, n) \/ \E l \in Look : Join(c, n, l)
          \/ \E l \in Look : ChangeLook(c, l)
          \/ \E s \in {"away", "back", "typing"} : ChangeStatus(c, s)
          \/ \E d \in Client : Revive(c, d)

Spec == Init /\ [][Next]_vars

-----------------------------------------------------------------------------
(* Every peer that is in the room, and no other, believes to be in it, and *)
(* its list is the room's: the same ids, nicks, colors and genders, away   *)
(* for those who are, orphan for those whose connection is lost; whoever   *)
(* came, left, was kicked, gave up its nick or resumed a session, in       *)
(* whatever order.                                                         *)
RosterExact ==
    \A c \in Client : state[c] = "live" =>
        /\ view[c].inside = (member[c] # NoMember)
        /\ view[c].inside => view[c].list = PacketOnlineList(member).list

=============================================================================
