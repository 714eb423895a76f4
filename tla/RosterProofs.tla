---------------------------- MODULE RosterProofs ----------------------------
(***************************************************************************)
(* Proofs about Roster: the list that every peer puts together from the    *)
(* packets is the list of the room, for any clients, nicks, looks and      *)
(* number of ids.                                                          *)
(***************************************************************************)
EXTENDS Roster, TLAPS

MemberMaps == [Client -> Member \cup {NoMember}]

(* The list of a room whose members are M. *)
Entries(M) == PacketOnlineList(M).list
EntryOf(m) == [id |-> m.id, name |-> m.nick, status |-> m.status, look |-> m.look]

(* The entries of all members but c. *)
Others(M, c) == {EntryOf(M[d]) : d \in {e \in Members(M) \ {c} : M[e].nick # NoNick}}

(* No two members have one id. *)
DistinctIds(M) == \A c, d \in Members(M) : M[c].id = M[d].id => c = d

-----------------------------------------------------------------------------
(* What the list of a room is made of.                                     *)

(* The entry of a member with a nick, and those of the others. *)
LEMMA EntriesSplit ==
    ASSUME NEW M \in MemberMaps, NEW c \in Client
    PROVE  Entries(M) = Others(M, c) \cup
               (IF M[c] # NoMember /\ M[c].nick # NoNick THEN {EntryOf(M[c])} ELSE {})
  BY DEF Entries, PacketOnlineList, Listed, Members, Others, EntryOf

(* The members when that of c has become x. *)
Changed(M, c, x) == [M EXCEPT ![c] = x]

(* The others are listed alike, whatever becomes of the member. *)
LEMMA OthersStay ==
    ASSUME NEW M \in MemberMaps, NEW c \in Client, NEW x
    PROVE  Others(Changed(M, c, x), c) = Others(M, c)
  <1> DEFINE N == Changed(M, c, x)
  <1>1. N \in [Client -> Member \cup {NoMember, x}] /\ \A d \in Client \ {c} : N[d] = M[d]
      BY DEF MemberMaps, Changed
  <1>2. {e \in Members(N) \ {c} : N[e].nick # NoNick} = {e \in Members(M) \ {c} : M[e].nick # NoNick}
      BY <1>1 DEF Members
  <1> HIDE DEF N
  <1>3. Others(N, c) = Others(M, c)
      BY <1>1, <1>2 DEF Others, Members
  <1> QED BY <1>3 DEF N

(* A peer that hears of the id of c knows the entry of c by it. *)
LEMMA KnownById ==
    ASSUME NEW M \in MemberMaps, DistinctIds(M), NEW c \in Members(M)
    PROVE  /\ {e \in Entries(M) : e.id = M[c].id} =
                (IF M[c].nick # NoNick THEN {EntryOf(M[c])} ELSE {})
           /\ Entries(M) \ {e \in Entries(M) : e.id = M[c].id} = Others(M, c)
  <1>1. c \in Client /\ M[c] # NoMember
      BY DEF Members
  <1>2. EntryOf(M[c]).id = M[c].id
      BY DEF EntryOf
  <1>3. \A e \in Others(M, c) : e.id # M[c].id
      BY DEF Others, EntryOf, DistinctIds, Members
  <1> QED BY <1>1, <1>2, <1>3, EntriesSplit

(* All entries are listed if nobody changes, one less if c leaves. *)
LEMMA EntriesChange ==
    ASSUME NEW M \in MemberMaps, NEW c \in Client, NEW x \in Member \cup {NoMember}
    PROVE  LET N == Changed(M, c, x) IN
           /\ N \in MemberMaps /\ N[c] = x
           /\ Entries(N) = Others(M, c) \cup
                (IF x # NoMember /\ x.nick # NoNick THEN {EntryOf(x)} ELSE {})
  <1> DEFINE N == Changed(M, c, x)
  <1>1. N \in MemberMaps /\ N[c] = x
      BY DEF MemberMaps, Changed
  <1>2. Others(N, c) = Others(M, c)
      BY OthersStay
  <1> HIDE DEF N
  <1>3. Entries(N) = Others(M, c) \cup
                (IF x # NoMember /\ x.nick # NoNick THEN {EntryOf(x)} ELSE {})
      BY <1>1, <1>2, EntriesSplit
  <1> QED BY <1>1, <1>3 DEF N

-----------------------------------------------------------------------------
(* What becomes of a list when its peer hears of a member.                 *)

(* A member that is told of whole takes its place in the list. *)
LEMMA HearWhole ==
    ASSUME NEW M \in MemberMaps, DistinctIds(M), NEW c \in Members(M), NEW p, p.id = M[c].id,
           NEW s, \/ p.status \in {"online", "back"} /\ s = "online"
                  \/ p.status \in {"away", "orphan"} /\ s = p.status
    PROVE  Hear(Entries(M), p) =
             Others(M, c) \cup {[id |-> p.id, name |-> p.name, status |-> s, look |-> p.look]}
  <1>1. CASE p.status \in {"online", "back"} /\ s = "online"
      BY <1>1, KnownById DEF Hear
  <1>2. CASE p.status \in {"away", "orphan"} /\ s = p.status
      BY <1>2, KnownById DEF Hear
  <1> QED BY <1>1, <1>2

(* A farewell leaves the others. *)
LEMMA HearFarewell ==
    ASSUME NEW M \in MemberMaps, DistinctIds(M), NEW c \in Members(M), NEW p, p.id = M[c].id,
           p.status = "offline"
    PROVE  Hear(Entries(M), p) = Others(M, c)
  BY KnownById DEF Hear

(* An entry with another nick and look. *)
With(e, n, l) == [e EXCEPT !.name = n, !.look = l]

(* An entry with another name and look has its id and its state.           *)
LEMMA Renamed ==
    ASSUME NEW e \in Entry, NEW n \in Nick, NEW l \in Look
    PROVE  With(e, n, l) = [id |-> e.id, name |-> n, status |-> e.status, look |-> l]
  <1> DEFINE r == [e EXCEPT !.name = n, !.look = l]
  <1>1. r \in Entry /\ r.name = n /\ r.look = l /\ r.id = e.id /\ r.status = e.status
      BY DEF Entry
  <1> HIDE DEF r
  <1>2. r = [id |-> e.id, name |-> n, status |-> e.status, look |-> l]
      BY <1>1 DEF Entry
  <1> QED BY <1>2 DEF r, With

(* The entries of members with a nick. *)
LEMMA EntryTyped ==
    ASSUME NEW m \in Member, m.nick # NoNick
    PROVE  EntryOf(m) \in Entry
  BY DEF EntryOf, Entry, Member

(* A change of nick or look keeps the state of the member, if it is known. *)
LEMMA HearChange ==
    ASSUME NEW M \in MemberMaps, DistinctIds(M), NEW c \in Members(M), NEW p, p.id = M[c].id,
           p.status \in {"nick_change", "look_change"},
           M[c].nick # NoNick => p.name \in Nick /\ p.look \in Look
    PROVE  Hear(Entries(M), p) = Others(M, c) \cup
             (IF M[c].nick # NoNick
              THEN {[id |-> p.id, name |-> p.name, status |-> M[c].status, look |-> p.look]}
              ELSE {})
  <1> DEFINE known == {e \in Entries(M) : e.id = p.id}
             told == {With(e, p.name, p.look) : e \in known}
  <1>1. /\ known = IF M[c].nick # NoNick THEN {EntryOf(M[c])} ELSE {}
        /\ Entries(M) \ known = Others(M, c)
      BY KnownById
  <1>2. Hear(Entries(M), p) = (Entries(M) \ known) \cup told
      BY DEF Hear, With
  <1>3. CASE M[c].nick # NoNick
    <2>1. EntryOf(M[c]) \in Entry /\ p.name \in Nick /\ p.look \in Look
        BY <1>3, EntryTyped DEF MemberMaps, Members
    <2>2. With(EntryOf(M[c]), p.name, p.look) =
            [id |-> p.id, name |-> p.name, status |-> M[c].status, look |-> p.look]
      <3>1. EntryOf(M[c]).id = p.id /\ EntryOf(M[c]).status = M[c].status
          BY DEF EntryOf
      <3> QED BY <2>1, <3>1, Renamed
    <2> HIDE DEF known
    <2>3. told = {[id |-> p.id, name |-> p.name, status |-> M[c].status, look |-> p.look]}
        BY <1>1, <1>3, <2>2
    <2> QED BY <1>1, <1>2, <1>3, <2>3
  <1>4. CASE M[c].nick = NoNick
    <2> HIDE DEF known
    <2>1. told = {}
        BY <1>1, <1>4
    <2> QED BY <1>1, <1>2, <1>4, <2>1
  <1> QED BY <1>3, <1>4

-----------------------------------------------------------------------------
(* What all peers see.                                                     *)

(* The views when all who have a connection and are in M have the list L. *)
Sees(S, M, L) ==
    [c \in Client |-> IF S[c] = "live" /\ M[c] # NoMember THEN [inside |-> TRUE, list |-> L]
                                                         ELSE Outside]

(* A status changes the list of a peer inside, and no other. *)
LEMMA ReadStatus ==
    ASSUME NEW p, p.type = "status"
    PROVE  /\ \A L : Read([inside |-> TRUE, list |-> L], p) = [inside |-> TRUE, list |-> Hear(L, p)]
           /\ Read(Outside, p) = Outside
  BY DEF Read, Outside

(* A list takes the place of the one that a peer inside had. *)
LEMMA ReadList ==
    ASSUME NEW p, p.type = "online_list"
    PROVE  \A L : Read([inside |-> TRUE, list |-> L], p) = [inside |-> TRUE, list |-> p.list]
  <1> SUFFICES ASSUME NEW L
               PROVE  Read([inside |-> TRUE, list |-> L], p) = [inside |-> TRUE, list |-> p.list]
      OBVIOUS
  <1> DEFINE v == [inside |-> TRUE, list |-> L]
  <1>1. v \in [inside: {TRUE}, list: {L, p.list}] /\ v.inside = TRUE
      OBVIOUS
  <1> HIDE DEF v
  <1>2. [v EXCEPT !.list = p.list] = [inside |-> TRUE, list |-> p.list]
    <2> DEFINE r == [v EXCEPT !.list = p.list]
    <2>1. r \in [inside: {TRUE}, list: {L, p.list}] /\ r.list = p.list
        BY <1>1
    <2> HIDE DEF r
    <2>2. r = [inside |-> TRUE, list |-> p.list]
        BY <2>1
    <2> QED BY <2>2 DEF r
  <1>3. Read(v, p) = [v EXCEPT !.list = p.list]
      BY DEF Read
  <1> QED BY <1>2, <1>3 DEF v

(* A status that all are sent changes the list of all alike. *)
LEMMA AllHear ==
    ASSUME NEW M \in MemberMaps, NEW N \in MemberMaps, Members(N) = Members(M), NEW L,
           NEW p, p.type = "status"
    PROVE  SendPacketToAll(Sees(state, M, L), N, p) = Sees(state, M, Hear(L, p))
  <1> SUFFICES ASSUME NEW c \in Client
               PROVE  (IF c \in Members(N) /\ state[c] = "live"
                       THEN Read(Sees(state, M, L)[c], p) ELSE Sees(state, M, L)[c]) =
                      Sees(state, M, Hear(L, p))[c]
      BY DEF SendPacketToAll, Send, Sees
  <1>1. CASE M[c] # NoMember /\ state[c] = "live"
    <2> DEFINE v == [inside |-> TRUE, list |-> L]
    <2>1. Sees(state, M, L)[c] = v /\ c \in Members(N)
        BY <1>1 DEF Sees, Members
    <2>2. Read(v, p) = [inside |-> TRUE, list |-> Hear(L, p)]
        BY DEF Read
    <2> QED BY <1>1, <2>1, <2>2 DEF Sees
  <1>2. CASE ~ (M[c] # NoMember /\ state[c] = "live")
      BY <1>2 DEF Sees, Members
  <1> QED BY <1>1, <1>2

(* The views depend only on who is inside. *)
LEMMA SameInside ==
    ASSUME NEW M \in MemberMaps, NEW N \in MemberMaps, Members(N) = Members(M), NEW S, NEW L
    PROVE  Sees(S, N, L) = Sees(S, M, L)
  BY DEF Sees, Members

(* A member that changes stays one. *)
LEMMA Stays ==
    ASSUME RosterAssumption, NEW M \in MemberMaps, NEW c \in Members(M), NEW x \in Member
    PROVE  Members(Changed(M, c, x)) = Members(M)
  BY DEF Changed, RosterAssumption, MemberMaps, Members

(* All see the room of M. *)
Seen(M) == Sees(state, M, Entries(M))

(* Member::setNick: all see the room with the nick that c now has. *)
LEMMA SetNickSeen ==
    ASSUME RosterAssumption, NEW M \in MemberMaps, DistinctIds(M), NEW c \in Members(M),
           NEW nick \in Nick \cup {NoNick}, nick # M[c].nick
    PROVE  SetNick(Seen(M), M, c, nick) = Seen(Changed(M, c, [M[c] EXCEPT !.nick = nick]))
  <1> DEFINE m == [M[c] EXCEPT !.nick = nick]
             N == Changed(M, c, m)
             p == IF M[c].nick = NoNick THEN PacketStatus(m, m.status)
                  ELSE IF nick = NoNick THEN [PacketStatus(m, "offline") EXCEPT !.name = M[c].nick]
                  ELSE PacketStatus(m, "nick_change")
  <1>1. c \in Client /\ M[c] \in Member
      BY DEF MemberMaps, Members
  <1>2. /\ m \in Member /\ m.nick = nick
        /\ m.id = M[c].id /\ m.status = M[c].status /\ m.look = M[c].look
      BY <1>1 DEF Member
  <1>3. SetNick(Seen(M), M, c, nick) = SendPacketToAll(Seen(M), N, p)
      BY DEF SetNick, Changed
  <1> HIDE DEF m
  <1>4. /\ N \in MemberMaps /\ Members(N) = Members(M)
        /\ Entries(N) = Others(M, c) \cup (IF nick # NoNick THEN {EntryOf(m)} ELSE {})
    <2>1. m # NoMember
        BY <1>2 DEF RosterAssumption
    <2> QED BY <1>1, <1>2, <2>1, EntriesChange, Stays
  <1>5. p.type = "status" /\ p.id = M[c].id
      BY <1>2 DEF PacketStatus
  <1>6. Hear(Entries(M), p) = Entries(N)
    <2>1. CASE M[c].nick = NoNick
      <3>1. p = PacketStatus(m, m.status) /\ nick # NoNick
          BY <2>1
      <3>2. m.status \in {"online", "away", "orphan"}
          BY <1>2 DEF Member
      <3> HIDE DEF N, p
      <3>3. /\ p.status = m.status
            /\ [id |-> p.id, name |-> p.name, status |-> m.status, look |-> p.look] = EntryOf(m)
          BY <3>1 DEF PacketStatus, EntryOf
      <3>4. Hear(Entries(M), p) = Others(M, c) \cup {EntryOf(m)}
          BY <1>5, <3>2, <3>3, HearWhole
      <3> QED BY <1>4, <3>1, <3>4
    <2>2. CASE M[c].nick # NoNick /\ nick = NoNick
      <3>1. p.status = "offline"
          BY <2>2 DEF PacketStatus
      <3> HIDE DEF N, p
      <3> QED BY <1>4, <1>5, <2>2, <3>1, HearFarewell
    <2>3. CASE M[c].nick # NoNick /\ nick # NoNick
      <3>1. p = PacketStatus(m, "nick_change")
          BY <2>3
      <3> HIDE DEF N, p
      <3>2. /\ p.status = "nick_change" /\ p.name = nick /\ p.look = M[c].look
            /\ [id |-> p.id, name |-> p.name, status |-> M[c].status, look |-> p.look] = EntryOf(m)
          BY <1>2, <3>1 DEF PacketStatus, EntryOf
      <3>3. p.name \in Nick /\ p.look \in Look
          BY <1>1, <2>3, <3>2 DEF Member
      <3>4. Hear(Entries(M), p) = Others(M, c) \cup {EntryOf(m)}
          BY <1>5, <2>3, <3>2, <3>3, HearChange
      <3> QED BY <1>4, <2>3, <3>4
    <2> QED BY <2>1, <2>2, <2>3
  <1> HIDE DEF N, p
  <1>7. SendPacketToAll(Seen(M), N, p) = Sees(state, M, Entries(N))
    <2>1. SendPacketToAll(Seen(M), N, p) = Sees(state, M, Hear(Entries(M), p))
        BY <1>4, <1>5, AllHear DEF Seen
    <2> QED BY <1>6, <2>1
  <1>8. Sees(state, M, Entries(N)) = Seen(N)
      BY <1>4, SameInside DEF Seen
  <1>9. N = Changed(M, c, [M[c] EXCEPT !.nick = nick])
      BY DEF N, m
  <1> QED BY <1>3, <1>7, <1>8, <1>9

(* The change of a member that a status tells of. *)
Tells(status, old, new) ==
    \/ status = "look_change" /\ new.status = old.status
    \/ status \in {"away", "orphan"} /\ new.status = status /\ new.look = old.look
    \/ status = "back" /\ new.status = "online" /\ new.look = old.look
    \/ status = "typing" /\ new = old

(* A broadcast: all see the room with the member as it now is. *)
LEMMA BroadcastSeen ==
    ASSUME RosterAssumption, NEW M \in MemberMaps, DistinctIds(M), NEW c \in Members(M),
           NEW m \in Member, m.id = M[c].id, m.nick = M[c].nick,
           NEW status, Tells(status, M[c], m)
    PROVE  Broadcast(Seen(M), Changed(M, c, m), c, status) = Seen(Changed(M, c, m))
  <1> DEFINE N == Changed(M, c, m)
             p == PacketStatus(m, status)
  <1>1. c \in Client /\ M[c] \in Member /\ m # NoMember
      BY DEF MemberMaps, Members, RosterAssumption
  <1>2. /\ N \in MemberMaps /\ Members(N) = Members(M) /\ N[c] = m
        /\ Entries(N) = Others(M, c) \cup (IF m.nick # NoNick THEN {EntryOf(m)} ELSE {})
      BY <1>1, EntriesChange, Stays
  <1> HIDE DEF N
  <1>3. Sees(state, M, Entries(N)) = Seen(N)
      BY <1>2, SameInside DEF Seen
  <1>4. CASE m.nick = NoNick
    <2>1. Entries(N) = Entries(M)
        BY <1>1, <1>2, <1>4, EntriesSplit
    <2>2. Broadcast(Seen(M), N, c, status) = Seen(M)
        BY <1>2, <1>4 DEF Broadcast
    <2> QED BY <1>3, <2>1, <2>2 DEF Seen, N
  <1>5. CASE m.nick # NoNick
    <2>1. Broadcast(Seen(M), N, c, status) = SendPacketToAll(Seen(M), N, p)
        BY <1>2, <1>5 DEF Broadcast
    <2>2. /\ p.type = "status" /\ p.id = M[c].id /\ p.name = m.nick /\ p.look = m.look
          /\ p.status = status
          /\ [id |-> p.id, name |-> p.name, status |-> m.status, look |-> p.look] = EntryOf(m)
        BY DEF PacketStatus, EntryOf
    <2> HIDE DEF p
    <2>3. Hear(Entries(M), p) = Others(M, c) \cup {EntryOf(m)}
      <3>1. CASE status = "look_change" /\ m.status = M[c].status
        <4>1. p.name \in Nick /\ p.look \in Look
            BY <1>5, <2>2 DEF Member
        <4> QED BY <1>5, <2>2, <3>1, <4>1, HearChange
      <3>2. CASE status \in {"away", "orphan"} /\ m.status = status
          BY <2>2, <3>2, HearWhole
      <3>3. CASE status = "back" /\ m.status = "online"
          BY <2>2, <3>3, HearWhole
      <3>4. CASE status = "typing" /\ m = M[c]
        <4>1. Hear(Entries(M), p) = Entries(M)
            BY <2>2, <3>4 DEF Hear
        <4> QED BY <1>1, <1>5, <3>4, <4>1, EntriesSplit
      <3> QED BY <3>1, <3>2, <3>3, <3>4 DEF Tells
    <2>4. SendPacketToAll(Seen(M), N, p) = Sees(state, M, Entries(N))
        BY <1>2, <1>5, <2>2, <2>3, AllHear DEF Seen
    <2> QED BY <1>3, <2>1, <2>4 DEF N
  <1> QED BY <1>4, <1>5

(* A farewell: all still see the room, but not the member. *)
LEMMA FarewellSeen ==
    ASSUME NEW M \in MemberMaps, DistinctIds(M), NEW c \in Members(M)
    PROVE  Broadcast(Seen(M), M, c, "offline") = Sees(state, M, Others(M, c))
  <1> DEFINE p == PacketStatus(M[c], "offline")
  <1>1. c \in Client
      BY DEF Members
  <1>2. CASE M[c].nick = NoNick
    <2>1. Entries(M) = Others(M, c)
        BY <1>1, <1>2, EntriesSplit
    <2> QED BY <1>2, <2>1 DEF Broadcast, Seen
  <1>3. CASE M[c].nick # NoNick
    <2>1. Broadcast(Seen(M), M, c, "offline") = SendPacketToAll(Seen(M), M, p)
        BY <1>3 DEF Broadcast
    <2>2. p.type = "status" /\ p.status = "offline" /\ p.id = M[c].id
        BY DEF PacketStatus
    <2> HIDE DEF p
    <2>3. Hear(Entries(M), p) = Others(M, c)
        BY <2>2, HearFarewell
    <2> QED BY <2>1, <2>2, <2>3, AllHear DEF Seen
  <1> QED BY <1>2, <1>3

-----------------------------------------------------------------------------
(* The inductive invariant.                                                *)

(* Who is where, and that ids are not drawn twice. *)
Places ==
    /\ state \in [Client -> {"free", "live", "orphan"}]
    /\ member \in MemberMaps
    /\ nextMemberId \in 0..MaxId
    /\ \A c \in Client : state[c] = "free" => member[c] = NoMember
    /\ DistinctIds(member)
    /\ \A c \in Members(member) : member[c].id <= nextMemberId

IInv == Places /\ view = Seen(member)

(* A member that changes or leaves draws no id. *)
LEMMA IdsStay ==
    ASSUME NEW M \in MemberMaps, DistinctIds(M), NEW n, \A d \in Members(M) : M[d].id <= n,
           NEW c \in Client, NEW x \in Member \cup {NoMember},
           x = NoMember \/ (c \in Members(M) /\ x.id = M[c].id)
    PROVE  LET N == Changed(M, c, x) IN
           /\ N \in MemberMaps /\ DistinctIds(N)
           /\ \A d \in Members(N) : N[d].id <= n
  <1> DEFINE N == Changed(M, c, x)
  <1>1. N \in MemberMaps /\ N[c] = x /\ \A d \in Client \ {c} : N[d] = M[d]
      BY DEF MemberMaps, Changed
  <1> HIDE DEF N
  <1>2. \A d \in Members(N) : d \in Members(M) /\ N[d].id = M[d].id
      BY <1>1 DEF Members
  <1>3. DistinctIds(N) /\ \A d \in Members(N) : N[d].id <= n
      BY <1>2 DEF DistinctIds
  <1> QED BY <1>1, <1>3 DEF N

-----------------------------------------------------------------------------
(* The operations.                                                         *)

(* At first nobody is in the room, and no peer believes anything.          *)
LEMMA InitKeeps ==
    ASSUME RosterAssumption, Init
    PROVE  IInv
  <1>1. Members(member) = {}
      BY DEF Init, Members
  <1>2. Places
      BY <1>1 DEF Init, Places, MemberMaps, DistinctIds, RosterAssumption
  <1>3. view = Seen(member)
      BY DEF Init, Seen, Sees
  <1> QED BY <1>2, <1>3 DEF IInv

(* A new session is in no room.                                            *)
LEMMA ConnectKeeps ==
    ASSUME IInv, NEW c \in Client, Connect(c)
    PROVE  IInv'
  <1>1. Places'
      BY DEF IInv, Places, Connect
  <1>2. Sees(state', member', Entries(member)) = Sees(state, member, Entries(member))
      BY DEF IInv, Places, Connect, Sees
  <1>3. view' = Sees(state', member', Entries(member'))
      BY <1>2 DEF IInv, Seen, Connect
  <1> QED BY <1>1, <1>3 DEF IInv, Seen

(* A change of nick, color, gender or status: the places of a step that    *)
(* changes one member and whatever the peers are sent.                     *)
LEMMA ChangedPlaces ==
    ASSUME RosterAssumption, Places, NEW c \in Members(member),
           NEW m \in Member, m.id = member[c].id,
           member' = Changed(member, c, m), UNCHANGED <<state, nextMemberId>>
    PROVE  Places'
  <1>1. c \in Client
      BY DEF Members
  <1>2. member' \in MemberMaps /\ DistinctIds(member') /\ \A d \in Members(member') : member'[d].id <= nextMemberId
      BY <1>1, IdsStay DEF Places
  <1>3. \A d \in Client : state'[d] = "free" => member'[d] = NoMember
      BY <1>1 DEF Places, Members, Changed, MemberMaps
  <1> QED BY <1>2, <1>3 DEF Places

(* The command nick: Room::setNick and what it tells, to the member and to *)
(* the others.                                                             *)
LEMMA ChangeNickKeeps ==
    ASSUME RosterAssumption, IInv, NEW c \in Client, NEW nick \in Nick \cup {NoNick}, ChangeNick(c, nick)
    PROVE  IInv'
  <1> DEFINE m == [member[c] EXCEPT !.nick = nick]
  <1>1. c \in Members(member) /\ member[c] \in Member /\ member \in MemberMaps /\ DistinctIds(member)
      BY DEF ChangeNick, Inside, Members, IInv, Places, MemberMaps
  <1>2. m \in Member /\ m.id = member[c].id
      BY <1>1 DEF Member
  <1>3. member' = Changed(member, c, m)
      BY DEF ChangeNick, Changed
  <1>4. view' = SetNick(Seen(member), member, c, nick) /\ nick # member[c].nick
      BY DEF ChangeNick, IInv
  <1>5. SetNick(Seen(member), member, c, nick) = Seen(Changed(member, c, m))
      BY <1>1, <1>4, SetNickSeen
  <1> HIDE DEF m
  <1>6. view' = Seen(member')
      BY <1>3, <1>4, <1>5
  <1>7. view' = Sees(state', member', Entries(member'))
      BY <1>6 DEF Seen, ChangeNick
  <1>8. Places'
      BY <1>1, <1>2, <1>3, ChangedPlaces DEF IInv, ChangeNick
  <1> QED BY <1>7, <1>8 DEF IInv, Seen

(* The commands gender and color, for a member with a nick and one         *)
(* without.                                                                *)
LEMMA ChangeLookKeeps ==
    ASSUME RosterAssumption, IInv, NEW c \in Client, NEW look \in Look, ChangeLook(c, look)
    PROVE  IInv'
  <1> DEFINE m == [member[c] EXCEPT !.look = look]
             p == PacketStatus(m, "look_change")
  <1>1. /\ c \in Members(member) /\ state[c] = "live"
        /\ member[c] \in Member /\ member \in MemberMaps /\ DistinctIds(member)
      BY DEF ChangeLook, Inside, Members, IInv, Places, MemberMaps
  <1>2. /\ m \in Member /\ m.id = member[c].id /\ m.nick = member[c].nick
        /\ m.status = member[c].status
      BY <1>1 DEF Member
  <1>3. member' = Changed(member, c, m) /\ member'[c] = m
      BY <1>1 DEF ChangeLook, Changed, MemberMaps
  <1> HIDE DEF m
  <1>4. view' = Seen(member')
    <2>1. CASE member[c].nick # NoNick
      <3>1. view' = Broadcast(Seen(member), Changed(member, c, m), c, "look_change")
          BY <1>3, <2>1 DEF ChangeLook, IInv
      <3>2. Tells("look_change", member[c], m)
          BY <1>2 DEF Tells
      <3> QED BY <1>1, <1>2, <1>3, <3>1, <3>2, BroadcastSeen
    <2>2. CASE member[c].nick = NoNick
      <3>1. view' = Send(Seen(member), {c}, p)
          BY <1>3, <2>2 DEF ChangeLook, IInv
      <3>2. p.type = "status" /\ p.status = "look_change" /\ p.id = member[c].id
          BY <1>2 DEF PacketStatus
      <3> HIDE DEF p
      <3>3. Hear(Entries(member), p) = Others(member, c)
          BY <1>1, <2>2, <3>2, HearChange
      <3>4. /\ Entries(member) = Others(member, c) /\ Entries(member') = Others(member, c)
            /\ Members(member') = Members(member) /\ member' \in MemberMaps
        <4>1. c \in Client /\ m # NoMember
            BY <1>1, <1>2 DEF Members, RosterAssumption
        <4>2. Entries(member) = Others(member, c)
            BY <1>1, <2>2, <4>1, EntriesSplit
        <4>3. Entries(member') = Others(member, c) /\ member' \in MemberMaps
          <5>1. /\ Entries(Changed(member, c, m)) = Others(member, c) \cup
                      (IF m # NoMember /\ m.nick # NoNick THEN {EntryOf(m)} ELSE {})
                /\ Changed(member, c, m) \in MemberMaps
              BY <1>1, <1>2, <4>1, EntriesChange
          <5> QED BY <1>2, <1>3, <2>2, <5>1
        <4>4. Members(member') = Members(member)
            BY <1>1, <1>2, <1>3, Stays
        <4> QED BY <4>2, <4>3, <4>4
      <3>5. Read(Seen(member)[c], p) = Seen(member)[c]
        <4>1. Seen(member)[c] = [inside |-> TRUE, list |-> Entries(member)]
            BY <1>1 DEF Seen, Sees, Members
        <4>2. Read([inside |-> TRUE, list |-> Entries(member)], p) =
                [inside |-> TRUE, list |-> Hear(Entries(member), p)]
            BY <3>2, ReadStatus
        <4> QED BY <3>3, <3>4, <4>1, <4>2
      <3>6. Send(Seen(member), {c}, p) = Seen(member)
          BY <3>5 DEF Send, Seen, Sees
      <3>7. Sees(state, member', Entries(member)) = Seen(member)
          BY <1>1, <3>4, SameInside DEF Seen
      <3> QED BY <3>1, <3>4, <3>6, <3>7 DEF Seen
    <2> QED BY <2>1, <2>2
  <1>5. view' = Sees(state', member', Entries(member'))
      BY <1>4 DEF Seen, ChangeLook
  <1>6. Places'
      BY <1>1, <1>2, <1>3, ChangedPlaces DEF IInv, ChangeLook
  <1> QED BY <1>5, <1>6 DEF IInv, Seen

(* PacketStatus: away and back.                                            *)
LEMMA ChangeStatusKeeps ==
    ASSUME RosterAssumption, IInv, NEW c \in Client, NEW status \in {"away", "back", "typing"},
           ChangeStatus(c, status)
    PROVE  IInv'
  <1> DEFINE s == CASE status = "away" -> "away" [] status = "back" -> "online"
                    [] status = "typing" -> member[c].status
             m == [member[c] EXCEPT !.status = s]
  <1>1. /\ c \in Members(member)
        /\ member[c] \in Member /\ member \in MemberMaps /\ DistinctIds(member)
      BY DEF ChangeStatus, Inside, Members, IInv, Places, MemberMaps
  <1>2. s \in {"online", "away", "orphan"}
      BY <1>1 DEF Member
  <1>3. member' = Changed(member, c, m)
      BY DEF ChangeStatus, Changed
  <1>4. Tells(status, member[c], m) /\ m \in Member /\ m.id = member[c].id /\ m.nick = member[c].nick
    <2>1. /\ status = "away" => s = "away"
          /\ status = "back" => s = "online"
          /\ status = "typing" => s = member[c].status
        OBVIOUS
    <2> HIDE DEF s
    <2>2. /\ m \in Member /\ m.id = member[c].id /\ m.nick = member[c].nick
          /\ m.look = member[c].look /\ m.status = s
        BY <1>1, <1>2 DEF Member
    <2> HIDE DEF m
    <2>3. status = "typing" => m = member[c]
        BY <1>1, <2>1, <2>2 DEF Member
    <2> QED BY <2>1, <2>2, <2>3 DEF Tells
  <1> HIDE DEF m
  <1>5. view' = Seen(member')
    <2>1. view' = Broadcast(Seen(member), Changed(member, c, m), c, status)
        BY <1>3 DEF ChangeStatus, IInv
    <2> QED BY <1>1, <1>3, <1>4, <2>1, BroadcastSeen
  <1>6. view' = Sees(state', member', Entries(member'))
      BY <1>5 DEF Seen, ChangeStatus
  <1>7. Places'
      BY <1>1, <1>3, <1>4, ChangedPlaces DEF IInv, ChangeStatus
  <1> QED BY <1>6, <1>7 DEF IInv, Seen

(* PacketJoin: the answer and the list show the room with the new member. *)
LEMMA AnswerSeen ==
    ASSUME NEW M \in MemberMaps, NEW N \in MemberMaps, NEW c \in Client, state[c] = "live",
           Members(N) = Members(M) \cup {c}, Entries(N) = Entries(M)
    PROVE  Send(Send(Seen(M), {c}, [type |-> "join"]), {c}, PacketOnlineList(N)) = Seen(N)
  <1> DEFINE p == PacketOnlineList(N)
             v == Send(Seen(M), {c}, [type |-> "join"])
  <1>1. p.type = "online_list" /\ p.list = Entries(N)
      BY DEF PacketOnlineList, Entries
  <1>2. v[c] = [inside |-> TRUE, list |-> {}]
      BY DEF Send, Read
  <1>3. \A d \in Client \ {c} : v[d] = Seen(M)[d]
      BY DEF Send
  <1> HIDE DEF p, v
  <1>4. Read(v[c], p) = [inside |-> TRUE, list |-> Entries(N)]
      BY <1>1, <1>2, ReadList
  <1>5. Read(v[c], p) = Seen(N)[c]
      BY <1>4 DEF Seen, Sees, Members
  <1>6. \A d \in Client \ {c} : v[d] = Seen(N)[d]
      BY <1>3 DEF Seen, Sees, Members
  <1>7. Send(v, {c}, p) = Seen(N)
      BY <1>5, <1>6 DEF Send, Seen, Sees
  <1> QED BY <1>7 DEF v, p

(* PacketJoin: the newcomer is given the list, the others his entry.       *)
LEMMA JoinKeeps ==
    ASSUME RosterAssumption, IInv, NEW c \in Client, NEW nick \in Nick \cup {NoNick}, NEW look \in Look,
           Join(c, nick, look)
    PROVE  IInv'
  <1> DEFINE new == [id |-> nextMemberId + 1, nick |-> NoNick, status |-> "online", look |-> look]
             M == Changed(member, c, new)
             m == [new EXCEPT !.nick = nick]
             answered == Send(Send(view, {c}, [type |-> "join"]), {c}, PacketOnlineList(M))
  <1>1. /\ state[c] = "live" /\ member[c] = NoMember /\ nextMemberId \in 0..MaxId
        /\ nextMemberId < MaxId /\ MaxId \in Nat /\ member \in MemberMaps /\ DistinctIds(member)
        /\ \A d \in Members(member) : member[d].id <= nextMemberId
        /\ NoMember \notin Member
      BY DEF Join, IInv, Places, RosterAssumption
  <1>2. /\ new \in Member /\ new.nick = NoNick /\ new # NoMember
        /\ m \in Member /\ m.id = nextMemberId + 1
      BY <1>1 DEF Member
  <1>3. /\ view' = IF nick = NoNick THEN answered ELSE SetNick(answered, M, c, nick)
        /\ member' = [M EXCEPT ![c].nick = nick]
        /\ nextMemberId' = nextMemberId + 1 /\ state' = state
      BY DEF Join, Changed
  <1>4. M[c] = new /\ member' = Changed(M, c, m)
      BY <1>1, <1>3 DEF Changed, MemberMaps
  <1>5. M \in MemberMaps /\ Entries(M) = Entries(member)
    <2> HIDE DEF new
    <2>1. /\ M \in MemberMaps
          /\ Entries(M) = Others(member, c) \cup
               (IF new # NoMember /\ new.nick # NoNick THEN {EntryOf(new)} ELSE {})
        BY <1>1, <1>2, EntriesChange
    <2> HIDE DEF M
    <2>2. Entries(member) = Others(member, c)
        BY <1>1, EntriesSplit
    <2> QED BY <1>2, <2>1, <2>2
  <1>6. \A d \in Client \ {c} : M[d] = member[d]
      BY <1>1 DEF Changed, MemberMaps
  <1>7. /\ M[c].id = nextMemberId + 1 /\ M[c].nick = NoNick /\ M[c] # NoMember
        /\ [M[c] EXCEPT !.nick = nick] = m
    <2>1. new.id = nextMemberId + 1
        OBVIOUS
    <2> QED BY <1>2, <1>4, <2>1
  <1> HIDE DEF m, new, M
  <1>8. Members(M) = Members(member) \cup {c}
      BY <1>1, <1>6, <1>7 DEF Members
  <1>9. answered = Seen(M)
      BY <1>1, <1>5, <1>8, AnswerSeen DEF IInv
  <1>10. DistinctIds(M) /\ \A d \in Members(M) : M[d].id <= nextMemberId + 1
    <2>1. \A d \in Members(member) : M[d].id = member[d].id /\ member[d].id \in Nat
        BY <1>1, <1>6 DEF Members, MemberMaps, Member
    <2> QED BY <1>1, <1>7, <1>8, <2>1 DEF DistinctIds
  <1>11. view' = Seen(member')
    <2>1. CASE nick = NoNick
      <3>1. m = M[c]
          BY <1>2, <1>4, <1>7, <2>1 DEF m, Member
      <3>2. member' = M
          BY <1>4, <1>5, <3>1 DEF Changed, MemberMaps
      <3> QED BY <1>3, <1>9, <2>1, <3>2
    <2>2. CASE nick # NoNick
      <3>1. SetNick(Seen(M), M, c, nick) = Seen(Changed(M, c, m))
          BY <1>5, <1>7, <1>8, <1>10, <2>2, SetNickSeen
      <3> QED BY <1>3, <1>4, <1>9, <2>2, <3>1
    <2> QED BY <2>1, <2>2
  <1>12. view' = Sees(state', member', Entries(member'))
      BY <1>3, <1>11 DEF Seen
  <1>13. /\ member' \in MemberMaps /\ DistinctIds(member')
         /\ \A d \in Members(member') : member'[d].id <= nextMemberId'
    <2>1. c \in Members(M) /\ m \in Member \cup {NoMember} /\ m.id = M[c].id
        BY <1>2, <1>7, <1>8
    <2>2. /\ Changed(M, c, m) \in MemberMaps /\ DistinctIds(Changed(M, c, m))
          /\ \A d \in Members(Changed(M, c, m)) : Changed(M, c, m)[d].id <= nextMemberId + 1
        BY <1>5, <1>10, <2>1, IdsStay
    <2> QED BY <1>3, <1>4, <2>2
  <1>14. \A d \in Client : state'[d] = "free" => member'[d] = NoMember
      BY <1>1, <1>3, <1>4, <1>5, <1>6 DEF IInv, Places, Changed, MemberMaps
  <1>15. nextMemberId' \in 0..MaxId
      BY <1>1, <1>3
  <1>16. state' \in [Client -> {"free", "live", "orphan"}]
      BY <1>3 DEF IInv, Places
  <1>17. Places'
      BY <1>13, <1>14, <1>15, <1>16 DEF Places
  <1> QED BY <1>12, <1>17 DEF IInv, Seen

(* PacketOnlineList: the list again, which is what the peer believes       *)
(* already.                                                                *)
LEMMA AskListKeeps ==
    ASSUME IInv, NEW c \in Client, AskList(c)
    PROVE  IInv'
  <1> DEFINE p == PacketOnlineList(member)
  <1>1. view' = Send(Seen(member), {c}, p)
      BY DEF AskList, IInv
  <1>2. Seen(member)[c] = [inside |-> TRUE, list |-> Entries(member)]
      BY DEF AskList, Inside, Seen, Sees
  <1>3. p.type = "online_list" /\ p.list = Entries(member)
      BY DEF PacketOnlineList, Entries
  <1> HIDE DEF p
  <1>4. Read(Seen(member)[c], p) = Seen(member)[c]
      BY <1>2, <1>3, ReadList
  <1>5. view' = Seen(member)
      BY <1>1, <1>4 DEF Send, Seen, Sees
  <1>6. view' = Sees(state', member', Entries(member'))
      BY <1>5 DEF Seen, AskList
  <1>7. Places'
      BY DEF IInv, Places, AskList
  <1> QED BY <1>6, <1>7 DEF IInv, Seen

(* Someone leaves: the places of a step that ends one membership. *)
LEMMA LeftPlaces ==
    ASSUME Places, NEW c \in Client, member' = Changed(member, c, NoMember)
    PROVE  /\ member' \in MemberMaps /\ DistinctIds(member')
           /\ \A d \in Members(member') : member'[d].id <= nextMemberId
           /\ member'[c] = NoMember /\ \A d \in Client \ {c} : member'[d] = member[d]
           /\ Entries(member') = Others(member, c)
  <1>1. member \in MemberMaps /\ DistinctIds(member) /\ \A d \in Members(member) : member[d].id <= nextMemberId
      BY DEF Places
  <1>2. /\ member' \in MemberMaps /\ DistinctIds(member')
        /\ \A d \in Members(member') : member'[d].id <= nextMemberId
      BY <1>1, IdsStay
  <1>3. member'[c] = NoMember /\ \A d \in Client \ {c} : member'[d] = member[d]
      BY <1>1 DEF Changed, MemberMaps
  <1>4. Entries(member') = Others(member', c)
      BY <1>2, <1>3, EntriesSplit
  <1>5. Others(member', c) = Others(member, c)
      BY <1>1, OthersStay
  <1> QED BY <1>2, <1>3, <1>4, <1>5

(* Room::removeMember and kickMember: the others hear of it, the peer is   *)
(* outside.                                                                *)
LEMMA RemoveKeeps ==
    ASSUME IInv, NEW c \in Client, Remove(c)
    PROVE  IInv'
  <1>1. c \in Members(member) /\ member \in MemberMaps /\ DistinctIds(member)
      BY DEF Remove, Members, IInv, Places
  <1>2. member' = Changed(member, c, NoMember) /\ UNCHANGED <<state, nextMemberId>>
      BY DEF Remove, Changed
  <1>3. view' = Send(Sees(state, member, Others(member, c)), {c}, [type |-> "leave"])
      BY <1>1, FarewellSeen DEF Remove, IInv
  <1>4. /\ member' \in MemberMaps /\ DistinctIds(member')
        /\ \A d \in Members(member') : member'[d].id <= nextMemberId
        /\ member'[c] = NoMember /\ \A d \in Client \ {c} : member'[d] = member[d]
        /\ Entries(member') = Others(member, c)
      BY <1>2, LeftPlaces DEF IInv
  <1>5. view' = Sees(state, member', Others(member, c))
    <2>1. \A v : Read(v, [type |-> "leave"]) = Outside
        BY DEF Read
    <2> QED BY <1>3, <1>4, <2>1 DEF Send, Sees
  <1>6. view' = Sees(state', member', Entries(member'))
      BY <1>2, <1>4, <1>5
  <1>7. Places'
      BY <1>2, <1>4 DEF IInv, Places
  <1> QED BY <1>6, <1>7 DEF IInv, Seen

(* Room::onDestroy: every peer is outside.                                 *)
LEMMA RemoveRoomKeeps ==
    ASSUME RosterAssumption, IInv, RemoveRoom
    PROVE  IInv'
  <1>1. Members(member') = {} /\ member' \in MemberMaps
      BY DEF RemoveRoom, Members, MemberMaps
  <1>2. view' = Sees(state', member', Entries(member'))
    <2>1. \A v : Read(v, [type |-> "leave"]) = Outside
        BY DEF Read
    <2> QED BY <2>1 DEF RemoveRoom, IInv, Send, Seen, Sees, Members
  <1>3. Places'
      BY <1>1 DEF IInv, Places, RemoveRoom, DistinctIds, RosterAssumption
  <1> QED BY <1>2, <1>3 DEF IInv, Seen

(* What a broadcast makes of a view does not depend on the other views. *)
LEMMA BroadcastLocal ==
    ASSUME NEW v, NEW w, NEW M, NEW c, NEW status, NEW d \in Client, v[d] = w[d]
    PROVE  Broadcast(v, M, c, status)[d] = Broadcast(w, M, c, status)[d]
  BY DEF Broadcast, SendPacketToAll, Send

(* Client::onDisconnect: the others are told that the peer is lost.        *)
LEMMA DisconnectKeeps ==
    ASSUME RosterAssumption, IInv, NEW c \in Client, Disconnect(c)
    PROVE  IInv'
  <1> DEFINE gone == [view EXCEPT ![c] = Outside]
  <1>1. /\ state[c] = "live" /\ state' = [state EXCEPT ![c] = "orphan"]
        /\ state' \in [Client -> {"free", "live", "orphan"}] /\ state'[c] = "orphan"
        /\ \A d \in Client \ {c} : state'[d] = state[d]
        /\ nextMemberId' = nextMemberId /\ nextMemberId \in 0..MaxId
        /\ member \in MemberMaps /\ DistinctIds(member)
        /\ \A d \in Members(member) : member[d].id <= nextMemberId
        /\ \A d \in Client : state[d] = "free" => member[d] = NoMember
      BY DEF Disconnect, IInv, Places
  <1>2. /\ gone \in [Client -> {view[d] : d \in Client} \cup {Outside}]
        /\ \A d \in Client \ {c} : gone[d] = Seen(member)[d]
        /\ gone[c] = Outside
      BY DEF IInv, Seen, Sees
  <1>3. CASE member[c] = NoMember
    <2>1. member' = member /\ view' = gone
        BY <1>3 DEF Disconnect
    <2>2. view' = Sees(state', member', Entries(member'))
        BY <1>1, <1>2, <1>3, <2>1 DEF Seen, Sees
    <2>3. Places'
        BY <1>1, <2>1 DEF Places
    <2> QED BY <2>2, <2>3 DEF IInv, Seen
  <1>4. CASE member[c] # NoMember
    <2> DEFINE m == [member[c] EXCEPT !.status = "orphan"]
               M == Changed(member, c, m)
               told == Broadcast(gone, M, c, "orphan")
    <2>1. member' = M /\ view' = [told EXCEPT ![c] = Outside]
        BY <1>4 DEF Disconnect, Changed
    <2>2. c \in Members(member) /\ member[c] \in Member
        BY <1>1, <1>4 DEF Members, MemberMaps
    <2>3. /\ m \in Member /\ m.id = member[c].id /\ m.nick = member[c].nick
          /\ m.status = "orphan" /\ m.look = member[c].look
        BY <2>2 DEF Member
    <2> HIDE DEF m
    <2>4. Broadcast(Seen(member), M, c, "orphan") = Seen(M)
      <3>1. Tells("orphan", member[c], m)
          BY <2>3 DEF Tells
      <3> QED BY <1>1, <2>2, <2>3, <3>1, BroadcastSeen
    <2>5. \A d \in Client \ {c} : told[d] = Seen(M)[d]
      <3> TAKE d \in Client \ {c}
      <3>1. d \in Client /\ gone[d] = Seen(member)[d]
          BY <1>2
      <3> HIDE DEF gone, M
      <3>2. Broadcast(gone, M, c, "orphan")[d] = Broadcast(Seen(member), M, c, "orphan")[d]
          BY <3>1, BroadcastLocal
      <3> QED BY <2>4, <3>2
    <2>6. \E V : told \in [Client -> V]
      <3>1. told \in [Client -> {told[d] : d \in Client}]
          BY <1>2 DEF Broadcast, SendPacketToAll, Send
      <3> QED BY <3>1
    <2>7. M \in MemberMaps /\ DistinctIds(M) /\ \A d \in Members(M) : M[d].id <= nextMemberId
        BY <1>1, <2>2, <2>3, IdsStay
    <2>8. \A d \in Client : state'[d] = "free" => M[d] = NoMember
        BY <1>1 DEF Changed, MemberMaps
    <2> HIDE DEF told, M
    <2>9. view' = Sees(state', member', Entries(member'))
        BY <1>1, <2>1, <2>5, <2>6 DEF Seen, Sees
    <2>10. Places'
        BY <1>1, <2>1, <2>7, <2>8 DEF Places
    <2> QED BY <2>9, <2>10 DEF IInv, Seen
  <1> QED BY <1>3, <1>4

(* Client::onRemove: all see the room without c. *)
LEMMA OnRemoveSeen ==
    ASSUME Places, NEW c \in Client
    PROVE  /\ OnRemove(Seen(member), c) = Sees(state, member, Entries(Without(c)))
           /\ Without(c) \in MemberMaps /\ DistinctIds(Without(c))
           /\ \A d \in Members(Without(c)) : Without(c)[d].id <= nextMemberId
           /\ Without(c)[c] = NoMember /\ \A d \in Client \ {c} : Without(c)[d] = member[d]
  <1> DEFINE W == Without(c)
  <1>1. /\ member \in MemberMaps /\ DistinctIds(member)
        /\ \A d \in Members(member) : member[d].id <= nextMemberId
      BY DEF Places
  <1>2. W = Changed(member, c, NoMember)
      BY DEF Without, Changed
  <1>3. W[c] = NoMember /\ \A d \in Client \ {c} : W[d] = member[d]
      BY <1>1, <1>2 DEF Changed, MemberMaps
  <1> HIDE DEF W
  <1>4. W \in MemberMaps /\ DistinctIds(W) /\ \A d \in Members(W) : W[d].id <= nextMemberId
      BY <1>1, <1>2, IdsStay
  <1>5. Entries(W) = Others(member, c)
    <2>1. Entries(W) = Others(W, c)
        BY <1>3, <1>4, EntriesSplit
    <2>2. Others(W, c) = Others(member, c)
        BY <1>1, <1>2, OthersStay
    <2> QED BY <2>1, <2>2
  <1>6. OnRemove(Seen(member), c) = Sees(state, member, Entries(W))
    <2>1. CASE member[c] = NoMember
      <3>1. Entries(member) = Others(member, c)
          BY <1>1, <2>1, EntriesSplit
      <3> QED BY <1>5, <2>1, <3>1 DEF OnRemove, Seen
    <2>2. CASE member[c] # NoMember
      <3>1. c \in Members(member)
          BY <2>2 DEF Members
      <3> QED BY <1>1, <1>5, <2>2, <3>1, FarewellSeen DEF OnRemove
    <2> QED BY <2>1, <2>2
  <1> QED BY <1>3, <1>4, <1>6 DEF W

(* Client::onRemove: the session leaves the room.                          *)
LEMMA EndKeeps ==
    ASSUME IInv, NEW c \in Client, End(c)
    PROVE  IInv'
  <1>1. /\ OnRemove(view, c) = Sees(state, member, Entries(Without(c)))
        /\ Without(c) \in MemberMaps /\ DistinctIds(Without(c))
        /\ \A d \in Members(Without(c)) : Without(c)[d].id <= nextMemberId
        /\ Without(c)[c] = NoMember /\ \A d \in Client \ {c} : Without(c)[d] = member[d]
      BY OnRemoveSeen DEF IInv
  <1>2. /\ member' = Without(c) /\ nextMemberId' = nextMemberId
        /\ view' = [OnRemove(view, c) EXCEPT ![c] = Outside]
        /\ state' = [state EXCEPT ![c] = "free"]
      BY DEF End
  <1>3. /\ state' \in [Client -> {"free", "live", "orphan"}] /\ state'[c] = "free"
        /\ \A d \in Client \ {c} : state'[d] = state[d]
        /\ nextMemberId \in 0..MaxId
        /\ \A d \in Client : state[d] = "free" => member[d] = NoMember
      BY <1>2 DEF IInv, Places
  <1>4. view' = Sees(state', member', Entries(member'))
    <2> DEFINE W == Without(c)
               seen == Sees(state, member, Entries(W))
    <2>1. view' = [seen EXCEPT ![c] = Outside] /\ member' = W
        BY <1>1, <1>2
    <2>2. W[c] = NoMember /\ \A d \in Client \ {c} : W[d] = member[d]
        BY <1>1
    <2> HIDE DEF W
    <2> QED BY <1>3, <2>1, <2>2 DEF Sees
  <1>5. Places'
      BY <1>1, <1>2, <1>3 DEF Places
  <1> QED BY <1>4, <1>5 DEF IInv, Seen

(* The session cur is left behind: those that stay see the room without    *)
(* it, and what its connection has read so far is of no room.              *)
LEMMA LeftBehind ==
    ASSUME IInv, NEW cur \in Client, state[cur] = "live"
    PROVE  LET left == OnRemove(Send(view, {cur}, [type |-> "auth"]), cur) IN
           /\ left[cur] = Outside
           /\ \A d \in Client \ {cur} : left[d] = Sees(state, member, Entries(Without(cur)))[d]
           /\ left = [d \in Client |-> left[d]]
  <1> DEFINE v == Send(view, {cur}, [type |-> "auth"])
             left == OnRemove(v, cur)
             claim == /\ left[cur] = Outside
                      /\ \A d \in Client \ {cur} : left[d] = Sees(state, member, Entries(Without(cur)))[d]
                      /\ left = [d \in Client |-> left[d]]
  <1>1. v = [d \in Client |-> v[d]] /\ v[cur] = Outside /\ \A d \in Client \ {cur} : v[d] = Seen(member)[d]
      BY DEF Send, Read, IInv
  <1>2. OnRemove(Seen(member), cur) = Sees(state, member, Entries(Without(cur)))
      BY OnRemoveSeen DEF IInv
  <1> HIDE DEF v
  <1>3. ASSUME member[cur] = NoMember PROVE claim
    <2>1. left = v /\ OnRemove(Seen(member), cur) = Seen(member)
        BY <1>3 DEF OnRemove
    <2> QED BY <1>1, <1>2, <2>1
  <1>4. ASSUME member[cur] # NoMember PROVE claim
    <2>1. /\ left = Broadcast(v, member, cur, "offline")
          /\ OnRemove(Seen(member), cur) = Broadcast(Seen(member), member, cur, "offline")
        BY <1>4 DEF OnRemove
    <2>2. left[cur] = Outside
      <3>1. CASE member[cur].nick = NoNick
          BY <1>1, <2>1, <3>1 DEF Broadcast
      <3>2. CASE member[cur].nick # NoNick
        <4> DEFINE p == PacketStatus(member[cur], "offline")
        <4>1. p.type = "status"
            BY DEF PacketStatus
        <4>2. left = SendPacketToAll(v, member, p)
            BY <2>1, <3>2 DEF Broadcast
        <4> HIDE DEF p
        <4>3. Read(Outside, p) = Outside
            BY <4>1, ReadStatus
        <4> QED BY <1>1, <4>2, <4>3 DEF SendPacketToAll, Send
      <3> QED BY <3>1, <3>2
    <2>3. left = [d \in Client |-> left[d]]
        BY <1>1, <2>1 DEF Broadcast, SendPacketToAll, Send
    <2>4. \A d \in Client \ {cur} : left[d] = Sees(state, member, Entries(Without(cur)))[d]
      <3> TAKE d \in Client \ {cur}
      <3>1. v[d] = Seen(member)[d]
          BY <1>1
      <3>2. Broadcast(v, member, cur, "offline")[d] = Broadcast(Seen(member), member, cur, "offline")[d]
          BY <3>1, BroadcastLocal
      <3> QED BY <1>2, <2>1, <3>2
    <2> QED BY <2>2, <2>3, <2>4
  <1>5. claim
      BY <1>3, <1>4
  <1> QED BY <1>5 DEF v

(* Client::onRevive: tgt is shown its room anew, and the others hear that  *)
(* it is back, when all but tgt see the room W in which it is waited for.  *)
LEMMA RevivedSeen ==
    ASSUME RosterAssumption, NEW W \in MemberMaps, DistinctIds(W), NEW tgt \in Members(W),
           NEW m \in Member, m.id = W[tgt].id, m.nick = W[tgt].nick, m.look = W[tgt].look,
           m.status = "online",
           NEW v, v = [d \in Client |-> v[d]], v[tgt] = Outside,
           NEW S, S[tgt] = "live", \A d \in Members(W) \ {tgt} : S[d] = state[d],
           \A d \in Client \ {tgt} : v[d] = Sees(S, W, Entries(W))[d]
    PROVE  LET M == Changed(W, tgt, m) IN Revived(v, M, tgt) = Sees(S, M, Entries(M))
  <1> DEFINE M == Changed(W, tgt, m)
             listed == Read(Read(v[tgt], [type |-> "join"]), PacketOnlineList(M))
             all == [d \in Client |-> IF d = tgt THEN listed ELSE v[d]]
             p == PacketStatus(M[tgt], "back")
  <1>1. tgt \in Client /\ m # NoMember
      BY DEF Members, RosterAssumption
  <1>2. /\ M \in MemberMaps /\ Members(M) = Members(W) /\ M[tgt] = m
        /\ Entries(M) = Others(W, tgt) \cup (IF m.nick # NoNick THEN {EntryOf(m)} ELSE {})
    <2>1. /\ M \in MemberMaps /\ M[tgt] = m
          /\ Entries(M) = Others(W, tgt) \cup
               (IF m # NoMember /\ m.nick # NoNick THEN {EntryOf(m)} ELSE {})
        BY <1>1, EntriesChange
    <2>2. Members(M) = Members(W)
        BY Stays
    <2> QED BY <1>1, <2>1, <2>2
  <1>3. DistinctIds(M)
      BY <1>1, <1>2 DEF DistinctIds, Changed, Members, MemberMaps
  <1>4. Others(M, tgt) = Others(W, tgt)
      BY <1>1, OthersStay
  <1> HIDE DEF M
  <1>5. listed = [inside |-> TRUE, list |-> Entries(M)]
    <2>1. Read(v[tgt], [type |-> "join"]) = [inside |-> TRUE, list |-> {}]
        BY DEF Read
    <2>2. PacketOnlineList(M).type = "online_list"
        BY DEF PacketOnlineList
    <2>3. PacketOnlineList(M).list = Entries(M)
        BY DEF Entries
    <2> QED BY <2>1, <2>2, <2>3, ReadList
  <1>6. CASE m.nick = NoNick
    <2>1. Revived(v, M, tgt) = all
        BY <1>1, <1>2, <1>6 DEF Revived
    <2>2. Entries(M) = Entries(W)
        BY <1>1, <1>2, <1>6, EntriesSplit
    <2> HIDE DEF listed
    <2>3. \A d \in Client : all[d] = Sees(S, M, Entries(M))[d]
      <3> TAKE d \in Client
      <3>1. CASE d = tgt
          BY <1>1, <1>2, <1>5, <3>1 DEF Sees
      <3>2. CASE d # tgt
          BY <1>2, <2>2, <3>2 DEF Sees, Members
      <3> QED BY <3>1, <3>2
    <2> QED BY <2>1, <2>3 DEF Sees, M
  <1>7. CASE m.nick # NoNick
    <2> DEFINE heard == Send(all, Members(M) \ {tgt}, p)
    <2>1. Revived(v, M, tgt) = [heard EXCEPT ![tgt] = Read(listed, p)]
        BY <1>1, <1>2, <1>7 DEF Revived
    <2>2. /\ p.type = "status" /\ p.status = "back" /\ p.id = m.id
          /\ [id |-> p.id, name |-> p.name, status |-> "online", look |-> p.look] = EntryOf(m)
        BY <1>2 DEF PacketStatus, EntryOf
    <2> HIDE DEF p, listed
    <2>3. Hear(Entries(W), p) = Entries(M)
        BY <1>2, <1>7, <2>2, HearWhole
    <2>4. Hear(Entries(M), p) = Entries(M)
      <3>1. tgt \in Members(M) /\ p.id = M[tgt].id
          BY <1>2, <2>2
      <3>2. Hear(Entries(M), p) = Others(M, tgt) \cup {EntryOf(m)}
          BY <1>2, <1>3, <2>2, <3>1, HearWhole
      <3> QED BY <1>2, <1>4, <1>7, <3>2
    <2>5. Read(listed, p) = [inside |-> TRUE, list |-> Entries(M)]
        BY <1>5, <2>2, <2>4, ReadStatus
    <2>6. \A d \in Client \ {tgt} : heard[d] = Sees(S, M, Entries(M))[d]
      <3> TAKE d \in Client \ {tgt}
      <3>1. all[d] = Sees(S, W, Entries(W))[d]
          OBVIOUS
      <3>2. CASE d \in Members(M) /\ state[d] = "live"
        <4>1. heard[d] = Read(all[d], p)
            BY <3>2 DEF Send
        <4>2. S[d] = "live" /\ W[d] # NoMember /\ M[d] # NoMember
            BY <1>2, <3>2 DEF Members
        <4>3. all[d] = [inside |-> TRUE, list |-> Entries(W)]
            BY <3>1, <4>2 DEF Sees
        <4>4. heard[d] = [inside |-> TRUE, list |-> Entries(M)]
            BY <2>2, <2>3, <4>1, <4>3, ReadStatus
        <4> QED BY <4>2, <4>4 DEF Sees
      <3>3. CASE ~ (d \in Members(M) /\ state[d] = "live")
        <4>1. heard[d] = all[d]
            BY <3>3 DEF Send
        <4>2. ~ (S[d] = "live" /\ W[d] # NoMember) /\ ~ (S[d] = "live" /\ M[d] # NoMember)
            BY <1>2, <3>3 DEF Members
        <4>3. all[d] = Outside /\ Sees(S, M, Entries(M))[d] = Outside
            BY <3>1, <4>2 DEF Sees
        <4> QED BY <4>1, <4>3
      <3> QED BY <3>2, <3>3
    <2>7. heard = [d \in Client |-> heard[d]]
        BY DEF Send
    <2>8. Sees(S, M, Entries(M))[tgt] = [inside |-> TRUE, list |-> Entries(M)]
        BY <1>1, <1>2 DEF Sees
    <2> HIDE DEF heard
    <2>9. [heard EXCEPT ![tgt] = Read(listed, p)] = Sees(S, M, Entries(M))
      <3> DEFINE L == Entries(M)
      <3> HIDE DEF L
      <3>1. Sees(S, M, L) = [d \in Client |-> Sees(S, M, L)[d]]
          BY DEF Sees
      <3>2. \A d \in Client \ {tgt} : heard[d] = Sees(S, M, L)[d]
          BY <2>6 DEF L
      <3>3. Read(listed, p) = Sees(S, M, L)[tgt]
          BY <2>5, <2>8 DEF L
      <3>4. [heard EXCEPT ![tgt] = Read(listed, p)] = [d \in Client |-> Sees(S, M, L)[d]]
          BY <1>1, <2>7, <3>2, <3>3
      <3> QED BY <3>1, <3>4 DEF L
    <2> QED BY <2>1, <2>9 DEF M
  <1> QED BY <1>6, <1>7

(* PacketAuth with a token: the session that resumes leaves the room, and  *)
(* the resumed one is given the list and shown as back.                    *)
LEMMA ReviveKeeps ==
    ASSUME RosterAssumption, IInv, NEW cur \in Client, NEW tgt \in Client, Revive(cur, tgt)
    PROVE  IInv'
  <1> DEFINE left == OnRemove(Send(view, {cur}, [type |-> "auth"]), cur)
             passed == [left EXCEPT ![cur] = Outside, ![tgt] = left[cur]]
             W == Without(cur)
             M == IF member[tgt] = NoMember THEN W ELSE [W EXCEPT ![tgt].status = "online"]
  <1>1. /\ state[cur] = "live" /\ state[tgt] # "free" /\ cur # tgt
        /\ state' = [state EXCEPT ![cur] = "free", ![tgt] = "live"]
        /\ member' = M /\ view' = Revived(passed, M, tgt) /\ nextMemberId' = nextMemberId
      BY DEF Revive
  <1>2. /\ left[cur] = Outside
        /\ \A d \in Client \ {cur} : left[d] = Sees(state, member, Entries(W))[d]
        /\ left = [d \in Client |-> left[d]]
      BY <1>1, LeftBehind
  <1>3. /\ W \in MemberMaps /\ DistinctIds(W) /\ \A d \in Members(W) : W[d].id <= nextMemberId
        /\ W[cur] = NoMember /\ \A d \in Client \ {cur} : W[d] = member[d]
      BY OnRemoveSeen DEF IInv
  <1>4. /\ state' \in [Client -> {"free", "live", "orphan"}]
        /\ state'[cur] = "free" /\ state'[tgt] = "live"
        /\ \A d \in Client \ {cur, tgt} : state'[d] = state[d]
        /\ nextMemberId \in 0..MaxId
        /\ \A d \in Client : state[d] = "free" => member[d] = NoMember
      BY <1>1 DEF IInv, Places
  <1> HIDE DEF left, W
  <1>5. /\ passed = [d \in Client |-> passed[d]] /\ passed[tgt] = Outside /\ passed[cur] = Outside
        /\ \A d \in Client \ {cur, tgt} : passed[d] = Sees(state, member, Entries(W))[d]
    <2> SUFFICES ASSUME NEW V, left \in [Client -> V]
                 PROVE  /\ passed = [d \in Client |-> passed[d]]
                        /\ passed[tgt] = Outside /\ passed[cur] = Outside
                        /\ \A d \in Client \ {cur, tgt} : passed[d] = left[d]
      <3>1. left \in [Client -> {left[d] : d \in Client}]
          BY <1>2
      <3> QED BY <1>2, <3>1
    <2> QED BY <1>1, <1>2
  <1> HIDE DEF passed
  <1>6. \A d \in Client \ {tgt} : passed[d] = Sees(state', W, Entries(W))[d]
      BY <1>1, <1>3, <1>4, <1>5 DEF Sees
  <1>7. CASE member[tgt] = NoMember
    <2>1. member' = W /\ W[tgt] = NoMember
        BY <1>1, <1>3, <1>7
    <2>2. view' = passed
        BY <1>1, <2>1, <1>7 DEF Revived
    <2>3. view' = Sees(state', member', Entries(member'))
      <3>1. passed[tgt] = Sees(state', W, Entries(W))[tgt]
          BY <1>5, <2>1 DEF Sees
      <3> QED BY <1>5, <1>6, <2>1, <2>2, <3>1 DEF Sees
    <2>4. Places'
        BY <1>1, <1>3, <1>4, <2>1 DEF Places
    <2> QED BY <2>3, <2>4 DEF IInv, Seen
  <1>8. CASE member[tgt] # NoMember
    <2> DEFINE m == [W[tgt] EXCEPT !.status = "online"]
    <2>1. member' = Changed(W, tgt, m) /\ M = Changed(W, tgt, m)
        BY <1>1, <1>8 DEF Changed
    <2>2. tgt \in Members(W) /\ W[tgt] \in Member
        BY <1>1, <1>3, <1>8 DEF Members, MemberMaps
    <2>3. /\ m \in Member /\ m.id = W[tgt].id /\ m.nick = W[tgt].nick /\ m.look = W[tgt].look
          /\ m.status = "online"
        BY <2>2 DEF Member
    <2> HIDE DEF m, M
    <2>4. Revived(passed, Changed(W, tgt, m), tgt) =
            Sees(state', Changed(W, tgt, m), Entries(Changed(W, tgt, m)))
      <3>1. \A d \in Members(W) \ {tgt} : state'[d] = state[d]
          BY <1>3, <1>4 DEF Members
      <3> QED BY <1>3, <1>4, <1>5, <1>6, <2>2, <2>3, <3>1, RevivedSeen
    <2>5. view' = Sees(state', member', Entries(member'))
        BY <1>1, <2>1, <2>4
    <2>6. /\ member' \in MemberMaps /\ DistinctIds(member')
          /\ \A d \in Members(member') : member'[d].id <= nextMemberId
        BY <1>3, <2>1, <2>2, <2>3, IdsStay
    <2>7. \A d \in Client : state'[d] = "free" => member'[d] = NoMember
        BY <1>1, <1>3, <1>4, <2>1 DEF Changed, MemberMaps
    <2>8. Places'
        BY <1>1, <1>4, <2>6, <2>7 DEF Places
    <2> QED BY <2>5, <2>8 DEF IInv, Seen
  <1> QED BY <1>7, <1>8

-----------------------------------------------------------------------------
(* The theorems.                                                           *)

(* The invariant is inductive.                                             *)
LEMMA NextKeeps ==
    ASSUME RosterAssumption, IInv, [Next]_vars
    PROVE  IInv'
  <1>1. CASE RemoveRoom
      BY <1>1, RemoveRoomKeeps
  <1>2. CASE \E c \in Client : Connect(c) \/ AskList(c) \/ Remove(c) \/ Disconnect(c) \/ End(c)
      BY <1>2, ConnectKeeps, AskListKeeps, RemoveKeeps, DisconnectKeeps, EndKeeps
  <1>3. CASE \E c \in Client, n \in Nick \cup {NoNick} :
               ChangeNick(c, n) \/ \E l \in Look : Join(c, n, l)
      BY <1>3, ChangeNickKeeps, JoinKeeps
  <1>4. CASE \E c \in Client, l \in Look : ChangeLook(c, l)
      BY <1>4, ChangeLookKeeps
  <1>5. CASE \E c \in Client, s \in {"away", "back", "typing"} : ChangeStatus(c, s)
      BY <1>5, ChangeStatusKeeps
  <1>6. CASE \E c, d \in Client : Revive(c, d)
      BY <1>6, ReviveKeeps
  <1>7. CASE UNCHANGED vars
    <2>1. Places'
        BY <1>7 DEF IInv, Places, vars
    <2>2. view' = Sees(state', member', Entries(member'))
        BY <1>7 DEF IInv, Seen, vars
    <2> QED BY <2>1, <2>2 DEF IInv, Seen
  <1> QED BY <1>1, <1>2, <1>3, <1>4, <1>5, <1>6, <1>7 DEF Next

(* Every view is the room, exactly, and the ids of its members are told    *)
(* apart: what src/rooms.cpp, src/packets.cpp and src/client.cpp send      *)
(* keeps it so, one packet after the other.                                *)
THEOREM Invariant == RosterAssumption /\ Spec => []IInv
  <1> SUFFICES ASSUME RosterAssumption
               PROVE  Spec => []IInv
      OBVIOUS
  <1>1. Init => IInv
      BY InitKeeps
  <1>2. IInv /\ [Next]_vars => IInv'
      BY NextKeeps
  <1> QED BY <1>1, <1>2, PTL DEF Spec

(* The list of a room consists of entries.                                 *)
LEMMA EntriesTyped ==
    ASSUME NEW M \in MemberMaps
    PROVE  Entries(M) \subseteq Entry
  BY EntryTyped DEF Entries, PacketOnlineList, Listed, Members, EntryOf, MemberMaps

(* The variables of the roster keep their types, and a peer without a      *)
(* connection believes nothing.                                            *)
THEOREM TypesCorrect == RosterAssumption /\ Spec => []TypeOK
  <1>1. IInv => TypeOK
    <2> SUFFICES ASSUME IInv PROVE TypeOK
        OBVIOUS
    <2>1. view \in [Client -> [inside: BOOLEAN, list: SUBSET Entry]]
        BY EntriesTyped DEF IInv, Places, Seen, Sees, Outside
    <2>2. \A c \in Client : state[c] # "live" => view[c] = Outside
        BY DEF IInv, Seen, Sees
    <2> QED BY <2>1, <2>2 DEF IInv, Places, TypeOK, MemberMaps
  <1> QED BY <1>1, Invariant, PTL

(* RosterExact, for any clients, nicks and looks and any number of ids:    *)
(* what PacketJoin, PacketOnlineList, PacketStatus and PacketLeave tell a  *)
(* peer adds up to the members of the room.                                *)
THEOREM RosterExactHolds == RosterAssumption /\ Spec => []RosterExact
  <1>1. IInv => RosterExact
    <2> SUFFICES ASSUME IInv, NEW c \in Client, state[c] = "live"
                 PROVE  /\ view[c].inside = (member[c] # NoMember)
                        /\ view[c].inside => view[c].list = Entries(member)
        BY DEF RosterExact, Entries
    <2> QED BY DEF IInv, Seen, Sees, Outside
  <1> QED BY <1>1, Invariant, PTL

=============================================================================
