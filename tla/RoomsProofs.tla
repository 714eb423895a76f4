---------------------------- MODULE RoomsProofs ----------------------------
(***************************************************************************)
(* Proofs about Rooms: types, membership, names, ids, nicks and statuses,  *)
(* what a resumed session keeps and what a ban forbids, for any clients,   *)
(* addresses, rooms, accounts and limits.                                  *)
(***************************************************************************)
EXTENDS Rooms, FiniteSetTheorems, TLAPS

(* MembershipExact with no cardinality in it: rooms of clients are rooms   *)
(* of the server, Client::rooms and Room::members agree, no client is a    *)
(* member twice, and members exist.                                        *)
Membership ==
    /\ \A c \in Client : joined[c] \subseteq rooms
    /\ \A c \in Client, r \in Room :
          r \in joined[c] <=> \E m \in room[r].members : m.client = c
    /\ \A r \in Room : \A m, n \in room[r].members : m.client = n.client => m = n
    /\ \A r \in Room : \A m \in room[r].members : state[m.client] # "free"

IInv == TypeOK /\ Membership /\ NamesUnique /\ MembersDistinct /\ OrphansShown

-----------------------------------------------------------------------------
(* What the lookups return.                                                *)

(* Room::findMemberByClient of a client that has the room among its own:   *)
(* never null, the member of that client and the only one.                 *)
LEMMA FindMember ==
    ASSUME TypeOK, Membership, NEW c \in Client, NEW r \in joined[c],
           NEW m, m = FindMemberByClient(r, c)
    PROVE  /\ r \in Room
           /\ m \in room[r].members
           /\ m \in Member
           /\ m.client = c
           /\ \A n \in room[r].members : n.client = c => n = m
           /\ MembersOf(r, c) = {m}
  <1>1. r \in Room /\ room[r] \in RoomType
      BY DEF TypeOK
  <1>2. \E n \in room[r].members : n.client = c
      BY <1>1 DEF Membership
  <1>3. m \in room[r].members /\ m.client = c
      BY <1>2 DEF FindMemberByClient
  <1>4. m \in Member
      BY <1>1, <1>3 DEF RoomType
  <1>5. \A n \in room[r].members : n.client = c => n = m
      BY <1>1, <1>3 DEF Membership
  <1> QED BY <1>1, <1>3, <1>4, <1>5 DEF MembersOf

(* A nonempty set of natural numbers has a least element. *)
LEMMA Least ==
    ASSUME NEW S \in SUBSET Nat, S # {}
    PROVE  \E d \in S : \A e \in S : d <= e
  <1>1. PICK d \in S : \A e \in S : ~(<<e, d>> \in OpToRel(<, Nat))
      BY WFMin, NatLessThanWellFounded, Zenon
  <1>2. \A e \in S : ~(e < d)
      BY <1>1, Zenon DEF OpToRel
  <1> QED BY <1>2

(* An unsigned counter that wraps once is back at a distance. *)
LEMMA Wrap ==
    ASSUME NEW n \in Nat \ {0}, NEW x \in 0..(2 * n - 1)
    PROVE  x % n = IF x < n THEN x ELSE x - n
  <1>1. CASE x < n
      BY <1>1
  <1>2. CASE x >= n
      <2>1. x % n \in 0..(n - 1) /\ x = n * (x \div n) + (x % n) /\ x \div n \in Int
          OBVIOUS
      <2>2. x \div n >= 1 /\ x \div n <= 1
          BY <1>2, <2>1
      <2> QED BY <1>2, <2>1, <2>2
  <1> QED BY <1>1, <1>2

(* genNextMemberId for a client that is not in the room: there is an id to *)
(* find, because the members and the client together are no more than      *)
(* the clients, and what it finds is an id that is neither zero nor in     *)
(* use.                                                                    *)
LEMMA FreshId ==
    ASSUME TypeOK, Membership, NEW r \in Room, NEW c \in Client, r \notin joined[c]
    PROVE  /\ NextMemberId(r) \in 0..(IdWidth - 1)
           /\ NextMemberId(r) # 0
           /\ \A m \in room[r].members : m.id # NextMemberId(r)
  <1> DEFINE last == room[r].nextMemberId
             After(d) == (last + d) % IdWidth
             Free(d) == After(d) # 0 /\ \A m \in room[r].members : m.id # After(d)
             D == {d \in 1..IdWidth : Free(d)}
  <1>1. /\ IsFiniteSet(Client) /\ Cardinality(Client) \in Nat
        /\ IdWidth \in Nat /\ IdWidth > Cardinality(Client)
      BY RoomsAssumption, FS_CardinalityType
  <1>2. last \in 0..(IdWidth - 1) /\ room[r].members \subseteq Member
      BY DEF TypeOK, RoomType
  <1>3. IdWidth \in Nat \ {0}
      BY <1>1
  <1>4. \A d \in 1..IdWidth : After(d) \in 0..(IdWidth - 1)
      BY <1>2, <1>3
  <1>5. \A d, e \in 1..IdWidth : After(d) = After(e) => d = e
      <2> SUFFICES ASSUME NEW d \in 1..IdWidth, NEW e \in 1..IdWidth, After(d) = After(e)
                   PROVE  d = e
          OBVIOUS
      <2> DEFINE x == last + d
                 y == last + e
      <2>1. x \in 0..(2 * IdWidth - 1) /\ y \in 0..(2 * IdWidth - 1)
          BY <1>2, <1>3
      <2>2. /\ x % IdWidth = IF x < IdWidth THEN x ELSE x - IdWidth
            /\ y % IdWidth = IF y < IdWidth THEN y ELSE y - IdWidth
          BY <1>3, <2>1, Wrap
      <2> QED BY <1>2, <1>3, <2>1, <2>2
  <1>6. D # {}
      <2> SUFFICES ASSUME \A d \in 1..IdWidth : ~Free(d) PROVE FALSE
          BY Zenon
      <2> DEFINE holder(d) == CHOOSE m \in room[r].members : m.id = After(d)
                 f == [d \in 1..IdWidth |-> IF After(d) = 0 THEN c ELSE holder(d).client]
      <2>1. \A d \in 1..IdWidth : After(d) # 0 =>
                holder(d) \in room[r].members /\ holder(d).id = After(d)
          BY Zenon
      <2>2. \A d \in 1..IdWidth : After(d) # 0 => holder(d).client \in Client \ {c}
          BY <1>2, <2>1 DEF Membership, Member
      <2>3. f \in [1..IdWidth -> Client]
          BY <2>2
      <2>4. IsFiniteSet(1..IdWidth) /\ Cardinality(1..IdWidth) = IdWidth
          BY <1>3, FS_Interval
      <2>5. \E d, e \in 1..IdWidth : d # e /\ f[d] = f[e]
          <3> DEFINE S == 1..IdWidth
          <3> HIDE DEF f, S
          <3>1. f \in [S -> Client] /\ IsFiniteSet(S) /\ Cardinality(S) > Cardinality(Client)
              BY <1>1, <2>3, <2>4 DEF S
          <3>2. \E d, e \in S : d # e /\ f[d] = f[e]
              BY <1>1, <3>1, <2>4, FS_PigeonHole DEF S
          <3> QED BY <3>2 DEF S
      <2>6. PICK d, e \in 1..IdWidth : d # e /\ f[d] = f[e]
          BY <2>5
      <2>7. After(d) # 0 /\ After(e) # 0
          BY <1>5, <2>2, <2>6
      <2>8. holder(d) = holder(e)
          BY <2>1, <2>6, <2>7 DEF Membership
      <2>9. After(d) = After(e)
          BY <2>1, <2>7, <2>8
      <2> QED BY <1>5, <2>6, <2>9
  <1>7. PICK steps \in D : \A e \in D : steps <= e
      <2>1. D \in SUBSET Nat
          BY <1>3
      <2> HIDE DEF D
      <2> QED BY <1>6, <2>1, Least
  <1>8. \E d \in 1..IdWidth : Free(d) /\ \A e \in 1..(d - 1) : ~Free(e)
      BY <1>3, <1>7
  <1> DEFINE found == CHOOSE d \in 1..IdWidth : Free(d) /\ \A e \in 1..(d - 1) : ~Free(e)
  <1>9. found \in 1..IdWidth /\ Free(found)
      BY <1>8
  <1>10. NextMemberId(r) = After(found)
      BY Zenon DEF NextMemberId
  <1> HIDE DEF found
  <1> QED BY <1>4, <1>9, <1>10

(* removeMember of a member: the others stay as they are, and the room     *)
(* forbids what it forbade.                                                *)
LEMMA Removed ==
    ASSUME TypeOK, Membership, NEW c \in Client, NEW r \in joined[c]
    PROVE  /\ RemoveMember(r, c) \in RoomType
           /\ RemoveMember(r, c).members = {n \in room[r].members : n.client # c}
           /\ RemoveMember(r, c).bannedNicks = room[r].bannedNicks
  <1> DEFINE m == FindMemberByClient(r, c)
  <1>1. /\ r \in Room /\ m \in room[r].members /\ m \in Member /\ m.client = c
        /\ \A n \in room[r].members : n.client = c => n = m
      BY FindMember
  <1> HIDE DEF m
  <1>2. room[r] \in RoomType /\ uid[c] \in Uid /\ m.nick \in Nick \cup {NoNick}
      BY <1>1 DEF TypeOK, Member
  <1> DEFINE info == room[r].membersInfo
             remembered == IF uid[c] = Guest THEN info ELSE [info EXCEPT ![uid[c]] = m.nick]
             left == room[r].members \ {m}
  <1>3. remembered \in [Uid -> Nick \cup {NoNick, NoInfo}]
      BY <1>2 DEF RoomType
  <1>4. left \in SUBSET Member
      BY <1>2 DEF RoomType
  <1>5. RemoveMember(r, c) = [room[r] EXCEPT !.membersInfo = remembered, !.members = left]
      BY DEF RemoveMember, m
  <1>6. left = {n \in room[r].members : n.client # c}
      BY <1>1
  <1> HIDE DEF remembered, left
  <1> QED BY <1>2, <1>3, <1>4, <1>5, <1>6 DEF RoomType

(* setStatus of a member: it keeps its id and its nick, and the others     *)
(* stay as they are.                                                       *)
LEMMA StatusSet ==
    ASSUME TypeOK, Membership, NEW c \in Client, NEW r \in joined[c], NEW status \in Status,
           NEW m, m = FindMemberByClient(r, c)
    PROVE  /\ SetStatus(r, c, status) \in RoomType
           /\ SetStatus(r, c, status).members =
                 {n \in room[r].members : n.client # c} \cup {[m EXCEPT !.status = status]}
           /\ SetStatus(r, c, status).bannedNicks = room[r].bannedNicks
  <1>1. /\ r \in Room /\ m \in room[r].members /\ m \in Member /\ m.client = c
        /\ \A n \in room[r].members : n.client = c => n = m
      BY FindMember
  <1>2. room[r] \in RoomType /\ [m EXCEPT !.status = status] \in Member
      BY <1>1 DEF TypeOK, Member
  <1> DEFINE after == (room[r].members \ {m}) \cup {[m EXCEPT !.status = status]}
  <1>3. after \in SUBSET Member
      BY <1>2 DEF RoomType
  <1>4. SetStatus(r, c, status) = [room[r] EXCEPT !.members = after]
      BY DEF SetStatus
  <1>5. after =
          {n \in room[r].members : n.client # c} \cup {[m EXCEPT !.status = status]}
      BY <1>1
  <1> HIDE DEF after
  <1> QED BY <1>2, <1>3, <1>4, <1>5 DEF RoomType

-----------------------------------------------------------------------------
(* Most steps only take members away, or say something else of them.       *)

(* Such a step leaves the rooms of the server, and every member was one    *)
(* before, with the id and the nick it has; the clients know where they    *)
(* still are, and the members that are left are shown as their sessions    *)
(* are.                                                                    *)
Carried ==
    /\ rooms' = rooms
    /\ \A r \in Room : \A n \in room'[r].members : \E m \in room[r].members :
          n.client = m.client /\ n.id = m.id /\ n.nick = m.nick
    /\ \A r \in Room : \A m, n \in room'[r].members : m.client = n.client => m = n
    /\ \A c \in Client : joined'[c] \subseteq joined[c]
    /\ \A c \in Client, r \in Room :
          r \in joined'[c] <=> \E m \in room'[r].members : m.client = c
    /\ \A r \in Room : \A m \in room'[r].members :
          /\ state'[m.client] # "free"
          /\ m.status = "orphan" <=> state'[m.client] = "orphan"

(* A step that carries the members over keeps the invariant if it keeps    *)
(* the types.                                                              *)
LEMMA CarriedKeeps == IInv /\ TypeOK' /\ Carried => IInv'
  <1> SUFFICES ASSUME IInv, TypeOK', Carried PROVE IInv'
      OBVIOUS
  <1>1. Membership'
      BY DEF IInv, Carried, Membership
  <1>2. NamesUnique'
      BY DEF IInv, Carried, NamesUnique
  <1>3. MembersDistinct'
      <2> SUFFICES ASSUME NEW r \in Room, NEW m \in room'[r].members, NEW n \in room'[r].members
                   PROVE  /\ m.id # 0
                          /\ m.id = n.id => m = n
                          /\ m.nick = n.nick /\ m.nick # NoNick => m = n
          BY DEF MembersDistinct
      <2>1. PICK p \in room[r].members : m.client = p.client /\ m.id = p.id /\ m.nick = p.nick
          BY DEF Carried
      <2>2. PICK q \in room[r].members : n.client = q.client /\ n.id = q.id /\ n.nick = q.nick
          BY DEF Carried
      <2>3. m.client = n.client => m = n
          BY DEF Carried
      <2> QED BY <2>1, <2>2, <2>3 DEF IInv, MembersDistinct
  <1>4. OrphansShown'
      BY DEF Carried, OrphansShown
  <1> QED BY <1>1, <1>2, <1>3, <1>4 DEF IInv

(* A step that leaves members, rooms and the sessions of members alone     *)
(* carries them over.                                                      *)
LEMMA StillCarries ==
    ASSUME IInv, UNCHANGED <<joined, rooms>>,
           \A r \in Room : room'[r].members = room[r].members,
           \A c \in Client : joined[c] # {} => state'[c] = state[c]
    PROVE  Carried
  <1>1. \A r \in Room : \A m \in room[r].members :
            m.client \in Client /\ state'[m.client] = state[m.client]
      BY DEF IInv, TypeOK, RoomType, Member, Membership
  <1> QED BY <1>1 DEF IInv, Carried, Membership, OrphansShown

(* What PlacesKept says of a step. *)
PlacesStep ==
    state' # state =>
        \A c \in Client : state[c] # "free" /\ state'[c] # "free" =>
            /\ joined'[c] = joined[c]
            /\ uid'[c] = uid[c]
            /\ \A r \in joined[c] : \A m \in MembersOf(r, c) :
                  \E n \in MembersOf(r, c)' : n.id = m.id /\ n.nick = m.nick

(* No room forbids more nicks than before. *)
NoNewBans == \A r \in Room : room'[r].bannedNicks \subseteq room[r].bannedNicks

(* Client::onRemove of a session that ends: nobody else is touched. *)
LEMMA OnRemoveCarries ==
    ASSUME IInv, Session!SessionsTypeOK', NEW c \in Client, OnRemove(c), UNCHANGED rooms,
           \A d \in Client \ {c} : joined[d] # {} => state'[d] = state[d]
    PROVE  /\ TypeOK' /\ Carried /\ NoNewBans
           /\ \A d \in Client \ {c} :
                 /\ joined'[d] = joined[d] /\ uid'[d] = uid[d]
                 /\ \A r \in joined[d] : MembersOf(r, d)' = MembersOf(r, d)
  <1> USE DEF IInv
  <1>1. /\ joined' \in [Client -> SUBSET Room] /\ joined'[c] = {}
        /\ uid' \in [Client -> Uid]
        /\ \A d \in Client \ {c} : joined'[d] = joined[d] /\ uid'[d] = uid[d]
      BY RoomsAssumption DEF TypeOK, OnRemove
  <1>2. \A r \in Room :
            /\ room'[r] \in RoomType
            /\ room'[r].members = {n \in room[r].members : n.client # c}
            /\ room'[r].bannedNicks = room[r].bannedNicks
      <2> SUFFICES ASSUME NEW r \in Room
                   PROVE  /\ room'[r] \in RoomType
                          /\ room'[r].members = {n \in room[r].members : n.client # c}
                          /\ room'[r].bannedNicks = room[r].bannedNicks
          OBVIOUS
      <2>1. CASE r \in joined[c]
          BY <2>1, Removed DEF OnRemove
      <2>2. CASE r \notin joined[c]
          <3>1. room'[r] = room[r] /\ room[r] \in RoomType
              BY <2>2 DEF OnRemove, TypeOK
          <3>2. \A n \in room[r].members : n.client # c
              BY <2>2 DEF Membership
          <3> QED BY <3>1, <3>2
      <2> QED BY <2>1, <2>2
  <1>3. TypeOK'
      BY <1>1, <1>2 DEF TypeOK, OnRemove
  <1>4. \A r \in Room : \A m \in room'[r].members :
            /\ m \in room[r].members /\ m.client \in Client \ {c}
            /\ state'[m.client] = state[m.client]
      BY <1>2 DEF TypeOK, RoomType, Member, Membership
  <1>5. Carried
      BY <1>1, <1>2, <1>4 DEF Carried, Membership, OrphansShown
  <1>6. \A d \in Client \ {c} : \A r \in joined[d] : MembersOf(r, d)' = MembersOf(r, d)
      BY <1>2 DEF MembersOf, TypeOK
  <1> QED BY <1>1, <1>2, <1>3, <1>5, <1>6 DEF NoNewBans

(* A connection, with and without an eviction: the new session is in no    *)
(* room yet.                                                               *)
LEMMA ConnectCarries ==
    ASSUME IInv, NEW c \in Client, NEW ip \in Ip, Connect(c, ip)
    PROVE  TypeOK' /\ Carried /\ NoNewBans /\ PlacesStep
  <1> USE DEF IInv
  <1>1. joined[c] = {}
      BY DEF Connect, Session!Admit, Membership, TypeOK
  <1>2. TypeOK'
      BY DEF Connect, Session!Admit, TypeOK, Session!SessionsTypeOK
  <1>3. \A d \in Client : d # c => state'[d] = state[d]
      BY DEF Connect, Session!Admit, TypeOK, Session!SessionsTypeOK
  <1>4. Carried
      BY <1>1, <1>3, StillCarries DEF Connect
  <1>5. PlacesStep
      BY DEF Connect, Session!Admit, PlacesStep, MembersOf
  <1> QED BY <1>2, <1>4, <1>5 DEF NoNewBans, Connect

(* on_open with the eviction of an orphan: Client::onRemove takes that one *)
(* out of its rooms and nobody else.                                       *)
LEMMA ConnectEvictingCarries ==
    ASSUME IInv, NEW c \in Client, NEW o \in Client, NEW ip \in Ip, ConnectEvicting(c, o, ip)
    PROVE  TypeOK' /\ Carried /\ NoNewBans /\ PlacesStep
  <1> USE DEF IInv
  <1>1. state[c] = "free" /\ state[o] # "free" /\ o # c
      BY DEF ConnectEvicting, Session!AdmitEvicting, Session!From
  <1>2. joined[c] = {}
      BY <1>1 DEF Membership, TypeOK
  <1>3. /\ Session!SessionsTypeOK' /\ state'[o] = "free"
        /\ \A d \in Client \ {c, o} : state'[d] = state[d]
      BY <1>1 DEF ConnectEvicting, Session!AdmitEvicting, TypeOK, Session!SessionsTypeOK
  <1>4. /\ TypeOK' /\ Carried /\ NoNewBans
        /\ \A d \in Client \ {o} :
              /\ joined'[d] = joined[d] /\ uid'[d] = uid[d]
              /\ \A r \in joined[d] : MembersOf(r, d)' = MembersOf(r, d)
      BY <1>2, <1>3, OnRemoveCarries DEF ConnectEvicting
  <1>5. PlacesStep
      BY <1>3, <1>4 DEF PlacesStep
  <1> QED BY <1>4, <1>5

(* The end of a session. *)
LEMMA RemoveCarries ==
    ASSUME IInv, NEW c \in Client, Remove(c)
    PROVE  TypeOK' /\ Carried /\ NoNewBans /\ PlacesStep
  <1> USE DEF IInv
  <1>1. /\ Session!SessionsTypeOK' /\ state'[c] = "free"
        /\ \A d \in Client \ {c} : state'[d] = state[d]
      BY DEF Remove, Session!End, TypeOK, Session!SessionsTypeOK
  <1>2. /\ TypeOK' /\ Carried /\ NoNewBans
        /\ \A d \in Client \ {c} :
              /\ joined'[d] = joined[d] /\ uid'[d] = uid[d]
              /\ \A r \in joined[d] : MembersOf(r, d)' = MembersOf(r, d)
      BY <1>1, OnRemoveCarries DEF Remove
  <1>3. PlacesStep
      BY <1>1, <1>2 DEF PlacesStep
  <1> QED BY <1>2, <1>3

(* Client::onDisconnect: the lost session is shown as an orphan wherever   *)
(* it is a member.                                                         *)
LEMMA DisconnectCarries ==
    ASSUME IInv, NEW c \in Client, Disconnect(c)
    PROVE  TypeOK' /\ Carried /\ NoNewBans /\ PlacesStep
  <1> USE DEF IInv
  <1> DEFINE m(r) == FindMemberByClient(r, c)
             shown(r) == [m(r) EXCEPT !.status = "orphan"]
  <1>1. /\ Session!SessionsTypeOK' /\ state'[c] = "orphan"
        /\ \A d \in Client \ {c} : state'[d] = state[d]
      BY DEF Disconnect, Session!Disconnect, TypeOK, Session!SessionsTypeOK
  <1>2. UNCHANGED <<joined, rooms, uid>>
      BY DEF Disconnect, OnDisconnect
  <1>3. \A r \in joined[c] :
            /\ m(r) \in room[r].members /\ m(r) \in Member /\ m(r).client = c
            /\ room'[r] \in RoomType
            /\ room'[r].members = {n \in room[r].members : n.client # c} \cup {shown(r)}
            /\ room'[r].bannedNicks = room[r].bannedNicks
      BY FindMember, StatusSet DEF Disconnect, OnDisconnect, Status
  <1>4. \A r \in Room \ joined[c] :
            /\ room'[r] = room[r] /\ room[r] \in RoomType
            /\ \A n \in room[r].members : n.client # c
      BY DEF Disconnect, OnDisconnect, TypeOK, Membership
  <1> HIDE DEF m
  <1>5. \A r \in joined[c] :
            /\ shown(r).client = c /\ shown(r).id = m(r).id /\ shown(r).nick = m(r).nick
            /\ shown(r).status = "orphan"
      BY <1>3 DEF Member
  <1> HIDE DEF shown
  <1>6. TypeOK'
      BY <1>1, <1>2, <1>3, <1>4 DEF TypeOK, Disconnect, OnDisconnect
  <1>7. \A r \in Room : \A n \in room'[r].members :
            \/ n \in room[r].members /\ n.client \in Client \ {c}
            \/ n = shown(r) /\ r \in joined[c]
      BY <1>3, <1>4 DEF TypeOK, RoomType, Member
  <1>8. Carried
      BY <1>1, <1>2, <1>3, <1>4, <1>5, <1>7 DEF Carried, Membership, OrphansShown
  <1>9. PlacesStep
      BY <1>2, <1>3, <1>4, <1>5 DEF PlacesStep, MembersOf, Membership, TypeOK
  <1> QED BY <1>3, <1>4, <1>6, <1>8, <1>9 DEF NoNewBans

(* reviveClient: the resuming session leaves its rooms, the resumed one is *)
(* online in all of its own, also in those that both were in.              *)
LEMMA ReviveCarries ==
    ASSUME IInv, NEW cur \in Client, NEW tgt \in Client, Revive(cur, tgt)
    PROVE  TypeOK' /\ Carried /\ NoNewBans /\ PlacesStep
  <1> USE DEF IInv
  <1> DEFINE m(r) == FindMemberByClient(r, tgt)
             shown(r) == [m(r) EXCEPT !.status = "online"]
             Left(r) == IF r \in joined[cur] THEN RemoveMember(r, cur) ELSE room[r]
             after(r) == (Left(r).members \ {m(r)}) \cup {shown(r)}
  <1>1. /\ cur # tgt /\ Session!SessionsTypeOK'
        /\ state'[tgt] = "live" /\ state'[cur] = "free"
        /\ \A d \in Client \ {cur, tgt} : state'[d] = state[d]
      BY DEF Revive, Session!Resume, TypeOK, Session!SessionsTypeOK
  <1>2. /\ joined' \in [Client -> SUBSET Room] /\ joined'[cur] = {}
        /\ uid' \in [Client -> Uid] /\ rooms' = rooms
        /\ \A d \in Client \ {cur} : joined'[d] = joined[d] /\ uid'[d] = uid[d]
      BY RoomsAssumption DEF Revive, TypeOK
  <1>3. \A r \in Room :
            /\ Left(r) \in RoomType
            /\ Left(r).members = {n \in room[r].members : n.client # cur}
            /\ Left(r).bannedNicks = room[r].bannedNicks
      BY Removed DEF TypeOK, Membership
  <1>4. \A r \in joined[tgt] :
            /\ m(r) \in room[r].members /\ m(r) \in Member /\ m(r).client = tgt
            /\ \A n \in room[r].members : n.client = tgt => n = m(r)
      BY FindMember
  <1>5. room' = [r \in Room |->
                    IF r \in joined[tgt] THEN [Left(r) EXCEPT !.members = after(r)] ELSE Left(r)]
      BY Zenon DEF Revive
  <1> HIDE DEF m, Left
  <1>6. \A r \in joined[tgt] :
            /\ shown(r) \in Member /\ shown(r).client = tgt
            /\ shown(r).id = m(r).id /\ shown(r).nick = m(r).nick
            /\ shown(r).status = "online"
      BY <1>4 DEF Member, Status
  <1> HIDE DEF shown
  <1>7. \A r \in joined[tgt] :
            after(r) = {n \in room[r].members : n.client \notin {cur, tgt}} \cup {shown(r)}
      BY <1>1, <1>3, <1>4 DEF TypeOK
  <1>8. \A r \in joined[tgt] : r \in Room /\ after(r) \in SUBSET Member
      BY <1>6, <1>7 DEF TypeOK, RoomType
  <1> HIDE DEF after
  <1>9. \A r \in joined[tgt] :
            /\ room'[r] \in RoomType
            /\ room'[r].members = after(r)
            /\ room'[r].bannedNicks = room[r].bannedNicks
      BY <1>3, <1>5, <1>8 DEF RoomType
  <1>10. \A r \in Room \ joined[tgt] :
            /\ room'[r] = Left(r)
            /\ \A n \in room[r].members : n.client # tgt
      BY <1>5 DEF Membership
  <1>11. TypeOK' /\ NoNewBans
      <2>1. \A r \in Room : room'[r] \in RoomType
          BY <1>3, <1>9, <1>10
      <2> QED BY <1>1, <1>2, <1>3, <1>5, <1>9, <1>10, <2>1 DEF TypeOK, NoNewBans
  <1>12. \A r \in Room : \A n \in room'[r].members :
            \/ n \in room[r].members /\ n.client \in Client \ {cur, tgt}
            \/ n = shown(r) /\ r \in joined[tgt]
      BY <1>3, <1>7, <1>9, <1>10 DEF TypeOK, RoomType, Member
  <1>13. \A r \in Room : \A n \in room[r].members :
            n.client \notin {cur, tgt} => n \in room'[r].members
      BY <1>3, <1>7, <1>9, <1>10
  <1>14. \A r \in joined[tgt] : shown(r) \in room'[r].members
      BY <1>7, <1>9
  <1>15. Carried
      <2>1. \A r \in Room : \A n \in room'[r].members : \E p \in room[r].members :
                n.client = p.client /\ n.id = p.id /\ n.nick = p.nick
          BY <1>4, <1>6, <1>12
      <2>2. \A r \in Room : \A p, q \in room'[r].members : p.client = q.client => p = q
          BY <1>6, <1>12 DEF Membership
      <2>3. \A c \in Client, r \in Room :
                r \in joined'[c] <=> \E p \in room'[r].members : p.client = c
          BY <1>1, <1>2, <1>6, <1>12, <1>13, <1>14 DEF Membership
      <2>4. \A r \in Room : \A p \in room'[r].members :
                /\ state'[p.client] # "free"
                /\ p.status = "orphan" <=> state'[p.client] = "orphan"
          BY <1>1, <1>6, <1>12 DEF Membership, OrphansShown
      <2> QED BY <1>1, <1>2, <2>1, <2>2, <2>3, <2>4 DEF Carried
  <1>16. PlacesStep
      BY <1>1, <1>2, <1>4, <1>6, <1>13, <1>14 DEF PlacesStep, MembersOf, TypeOK
  <1> QED BY <1>11, <1>15, <1>16

(* A room with one of its lists changed is a room with the same members;   *)
(* so is one whose counter of member ids has moved.                        *)
Relisted(R, S) ==
    /\ S \in RoomType
    /\ S.members = R.members
    /\ S.bannedNicks \subseteq R.bannedNicks

(* A list of a room is changed, or an id is drawn: members and nicks stay, *)
(* and no nick is banned.                                                  *)
LEMMA ListsChange ==
    ASSUME NEW R \in RoomType
    PROVE  /\ \A L \in SUBSET Uid : Relisted(R, [R EXCEPT !.bannedUids = L])
           /\ \A L \in SUBSET Uid : Relisted(R, [R EXCEPT !.moderators = L])
           /\ \A L \in SUBSET Ip : Relisted(R, [R EXCEPT !.bannedIps = L])
           /\ \A L \in SUBSET R.bannedNicks : Relisted(R, [R EXCEPT !.bannedNicks = L])
           /\ \A id \in 0..(IdWidth - 1) : Relisted(R, [R EXCEPT !.nextMemberId = id])
  BY DEF Relisted, RoomType

(* A packet or a command that leaves members, rooms and sessions alone: a  *)
(* login, a join that is refused, the lists of accounts and addresses, the *)
(* moderators, and the end of a nick's ban.                                *)
Aside(c) ==
    \/ \E u \in Uid : Auth(c, u)
    \/ \E r \in Room :
          \/ JoinRefused(c, r)
          \/ \E u \in Uid : \/ BanUid(c, r, u) \/ UnbanUid(c, r, u)
                            \/ AddModer(c, r, u) \/ DelModer(c, r, u)
          \/ \E ip \in Ip : BanIp(c, r, ip) \/ UnbanIp(c, r, ip)
          \/ \E n \in Nick : UnbanNick(c, r, n)

(* A member id that is drawn for a refused join is one that fits.          *)
LEMMA AsideCarries ==
    ASSUME IInv, NEW c \in Client, Aside(c)
    PROVE  TypeOK' /\ Carried /\ NoNewBans /\ UNCHANGED state
  <1> USE DEF IInv, sessionVars
  <1>1. ASSUME NEW r \in Room, JoinRefused(c, r)
        PROVE  NextMemberId(r) \in 0..(IdWidth - 1)
      <2>1. r \notin joined[c]
          BY <1>1 DEF JoinRefused, CanAskToJoin, Named
      <2> QED BY <2>1, FreshId
  <1>2. /\ UNCHANGED <<state, from, joined, rooms>>
        /\ uid' \in [Client -> Uid]
        /\ \/ UNCHANGED room
           \/ \E r \in Room, S \in RoomType :
                 Relisted(room[r], S) /\ room' = [room EXCEPT ![r] = S]
      <2>1. CASE \E u \in Uid : Auth(c, u)
          BY <2>1 DEF Auth, TypeOK
      <2>2. ASSUME NEW r \in Room, JoinRefused(c, r)
            PROVE  <1>2!:
          BY <1>1, <2>2, ListsChange DEF JoinRefused, TypeOK, Relisted
      <2>3. ASSUME NEW r \in Room, NEW u \in Uid, BanUid(c, r, u) \/ UnbanUid(c, r, u)
            PROVE  <1>2!:
          <3>1. PICK L \in SUBSET Uid :
                    room' = [room EXCEPT ![r] = [room[r] EXCEPT !.bannedUids = L]]
              BY <2>3 DEF BanUid, UnbanUid, TypeOK, RoomType
          <3> QED BY <2>3, <3>1, ListsChange DEF BanUid, UnbanUid, TypeOK, Relisted
      <2>4. ASSUME NEW r \in Room, NEW u \in Uid, AddModer(c, r, u) \/ DelModer(c, r, u)
            PROVE  <1>2!:
          <3>1. PICK L \in SUBSET Uid :
                    room' = [room EXCEPT ![r] = [room[r] EXCEPT !.moderators = L]]
              BY <2>4 DEF AddModer, DelModer, TypeOK, RoomType
          <3> QED BY <2>4, <3>1, ListsChange DEF AddModer, DelModer, TypeOK, Relisted
      <2>5. ASSUME NEW r \in Room, NEW ip \in Ip, BanIp(c, r, ip) \/ UnbanIp(c, r, ip)
            PROVE  <1>2!:
          <3>1. PICK L \in SUBSET Ip : room' = [room EXCEPT ![r] = [room[r] EXCEPT !.bannedIps = L]]
              BY <2>5 DEF BanIp, UnbanIp, TypeOK, RoomType
          <3> QED BY <2>5, <3>1, ListsChange DEF BanIp, UnbanIp, TypeOK, Relisted
      <2>6. ASSUME NEW r \in Room, NEW n \in Nick, UnbanNick(c, r, n)
            PROVE  <1>2!:
          <3>1. PICK L \in SUBSET room[r].bannedNicks :
                    room' = [room EXCEPT ![r] = [room[r] EXCEPT !.bannedNicks = L]]
              BY <2>6 DEF UnbanNick
          <3> QED BY <2>6, <3>1, ListsChange DEF UnbanNick, TypeOK, Relisted
      <2> QED BY <2>1, <2>2, <2>3, <2>4, <2>5, <2>6 DEF Aside
  <1>3. /\ room' \in [Room -> RoomType]
        /\ \A r \in Room : /\ room'[r].members = room[r].members
                           /\ room'[r].bannedNicks \subseteq room[r].bannedNicks
      BY <1>2 DEF TypeOK, Relisted
  <1>4. TypeOK'
      BY <1>2, <1>3 DEF TypeOK, Session!SessionsTypeOK
  <1>5. Carried
      BY <1>2, <1>3, StillCarries
  <1> QED BY <1>2, <1>3, <1>4, <1>5 DEF NoNewBans

(* PacketLeave. *)
LEMMA LeaveCarries ==
    ASSUME IInv, NEW c \in Client, NEW r \in Room, Leave(c, r)
    PROVE  TypeOK' /\ Carried /\ NoNewBans /\ UNCHANGED state
  <1> USE DEF IInv, sessionVars
  <1>1. r \in joined[c] /\ UNCHANGED <<state, from, uid, rooms>>
      BY DEF Leave, Speaks
  <1>2. /\ room' \in [Room -> RoomType]
        /\ room'[r].members = {n \in room[r].members : n.client # c}
        /\ room'[r].bannedNicks = room[r].bannedNicks
        /\ \A q \in Room \ {r} : room'[q] = room[q]
      BY <1>1, Removed DEF Leave, TypeOK
  <1>3. /\ joined' \in [Client -> SUBSET Room]
        /\ joined'[c] = joined[c] \ {r}
        /\ \A d \in Client \ {c} : joined'[d] = joined[d]
      BY DEF Leave, TypeOK
  <1>4. TypeOK'
      BY <1>1, <1>2, <1>3 DEF TypeOK, Session!SessionsTypeOK
  <1>5. Carried
      <2>1. \A q \in Room : \A n \in room'[q].members : n \in room[q].members
          BY <1>2
      <2>2. \A d \in Client, q \in Room :
                q \in joined'[d] <=> \E n \in room'[q].members : n.client = d
          BY <1>2, <1>3 DEF Membership, TypeOK
      <2> QED BY <1>1, <1>2, <1>3, <2>1, <2>2 DEF Carried, Membership, OrphansShown
  <1> QED BY <1>1, <1>2, <1>4, <1>5 DEF NoNewBans

(* PacketStatus. *)
LEMMA ChangeStatusCarries ==
    ASSUME IInv, NEW c \in Client, NEW status \in Status, ChangeStatus(c, status)
    PROVE  TypeOK' /\ Carried /\ NoNewBans /\ UNCHANGED state
  <1> USE DEF IInv, sessionVars
  <1> DEFINE m(r) == FindMemberByClient(r, c)
             shown(r) == [m(r) EXCEPT !.status = status]
             R == {r \in joined[c] : m(r).nick # NoNick}
  <1>1. /\ UNCHANGED <<state, from, joined, rooms, uid>>
        /\ state[c] = "live" /\ status # "orphan"
        /\ room' = [r \in Room |-> IF r \in R THEN SetStatus(r, c, status) ELSE room[r]]
      BY DEF ChangeStatus
  <1>2. \A r \in joined[c] :
            /\ r \in Room
            /\ m(r) \in room[r].members /\ m(r) \in Member /\ m(r).client = c
            /\ SetStatus(r, c, status) \in RoomType
            /\ SetStatus(r, c, status).members =
                  {n \in room[r].members : n.client # c} \cup {shown(r)}
            /\ SetStatus(r, c, status).bannedNicks = room[r].bannedNicks
      BY FindMember, StatusSet
  <1>3. R \subseteq joined[c]
      OBVIOUS
  <1> HIDE DEF m, R
  <1>4. \A r \in joined[c] :
            /\ shown(r).client = c /\ shown(r).id = m(r).id /\ shown(r).nick = m(r).nick
            /\ shown(r).status = status
      BY <1>2 DEF Member
  <1> HIDE DEF shown
  <1>5. TypeOK' /\ NoNewBans
      BY <1>1, <1>2, <1>3 DEF TypeOK, Session!SessionsTypeOK, NoNewBans
  <1>6. \A r \in Room : \A n \in room'[r].members :
            \/ n \in room[r].members /\ (r \in R => n.client # c)
            \/ n = shown(r) /\ r \in R
      BY <1>1, <1>2, <1>3
  <1>7. \A r \in Room : \A n \in room[r].members :
            \E p \in room'[r].members : p.client = n.client
      BY <1>1, <1>2, <1>3, <1>4
  <1>8. Carried
      BY <1>1, <1>2, <1>3, <1>4, <1>6, <1>7 DEF Carried, Membership, OrphansShown
  <1> QED BY <1>1, <1>5, <1>8

(* Room::kickMember of all holders of a nick: they are no members of the   *)
(* room any more and it is no room of theirs.                              *)
LEMMA KickMembersCarries ==
    ASSUME IInv, UNCHANGED <<state, from, uid, rooms>>,
           NEW r \in Room, NEW R \in RoomType, R.members = room[r].members,
           NEW n \in Nick, KickMembers(r, R, {m \in room[r].members : m.nick = n})
    PROVE  /\ TypeOK' /\ Carried
           /\ room'[r].members = {m \in room[r].members : m.nick # n}
           /\ room'[r].bannedNicks = R.bannedNicks
           /\ \A q \in Room \ {r} : room'[q] = room[q]
  <1> USE DEF IInv
  <1> DEFINE after == R.members \ {m \in room[r].members : m.nick = n}
  <1>1. room' = [room EXCEPT ![r] = [R EXCEPT !.members = after]]
      BY DEF KickMembers
  <1>2. after \in SUBSET Member /\ after = {m \in room[r].members : m.nick # n}
      BY DEF RoomType
  <1> HIDE DEF after
  <1>3. /\ room' \in [Room -> RoomType]
        /\ room'[r].members = {m \in room[r].members : m.nick # n}
        /\ room'[r].bannedNicks = R.bannedNicks
        /\ \A q \in Room \ {r} : room'[q] = room[q]
      BY <1>1, <1>2 DEF TypeOK, RoomType
  <1>4. /\ joined' \in [Client -> SUBSET Room]
        /\ \A d \in Client : joined'[d] =
              IF \E m \in room[r].members : m.nick = n /\ m.client = d
              THEN joined[d] \ {r} ELSE joined[d]
      BY DEF KickMembers, TypeOK
  <1>5. TypeOK'
      BY <1>3, <1>4 DEF TypeOK, Session!SessionsTypeOK
  <1>6. Carried
      <2>1. \A q \in Room : \A m \in room'[q].members : m \in room[q].members
          BY <1>3
      <2>2. \A d \in Client, q \in Room :
                q \in joined'[d] <=> \E m \in room'[q].members : m.client = d
          BY <1>3, <1>4 DEF Membership
      <2> QED BY <1>4, <2>1, <2>2 DEF Carried, Membership, OrphansShown
  <1> QED BY <1>3, <1>5, <1>6

(* /kick. *)
LEMMA KickCarries ==
    ASSUME IInv, NEW c \in Client, NEW r \in Room, NEW n \in Nick, Kick(c, r, n)
    PROVE  TypeOK' /\ Carried /\ NoNewBans /\ UNCHANGED state
  <1>1. room[r] \in RoomType /\ UNCHANGED <<state, from, uid, rooms>>
      BY DEF IInv, TypeOK, Kick, sessionVars
  <1> QED BY <1>1, KickMembersCarries DEF Kick, NoNewBans

(* /bannick: the one new ban of the step, and nobody holds that nick after *)
(* it.                                                                     *)
LEMMA BanNickCarries ==
    ASSUME IInv, NEW c \in Client, NEW r \in Room, NEW n \in Nick, BanNick(c, r, n)
    PROVE  /\ TypeOK' /\ Carried /\ UNCHANGED state
           /\ room'[r].bannedNicks = room[r].bannedNicks \cup {n}
           /\ \A m \in room'[r].members : m.nick # n
           /\ \A q \in Room \ {r} : room'[q] = room[q]
  <1> DEFINE L == room[r].bannedNicks \cup {n}
             R == [room[r] EXCEPT !.bannedNicks = L]
  <1>1. room[r] \in RoomType /\ UNCHANGED <<state, from, uid, rooms>>
      BY DEF IInv, TypeOK, BanNick, sessionVars
  <1>2. L \in SUBSET Nick
      BY <1>1 DEF RoomType
  <1>3. KickMembers(r, R, {m \in room[r].members : m.nick = n})
      BY DEF BanNick
  <1> HIDE DEF L
  <1>4. R \in RoomType /\ R.members = room[r].members /\ R.bannedNicks = L
      BY <1>1, <1>2 DEF RoomType
  <1> HIDE DEF R
  <1> QED BY <1>1, <1>3, <1>4, KickMembersCarries DEF L

-----------------------------------------------------------------------------
(* The steps that add a member, name one, or add or remove a room.         *)

(* What BansHold says of a step. *)
BansStep ==
    \A r \in rooms \cap rooms' :
        /\ \A n \in room'[r].bannedNicks \ room[r].bannedNicks :
              ~\E c \in Client : HoldsNick(r, c, n)'
        /\ \A c \in Client, n \in room'[r].bannedNicks :
              HoldsNick(r, c, n)' => HoldsNick(r, c, n) \/ IsModer(r, c)
        /\ \A c \in Client : r \in joined'[c] \ joined[c] =>
              IsModer(r, c) \/ ~IsBanned(r, c)

(* Whom a step carries over was there and had its nick before any ban.     *)
LEMMA CarriedObeysBans ==
    ASSUME IInv, Carried, NoNewBans
    PROVE  BansStep
  <1>1. rooms \subseteq Room
      BY DEF IInv, TypeOK
  <1>2. \A r \in rooms \cap rooms' : room'[r].bannedNicks \subseteq room[r].bannedNicks
      BY <1>1 DEF NoNewBans
  <1>3. \A c \in Client, r \in rooms \cap rooms', n \in Nick :
            HoldsNick(r, c, n)' => HoldsNick(r, c, n)
      BY <1>1 DEF Carried, HoldsNick
  <1>4. \A r \in rooms : room[r].bannedNicks \subseteq Nick
      BY <1>1 DEF IInv, TypeOK, RoomType
  <1>5. \A c \in Client : joined'[c] \ joined[c] = {}
      BY DEF Carried
  <1> QED BY <1>2, <1>3, <1>4, <1>5 DEF BansStep

(* /bannick obeys its own ban. *)
LEMMA BanNickObeysBans ==
    ASSUME IInv, NEW c \in Client, NEW r \in Room, NEW n \in Nick, BanNick(c, r, n)
    PROVE  BansStep
  <1>1. /\ Carried
        /\ room'[r].bannedNicks = room[r].bannedNicks \cup {n}
        /\ \A m \in room'[r].members : m.nick # n
        /\ \A q \in Room \ {r} : room'[q] = room[q]
      BY BanNickCarries
  <1>2. rooms \subseteq Room
      BY DEF IInv, TypeOK
  <1>3. \A d \in Client : ~HoldsNick(r, d, n)'
      BY <1>1 DEF HoldsNick
  <1>4. \A d \in Client, q \in Room, k \in Nick : HoldsNick(q, d, k)' => HoldsNick(q, d, k)
      BY <1>1 DEF Carried, HoldsNick
  <1>5. \A q \in Room : room[q].bannedNicks \subseteq Nick
      BY DEF IInv, TypeOK, RoomType
  <1>6. \A d \in Client : joined'[d] \ joined[d] = {}
      BY <1>1 DEF Carried
  <1> QED BY <1>1, <1>2, <1>3, <1>4, <1>5, <1>6 DEF BansStep

(* The nick of auto_login is a nick or none; it is nobody else's, and not  *)
(* a banned one unless the client is a moderator.                          *)
LEMMA AutoNickFits ==
    ASSUME TypeOK, NEW c \in Client, NEW r \in Room, NEW n, n = AutoNick(r, c)
    PROVE  /\ n \in Nick \cup {NoNick}
           /\ n # NoNick => \A m \in room[r].members : m.nick # n
           /\ n \in room[r].bannedNicks => IsModer(r, c)
  <1>1. room[r] \in RoomType /\ uid[c] \in Uid
      BY DEF TypeOK
  <1>2. RememberedNick(r, c) \in Nick \cup {NoNick}
      BY <1>1, RoomsAssumption DEF RememberedNick, GetStoredMemberInfo, RoomType
  <1>3. NoNick \notin room[r].bannedNicks
      BY <1>1, RoomsAssumption DEF RoomType
  <1> QED BY <1>2, <1>3 DEF AutoNick, NickTaken

(* A member that is given a nick, as far as the bans let it.               *)
LEMMA NickSet ==
    ASSUME TypeOK, NEW r \in Room, NEW m \in Member, NEW n \in Nick \cup {NoNick}
    PROVE  /\ SetNick(r, m, n) \in Member
           /\ SetNick(r, m, n).client = m.client
           /\ SetNick(r, m, n).id = m.id
           /\ SetNick(r, m, n).status = m.status
           /\ \/ SetNick(r, m, n).nick = m.nick
              \/ /\ SetNick(r, m, n).nick = n
                 /\ n \in room[r].bannedNicks => IsModer(r, m.client)
  BY DEF SetNick, Member

(* PacketJoin: the new member is like nobody in the room.                  *)
LEMMA JoinKeeps ==
    ASSUME IInv, NEW c \in Client, NEW r \in Room, NEW autoLogin \in BOOLEAN,
           Join(c, r, autoLogin)
    PROVE  IInv' /\ BansStep /\ UNCHANGED state
  <1> USE DEF IInv, sessionVars
  <1> DEFINE m == NewMember(r, c)
             entered == IF autoLogin THEN SetNick(r, m, AutoNick(r, c)) ELSE m
             after == room[r].members \cup {entered}
  <1>1. /\ UNCHANGED <<state, from, uid, rooms>> /\ state[c] = "live" /\ r \in rooms
        /\ r \notin joined[c]
        /\ IsModer(r, c) \/ ~IsBanned(r, c)
      BY DEF Join, CanAskToJoin, Named
  <1>2. /\ m \in Member /\ m.client = c /\ m.nick = NoNick /\ m.status = "online"
        /\ m.id # 0 /\ \A n \in room[r].members : n.id # m.id
      BY <1>1, FreshId DEF NewMember, Member, Status
  <1>3. room' = [room EXCEPT ![r] = [room[r] EXCEPT !.nextMemberId = m.id, !.members = after]]
      BY DEF Join
  <1>4. room[r] \in RoomType /\ NoNick \notin room[r].bannedNicks
      BY RoomsAssumption DEF TypeOK, RoomType
  <1> HIDE DEF m
  <1>5. /\ entered \in Member /\ entered.client = c /\ entered.id = m.id
        /\ entered.status = "online"
        /\ entered.nick # NoNick => \A n \in room[r].members : n.nick # entered.nick
        /\ entered.nick \in room[r].bannedNicks => IsModer(r, c)
      BY <1>2, <1>4, AutoNickFits, NickSet
  <1> HIDE DEF entered
  <1>6. after \in SUBSET Member /\ m.id \in 0..(IdWidth - 1)
      BY <1>2, <1>4, <1>5 DEF RoomType, Member
  <1>7. \A p \in room[r].members : p.client # c
      BY <1>1 DEF Membership
  <1>8. after = room[r].members \cup {entered}
      OBVIOUS
  <1> HIDE DEF after
  <1>9. /\ room' \in [Room -> RoomType]
        /\ room'[r].members = after /\ room'[r].bannedNicks = room[r].bannedNicks
        /\ \A q \in Room \ {r} : room'[q] = room[q]
      BY <1>3, <1>4, <1>6 DEF TypeOK, RoomType
  <1>10. /\ joined' \in [Client -> SUBSET Room]
         /\ joined'[c] = joined[c] \cup {r}
         /\ \A d \in Client \ {c} : joined'[d] = joined[d]
      BY DEF Join, TypeOK
  <1>11. TypeOK'
      BY <1>1, <1>9, <1>10 DEF TypeOK, Session!SessionsTypeOK
  <1>12. Membership'
      <2>1. \A d \in Client : joined'[d] \subseteq rooms'
          BY <1>1, <1>10 DEF Membership
      <2>2. \A d \in Client, q \in Room :
                q \in joined'[d] <=> \E p \in room'[q].members : p.client = d
          BY <1>5, <1>8, <1>9, <1>10 DEF Membership
      <2>3. \A q \in Room : \A p, k \in room'[q].members : p.client = k.client => p = k
          BY <1>5, <1>7, <1>8, <1>9 DEF Membership
      <2>4. \A q \in Room : \A p \in room'[q].members : state'[p.client] # "free"
          BY <1>1, <1>5, <1>8, <1>9 DEF Membership
      <2> QED BY <2>1, <2>2, <2>3, <2>4 DEF Membership
  <1>13. NamesUnique'
      BY <1>1 DEF NamesUnique
  <1>14. MembersDistinct'
      BY <1>2, <1>5, <1>8, <1>9 DEF MembersDistinct
  <1>15. OrphansShown'
      BY <1>1, <1>5, <1>8, <1>9 DEF OrphansShown
  <1>16. BansStep
      <2>1. \A q \in Room, d \in Client : \A n : HoldsNick(q, d, n)' =>
                HoldsNick(q, d, n) \/ (q = r /\ d = c /\ n = entered.nick)
          BY <1>5, <1>8, <1>9 DEF HoldsNick
      <2>2. rooms \subseteq Room
          BY DEF TypeOK
      <2> QED BY <1>1, <1>5, <1>9, <1>10, <2>1, <2>2 DEF BansStep
  <1> QED BY <1>1, <1>11, <1>12, <1>13, <1>14, <1>15, <1>16

(* /nick: what is not taken is nobody's.                                   *)
LEMMA ChangeNickKeeps ==
    ASSUME IInv, NEW c \in Client, NEW r \in Room, NEW n \in Nick \cup {NoNick},
           ChangeNick(c, r, n)
    PROVE  IInv' /\ BansStep /\ UNCHANGED state
  <1> USE DEF IInv, sessionVars
  <1> DEFINE m == FindMemberByClient(r, c)
             named == SetNick(r, m, n)
             after == (room[r].members \ {m}) \cup {named}
  <1>1. /\ UNCHANGED <<state, from, uid, joined, rooms>> /\ r \in joined[c]
        /\ n # NoNick => \A k \in room[r].members : k.nick # n
        /\ room' = [room EXCEPT ![r] = [room[r] EXCEPT !.members = after]]
      BY DEF ChangeNick, Speaks, NickTaken
  <1>2. /\ m \in room[r].members /\ m \in Member /\ m.client = c
        /\ \A k \in room[r].members : k.client = c => k = m
      BY <1>1, FindMember
  <1>3. room[r] \in RoomType
      BY DEF TypeOK
  <1> HIDE DEF m
  <1>4. /\ named \in Member /\ named.client = c /\ named.id = m.id
        /\ named.status = m.status
        /\ \/ named.nick = m.nick
           \/ named.nick = n /\ (n \in room[r].bannedNicks => IsModer(r, c))
      BY <1>2, NickSet
  <1> HIDE DEF named
  <1>5. after \in SUBSET Member
      BY <1>3, <1>4 DEF RoomType
  <1>6. /\ \A k \in after : k = named \/ (k \in room[r].members /\ k.client # c)
        /\ \A k \in room[r].members : k.client # c => k \in after
        /\ named \in after
      BY <1>2
  <1> HIDE DEF after
  <1>7. /\ room' \in [Room -> RoomType]
        /\ room'[r].members = after /\ room'[r].bannedNicks = room[r].bannedNicks
        /\ \A q \in Room \ {r} : room'[q] = room[q]
      BY <1>1, <1>3, <1>5 DEF TypeOK, RoomType
  <1>8. TypeOK'
      BY <1>1, <1>7 DEF TypeOK, Session!SessionsTypeOK
  <1>9. Membership'
      <2>1. \A d \in Client, q \in Room :
                q \in joined'[d] <=> \E p \in room'[q].members : p.client = d
          BY <1>1, <1>2, <1>4, <1>6, <1>7 DEF Membership
      <2>2. \A q \in Room : \A p, k \in room'[q].members : p.client = k.client => p = k
          BY <1>4, <1>6, <1>7 DEF Membership
      <2>3. \A q \in Room : \A p \in room'[q].members : state'[p.client] # "free"
          BY <1>1, <1>2, <1>4, <1>6, <1>7 DEF Membership
      <2> QED BY <1>1, <2>1, <2>2, <2>3 DEF Membership
  <1>10. NamesUnique'
      BY <1>1 DEF NamesUnique
  <1>11. MembersDistinct'
      <2>1. \A p, k \in after : /\ p.id # 0
                                /\ p.id = k.id => p = k
                                /\ p.nick = k.nick /\ p.nick # NoNick => p = k
          BY <1>1, <1>2, <1>4, <1>6 DEF MembersDistinct
      <2> SUFFICES ASSUME NEW q \in Room, NEW p \in room'[q].members, NEW k \in room'[q].members
                   PROVE  /\ p.id # 0
                          /\ p.id = k.id => p = k
                          /\ p.nick = k.nick /\ p.nick # NoNick => p = k
          BY DEF MembersDistinct
      <2>2. CASE q = r
          <3>1. p \in after /\ k \in after
              BY <1>7, <2>2
          <3> QED BY <2>1, <3>1
      <2>3. CASE q # r
          BY <1>7, <2>3 DEF MembersDistinct
      <2> QED BY <2>2, <2>3
  <1>12. OrphansShown'
      BY <1>1, <1>2, <1>4, <1>6, <1>7 DEF OrphansShown
  <1>13. BansStep
      <2>1. \A q \in Room, d \in Client : \A k : HoldsNick(q, d, k)' =>
                HoldsNick(q, d, k) \/ (q = r /\ d = c /\ k = named.nick)
          BY <1>4, <1>6, <1>7 DEF HoldsNick
      <2>2. named.nick = m.nick => HoldsNick(r, c, named.nick)
          BY <1>2 DEF HoldsNick
      <2>3. rooms \subseteq Room
          BY DEF TypeOK
      <2> QED BY <1>1, <1>4, <1>7, <2>1, <2>2, <2>3 DEF BansStep
  <1> QED BY <1>1, <1>8, <1>9, <1>10, <1>11, <1>12, <1>13

(* The constructor makes a room without members or bans. *)
LEMMA NewRoomType ==
    /\ NewRoom \in RoomType
    /\ NewRoom.members = {} /\ NewRoom.bannedNicks = {}
    /\ \A u \in Uid : /\ [NewRoom EXCEPT !.owner = u] \in RoomType
                      /\ [NewRoom EXCEPT !.owner = u].members = {}
  <1>1. 0 \in 0..(IdWidth - 1)
      BY RoomsAssumption, FS_CardinalityType
  <1> QED BY <1>1 DEF NewRoom, RoomType

(* PacketCreateRoom: nobody is in a room that is not there yet. *)
LEMMA CreateRoomKeeps ==
    ASSUME IInv, NEW c \in Client, NEW r \in Room, CreateRoom(c, r)
    PROVE  IInv' /\ BansStep /\ UNCHANGED state
  <1> USE DEF IInv, sessionVars
  <1>1. /\ UNCHANGED <<state, from, uid, joined>> /\ r \notin rooms
        /\ rooms' = rooms \cup {r}
        /\ \A q \in rooms : RoomName[q] # RoomName[r]
      BY DEF CreateRoom, Named
  <1>2. room[r].members = {}
      BY <1>1 DEF Membership, TypeOK, RoomType, Member
  <1>3. /\ room' \in [Room -> RoomType] /\ room'[r].members = {}
        /\ \A q \in Room \ {r} : room'[q] = room[q]
      <2> DEFINE R == [NewRoom EXCEPT !.owner = uid[c]]
      <2>1. R \in RoomType /\ R.members = {}
          BY NewRoomType DEF TypeOK
      <2>2. room' = [room EXCEPT ![r] = R]
          BY DEF CreateRoom
      <2> HIDE DEF R
      <2> QED BY <2>1, <2>2 DEF TypeOK
  <1>4. TypeOK'
      BY <1>1, <1>3 DEF TypeOK, Session!SessionsTypeOK
  <1>5. \A q \in Room : room'[q].members = room[q].members
      BY <1>2, <1>3
  <1>6. Membership'
      BY <1>1, <1>5 DEF Membership
  <1>7. NamesUnique'
      BY <1>1 DEF NamesUnique
  <1>8. MembersDistinct' /\ OrphansShown'
      BY <1>1, <1>5 DEF MembersDistinct, OrphansShown
  <1>9. BansStep
      <2>1. \A q \in rooms : q \in Room /\ room'[q] = room[q]
          BY <1>1, <1>3 DEF TypeOK
      <2> QED BY <1>1, <2>1 DEF BansStep, HoldsNick
  <1> QED BY <1>1, <1>4, <1>6, <1>7, <1>8, <1>9

(* PacketRemoveRoom: onDestroy reaches every client that has the room. *)
LEMMA RemoveRoomKeeps ==
    ASSUME IInv, NEW c \in Client, NEW r \in Room, RemoveRoom(c, r)
    PROVE  IInv' /\ BansStep /\ UNCHANGED state
  <1> USE DEF IInv, sessionVars
  <1>1. /\ UNCHANGED <<state, from, uid>> /\ rooms' = rooms \ {r}
        /\ room' \in [Room -> RoomType] /\ room'[r].members = {}
        /\ \A q \in Room \ {r} : room'[q] = room[q]
      BY NewRoomType DEF RemoveRoom, TypeOK
  <1>2. /\ joined' \in [Client -> SUBSET Room]
        /\ \A d \in Client : joined'[d] = joined[d] \ {r}
      BY DEF RemoveRoom, OnDestroy, MembersOf, TypeOK, Membership
  <1>3. TypeOK'
      BY <1>1, <1>2 DEF TypeOK, Session!SessionsTypeOK
  <1>4. Membership'
      <2>1. \A d \in Client : joined'[d] \subseteq rooms'
          BY <1>1, <1>2 DEF Membership
      <2>2. \A d \in Client, q \in Room :
                q \in joined'[d] <=> \E p \in room'[q].members : p.client = d
          BY <1>1, <1>2 DEF Membership
      <2>3. \A q \in Room : \A p \in room'[q].members : p \in room[q].members
          BY <1>1
      <2>4. \A q \in Room : \A p, k \in room'[q].members : p.client = k.client => p = k
          BY <2>3 DEF Membership
      <2> QED BY <1>1, <2>1, <2>2, <2>3, <2>4 DEF Membership
  <1>5. NamesUnique'
      BY <1>1 DEF NamesUnique
  <1>6. MembersDistinct' /\ OrphansShown'
      BY <1>1 DEF MembersDistinct, OrphansShown
  <1>7. BansStep
      <2>1. \A q \in rooms' : q \in Room /\ room'[q] = room[q]
          BY <1>1 DEF TypeOK
      <2> QED BY <1>2, <2>1 DEF BansStep, HoldsNick
  <1> QED BY <1>1, <1>3, <1>4, <1>5, <1>6, <1>7

-----------------------------------------------------------------------------
(* The invariant, and what the steps may never do.                         *)

(* The server starts without sessions and rooms. *)
LEMMA InitHolds == Init => IInv
  <1> SUFFICES ASSUME Init PROVE IInv
      OBVIOUS
  <1>1. TypeOK
      BY NewRoomType, RoomsAssumption DEF Init, Session!Init, TypeOK, Session!SessionsTypeOK
  <1>2. \A r \in Room : room[r].members = {}
      BY NewRoomType DEF Init
  <1>3. Membership /\ NamesUnique /\ MembersDistinct /\ OrphansShown
      BY <1>2 DEF Init, Membership, NamesUnique, MembersDistinct, OrphansShown
  <1> QED BY <1>1, <1>3 DEF IInv

(* Every step of the connection layer. *)
LEMMA SessionStepKeeps == IInv /\ SessionStep => IInv' /\ PlacesStep /\ BansStep
  <1> SUFFICES ASSUME IInv, SessionStep
               PROVE  TypeOK' /\ Carried /\ NoNewBans /\ PlacesStep
      BY CarriedKeeps, CarriedObeysBans
  <1> QED BY ConnectCarries, ConnectEvictingCarries, DisconnectCarries, RemoveCarries,
             ReviveCarries DEF SessionStep

(* Every packet. *)
LEMMA PacketStepKeeps == IInv /\ PacketStep => IInv' /\ UNCHANGED state /\ BansStep
  <1> SUFFICES ASSUME IInv, NEW c \in Client,
                      \/ \E u \in Uid : Auth(c, u)
                      \/ \E status \in Status : ChangeStatus(c, status)
                      \/ \E r \in Room :
                            \/ JoinRefused(c, r)
                            \/ \E autoLogin \in BOOLEAN : Join(c, r, autoLogin)
                            \/ Leave(c, r)
                            \/ CreateRoom(c, r)
                            \/ RemoveRoom(c, r)
               PROVE  IInv' /\ UNCHANGED state /\ BansStep
      BY DEF PacketStep
  <1>1. CASE Aside(c)
      BY <1>1, AsideCarries, CarriedKeeps, CarriedObeysBans
  <1>2. ASSUME NEW status \in Status, ChangeStatus(c, status)
        PROVE  IInv' /\ UNCHANGED state /\ BansStep
      BY <1>2, ChangeStatusCarries, CarriedKeeps, CarriedObeysBans
  <1>3. ASSUME NEW r \in Room, Leave(c, r)
        PROVE  IInv' /\ UNCHANGED state /\ BansStep
      BY <1>3, LeaveCarries, CarriedKeeps, CarriedObeysBans
  <1> QED BY <1>1, <1>2, <1>3, JoinKeeps, CreateRoomKeeps, RemoveRoomKeeps DEF Aside

(* Every chat command. *)
LEMMA CommandStepKeeps == IInv /\ CommandStep => IInv' /\ UNCHANGED state /\ BansStep
  <1> SUFFICES ASSUME IInv, NEW c \in Client, NEW r \in Room,
                      \/ Aside(c)
                      \/ \E n \in Nick \cup {NoNick} : ChangeNick(c, r, n)
                      \/ \E n \in Nick : Kick(c, r, n) \/ BanNick(c, r, n)
               PROVE  IInv' /\ UNCHANGED state /\ BansStep
      BY DEF CommandStep, Aside
  <1>1. CASE Aside(c)
      BY <1>1, AsideCarries, CarriedKeeps, CarriedObeysBans
  <1>2. ASSUME NEW n \in Nick, Kick(c, r, n)
        PROVE  IInv' /\ UNCHANGED state /\ BansStep
      BY <1>2, KickCarries, CarriedKeeps, CarriedObeysBans
  <1>3. ASSUME NEW n \in Nick, BanNick(c, r, n)
        PROVE  IInv' /\ UNCHANGED state /\ BansStep
      BY <1>3, BanNickCarries, BanNickObeysBans, CarriedKeeps
  <1> QED BY <1>1, <1>2, <1>3, ChangeNickKeeps

(* A stuttering step changes nothing that the invariant speaks of. *)
LEMMA StutterKeeps == IInv /\ UNCHANGED vars => IInv' /\ PlacesStep /\ BansStep
  BY DEF vars, IInv, TypeOK, Session!SessionsTypeOK, Membership, NamesUnique, MembersDistinct,
         OrphansShown, PlacesStep, BansStep, HoldsNick

(* The invariant is inductive, and a step from a state that satisfies it   *)
(* keeps places and obeys bans.                                            *)
LEMMA Inductive == IInv /\ [Next]_vars => IInv' /\ PlacesStep /\ BansStep
  <1>1. UNCHANGED state => PlacesStep
      BY DEF PlacesStep
  <1> QED BY <1>1, SessionStepKeeps, PacketStepKeeps, CommandStepKeeps, StutterKeeps DEF Next

THEOREM Invariant == Spec => []IInv
  <1>1. Init => IInv
      BY InitHolds
  <1>2. IInv /\ [Next]_vars => IInv'
      BY Inductive
  <1> QED BY <1>1, <1>2, PTL DEF Spec

(* Sessions, accounts, rooms and members have their types in every         *)
(* reachable state; member ids stay within the width of their counter.     *)
THEOREM TypesCorrect == Spec => []TypeOK
  <1>1. IInv => TypeOK
      BY DEF IInv
  <1> QED BY <1>1, Invariant, PTL

(* MembershipExact holds for any number of clients and rooms:              *)
(* findMemberByClient, whose result onDisconnect, onRevive and             *)
(* removeMember dereference unchecked, never returns null for a room of    *)
(* the client, and no kick, ban, eviction or removed room leaves a ghost.  *)
THEOREM MembershipExactHolds == Spec => []MembershipExact
  <1>1. IInv => MembershipExact
      <2> SUFFICES ASSUME IInv PROVE MembershipExact
          OBVIOUS
      <2>1. \A c \in Client : \A r \in joined[c] : r \in rooms
          BY DEF IInv, Membership
      <2>2. ASSUME NEW c \in Client, NEW r \in joined[c]
            PROVE  Cardinality(MembersOf(r, c)) = 1
          <3>1. \E m : MembersOf(r, c) = {m}
              BY FindMember DEF IInv
          <3> QED BY <3>1, FS_Singleton
      <2>3. \A r \in Room : \A m \in room[r].members :
                state[m.client] # "free" /\ r \in joined[m.client]
          BY DEF IInv, TypeOK, RoomType, Member, Membership
      <2> QED BY <2>1, <2>2, <2>3 DEF MembershipExact
  <1> QED BY <1>1, Invariant, PTL

(* NamesUnique holds: getRoomByName finds one room, also of a name whose   *)
(* earlier room was removed.                                               *)
THEOREM NamesUniqueHolds == Spec => []NamesUnique
  <1>1. IInv => NamesUnique
      BY DEF IInv
  <1> QED BY <1>1, Invariant, PTL

(* MembersDistinct holds: genNextMemberId never hands out zero or an id in *)
(* use, after any number of wraps of its counter and for as few ids as one *)
(* more than the clients; and no two members have one nick, wherever their *)
(* nicks come from.                                                        *)
THEOREM MembersDistinctHolds == Spec => []MembersDistinct
  <1>1. IInv => MembersDistinct
      BY DEF IInv
  <1> QED BY <1>1, Invariant, PTL

(* OrphansShown holds: what setStatus was last told of a member on join,   *)
(* away, back, disconnection and revival agrees with its session.          *)
THEOREM OrphansShownHolds == Spec => []OrphansShown
  <1>1. IInv => OrphansShown
      BY DEF IInv
  <1> QED BY <1>1, Invariant, PTL

(* PlacesKept holds: reviveClient, onRevive and onDisconnect keep the      *)
(* rooms, the member ids and the nicks of the sessions that go on.         *)
THEOREM PlacesKeptHolds == Spec => PlacesKept
  <1>1. IInv /\ [Next]_vars => [PlacesStep]_vars
      BY Inductive
  <1> QED BY <1>1, Invariant, PTL DEF Spec, PlacesKept, PlacesStep

(* BansHold holds: setNick, PacketJoin and bannick let nobody but a        *)
(* moderator have a banned nick, and PacketJoin nobody but one join with a *)
(* banned account or address.                                              *)
THEOREM BansHoldHolds == Spec => BansHold
  <1>1. IInv /\ [Next]_vars => [BansStep]_vars
      BY Inductive
  <1> QED BY <1>1, Invariant, PTL DEF Spec, BansHold, BansStep

=============================================================================
