-------------------------- MODULE PersistenceProofs -------------------------
(***************************************************************************)
(* Proofs about Persistence: what a start finds of what was saved, and the *)
(* ids of messages over restarts, for any rooms, accounts and signals, any *)
(* bound of the history and any number of changes, signals and crashes.    *)
(***************************************************************************)
EXTENDS Persistence, TLAPS

-----------------------------------------------------------------------------
(* The rooms and the values they are saved as.                             *)

Ids == 0..MaxMessage
Texts == Seq(Ids \cup {NoMessage})
Account == Uid \cup {0}

RoomRecord == [banned: SUBSET Account, history: Texts, members: SUBSET Uid,
               members_info: SUBSET Account, moderators: SUBSET Account,
               name: Name \cup {Nameless}, nextMessageId: Ids, owner_id: Nat]

(* AllValues and rooms whose history keeps to its bound. *)
AllValues == {v \in Value : Len(v.history) <= MaxHistory}
AllRooms == {r \in RoomRecord : Len(r.history) <= MaxHistory}

Keyword == {"banned", "history", "members_info", "moderators", "name", "nextMessageId", "owner_id"}

(* Room::deserialize asks for the keys that Room::serialize has written.   *)
LEMMA Domain == DOMAIN Missing = Keyword
  BY DEF Missing, Keyword

(* A room is saved as its contents. *)
LEMMA ContentsIs ==
    ASSUME NEW r
    PROVE  /\ Contents(r) = [banned |-> r.banned, history |-> r.history, members_info |-> r.members_info,
                             moderators |-> r.moderators, name |-> r.name,
                             nextMessageId |-> r.nextMessageId, owner_id |-> r.owner_id]
           /\ Serialize(r) = Contents(r)
  BY Domain DEF Contents, Serialize, Keyword

(* A value is read into a room that nobody has joined. *)
LEMMA DeserializeIs ==
    ASSUME NEW v
    PROVE  Deserialize(v) =
             [banned |-> v.banned, history |-> v.history, members |-> {}, members_info |-> v.members_info,
              moderators |-> v.moderators, name |-> v.name,
              nextMessageId |-> v.nextMessageId, owner_id |-> v.owner_id]
  BY Domain DEF Deserialize, Keyword

(* What Room::serialize makes of a room is a value of the file, with the   *)
(* room's name, history and next id.                                       *)
LEMMA ContentsTyped ==
    ASSUME NEW r \in AllRooms
    PROVE  /\ Contents(r) \in AllValues
           /\ Contents(r).name = r.name /\ Contents(r).history = r.history
           /\ Contents(r).nextMessageId = r.nextMessageId
  BY ContentsIs DEF AllRooms, RoomRecord, AllValues, Value, Texts, Ids, Account

(* What was saved is found again. *)
LEMMA RoundTrip ==
    ASSUME NEW v \in AllValues
    PROVE  /\ Deserialize(v) \in AllRooms /\ Contents(Deserialize(v)) = v
           /\ Deserialize(v).name = v.name /\ Deserialize(v).history = v.history
           /\ Deserialize(v).nextMessageId = v.nextMessageId
  <1> DEFINE r == Deserialize(v)
  <1>1. /\ r \in AllRooms
        /\ r.banned = v.banned /\ r.history = v.history /\ r.members_info = v.members_info
        /\ r.moderators = v.moderators /\ r.name = v.name
        /\ r.nextMessageId = v.nextMessageId /\ r.owner_id = v.owner_id
      BY DeserializeIs DEF AllRooms, RoomRecord, AllValues, Value, Texts, Ids, Account
  <1> HIDE DEF r
  <1>2. Contents(r) = v
      BY <1>1, ContentsIs DEF AllValues, Value
  <1> QED BY <1>1, <1>2 DEF r

AllContents(R) == {Contents(r) : r \in R}

(* k is the end of h, and id. *)
Follows(k, h, id) ==
    /\ Len(k) > 0 /\ k[Len(k)] = id
    /\ \A i \in 1..(Len(k) - 1) : \E j \in 1..Len(h) :
          /\ k[i] = h[j]
          /\ IF i + 1 = Len(k) THEN j = Len(h) ELSE j < Len(h) /\ k[i + 1] = h[j + 1]

(* A history that is not empty has a last message.                         *)
LEMMA LastIn ==
    ASSUME NEW S, NEW h \in Seq(S), h # <<>>
    PROVE  Len(h) \in Nat \ {0} /\ h[Len(h)] \in S
  OBVIOUS

(* Room::addToHistory keeps the bound, and drops from the front. *)
LEMMA KeptIs ==
    ASSUME NEW S, NEW h \in Seq(S), Len(h) <= MaxHistory, NEW id \in S
    PROVE  LET k == Kept(h, id) IN
           k \in Seq(S) /\ Len(k) <= MaxHistory /\ Follows(k, h, id)
  <1> DEFINE all == Append(h, id)
             k == Kept(h, id)
  <1>1. MaxHistory \in Nat \ {0} /\ Len(h) \in Nat
      BY PersistenceAssumption
  <1>2. /\ all \in Seq(S) /\ Len(all) = Len(h) + 1 /\ all[Len(h) + 1] = id
        /\ \A i \in 1..Len(h) : all[i] = h[i]
      OBVIOUS
  <1>3. k = IF Len(all) > MaxHistory THEN Tail(all) ELSE all
      BY DEF Kept
  <1> HIDE DEF all, k
  <1>4. CASE Len(all) <= MaxHistory
    <2>1. k = all
        BY <1>1, <1>2, <1>3, <1>4
    <2>2. \A i \in 1..(Len(k) - 1) :
             /\ i \in 1..Len(h) /\ k[i] = h[i]
             /\ IF i + 1 = Len(k) THEN i = Len(h) ELSE i < Len(h) /\ k[i + 1] = h[i + 1]
        BY <1>1, <1>2, <2>1
    <2>3. k \in Seq(S) /\ Len(k) <= MaxHistory /\ Len(k) > 0 /\ k[Len(k)] = id
        BY <1>1, <1>2, <1>4, <2>1
    <2> QED BY <2>2, <2>3 DEF k, Follows
  <1>5. CASE Len(all) > MaxHistory
    <2>1. k = Tail(all) /\ Len(h) = MaxHistory
        BY <1>1, <1>2, <1>3, <1>5
    <2>2. k \in Seq(S) /\ Len(k) = Len(h) /\ \A i \in 1..Len(h) : k[i] = all[i + 1]
        BY <1>1, <1>2, <2>1
    <2>3. \A i \in 1..(Len(k) - 1) :
             /\ i + 1 \in 1..Len(h) /\ k[i] = h[i + 1]
             /\ IF i + 1 = Len(k) THEN i + 1 = Len(h)
                ELSE i + 1 < Len(h) /\ k[i + 1] = h[i + 1 + 1]
        BY <1>1, <1>2, <2>2
    <2>4. Len(k) <= MaxHistory /\ Len(k) > 0 /\ k[Len(k)] = id
        BY <1>1, <1>2, <2>1, <2>2
    <2> QED BY <2>2, <2>3, <2>4 DEF k, Follows
  <1> QED BY <1>1, <1>2, <1>4, <1>5

-----------------------------------------------------------------------------
(* What is read of a file.                                                 *)

Part(k) == CASE k \in {"banned", "members_info", "moderators"} -> SUBSET Account
             [] k = "history" -> {h \in Texts : Len(h) <= MaxHistory}
             [] k = "name" -> Name \cup {Nameless}
             [] k = "nextMessageId" -> Ids
             [] k = "owner_id" -> Nat

(* A value with the right kind of text under every key is a room's.        *)
LEMMA PartsMake ==
    ASSUME NEW t, \A k \in Keyword : t[k] \in Part(k), t = [k \in Keyword |-> t[k]]
    PROVE  t \in AllValues
  <1>1. /\ t.banned \in SUBSET Account /\ t.members_info \in SUBSET Account /\ t.moderators \in SUBSET Account
        /\ t.history \in Texts /\ Len(t.history) <= MaxHistory /\ t.name \in Name \cup {Nameless}
        /\ t.nextMessageId \in Ids /\ t.owner_id \in Nat
      BY DEF Keyword, Part
  <1>2. t = [banned |-> t.banned, history |-> t.history, members_info |-> t.members_info,
             moderators |-> t.moderators, name |-> t.name,
             nextMessageId |-> t.nextMessageId, owner_id |-> t.owner_id]
      BY DEF Keyword
  <1> QED BY <1>1, <1>2 DEF AllValues, Value, Texts, Ids, Account

(* And a room's value has the right kind under every key.                  *)
LEMMA PartsOf ==
    ASSUME NEW v \in AllValues, NEW k \in Keyword
    PROVE  v[k] \in Part(k)
  BY DEF AllValues, Value, Texts, Ids, Account, Keyword, Part

(* A value that the end of the text cuts is still one of its kind. *)
LEMMA CutTyped ==
    ASSUME NEW k \in Keyword, NEW v \in Part(k)
    PROVE  Cut(k, v) \subseteq Part(k)
  <1>0. MaxHistory \in Nat \ {0} /\ MaxMessage \in Nat
      BY PersistenceAssumption
  <1>1. CASE k = "history"
    <2>1. v \in Texts /\ Len(v) <= MaxHistory /\ Len(v) \in Nat
        BY <1>1 DEF Part, Texts
    <2> DEFINE S == Ids \cup {NoMessage}
    <2> HIDE DEF S
    <2>2. v \in Seq(S) /\ NoMessage \in S
        BY <2>1 DEF Texts, S
    <2>3. \A i \in 0..Len(v) : SubSeq(v, 1, i) \in Seq(S) /\ Len(SubSeq(v, 1, i)) = i
        BY <2>1, <2>2
    <2>4. \A i \in 0..(Len(v) - 1) : /\ Append(SubSeq(v, 1, i), NoMessage) \in Seq(S)
                                     /\ Len(Append(SubSeq(v, 1, i), NoMessage)) = i + 1
      <3> SUFFICES ASSUME NEW i \in 0..(Len(v) - 1)
                   PROVE  /\ Append(SubSeq(v, 1, i), NoMessage) \in Seq(S)
                          /\ Len(Append(SubSeq(v, 1, i), NoMessage)) = i + 1
          OBVIOUS
      <3>1. SubSeq(v, 1, i) \in Seq(S) /\ Len(SubSeq(v, 1, i)) = i
          BY <2>1, <2>3
      <3> QED BY <2>2, <3>1
    <2>5. <<NoMessage>> \in Seq(S) /\ Len(<<NoMessage>>) = 1
        BY <2>2
    <2>6. \A h \in Cut(k, v) : h \in Seq(S) /\ Len(h) <= MaxHistory
      <3>1. Cut(k, v) = {SubSeq(v, 1, i) : i \in 0..Len(v)} \cup {<<NoMessage>>}
                        \cup {Append(SubSeq(v, 1, i), NoMessage) : i \in 0..(Len(v) - 1)}
          BY <1>1 DEF Cut
      <3>2. \A h \in {SubSeq(v, 1, i) : i \in 0..Len(v)} : h \in Seq(S) /\ Len(h) <= MaxHistory
          BY <1>0, <2>1, <2>3
      <3>3. \A h \in {<<NoMessage>>} : h \in Seq(S) /\ Len(h) <= MaxHistory
        <4>1. <<NoMessage>> \in Seq(S) /\ Len(<<NoMessage>>) <= MaxHistory
            BY <1>0, <2>5
        <4> QED BY <4>1, Zenon
      <3>4. \A h \in {Append(SubSeq(v, 1, i), NoMessage) : i \in 0..(Len(v) - 1)} :
               h \in Seq(S) /\ Len(h) <= MaxHistory
        <4> SUFFICES ASSUME NEW i \in 0..(Len(v) - 1)
                     PROVE  LET h == Append(SubSeq(v, 1, i), NoMessage) IN
                            h \in Seq(S) /\ Len(h) <= MaxHistory
            OBVIOUS
        <4> QED BY <1>0, <2>1, <2>4
      <3> QED BY <3>1, <3>2, <3>3, <3>4
    <2> QED BY <1>1, <2>6 DEF Part, Texts, S
  <1>2. CASE k = "name"
      BY <1>2 DEF Cut, Part
  <1>3. CASE k \in {"nextMessageId", "owner_id"}
    <2>1. v \in Nat
        BY <1>0, <1>3 DEF Part, Ids
    <2>2. \A p \in {10, 100} : v \div p \in 0..v
        BY <2>1
    <2>3. \A w \in Cut(k, v) : w \in 0..v
        BY <1>3, <2>1, <2>2 DEF Cut
    <2> QED BY <1>0, <1>3, <2>1, <2>3 DEF Part, Ids
  <1>4. CASE k \in {"banned", "members_info", "moderators"}
    <2>1. v \in SUBSET Account
        BY <1>4 DEF Part
    <2>2. Cut(k, v) = (SUBSET v) \cup {{0}} \cup {part \cup {0} : part \in (SUBSET v) \ {v}}
        BY <1>4 DEF Cut
    <2>3. \A w \in Cut(k, v) : w \in SUBSET Account
      <3>1. 0 \in Account
          BY DEF Account
      <3> QED BY <2>1, <2>2, <3>1
    <2> QED BY <1>4, <2>3 DEF Part
  <1> QED BY <1>1, <1>2, <1>3, <1>4 DEF Keyword

(* What Room::deserialize takes for a key that is missing is of its kind.  *)
LEMMA MissingTyped ==
    ASSUME NEW k \in Keyword
    PROVE  Missing[k] \in Part(k)
  <1>1. CASE k \in {"banned", "members_info", "moderators"}
      BY <1>1 DEF Missing, Part
  <1>2. CASE k = "history"
    <2>1. Missing[k] = <<>> /\ Len(<<>>) = 0 /\ <<>> \in Texts /\ 0 <= MaxHistory
        BY <1>2, PersistenceAssumption DEF Missing, Texts
    <2> QED BY <1>2, <2>1 DEF Part
  <1>3. CASE k = "name"
      BY <1>3 DEF Missing, Part
  <1>4. CASE k = "nextMessageId"
      BY <1>4, PersistenceAssumption DEF Missing, Part, Ids
  <1>5. CASE k = "owner_id"
      BY <1>5 DEF Missing, Part
  <1> QED BY <1>1, <1>2, <1>3, <1>4, <1>5 DEF Keyword

(* The keys, in the order in which the writer puts them.                   *)
LEMMA KeysAre == Len(Keys) = 7 /\ \A i \in 1..7 : Keys[i] \in Keyword
  BY DEF Keys, Keyword

(* Also what is read of a room that the end of the text cuts is a value,   *)
(* which has the name of the room or none.                                 *)
LEMMA TornTyped ==
    ASSUME NEW v \in AllValues, NEW t \in Torn(v)
    PROVE  t \in AllValues /\ t.name \in {v.name, Nameless}
  <1>1. PICK n \in 0..6 : \E part \in Cut(Keys[n + 1], v[Keys[n + 1]]) :
          t = [k \in DOMAIN Missing |-> IF \E i \in 1..n : Keys[i] = k THEN v[k]
                                        ELSE IF k = Keys[n + 1] THEN part ELSE Missing[k]]
      BY KeysAre DEF Torn
  <1>2. PICK part \in Cut(Keys[n + 1], v[Keys[n + 1]]) :
          t = [k \in Keyword |-> IF \E i \in 1..n : Keys[i] = k THEN v[k]
                                 ELSE IF k = Keys[n + 1] THEN part ELSE Missing[k]]
      BY <1>1, Domain
  <1>3. Keys[n + 1] \in Keyword
      BY KeysAre
  <1>4. part \in Part(Keys[n + 1])
      BY <1>2, <1>3, CutTyped, PartsOf
  <1>5. \A k \in Keyword : t[k] \in Part(k)
      BY <1>2, <1>4, PartsOf, MissingTyped
  <1>6. t \in AllValues
      BY <1>2, <1>5, PartsMake
  <1>7. t["name"] \in {v["name"], Nameless}
    <2>1. "name" \in Keyword /\ Missing["name"] = Nameless
        BY DEF Keyword, Missing
    <2>2. Keys[n + 1] = "name" => part = Nameless
        BY <1>2 DEF Cut
    <2> QED BY <1>2, <2>1, <2>2
  <1> QED BY <1>6, <1>7

-----------------------------------------------------------------------------
(* The inductive invariant.                                                *)

Busy == [op: {"post"}, name: Name, arg: 0..(MaxMessage - 1)] \cup [op: {"owner"}, name: Name, arg: Uid]
HandlerRecord == [signal: Signal, at: {"raised", "open", "failed", "hung"}, idle: BOOLEAN]

Types ==
    /\ phase \in {"down", "starting", "loading", "running"}
    /\ rooms \subseteq AllRooms /\ unread \subseteq AllValues
    /\ busy = None \/ busy \in Busy
    /\ handlers \in Seq(HandlerRecord)
    /\ file \in [text: SUBSET AllValues, written: SUBSET AllValues, ended: BOOLEAN]
    /\ file.written \subseteq file.text /\ (file.ended => file.written = file.text)
    /\ log \in {"saved", "loaded", "other"}
    /\ promised = None \/ promised \subseteq AllValues
    /\ told \in [Name -> Ids]
    /\ torn \in BOOLEAN
    /\ used \in [change: 0..MaxChange, signal: 0..MaxSignal, crash: 0..MaxCrash]
    /\ phase \in {"down", "starting"} => rooms = {} /\ handlers = <<>>
    /\ phase # "running" => busy = None
    /\ phase # "loading" => unread = {}

(* No two of S have one name that create_room accepts. *)
NamesApart(S) == \A v, w \in S : v.name = w.name /\ v.name \in Name => v = w

Named ==
    /\ NamesApart(rooms) /\ NamesApart(unread) /\ NamesApart(file.text)
    /\ \A r \in rooms : \A v \in unread : r.name = v.name => r.name \notin Name

Saves ==
    /\ promised # None => file.ended /\ file.text = promised
    /\ (\E i \in DOMAIN handlers : handlers[i].at = "open") => file.text = AllContents(rooms)
    /\ phase = "loading" /\ promised # None => AllContents(rooms) \cup unread = promised

Fresh(v) == v.name \in Name => told[v.name] <= v.nextMessageId
Ordered(v) ==
    LET h == v.history IN
    /\ h \in Seq(Ids)
    /\ \A i \in 1..(Len(h) - 1) : h[i] < h[i + 1]
    /\ h # <<>> => h[Len(h)] < v.nextMessageId

Numbers ==
    /\ \A v \in rooms \cup unread : Fresh(v) /\ Ordered(v)
    /\ \A v \in file.text : Ordered(v)
    /\ phase \in {"down", "starting"} /\ file.ended => \A v \in file.text : Fresh(v)
    /\ busy # None /\ busy.op = "post" =>
          \A r \in rooms : r.name = busy.name =>
              /\ r.nextMessageId = busy.arg + 1
              /\ r.history # <<>> => r.history[Len(r.history)] < busy.arg

IInv == Types /\ Named /\ Saves /\ (~torn => Numbers) /\ RestartKeepsRooms

(* Before the first start there is an empty file and nothing promised.     *)
LEMMA InitHolds ==
    ASSUME Init
    PROVE  IInv
  <1>1. Types
    <2>1. /\ 0 \in Ids
          /\ used \in [change: 0..MaxChange, signal: 0..MaxSignal, crash: 0..MaxCrash]
        BY PersistenceAssumption DEF Init, Ids
    <2>2. handlers = <<>> /\ <<>> \in Seq(HandlerRecord)
        BY DEF Init
    <2>3. file \in [text: SUBSET AllValues, written: SUBSET AllValues, ended: BOOLEAN]
        BY DEF Init
    <2> QED BY <2>1, <2>2, <2>3 DEF Init, Types
  <1>2. Named /\ Saves /\ RestartKeepsRooms
      BY DEF Init, Named, NamesApart, Saves, AllContents, RestartKeepsRooms
  <1>3. Numbers
      BY DEF Init, Numbers
  <1> QED BY <1>1, <1>2, <1>3 DEF IInv

-----------------------------------------------------------------------------
(* main().                                                                 *)

(* main starts and installs the handlers: no rooms yet.                    *)
LEMMA StartKeeps ==
    ASSUME IInv, Start
    PROVE  IInv'
  <1>1. Types'
      BY DEF IInv, Types, Start, historyVars
  <1>2. Named' /\ Saves' /\ RestartKeepsRooms'
      BY DEF IInv, Types, Named, NamesApart, Saves, RestartKeepsRooms, Start, historyVars
  <1>3. ~torn' => Numbers'
      BY DEF IInv, Numbers, Fresh, Ordered, Start, historyVars
  <1> QED BY <1>1, <1>2, <1>3 DEF IInv

(* What is read of a file keeps its names apart. *)
LEMMA ReadingsTyped ==
    ASSUME IInv, NEW R \in Readings(file)
    PROVE  /\ R \subseteq AllValues /\ NamesApart(R)
           /\ file.ended => R = file.text
  <1>1. CASE file.ended
      BY <1>1 DEF Readings, IInv, Types, Named
  <1>2. CASE ~file.ended
    <2>1. /\ file.text \subseteq AllValues /\ file.written \subseteq file.text
          /\ NamesApart(file.text)
        BY DEF IInv, Types, Named
    <2>2. CASE R = file.written
        BY <1>2, <2>1, <2>2 DEF NamesApart
    <2>3. CASE R # file.written
      <3>1. PICK v \in file.text \ file.written : \E t \in Torn(v) : R = file.written \cup {t}
          BY <1>2, <2>3 DEF Readings
      <3> PICK t \in Torn(v) : R = file.written \cup {t}
          BY <3>1
      <3>2. t \in AllValues /\ t.name \in {v.name, Nameless}
          BY <2>1, <3>1, TornTyped
      <3>3. \A w \in file.written : t.name = w.name => w.name \notin Name
          BY <2>1, <3>1, <3>2, PersistenceAssumption DEF NamesApart
      <3>4. NamesApart(R)
          BY <2>1, <3>1, <3>3 DEF NamesApart
      <3> QED BY <1>2, <2>1, <3>1, <3>2, <3>4
    <2> QED BY <2>2, <2>3
  <1> QED BY <1>1, <1>2

(* Config::loadFromFile: what is read is the last complete save or, of a   *)
(* torn file, no promise of one.                                           *)
LEMMA LoadFromFileKeeps ==
    ASSUME IInv, LoadFromFile
    PROVE  IInv'
  <1>1. /\ unread' \subseteq AllValues /\ NamesApart(unread') /\ (file.ended => unread' = file.text)
        /\ rooms = {} /\ handlers = <<>>
      BY ReadingsTyped DEF LoadFromFile, IInv, Types
  <1>2. Types'
      BY <1>1 DEF IInv, Types, LoadFromFile
  <1>3. Named'
      BY <1>1 DEF IInv, Named, NamesApart, LoadFromFile
  <1>4. Saves'
    <2>1. AllContents(rooms') = {}
        BY <1>1 DEF AllContents, LoadFromFile
    <2> QED BY <1>1, <2>1 DEF IInv, Saves, LoadFromFile
  <1>5. ~torn' => Numbers'
      BY <1>1 DEF IInv, Types, Numbers, Fresh, Ordered, LoadFromFile
  <1>6. RestartKeepsRooms'
      BY DEF RestartKeepsRooms, LoadFromFile
  <1> QED BY <1>2, <1>3, <1>4, <1>5, <1>6 DEF IInv

(* Server::deserialize makes one room of one value.                        *)
LEMMA InsertRoomKeeps ==
    ASSUME IInv, InsertRoom
    PROVE  IInv'
  <1>1. PICK v \in unread : rooms' = rooms \cup {Deserialize(v)} /\ unread' = unread \ {v}
      BY DEF InsertRoom
  <1> DEFINE r == Deserialize(v)
  <1>2. v \in AllValues /\ unread \subseteq AllValues /\ rooms \subseteq AllRooms /\ handlers = <<>>
      BY DEF IInv, Types, InsertRoom
  <1>3. /\ r \in AllRooms /\ Contents(r) = v
        /\ r.name = v.name /\ r.history = v.history /\ r.nextMessageId = v.nextMessageId
      BY <1>2, RoundTrip
  <1> HIDE DEF r
  <1>4. rooms' = rooms \cup {r}
      BY <1>1 DEF r
  <1>5. Types'
      BY <1>1, <1>2, <1>3, <1>4 DEF IInv, Types, InsertRoom, historyVars
  <1>6. Named'
    <2>1. \A s \in rooms : s.name = r.name => s.name \notin Name
        BY <1>3 DEF IInv, Named
    <2>2. NamesApart(rooms')
        BY <1>4, <2>1 DEF IInv, Named, NamesApart
    <2>3. \A w \in unread' : r.name = w.name => r.name \notin Name
        BY <1>1, <1>3 DEF IInv, Named, NamesApart
    <2> QED BY <1>1, <1>4, <2>2, <2>3 DEF IInv, Named, NamesApart, InsertRoom
  <1>7. Saves'
    <2>1. AllContents(rooms') \cup unread' = AllContents(rooms) \cup unread
        BY <1>1, <1>3, <1>4 DEF AllContents
    <2>2. ~ \E i \in DOMAIN handlers' : handlers'[i].at = "open"
        BY <1>2 DEF InsertRoom
    <2>3. phase = "loading" /\ phase' = phase /\ file' = file /\ promised' = promised
        BY DEF InsertRoom, historyVars
    <2> QED BY <2>1, <2>2, <2>3 DEF IInv, Saves
  <1>8. ~torn' => Numbers'
    <2> SUFFICES ASSUME ~torn, torn' = torn, Numbers PROVE Numbers'
        BY DEF IInv, InsertRoom, historyVars
    <2>1. told' = told /\ file' = file /\ phase' = "loading" /\ busy = None /\ busy' = busy
        BY DEF InsertRoom, historyVars, IInv, Types
    <2>2. Fresh(r)' /\ Ordered(r)'
        BY <1>3, <2>1 DEF Numbers, Fresh, Ordered
    <2>3. \A w \in rooms' \cup unread' : Fresh(w)' /\ Ordered(w)'
        BY <1>1, <1>4, <2>1, <2>2 DEF Numbers, Fresh, Ordered
    <2> QED BY <2>1, <2>3 DEF Numbers, Ordered
  <1>9. RestartKeepsRooms'
      BY DEF RestartKeepsRooms, InsertRoom
  <1> QED BY <1>5, <1>6, <1>7, <1>8, <1>9 DEF IInv

(* The loading is over: with nothing left unread, the rooms are what was   *)
(* promised.                                                               *)
LEMMA LoadedKeeps ==
    ASSUME IInv, Loaded
    PROVE  IInv'
  <1>1. Types'
      BY DEF IInv, Types, Loaded, historyVars
  <1>2. Named' /\ Saves'
      BY DEF IInv, Types, Named, NamesApart, Saves, AllContents, Loaded, historyVars
  <1>3. ~torn' => Numbers'
      BY DEF IInv, Numbers, Fresh, Ordered, Loaded, historyVars
  <1>4. RestartKeepsRooms'
      BY DEF IInv, Saves, AllContents, RestartKeepsRooms, Loaded, historyVars
  <1> QED BY <1>1, <1>2, <1>3, <1>4 DEF IInv

(* The end of the process, when told is what the file bears out. *)
LEMMA EndsKeeps ==
    ASSUME IInv, Ends, log' # "loaded",
           file' \in [text: SUBSET AllValues, written: SUBSET AllValues, ended: BOOLEAN],
           file'.written \subseteq file'.text, file'.ended => file'.written = file'.text,
           log' \in {"saved", "loaded", "other"}, promised' = None \/ promised' \subseteq AllValues,
           told' \in [Name -> Ids], torn' = torn,
           used' \in [change: 0..MaxChange, signal: 0..MaxSignal, crash: 0..MaxCrash],
           NamesApart(file'.text),
           promised' # None => file'.ended /\ file'.text = promised',
           ~torn => \A v \in file'.text : Ordered(v),
           ~torn /\ file'.ended => \A v \in file'.text : Fresh(v)'
    PROVE  IInv'
  <1>1. Types'
      BY DEF IInv, Types, Ends
  <1>2. Named' /\ Saves' /\ RestartKeepsRooms'
      BY DEF Named, NamesApart, Saves, RestartKeepsRooms, Ends
  <1>3. ~torn' => Numbers'
      BY DEF Numbers, Ordered, Ends
  <1> QED BY <1>1, <1>2, <1>3 DEF IInv

(* The process is lost; the file is left as it is.                         *)
LEMMA CrashKeeps ==
    ASSUME IInv, Crash
    PROVE  IInv'
  <1>1. /\ Ends /\ log' = "other" /\ UNCHANGED <<file, promised, torn>>
        /\ told' = [n \in Name |-> 0]
        /\ used' \in [change: 0..MaxChange, signal: 0..MaxSignal, crash: 0..MaxCrash]
      BY PersistenceAssumption DEF Crash, IInv, Types
  <1>2. told' \in [Name -> Ids] /\ \A v \in file'.text : Fresh(v)'
      BY <1>1, PersistenceAssumption DEF IInv, Types, Fresh, Ids, AllValues, Value
  <1>3. NamesApart(file'.text)
      BY <1>1 DEF IInv, Named
  <1>4. promised' # None => file'.ended /\ file'.text = promised'
      BY <1>1 DEF IInv, Saves
  <1>5. ~torn => \A v \in file'.text : Ordered(v)
      BY <1>1 DEF IInv, Numbers
  <1> QED BY <1>1, <1>2, <1>3, <1>4, <1>5, EndsKeeps DEF IInv, Types

-----------------------------------------------------------------------------
(* sigSave and sigShutdown.                                                *)

(* A signal interrupts whatever runs, also another handler.                *)
LEMMA RaiseKeeps ==
    ASSUME IInv, NEW s \in Signal, Raise(s)
    PROVE  IInv'
  <1>1. /\ log' = "other" /\ UNCHANGED <<file, promised, told, torn>>
        /\ used' \in [change: 0..MaxChange, signal: 0..MaxSignal, crash: 0..MaxCrash]
      BY PersistenceAssumption DEF Raise, IInv, Types, historyVars
  <1>2. CASE phase = "starting"
    <2>1. Ends
        BY <1>2 DEF Raise
    <2>2. /\ NamesApart(file'.text)
          /\ promised' # None => file'.ended /\ file'.text = promised'
          /\ ~torn => \A v \in file'.text : Ordered(v)
        BY <1>1 DEF IInv, Named, Saves, Numbers
    <2>3. ~torn /\ file'.ended => \A v \in file'.text : Fresh(v)'
        BY <1>1, <1>2 DEF IInv, Numbers, Fresh
    <2> QED BY <1>1, <2>1, <2>2, <2>3, EndsKeeps DEF IInv, Types
  <1>3. CASE phase # "starting"
    <2> PICK idle \in BOOLEAN : handlers' = Append(handlers, [signal |-> s, at |-> "raised", idle |-> idle])
        BY <1>3 DEF Raise
    <2> DEFINE h == [signal |-> s, at |-> "raised", idle |-> idle]
    <2>1. handlers' = Append(handlers, h) /\ UNCHANGED <<phase, rooms, unread, busy>> /\ phase # "down"
        BY <1>3 DEF Raise
    <2>2. h \in HandlerRecord /\ h.at # "open" /\ handlers \in Seq(HandlerRecord)
        BY DEF HandlerRecord, IInv, Types
    <2> HIDE DEF h
    <2>3. /\ handlers' \in Seq(HandlerRecord)
          /\ \A i \in DOMAIN handlers' : handlers'[i].at = "open" =>
                i \in DOMAIN handlers /\ handlers[i].at = "open"
        BY <2>1, <2>2
    <2>4. Types'
        BY <1>1, <1>3, <2>1, <2>3 DEF IInv, Types
    <2>5. Named' /\ RestartKeepsRooms'
        BY <1>1, <2>1 DEF IInv, Named, NamesApart, RestartKeepsRooms
    <2>6. Saves'
        BY <1>1, <2>1, <2>3 DEF IInv, Saves
    <2>7. ~torn' => Numbers'
        BY <1>1, <2>1 DEF IInv, Numbers, Fresh, Ordered
    <2> QED BY <2>4, <2>5, <2>6, <2>7 DEF IInv
  <1> QED BY <1>2, <1>3

(* The step of a handler changes where it is, and no other. *)
LEMMA ToLatestIs ==
    ASSUME handlers \in Seq(HandlerRecord), handlers # <<>>,
           NEW at \in {"raised", "open", "failed", "hung"}, ToLatest(at)
    PROVE  /\ handlers' \in Seq(HandlerRecord) /\ handlers' # <<>>
           /\ DOMAIN handlers' = DOMAIN handlers
           /\ \A i \in DOMAIN handlers :
                 handlers'[i].at = IF i = Len(handlers) THEN at ELSE handlers[i].at
  <1> DEFINE n == Len(handlers)
             h == [handlers[n] EXCEPT !.at = at]
  <1>1. n \in Nat \ {0} /\ n \in 1..n /\ handlers[n] \in HandlerRecord
      OBVIOUS
  <1>2. h \in HandlerRecord /\ h.at = at
      BY <1>1 DEF HandlerRecord
  <1>3. handlers' = [handlers EXCEPT ![n] = h]
      BY DEF ToLatest
  <1> HIDE DEF h
  <1> QED BY <1>1, <1>2, <1>3

(* While a handler is under way the process runs or loads. *)
LEMMA HandlersRun ==
    ASSUME Types, handlers # <<>>
    PROVE  phase \in {"loading", "running"}
  BY DEF Types

(* Config::writeToFile truncates the file: nothing is promised until a     *)
(* save is complete.                                                       *)
LEMMA OpenFileKeeps ==
    ASSUME IInv, OpenFile
    PROVE  IInv'
  <1>1. /\ handlers' \in Seq(HandlerRecord)
        /\ phase \in {"loading", "running"} /\ UNCHANGED <<phase, rooms, unread, busy, told, torn, used>>
        /\ log' = "other" /\ promised' = None
      BY ToLatestIs, HandlersRun DEF OpenFile, IInv, Types
  <1>2. \A r \in rooms : /\ Contents(r) \in AllValues /\ Serialize(r) = Contents(r)
                         /\ Contents(r).name = r.name /\ Contents(r).history = r.history
                         /\ Contents(r).nextMessageId = r.nextMessageId
      BY ContentsIs, ContentsTyped DEF IInv, Types
  <1>3. file'.text = AllContents(rooms) /\ file'.written = {} /\ file'.ended = FALSE
      BY <1>2 DEF OpenFile, AllContents
  <1>4. /\ file' \in [text: SUBSET AllValues, written: SUBSET AllValues, ended: BOOLEAN]
    <2>1. AllContents(rooms) \in SUBSET AllValues
        BY <1>2 DEF AllContents
    <2>2. file' = [text |-> AllContents(rooms), written |-> {}, ended |-> FALSE]
        BY <1>2 DEF OpenFile, AllContents
    <2> QED BY <2>1, <2>2
  <1>5. Types'
      BY <1>1, <1>3, <1>4 DEF IInv, Types
  <1>6. Named'
    <2>1. NamesApart(AllContents(rooms))
        BY <1>2 DEF IInv, Named, NamesApart, AllContents
    <2> QED BY <1>1, <1>3, <2>1 DEF IInv, Named, NamesApart
  <1>7. Saves' /\ RestartKeepsRooms'
      BY <1>1, <1>3 DEF Saves, RestartKeepsRooms
  <1>8. ~torn' => Numbers'
    <2> SUFFICES ASSUME Numbers PROVE Numbers'
        BY <1>1 DEF IInv
    <2>1. \A v \in AllContents(rooms) : Ordered(v)
      <3> SUFFICES ASSUME NEW r \in rooms PROVE Ordered(Contents(r))
          BY DEF AllContents
      <3>1. Ordered(r)
          BY DEF Numbers
      <3> QED BY <1>2, <3>1 DEF Ordered
    <2>2. \A v \in rooms' \cup unread' : Fresh(v)' /\ Ordered(v)'
        BY <1>1 DEF Numbers, Fresh, Ordered
    <2> QED BY <1>1, <1>3, <2>1, <2>2 DEF Numbers, Ordered
  <1> QED BY <1>5, <1>6, <1>7, <1>8 DEF IInv

(* A room is written; those written are part of what is to be saved.       *)
LEMMA WriteRoomKeeps ==
    ASSUME IInv, WriteRoom
    PROVE  IInv'
  <1>1. PICK v \in file.text \ file.written : file' = [file EXCEPT !.written = @ \cup {v}]
      BY DEF WriteRoom
  <1>2. /\ file \in [text: SUBSET AllValues, written: SUBSET AllValues, ended: BOOLEAN]
        /\ file.written \subseteq file.text /\ ~file.ended
      BY <1>1 DEF IInv, Types
  <1>3. /\ file' \in [text: SUBSET AllValues, written: SUBSET AllValues, ended: BOOLEAN]
        /\ file'.written \subseteq file'.text /\ ~file'.ended /\ file'.text = file.text
      BY <1>1, <1>2
  <1>4. /\ UNCHANGED <<phase, rooms, unread, busy, handlers, promised, told, torn, used>>
        /\ log' = "other"
      BY DEF WriteRoom, processVars, historyVars
  <1>5. Types'
      BY <1>3, <1>4 DEF IInv, Types
  <1>6. Named' /\ RestartKeepsRooms'
      BY <1>3, <1>4 DEF IInv, Named, NamesApart, RestartKeepsRooms
  <1>7. Saves'
      BY <1>2, <1>3, <1>4 DEF IInv, Saves
  <1>8. ~torn' => Numbers'
      BY <1>3, <1>4 DEF IInv, Numbers, Fresh, Ordered
  <1> QED BY <1>5, <1>6, <1>7, <1>8 DEF IInv

(* The disk fails; the file is left as far as it was written.              *)
LEMMA WriteFailsKeeps ==
    ASSUME IInv, WriteFails
    PROVE  IInv'
  <1>1. /\ UNCHANGED <<phase, rooms, unread, busy, file, promised, told, torn>> /\ log' = "other"
        /\ used' \in [change: 0..MaxChange, signal: 0..MaxSignal, crash: 0..MaxCrash]
        /\ handlers # <<>> /\ handlers \in Seq(HandlerRecord) /\ ToLatest("failed")
      BY PersistenceAssumption DEF WriteFails, IInv, Types, historyVars
  <1>2. /\ handlers' \in Seq(HandlerRecord)
        /\ \A i \in DOMAIN handlers' : handlers'[i].at = "open" =>
              i \in DOMAIN handlers /\ handlers[i].at = "open"
      BY <1>1, ToLatestIs
  <1>3. phase \in {"loading", "running"}
      BY <1>1, HandlersRun DEF IInv
  <1>4. Types'
      BY <1>1, <1>2, <1>3 DEF IInv, Types
  <1>5. Named' /\ RestartKeepsRooms'
      BY <1>1 DEF IInv, Named, NamesApart, RestartKeepsRooms
  <1>6. Saves'
      BY <1>1, <1>2 DEF IInv, Saves
  <1>7. ~torn' => Numbers'
      BY <1>1 DEF IInv, Numbers, Fresh, Ordered
  <1> QED BY <1>4, <1>5, <1>6, <1>7 DEF IInv

(* A handler hangs: nothing it was to save is saved, nor lost.             *)
LEMMA HangKeeps ==
    ASSUME IInv, Hang
    PROVE  IInv'
  <1>1. /\ UNCHANGED <<phase, rooms, unread, busy, file, promised, told, torn, used>> /\ log' = "other"
        /\ handlers # <<>> /\ handlers \in Seq(HandlerRecord) /\ ToLatest("hung")
      BY DEF Hang, IInv, Types, historyVars
  <1>2. /\ handlers' \in Seq(HandlerRecord)
        /\ \A i \in DOMAIN handlers' : handlers'[i].at = "open" =>
              i \in DOMAIN handlers /\ handlers[i].at = "open"
      BY <1>1, ToLatestIs
  <1>3. phase \in {"loading", "running"}
      BY <1>1, HandlersRun DEF IInv
  <1>4. Types'
      BY <1>1, <1>2, <1>3 DEF IInv, Types
  <1>5. Named' /\ RestartKeepsRooms'
      BY <1>1 DEF IInv, Named, NamesApart, RestartKeepsRooms
  <1>6. Saves'
      BY <1>1, <1>2 DEF IInv, Saves
  <1>7. ~torn' => Numbers'
      BY <1>1 DEF IInv, Numbers, Fresh, Ordered
  <1> QED BY <1>4, <1>5, <1>6, <1>7 DEF IInv

(* What a complete writing leaves behind: rooms.dat has the rooms. *)
LEMMA SavedFile ==
    ASSUME IInv, Saved
    PROVE  /\ file' \in [text: SUBSET AllValues, written: SUBSET AllValues, ended: BOOLEAN]
           /\ file'.text = file.text
           /\ file'.written \subseteq file'.text /\ (file'.ended => file'.written = file'.text)
           /\ latest.at # "failed" => file'.ended /\ file.text = AllContents(rooms)
           /\ promised' # None => file'.ended /\ file'.text = promised'
           /\ promised' = None \/ promised' \subseteq AllValues
           /\ phase = "loading" /\ latest.signal = USR1 /\ promised' # None => promised' = promised
  <1>1. /\ file \in [text: SUBSET AllValues, written: SUBSET AllValues, ended: BOOLEAN]
        /\ file.written \subseteq file.text /\ (file.ended => file.written = file.text)
        /\ promised = None \/ promised \subseteq AllValues
        /\ promised # None => file.ended /\ file.text = promised
      BY DEF IInv, Types, Saves
  <1>2. CASE latest.at = "failed" /\ UNCHANGED <<file, promised>>
      BY <1>1, <1>2
  <1>3. CASE /\ latest.at = "open" /\ file.written = file.text
             /\ file' = [file EXCEPT !.ended = TRUE]
             /\ promised' = IF phase = "loading" /\ latest.signal = USR1 THEN None
                            ELSE {Contents(r) : r \in rooms}
    <2>1. file.text = AllContents(rooms)
      <3>1. Len(handlers) \in DOMAIN handlers /\ handlers[Len(handlers)] = latest
          BY DEF Saved, IInv, Types, latest, Last
      <3> QED BY <1>3, <3>1 DEF IInv, Saves
    <2>2. /\ file' \in [text: SUBSET AllValues, written: SUBSET AllValues, ended: BOOLEAN]
          /\ file'.text = file.text /\ file'.written = file'.text /\ file'.ended
        BY <1>1, <1>3
    <2>3. promised' # None => promised' = AllContents(rooms) /\ ~(phase = "loading" /\ latest.signal = USR1)
        BY <1>3 DEF AllContents
    <2> QED BY <1>1, <1>3, <2>1, <2>2, <2>3
  <1> QED BY <1>2, <1>3 DEF Saved

(* A save is complete, and promises the rooms as they are; the handler     *)
(* returns, or ends the process.                                           *)
LEMMA SavedKeeps ==
    ASSUME IInv, Saved
    PROVE  IInv'
  <1>1. /\ file' \in [text: SUBSET AllValues, written: SUBSET AllValues, ended: BOOLEAN]
        /\ file'.text = file.text
        /\ file'.written \subseteq file'.text /\ (file'.ended => file'.written = file'.text)
        /\ latest.at # "failed" => file'.ended /\ file.text = AllContents(rooms)
        /\ promised' # None => file'.ended /\ file'.text = promised'
        /\ promised' = None \/ promised' \subseteq AllValues
        /\ phase = "loading" /\ latest.signal = USR1 /\ promised' # None => promised' = promised
      BY SavedFile
  <1>2. /\ handlers # <<>> /\ handlers \in Seq(HandlerRecord) /\ phase \in {"loading", "running"}
        /\ log' = "saved" /\ torn' = torn /\ used' = used
        /\ told' = IF latest.signal # USR1 /\ latest.at = "failed" THEN [n \in Name |-> 0] ELSE told
      BY HandlersRun DEF Saved, IInv, Types
  <1>3. told' \in [Name -> Ids]
      BY <1>2, PersistenceAssumption DEF IInv, Types, Ids
  <1>4. CASE latest.signal = USR1
    <2>1. handlers' = Front(handlers) /\ UNCHANGED <<phase, rooms, unread, busy, told>>
        BY <1>2, <1>4 DEF Saved
    <2>2. /\ handlers' \in Seq(HandlerRecord)
          /\ \A i \in DOMAIN handlers' : i \in DOMAIN handlers /\ handlers'[i] = handlers[i]
        BY <1>2, <2>1 DEF Front
    <2>3. Types'
        BY <1>1, <1>2, <1>3, <2>1, <2>2 DEF IInv, Types
    <2>4. Named' /\ RestartKeepsRooms'
        BY <1>1, <1>2, <2>1 DEF IInv, Named, NamesApart, RestartKeepsRooms
    <2>5. Saves'
        BY <1>1, <1>4, <2>1, <2>2 DEF IInv, Saves
    <2>6. ~torn' => Numbers'
        BY <1>1, <1>2, <2>1 DEF IInv, Numbers, Fresh, Ordered
    <2> QED BY <2>3, <2>4, <2>5, <2>6 DEF IInv
  <1>5. CASE latest.signal # USR1
    <2>1. Ends
        BY <1>5 DEF Saved
    <2>2. NamesApart(file'.text) /\ (~torn => \A v \in file'.text : Ordered(v))
        BY <1>1 DEF IInv, Named, Numbers
    <2>3. ~torn /\ file'.ended => \A v \in file'.text : Fresh(v)'
      <3>1. CASE latest.at = "failed"
        <4>1. \A v \in AllValues : v.nextMessageId >= 0
            BY PersistenceAssumption DEF AllValues, Value
        <4>2. told' = [n \in Name |-> 0] /\ file'.text \subseteq AllValues
            BY <1>1, <1>2, <1>5, <3>1
        <4> QED BY <4>1, <4>2 DEF Fresh
      <3>2. CASE latest.at # "failed"
        <4> SUFFICES ASSUME ~torn, NEW r \in rooms PROVE Fresh(Contents(r))'
            BY <1>1, <3>2 DEF AllContents
        <4>1. Fresh(r) /\ Contents(r).name = r.name /\ Contents(r).nextMessageId = r.nextMessageId
            BY ContentsTyped DEF IInv, Types, Numbers
        <4> QED BY <1>2, <3>2, <4>1 DEF Fresh
      <3> QED BY <3>1, <3>2
    <2> QED BY <1>1, <1>2, <1>3, <2>1, <2>2, <2>3, EndsKeeps DEF IInv, Types
  <1> QED BY <1>4, <1>5

-----------------------------------------------------------------------------
(* The callbacks.                                                          *)

(* A callback runs in a process that runs, and touches no file. *)
CallbackStep ==
    /\ phase = "running" /\ handlers = <<>>
    /\ log' = "other"
    /\ used' \in [change: 0..MaxChange, signal: 0..MaxSignal, crash: 0..MaxCrash]
    /\ UNCHANGED <<phase, unread, handlers, file, promised, torn>>

(* A callback that changes rooms runs with no handler on top.              *)
LEMMA ChangeIs ==
    ASSUME Types, NEW R, NEW S, Change(R, S)
    PROVE  CallbackStep /\ busy = None /\ rooms' = (rooms \ R) \cup S
  BY PersistenceAssumption DEF Change, CallbackStep, Types, Calm

(* Whatever a callback makes of the rooms and of what is pending: what is  *)
(* left to show of it.                                                     *)
LEMMA CallbackKeeps ==
    ASSUME IInv, CallbackStep, rooms' \subseteq AllRooms, NamesApart(rooms'),
           busy' = None \/ busy' \in Busy, told' \in [Name -> Ids],
           ~torn => /\ \A r \in rooms' : Fresh(r)' /\ Ordered(r)
                    /\ busy' # None /\ busy'.op = "post" =>
                          \A r \in rooms' : r.name = busy'.name =>
                              /\ r.nextMessageId = busy'.arg + 1
                              /\ r.history # <<>> => r.history[Len(r.history)] < busy'.arg
    PROVE  IInv'
  <1>1. unread = {} /\ unread' = {} /\ phase' = "running" /\ handlers' = <<>>
      BY DEF IInv, Types, CallbackStep
  <1>2. Types'
      BY <1>1 DEF IInv, Types, CallbackStep
  <1>3. Named'
      BY <1>1 DEF IInv, Named, NamesApart, CallbackStep
  <1>4. Saves' /\ RestartKeepsRooms'
      BY <1>1 DEF IInv, Saves, RestartKeepsRooms, CallbackStep
  <1>5. ~torn' => Numbers'
    <2> SUFFICES ASSUME ~torn, torn' = torn PROVE Numbers'
        BY DEF CallbackStep
    <2>1. \A v \in rooms' \cup unread' : Fresh(v)' /\ Ordered(v)'
        BY <1>1 DEF Ordered
    <2>2. \A v \in file'.text : Ordered(v)'
        BY DEF IInv, Numbers, Ordered, CallbackStep
    <2> QED BY <1>1, <2>1, <2>2 DEF Numbers
  <1> QED BY <1>2, <1>3, <1>4, <1>5 DEF IInv

(* PacketCreateRoom, up to the owner: the new room has a name of its own.  *)
LEMMA CreateRoomKeeps ==
    ASSUME IInv, NEW n \in Name, NEW u \in Uid, CreateRoom(n, u)
    PROVE  IInv'
  <1> DEFINE r == [Deserialize(Missing) EXCEPT !.name = n, !.owner_id = Unowned]
  <1>1. /\ CallbackStep /\ busy = None /\ rooms' = rooms \cup {r} /\ \A s \in rooms : s.name # n
        /\ busy' = [op |-> "owner", name |-> n, arg |-> u]
        /\ told' = [told EXCEPT ![n] = 0] /\ told \in [Name -> Ids]
    <2>1. Change({}, {r})
        BY DEF CreateRoom
    <2>2. CallbackStep /\ busy = None /\ rooms' = (rooms \ {}) \cup {r}
        BY <2>1, ChangeIs DEF IInv
    <2> QED BY <2>2 DEF CreateRoom, IInv, Types
  <1>2. r \in AllRooms /\ r.name = n /\ r.history = <<>> /\ r.nextMessageId = 0
    <2> DEFINE d == Deserialize(Missing)
    <2>1. /\ d \in RoomRecord /\ d.history = <<>> /\ d.nextMessageId = 0
      <3>1. \A k \in Keyword : Missing[k] \in Part(k)
          BY MissingTyped
      <3>2. Missing \in AllValues
        <4>1. Missing = [k \in Keyword |-> Missing[k]]
            BY DEF Missing, Keyword
        <4> QED BY <3>1, <4>1, PartsMake
      <3>3. Missing.history = <<>> /\ Missing.nextMessageId = 0
          BY DEF Missing
      <3> QED BY <3>2, <3>3, RoundTrip DEF AllRooms
    <2> HIDE DEF d
    <2>2. Unowned \in Nat
        BY PersistenceAssumption
    <2>3. /\ [d EXCEPT !.name = n, !.owner_id = Unowned] \in RoomRecord
          /\ [d EXCEPT !.name = n, !.owner_id = Unowned].history = <<>>
          /\ [d EXCEPT !.name = n, !.owner_id = Unowned].nextMessageId = 0
          /\ [d EXCEPT !.name = n, !.owner_id = Unowned].name = n
        BY <2>1, <2>2 DEF RoomRecord
    <2>4. Len(<<>>) = 0 /\ 0 <= MaxHistory
        BY PersistenceAssumption
    <2> QED BY <2>3, <2>4 DEF AllRooms, d
  <1> HIDE DEF r
  <1>3. rooms' \subseteq AllRooms /\ NamesApart(rooms')
      BY <1>1, <1>2 DEF IInv, Types, Named, NamesApart
  <1>4. busy' \in Busy /\ busy'.op # "post"
      BY <1>1 DEF Busy
  <1>5. told' \in [Name -> Ids] /\ told'[n] = 0 /\ \A m \in Name \ {n} : told'[m] = told[m]
      BY <1>1, PersistenceAssumption DEF Ids
  <1>6. ~torn => \A s \in rooms' : Fresh(s)' /\ Ordered(s)
    <2> SUFFICES ASSUME ~torn, NEW s \in rooms' PROVE Fresh(s)' /\ Ordered(s)
        OBVIOUS
    <2>1. CASE s = r
      <3>1. <<>> \in Seq(Ids) /\ Len(<<>>) = 0
          OBVIOUS
      <3>2. Ordered(r)
        <4> DEFINE h == r.history
        <4>1. h \in Seq(Ids) /\ h = <<>> /\ Len(h) = 0
            BY <1>2, <3>1
        <4> HIDE DEF h
        <4>2. \A i \in 1..(Len(h) - 1) : h[i] < h[i + 1]
            BY <4>1
        <4> QED BY <4>1, <4>2 DEF Ordered, h
      <3>3. Fresh(r)'
          BY <1>2, <1>5 DEF Fresh
      <3> QED BY <2>1, <3>2, <3>3
    <2>2. CASE s \in rooms
        BY <1>1, <1>5, <2>2 DEF IInv, Numbers, Fresh
    <2> QED BY <1>1, <2>1, <2>2
  <1> QED BY <1>1, <1>3, <1>4, <1>5, <1>6, CallbackKeeps

(* PacketRemoveRoom.                                                       *)
LEMMA RemoveRoomKeeps ==
    ASSUME IInv, NEW r \in rooms, RemoveRoom(r)
    PROVE  IInv'
  <1>1. CallbackStep /\ busy = None /\ rooms' = rooms \ {r} /\ UNCHANGED <<busy, told>>
    <2>1. Change({r}, {})
        BY DEF RemoveRoom
    <2> QED BY <2>1, ChangeIs DEF RemoveRoom, IInv
  <1>2. rooms' \subseteq AllRooms /\ NamesApart(rooms') /\ told' \in [Name -> Ids]
      BY <1>1 DEF IInv, Types, Named, NamesApart
  <1>3. ~torn => \A s \in rooms' : Fresh(s)' /\ Ordered(s)
      BY <1>1 DEF IInv, Numbers, Fresh
  <1> QED BY <1>1, <1>2, <1>3, CallbackKeeps

(* A room that keeps its name and takes the place of the one it was. *)
LEMMA Replaced ==
    ASSUME IInv, NEW r \in rooms, r.name \in Name, NEW s \in AllRooms, s.name = r.name,
           rooms' = (rooms \ {r}) \cup {s}
    PROVE  /\ rooms' \subseteq AllRooms /\ NamesApart(rooms')
           /\ \A q \in rooms' : q = s \/ (q \in rooms /\ q.name # r.name)
  BY DEF IInv, Types, Named, NamesApart

(* A room whose history and ids stay. *)
LEMMA ReplacedKeeps ==
    ASSUME IInv, NEW r \in rooms, r.name \in Name, NEW s \in AllRooms, s.name = r.name,
           s.history = r.history, s.nextMessageId = r.nextMessageId,
           Change({r}, {s}), UNCHANGED <<busy, told>>
    PROVE  IInv'
  <1>1. CallbackStep /\ busy = None /\ rooms' = (rooms \ {r}) \cup {s}
      BY ChangeIs DEF IInv
  <1>2. /\ rooms' \subseteq AllRooms /\ NamesApart(rooms')
        /\ \A q \in rooms' : q = s \/ (q \in rooms /\ q.name # r.name)
      BY <1>1, Replaced
  <1>3. ~torn => \A q \in rooms' : Fresh(q)' /\ Ordered(q)
    <2> SUFFICES ASSUME ~torn, NEW q \in rooms' PROVE Fresh(q)' /\ Ordered(q)
        OBVIOUS
    <2>1. CASE q = s
      <3>1. Fresh(r) /\ Ordered(r)
          BY DEF IInv, Numbers
      <3> QED BY <2>1, <3>1 DEF Fresh, Ordered
    <2>2. CASE q \in rooms
        BY <2>2 DEF IInv, Numbers, Fresh
    <2> QED BY <1>2, <2>1, <2>2
  <1>4. told' \in [Name -> Ids]
      BY DEF IInv, Types
  <1> QED BY <1>1, <1>2, <1>3, <1>4, CallbackKeeps

(* PacketJoin changes members only, which are not saved.                   *)
LEMMA JoinKeeps ==
    ASSUME IInv, NEW r \in rooms, r.name \in Name, NEW u \in Uid, Join(r, u)
    PROVE  IInv'
  <1> DEFINE s == [r EXCEPT !.members = @ \cup {u}]
  <1>1. r \in AllRooms
      BY DEF IInv, Types
  <1>2. s \in AllRooms /\ s.name = r.name /\ s.history = r.history /\ s.nextMessageId = r.nextMessageId
      BY <1>1 DEF AllRooms, RoomRecord
  <1>3. Change({r}, {s}) /\ UNCHANGED <<busy, told>>
      BY DEF Join
  <1> HIDE DEF s
  <1> QED BY <1>2, <1>3, ReplacedKeeps

(* Room::removeMember, which remembers the member.                         *)
LEMMA LeaveKeeps ==
    ASSUME IInv, NEW r \in rooms, r.name \in Name, NEW u \in Uid, Leave(r, u)
    PROVE  IInv'
  <1> DEFINE s == [r EXCEPT !.members = @ \ {u}, !.members_info = @ \cup {u}]
  <1>1. r \in AllRooms
      BY DEF IInv, Types
  <1>2. s \in AllRooms /\ s.name = r.name /\ s.history = r.history /\ s.nextMessageId = r.nextMessageId
      BY <1>1 DEF AllRooms, RoomRecord, Account
  <1>3. Change({r}, {s}) /\ UNCHANGED <<busy, told>>
      BY DEF Leave
  <1> HIDE DEF s
  <1> QED BY <1>2, <1>3, ReplacedKeeps

(* The commands that change a list of a room.                              *)
LEMMA EditListKeeps ==
    ASSUME IInv, NEW r \in rooms, r.name \in Name, NEW k \in {"banned", "moderators"}, NEW u \in Uid,
           EditList(r, k, u)
    PROVE  IInv'
  <1> DEFINE l == IF u \in r[k] THEN r[k] \ {u} ELSE r[k] \cup {u}
             s == [r EXCEPT ![k] = l]
  <1>1. r \in AllRooms /\ l \in SUBSET Account
      BY DEF IInv, Types, AllRooms, RoomRecord, Account
  <1>2. Change({r}, {s}) /\ UNCHANGED <<busy, told>>
      BY DEF EditList
  <1> HIDE DEF l
  <1>3. s \in AllRooms /\ s.name = r.name /\ s.history = r.history /\ s.nextMessageId = r.nextMessageId
    <2>1. CASE k = "banned"
        BY <1>1, <2>1 DEF AllRooms, RoomRecord
    <2>2. CASE k = "moderators"
        BY <1>1, <2>2 DEF AllRooms, RoomRecord
    <2> QED BY <2>1, <2>2
  <1> HIDE DEF s
  <1> QED BY <1>2, <1>3, ReplacedKeeps

(* Room::newMessageId gives an id that is later than all that peers have   *)
(* seen.                                                                   *)
LEMMA SayKeeps ==
    ASSUME IInv, NEW r \in rooms, r.name \in Name, Say(r)
    PROVE  IInv'
  <1> DEFINE s == [r EXCEPT !.nextMessageId = @ + 1]
  <1>1. r \in AllRooms /\ r.nextMessageId \in 0..(MaxMessage - 1) /\ MaxMessage \in Nat
      BY PersistenceAssumption DEF IInv, Types, Say, AllRooms, RoomRecord, Ids
  <1>2. s \in AllRooms /\ s.name = r.name /\ s.history = r.history /\ s.nextMessageId = r.nextMessageId + 1
      BY <1>1 DEF AllRooms, RoomRecord, Ids
  <1>3. Change({r}, {s}) /\ busy' = [op |-> "post", name |-> r.name, arg |-> r.nextMessageId] /\ told' = told
      BY DEF Say
  <1> HIDE DEF s
  <1>4. CallbackStep /\ rooms' = (rooms \ {r}) \cup {s}
      BY <1>3, ChangeIs DEF IInv
  <1>5. /\ rooms' \subseteq AllRooms /\ NamesApart(rooms')
        /\ \A q \in rooms' : q = s \/ (q \in rooms /\ q.name # r.name)
      BY <1>2, <1>4, Replaced
  <1>6. busy' \in Busy /\ told' \in [Name -> Ids]
      BY <1>1, <1>3 DEF Busy, IInv, Types
  <1>7. ~torn => /\ \A q \in rooms' : Fresh(q)' /\ Ordered(q)
                 /\ busy' # None /\ busy'.op = "post" =>
                       \A q \in rooms' : q.name = busy'.name =>
                           /\ q.nextMessageId = busy'.arg + 1
                           /\ q.history # <<>> => q.history[Len(q.history)] < busy'.arg
    <2> SUFFICES ASSUME ~torn, NEW q \in rooms'
                 PROVE  /\ Fresh(q)' /\ Ordered(q)
                        /\ q.name = busy'.name =>
                              /\ q.nextMessageId = busy'.arg + 1
                              /\ q.history # <<>> => q.history[Len(q.history)] < busy'.arg
        OBVIOUS
    <2>1. Fresh(r) /\ Ordered(r)
        BY DEF IInv, Numbers
    <2>2. CASE q = s
      <3>1. Fresh(s)'
        <4>1. told[r.name] \in Nat
            BY DEF IInv, Types, Ids
        <4> QED BY <1>1, <1>2, <1>3, <2>1, <4>1 DEF Fresh
      <3>2. Ordered(s) /\ (s.history # <<>> => s.history[Len(s.history)] < r.nextMessageId)
        <4>1. /\ s.history \in Seq(Ids)
              /\ \A i \in 1..(Len(s.history) - 1) : s.history[i] < s.history[i + 1]
              /\ s.history # <<>> => s.history[Len(s.history)] < r.nextMessageId
            BY <1>2, <2>1 DEF Ordered
        <4>2. s.history # <<>> => s.history[Len(s.history)] \in Int
          <5>1. s.history # <<>> => s.history[Len(s.history)] \in Ids
              BY <4>1, LastIn
          <5> QED BY <5>1 DEF Ids
        <4>3. s.history # <<>> => s.history[Len(s.history)] < s.nextMessageId
            BY <1>1, <1>2, <4>1, <4>2
        <4> QED BY <4>1, <4>3 DEF Ordered
      <3> QED BY <1>2, <1>3, <2>2, <3>1, <3>2
    <2>3. CASE q \in rooms /\ q.name # r.name
        BY <1>3, <2>3 DEF IInv, Numbers, Fresh
    <2> QED BY <1>5, <2>2, <2>3
  <1> QED BY <1>4, <1>5, <1>6, <1>7, CallbackKeeps

(* Keeping a message that is later than those kept leaves them in order. *)
LEMMA KeptOrdered ==
    ASSUME NEW h \in Seq(Ids), Len(h) <= MaxHistory, NEW id \in Ids,
           \A i \in 1..(Len(h) - 1) : h[i] < h[i + 1],
           h # <<>> => h[Len(h)] < id
    PROVE  LET k == Kept(h, id) IN
           /\ k \in Seq(Ids) /\ k # <<>> /\ k[Len(k)] = id
           /\ \A i \in 1..(Len(k) - 1) : k[i] < k[i + 1]
  <1> DEFINE k == Kept(h, id)
  <1>1. /\ k \in Seq(Ids) /\ Len(k) > 0 /\ k[Len(k)] = id
        /\ \A i \in 1..(Len(k) - 1) : \E j \in 1..Len(h) :
              /\ k[i] = h[j]
              /\ IF i + 1 = Len(k) THEN j = Len(h) ELSE j < Len(h) /\ k[i + 1] = h[j + 1]
    <2>1. k \in Seq(Ids) /\ Follows(k, h, id)
        BY KeptIs
    <2> QED BY <2>1 DEF Follows
  <1> HIDE DEF k
  <1>2. k # <<>>
      BY <1>1
  <1>3. ASSUME NEW i \in 1..(Len(k) - 1) PROVE k[i] < k[i + 1]
    <2>1. PICK j \in 1..Len(h) :
             /\ k[i] = h[j]
             /\ IF i + 1 = Len(k) THEN j = Len(h) ELSE j < Len(h) /\ k[i + 1] = h[j + 1]
        BY <1>1
    <2>2. CASE i + 1 = Len(k)
        BY <1>1, <2>1, <2>2
    <2>3. CASE i + 1 # Len(k)
      <3>1. j \in 1..(Len(h) - 1) /\ k[i + 1] = h[j + 1]
          BY <2>1, <2>3
      <3> QED BY <2>1, <3>1
    <2> QED BY <2>2, <2>3
  <1> QED BY <1>1, <1>2, <1>3 DEF k

(* The rest of PacketCreateRoom: the owner of a new room.                  *)
LEMMA SetOwnerKeeps ==
    ASSUME IInv, SetOwner
    PROVE  IInv'
  <1>1. PICK r \in rooms : r.name = busy.name /\ rooms' = (rooms \ {r}) \cup {[r EXCEPT !.owner_id = busy.arg]}
      BY DEF SetOwner, GoesOn
  <1>2. CallbackStep /\ busy \in Busy /\ busy.op = "owner" /\ busy' = None /\ told' = told
      BY DEF SetOwner, GoesOn, CallbackStep, Calm, IInv, Types
  <1>3. PICK s : s = [r EXCEPT !.owner_id = busy.arg]
      OBVIOUS
  <1>4. /\ r \in AllRooms /\ r.name \in Name /\ told \in [Name -> Ids] /\ MaxMessage \in Nat
      BY <1>1, <1>2, PersistenceAssumption DEF IInv, Types, Busy
  <1>5. busy.arg \in Nat /\ told' = told
      BY <1>2, PersistenceAssumption DEF Busy
  <1>7. /\ s \in AllRooms /\ s.name = r.name /\ s.history = r.history
        /\ s.nextMessageId = r.nextMessageId
      BY <1>3, <1>4, <1>5 DEF AllRooms, RoomRecord
  <1>8. rooms' = (rooms \ {r}) \cup {s}
      BY <1>1, <1>3
  <1>9. /\ rooms' \subseteq AllRooms /\ NamesApart(rooms')
        /\ \A q \in rooms' : q = s \/ (q \in rooms /\ q.name # r.name)
      BY <1>4, <1>7, <1>8, Replaced
  <1>10. ~torn => \A q \in rooms' : Fresh(q)' /\ Ordered(q)
    <2> SUFFICES ASSUME ~torn, NEW q \in rooms' PROVE Fresh(q)' /\ Ordered(q)
        OBVIOUS
    <2>1. CASE q = s
      <3>1. Fresh(r) /\ Ordered(r)
          BY DEF IInv, Numbers
      <3> QED BY <1>5, <1>7, <2>1, <3>1 DEF Fresh, Ordered
    <2>2. CASE q \in rooms
        BY <1>5, <2>2 DEF IInv, Numbers, Fresh
    <2> QED BY <1>9, <2>1, <2>2
  <1> QED BY <1>2, <1>4, <1>5, <1>9, <1>10, CallbackKeeps

(* The rest of PacketMessage: the message is in the history, and told to   *)
(* the peers.                                                              *)
LEMMA SendPacketToAllKeeps ==
    ASSUME IInv, SendPacketToAll
    PROVE  IInv'
  <1>1. PICK r \in rooms : r.name = busy.name
                           /\ rooms' = (rooms \ {r}) \cup {[r EXCEPT !.history = Kept(r.history, busy.arg)]}
      BY DEF SendPacketToAll, GoesOn
  <1>2. /\ CallbackStep /\ busy \in Busy /\ busy # None /\ busy.op = "post" /\ busy' = None
        /\ told' = [told EXCEPT ![busy.name] = busy.arg + 1]
      BY DEF SendPacketToAll, GoesOn, CallbackStep, Calm, IInv, Types
  <1>3. PICK s : s = [r EXCEPT !.history = Kept(r.history, busy.arg)]
      OBVIOUS
  <1>4. /\ r \in AllRooms /\ r.name \in Name /\ told \in [Name -> Ids] /\ MaxMessage \in Nat
      BY <1>1, <1>2, PersistenceAssumption DEF IInv, Types, Busy
  <1>5. busy.op = "post" /\ busy.arg \in 0..(MaxMessage - 1)
      BY <1>2 DEF Busy
  <1>6. busy.arg \in Ids /\ busy.arg + 1 \in Ids
      BY <1>4, <1>5 DEF Ids
  <1>7. /\ told' \in [Name -> Ids] /\ told'[r.name] = busy.arg + 1
        /\ \A n \in Name \ {r.name} : told'[n] = told[n]
      BY <1>1, <1>2, <1>4, <1>5, <1>6
  <1> DEFINE k == Kept(r.history, busy.arg)
             S == Ids \cup {NoMessage}
  <1>8. k \in Texts /\ Len(k) <= MaxHistory
    <2>1. r.history \in Seq(S) /\ Len(r.history) <= MaxHistory /\ busy.arg \in S
        BY <1>4, <1>6 DEF AllRooms, RoomRecord, Texts
    <2> HIDE DEF S
    <2>2. k \in Seq(S) /\ Len(k) <= MaxHistory
        BY <2>1, KeptIs
    <2> QED BY <2>2 DEF S, Texts
  <1>9. s = [r EXCEPT !.history = k]
      BY <1>3
  <1>10. rooms' = (rooms \ {r}) \cup {s}
      BY <1>1, <1>3
  <1> HIDE DEF k
  <1>11. s \in AllRooms /\ s.name = r.name /\ s.history = k /\ s.nextMessageId = r.nextMessageId
      BY <1>4, <1>8, <1>9 DEF AllRooms, RoomRecord
  <1>12. /\ rooms' \subseteq AllRooms /\ NamesApart(rooms')
        /\ \A q \in rooms' : q = s \/ (q \in rooms /\ q.name # r.name)
      BY <1>4, <1>10, <1>11, Replaced
  <1>13. ~torn => \A q \in rooms' : Fresh(q)' /\ Ordered(q)
    <2> SUFFICES ASSUME ~torn, NEW q \in rooms' PROVE Fresh(q)' /\ Ordered(q)
        OBVIOUS
    <2>1. CASE q = s
      <3>1. /\ Ordered(r) /\ r.nextMessageId = busy.arg + 1
            /\ r.history # <<>> => r.history[Len(r.history)] < busy.arg
          BY <1>1, <1>2, <1>5 DEF IInv, Numbers
      <3>2. /\ r.history \in Seq(Ids) /\ Len(r.history) <= MaxHistory
            /\ \A i \in 1..(Len(r.history) - 1) : r.history[i] < r.history[i + 1]
          BY <1>4, <3>1 DEF Ordered, AllRooms
      <3>3. /\ k \in Seq(Ids) /\ k[Len(k)] = busy.arg
            /\ \A i \in 1..(Len(k) - 1) : k[i] < k[i + 1]
          BY <1>6, <3>1, <3>2, KeptOrdered DEF k
      <3>4. Ordered(s)
          BY <1>5, <1>11, <3>1, <3>3 DEF Ordered
      <3>5. Fresh(s)'
          BY <1>5, <1>7, <1>11, <3>1 DEF Fresh
      <3> QED BY <2>1, <3>4, <3>5
    <2>2. CASE q \in rooms /\ q.name # r.name
        BY <1>7, <2>2 DEF IInv, Numbers, Fresh
    <2> QED BY <1>12, <2>1, <2>2
  <1> QED BY <1>2, <1>7, <1>12, <1>13, CallbackKeeps

-----------------------------------------------------------------------------
(* The theorems.                                                           *)

(* The invariant is inductive.                                             *)
LEMMA Inductive == IInv /\ [Next]_vars => IInv'
  <1> SUFFICES ASSUME IInv, [Next]_vars PROVE IInv'
      OBVIOUS
  <1>1. CASE Start \/ LoadFromFile \/ InsertRoom \/ Loaded \/ Crash
      BY <1>1, StartKeeps, LoadFromFileKeeps, InsertRoomKeeps, LoadedKeeps, CrashKeeps
  <1>2. CASE \E s \in Signal : Raise(s)
      BY <1>2, RaiseKeeps
  <1>3. CASE Handler
      BY <1>3, OpenFileKeeps, WriteRoomKeeps, WriteFailsKeeps, SavedKeeps, HangKeeps DEF Handler
  <1>4. CASE Callback
      BY <1>4, CreateRoomKeeps, RemoveRoomKeeps, SayKeeps, JoinKeeps, LeaveKeeps, EditListKeeps,
         SetOwnerKeeps, SendPacketToAllKeeps DEF Callback
  <1>5. CASE UNCHANGED vars
    <2>1. UNCHANGED <<phase, rooms, unread, busy, handlers, file, log, promised, told, torn, used>>
        BY <1>5 DEF vars, processVars, historyVars
    <2> QED BY <2>1 DEF IInv, Types, Named, NamesApart, Saves, Numbers, Fresh, Ordered, RestartKeepsRooms
  <1> QED BY <1>1, <1>2, <1>3, <1>4, <1>5 DEF Next

(* The invariant holds in every reachable state, with or without the       *)
(* fairness of the handlers.                                               *)
THEOREM Invariant == Spec => []IInv
  BY InitHolds, Inductive, PTL DEF Spec

(* The rooms, the file and what is pending have their types, also when     *)
(* what is read is torn.                                                   *)
THEOREM TypesCorrect == Spec => []TypeOK
  <1>1. IInv => TypeOK
    <2> SUFFICES ASSUME IInv PROVE TypeOK
        OBVIOUS
    <2>1. \A r \in rooms : IsRoom(r)
      <3> SUFFICES ASSUME NEW r \in rooms PROVE IsRoom(r)
          OBVIOUS
      <3>1. r \in AllRooms
          BY DEF IInv, Types
      <3>2. Contents(r) \in AllValues
          BY <3>1, ContentsTyped
      <3> QED BY <3>1, <3>2 DEF IsRoom, AllRooms, RoomRecord, AllValues
    <2>2. busy = None \/ busy \in [op: {"owner", "post"}, name: Name, arg: Nat]
      <3>1. \A b \in Busy : b \in [op: {"owner", "post"}, name: Name, arg: Nat]
        <4>1. 0..(MaxMessage - 1) \subseteq Nat /\ Uid \subseteq Nat
            BY PersistenceAssumption
        <4> QED BY <4>1 DEF Busy
      <3> QED BY <3>1 DEF IInv, Types
    <2>3. handlers \in Seq([signal: Signal, at: {"raised", "open", "failed", "hung"}, idle: BOOLEAN])
        BY DEF IInv, Types, HandlerRecord
    <2>4. told \in [Name -> 0..MaxMessage]
        BY DEF IInv, Types, Ids
    <2>5. /\ unread \subseteq Value /\ file.text \subseteq Value
          /\ promised = None \/ promised \subseteq Value
        BY DEF IInv, Types, AllValues
    <2> QED BY <2>1, <2>2, <2>3, <2>4, <2>5 DEF IInv, Types, TypeOK
  <1> QED BY <1>1, Invariant, PTL

(* RestartKeepsRooms holds: writeToFile after serialize, and deserialize   *)
(* after loadFromFile, bring back every room that a complete save had,     *)
(* however the handlers of signals were nested and whenever they came.     *)
THEOREM RestartKeepsRoomsHolds == Spec => []RestartKeepsRooms
  <1>1. IInv => RestartKeepsRooms
      BY DEF IInv
  <1> QED BY <1>1, Invariant, PTL

(* IdsFresh holds: newMessageId and addToHistory keep the ids in order     *)
(* over any number of restarts, while no torn file was read.               *)
THEOREM IdsFreshHolds == Spec => []IdsFresh
  <1>1. IInv => IdsFresh
    <2> SUFFICES ASSUME IInv, ~torn, NEW r \in rooms
                 PROVE  LET h == r.history IN
                        /\ r.name \in Name => r.nextMessageId >= told[r.name]
                        /\ \A i \in 1..(Len(h) - 1) : h[i] < h[i + 1]
                        /\ h # <<>> => Last(h) < r.nextMessageId
        BY DEF IdsFresh
    <2>1. Fresh(r) /\ Ordered(r)
        BY DEF IInv, Numbers
    <2>2. r.name \in Name => told[r.name] \in Int /\ r.nextMessageId \in Int
        BY DEF IInv, Types, Ids, AllRooms, RoomRecord
    <2> QED BY <2>1, <2>2 DEF Fresh, Ordered, Last
  <1> QED BY <1>1, Invariant, PTL

=============================================================================
