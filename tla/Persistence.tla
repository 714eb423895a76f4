----------------------------- MODULE Persistence -----------------------------
(***************************************************************************)
(* What a restart keeps: main() and the signal handlers of                 *)
(* src/wsserver.cpp, Config::loadFromFile and writeToFile, and serialize   *)
(* and deserialize of Server, Room and MemberInfo.                         *)
(*                                                                         *)
(* The program has one thread. A signal handler runs on top of whatever    *)
(* that thread is doing: loading, idling, half-way through a callback, or  *)
(* inside the handler of another signal. A handler truncates rooms.dat and *)
(* writes it room by room, so the process may die with a part written.     *)
(***************************************************************************)
EXTENDS Integers, Sequences, FiniteSets, SequencesExt

CONSTANTS Name,        \* names that create_room accepts
          Uid,         \* ids of accounts, not 0 and not Unowned
          Unowned,     \* ownerId of a new Room: (uint) -1
          Nameless,    \* the empty string, name of a room read without one
          NoMessage,   \* the empty string, a message read without its text
          Signal, USR1,    \* the signals with a handler; all but USR1 shut down
          None,        \* no callback is under way, nothing is promised
          MaxHistory,  \* config["maxHistory"]
          MaxMessage, MaxChange, MaxSignal, MaxCrash   \* bounds of the model

ASSUME PersistenceAssumption ==
    /\ Uid \subseteq Nat \ {0} /\ Unowned \in Nat \ (Uid \cup {0})
    /\ Nameless \notin Name
    /\ USR1 \in Signal
    /\ MaxHistory \in Nat \ {0}
    /\ {MaxMessage, MaxChange, MaxSignal, MaxCrash} \subseteq Nat

VARIABLES
    phase,      \* "down", "starting" (no Server yet), "loading" or "running"
    rooms,      \* Server::rooms
    unread,     \* rooms parsed by loadFromFile that deserialize has yet to insert
    busy,       \* the callback under way: its kind, room and argument, or None
    handlers,   \* the signal handlers under way, the latest last: signal, how far
                \* it is, and whether it found the thread waiting in io_service
    file,       \* rooms.dat: rooms being written, those written, end reached
    log,        \* the last thing logged, "saved" or "loaded", or "other"
    promised,   \* rooms that rooms.dat is to bring back, or None (history)
    told,       \* per name, ids below it were sent to peers since the room exists,
                \* as far as a save had a chance to keep them (history)
    torn,       \* a file without its end was read (history)
    used        \* changes, signals and crashes so far, for the bounds

processVars == <<phase, rooms, unread, busy, handlers>>
historyVars == <<promised, told, torn>>
vars == <<processVars, file, log, historyVars, used>>

-----------------------------------------------------------------------------
(* The JSON text.                                                          *)

(* The keys of a room in the order of the text: Json::Value sorts them.    *)
(* bannedNicks, bannedIps and bannedUids are treated alike and are one.    *)
Keys == <<"banned", "history", "members_info", "moderators", "name", "nextMessageId", "owner_id">>

(* What asString, asUInt and a loop over elements make of a missing key. *)
Missing == [banned |-> {}, history |-> <<>>, members_info |-> {}, moderators |-> {},
            name |-> Nameless, nextMessageId |-> 0, owner_id |-> 0]

(* Mutant of Serialize: the moderators are forgotten. *)
SerializeWithoutModerators(r) == [k \in DOMAIN Missing |-> IF k = "moderators" THEN {} ELSE r[k]]

(* Room::serialize: the members and their ids are not kept. *)
Serialize(r) == [k \in DOMAIN Missing |-> r[k]]

(* Mutant of Deserialize: nextMessageId starts over. *)
DeserializeForgetsIds(v) ==
    [k \in DOMAIN Missing \cup {"members"} |->
       IF k = "members" THEN {} ELSE IF k = "nextMessageId" THEN 0 ELSE v[k]]

(* Room::deserialize into a new Room, which nobody has joined. *)
Deserialize(v) == [k \in DOMAIN Missing \cup {"members"} |-> IF k = "members" THEN {} ELSE v[k]]

(* A value that the end of the text cuts: a string is not a value without  *)
(* its quote, a number is what is there of its digits, an array has its    *)
(* first elements and perhaps a null one.                                  *)
Cut(k, v) ==
    CASE k = "history" -> {SubSeq(v, 1, i) : i \in 0..Len(v)} \cup {<<NoMessage>>}
                          \cup {Append(SubSeq(v, 1, i), NoMessage) : i \in 0..(Len(v) - 1)}
      [] k = "name" -> {Nameless}
      [] k \in {"nextMessageId", "owner_id"} -> {v} \cup {v \div p : p \in {10, 100}}
      [] OTHER -> (SUBSET v) \cup {{0}} \cup {part \cup {0} : part \in (SUBSET v) \ {v}}

(* The readings of a room that the end of the text cuts. *)
Torn(v) ==
    UNION {{[k \in DOMAIN Missing |-> IF \E i \in 1..n : Keys[i] = k THEN v[k]
                                      ELSE IF k = Keys[n + 1] THEN part
                                      ELSE Missing[k]] :
              part \in Cut(Keys[n + 1], v[Keys[n + 1]])} : n \in 0..(Len(Keys) - 1)}

(* Config::loadFromFile: the parser keeps what it built before an error,   *)
(* and its verdict is ignored. No file reads like one without rooms.       *)
Readings(f) ==
    IF f.ended THEN {f.text}
    ELSE {f.written} \cup UNION {{f.written \cup {t} : t \in Torn(v)} : v \in f.text \ f.written}

-----------------------------------------------------------------------------
Value == [banned: SUBSET (Uid \cup {0}), history: Seq(0..MaxMessage \cup {NoMessage}),
          members_info: SUBSET (Uid \cup {0}), moderators: SUBSET (Uid \cup {0}),
          name: Name \cup {Nameless}, nextMessageId: 0..MaxMessage, owner_id: Nat]

(* A room without those who are in it. *)
Contents(r) == [k \in DOMAIN Missing |-> r[k]]

IsRoom(r) == Contents(r) \in Value /\ r.members \subseteq Uid /\ Len(r.history) <= MaxHistory

TypeOK ==
    /\ phase \in {"down", "starting", "loading", "running"}
    /\ \A r \in rooms : IsRoom(r)
    /\ unread \subseteq Value
    /\ busy = None \/ busy \in [op: {"owner", "post"}, name: Name, arg: Nat]
    /\ handlers \in Seq([signal: Signal, at: {"raised", "open", "failed", "hung"}, idle: BOOLEAN])
    /\ file.text \subseteq Value /\ file.written \subseteq file.text
    /\ file.ended => file.written = file.text
    /\ log \in {"saved", "loaded", "other"}
    /\ promised = None \/ promised \subseteq Value
    /\ told \in [Name -> 0..MaxMessage]
    /\ torn \in BOOLEAN
    /\ used \in [change: 0..MaxChange, signal: 0..MaxSignal, crash: 0..MaxCrash]
    /\ phase = "down" => rooms = {} /\ handlers = <<>>
    /\ phase # "running" => busy = None
    /\ phase # "loading" => unread = {}

Init ==
    /\ phase = "down" /\ rooms = {} /\ unread = {} /\ busy = None /\ handlers = <<>>
    /\ file = [text |-> {}, written |-> {}, ended |-> TRUE]
    /\ log = "other"
    /\ promised = {} /\ told = [n \in Name |-> 0] /\ torn = FALSE
    /\ used = [change |-> 0, signal |-> 0, crash |-> 0]

-----------------------------------------------------------------------------
(* main().                                                                 *)

(* The handlers are installed first. *)
Start ==
    /\ phase = "down"
    /\ phase' = "starting"
    /\ log' = "other"
    /\ UNCHANGED <<rooms, unread, busy, handlers, file, historyVars, used>>

(* The Server is made and rooms.dat is read and parsed. *)
LoadFromFile ==
    /\ phase = "starting"
    /\ phase' = "loading"
    /\ unread' \in Readings(file)
    /\ torn' = (torn \/ ~file.ended)
    /\ log' = "other"
    /\ UNCHANGED <<rooms, busy, handlers, file, promised, told, used>>

(* Server::deserialize inserts the next room, *)
InsertRoom ==
    /\ phase = "loading" /\ handlers = <<>>
    /\ \E v \in unread :
          /\ rooms' = rooms \cup {Deserialize(v)}
          /\ unread' = unread \ {v}
    /\ log' = "other"
    /\ UNCHANGED <<phase, busy, handlers, file, historyVars, used>>

(* Mutant of Loaded: the loop ends before the last room. *)
LoadedSkipsLast ==
    /\ phase = "loading" /\ handlers = <<>> /\ Cardinality(unread) <= 1
    /\ phase' = "running"
    /\ log' = "loaded"
    /\ UNCHANGED <<rooms, unread, busy, handlers, file, historyVars, used>>

(* and returns; the port is opened. *)
Loaded ==
    /\ phase = "loading" /\ handlers = <<>> /\ unread = {}
    /\ phase' = "running"
    /\ log' = "loaded"
    /\ UNCHANGED <<rooms, unread, busy, handlers, file, historyVars, used>>

(* The end of the process, whatever the thread is doing. *)
Ends == phase' = "down" /\ rooms' = {} /\ unread' = {} /\ busy' = None /\ handlers' = <<>>

(* It is killed: what peers were told since the last save is lost.         *)
Crash ==
    /\ phase # "down" /\ used.crash < MaxCrash
    /\ Ends
    /\ told' = [n \in Name |-> 0]
    /\ used' = [used EXCEPT !.crash = @ + 1]
    /\ log' = "other"
    /\ UNCHANGED <<file, promised, torn>>

-----------------------------------------------------------------------------
(* sigSave and sigShutdown.                                                *)

latest == Last(handlers)
ToLatest(at) == handlers' = [handlers EXCEPT ![Len(handlers)].at = at]

(* A signal arrives; its own handler is not interrupted by it. Before the  *)
(* Server is made, server is a null pointer and the process dies. Between  *)
(* two callbacks the thread may be waiting in the kernel: it holds nothing.*)
(* server->stop(), which sigShutdown calls first, changes nothing that is  *)
(* saved, and the loop it stops is not returned to.                        *)
Raise(s) ==
    /\ phase # "down" /\ used.signal < MaxSignal
    /\ \A i \in DOMAIN handlers : handlers[i].signal # s
    /\ IF phase = "starting" THEN Ends
       ELSE /\ \E idle \in BOOLEAN :
                 /\ idle => phase = "running" /\ handlers = <<>> /\ busy = None
                 /\ handlers' = Append(handlers, [signal |-> s, at |-> "raised", idle |-> idle])
            /\ UNCHANGED <<phase, rooms, unread, busy>>
    /\ used' = [used EXCEPT !.signal = @ + 1]
    /\ log' = "other"
    /\ UNCHANGED <<file, historyVars>>

(* Config::writeToFile: the rooms are serialized, then rooms.dat is        *)
(* truncated,                                                              *)
OpenFile ==
    /\ handlers # <<>> /\ latest.at = "raised"
    /\ ToLatest("open")
    /\ file' = [text |-> {Serialize(r) : r \in rooms}, written |-> {}, ended |-> FALSE]
    /\ promised' = None
    /\ log' = "other"
    /\ UNCHANGED <<phase, rooms, unread, busy, told, torn, used>>

(* the text is written, *)
WriteRoom ==
    /\ handlers # <<>> /\ latest.at = "open"
    /\ \E v \in file.text \ file.written : file' = [file EXCEPT !.written = @ \cup {v}]
    /\ log' = "other"
    /\ UNCHANGED <<processVars, historyVars, used>>

(* or the disk fails, which nobody asks the stream about. *)
WriteFails ==
    /\ handlers # <<>> /\ latest.at \in {"raised", "open"}
    /\ used.crash < MaxCrash
    /\ ToLatest("failed")
    /\ used' = [used EXCEPT !.crash = @ + 1]
    /\ log' = "other"
    /\ UNCHANGED <<phase, rooms, unread, busy, file, historyVars>>

(* Logger, server->stop(), the allocator and the stream take locks: what   *)
(* the handler interrupted may hold one, and never lets go of it.          *)
Hang ==
    /\ handlers # <<>> /\ latest.at # "hung" /\ ~latest.idle
    /\ ToLatest("hung")
    /\ log' = "other"
    /\ UNCHANGED <<phase, rooms, unread, busy, file, historyVars, used>>

(* Mutant of Saved: sigShutdown returns. *)
SavedReturns ==
    /\ handlers # <<>> /\ latest.at = "open" /\ file.written = file.text
    /\ handlers' = Front(handlers)
    /\ file' = [file EXCEPT !.ended = TRUE]
    /\ log' = "saved"
    /\ UNCHANGED <<phase, rooms, unread, busy, historyVars, used>>

(* save_state is done: sigShutdown exits, sigSave returns to what it       *)
(* interrupted. A handler that was itself interrupted finds the file       *)
(* written, by the same rooms. A save in the middle of loading that goes   *)
(* on promises nothing: the rooms it saved are not those it leaves.        *)
Saved ==
    /\ handlers # <<>>
    /\ \/ latest.at = "failed" /\ UNCHANGED <<file, promised>>
       \/ /\ latest.at = "open" /\ file.written = file.text
          /\ file' = [file EXCEPT !.ended = TRUE]
          /\ promised' = IF phase = "loading" /\ latest.signal = USR1 THEN None
                         ELSE {Contents(r) : r \in rooms}
    /\ IF latest.signal = USR1
       THEN handlers' = Front(handlers) /\ UNCHANGED <<phase, rooms, unread, busy>>
       ELSE Ends
    /\ told' = IF latest.signal # USR1 /\ latest.at = "failed" THEN [n \in Name |-> 0] ELSE told
    /\ log' = "saved"
    /\ UNCHANGED <<torn, used>>

-----------------------------------------------------------------------------
(* The callbacks that change what is saved. A signal may come between the  *)
(* two steps of those that have two.                                       *)

Calm == phase = "running" /\ handlers = <<>>

Change(r, s) ==
    /\ Calm /\ busy = None /\ used.change < MaxChange
    /\ rooms' = (rooms \ r) \cup s
    /\ used' = [used EXCEPT !.change = @ + 1]
    /\ log' = "other"
    /\ UNCHANGED <<phase, unread, handlers, file, promised, torn>>

(* Server::createRoom; PacketCreateRoom::process sets the owner after it. *)
CreateRoom(n, u) ==
    /\ \A r \in rooms : r.name # n
    /\ Change({}, {[Deserialize(Missing) EXCEPT !.name = n, !.owner_id = Unowned]})
    /\ busy' = [op |-> "owner", name |-> n, arg |-> u]
    /\ told' = [told EXCEPT ![n] = 0]

(* PacketRemoveRoom::process. *)
RemoveRoom(r) == Change({r}, {}) /\ UNCHANGED <<busy, told>>

(* PacketJoin::process and PacketLeave::process of an account. *)
Join(r, u) ==
    /\ u \notin r.members
    /\ Change({r}, {[r EXCEPT !.members = @ \cup {u}]}) /\ UNCHANGED <<busy, told>>
Leave(r, u) ==
    /\ u \in r.members
    /\ Change({r}, {[r EXCEPT !.members = @ \ {u}, !.members_info = @ \cup {u}]})
    /\ UNCHANGED <<busy, told>>

(* The commands on the lists of the room. *)
EditList(r, k, u) ==
    /\ Change({r}, {[r EXCEPT ![k] = IF u \in @ THEN @ \ {u} ELSE @ \cup {u}]})
    /\ UNCHANGED <<busy, told>>

(* PacketMessage::process takes the next id, *)
Say(r) ==
    /\ r.nextMessageId < MaxMessage
    /\ Change({r}, {[r EXCEPT !.nextMessageId = @ + 1]})
    /\ busy' = [op |-> "post", name |-> r.name, arg |-> r.nextMessageId]
    /\ UNCHANGED told

(* What is left of a callback is done to the room of that name. *)
GoesOn(r, s) ==
    /\ Calm
    /\ r.name = busy.name
    /\ rooms' = (rooms \ {r}) \cup {s}
    /\ busy' = None
    /\ log' = "other"
    /\ UNCHANGED <<phase, unread, handlers, file, promised, torn, used>>

(* PacketCreateRoom::process sets the owner, *)
SetOwner ==
    /\ busy # None /\ busy.op = "owner"
    /\ \E r \in rooms : GoesOn(r, [r EXCEPT !.owner_id = busy.arg])
    /\ UNCHANGED told

(* and Room::sendPacketToAll keeps the message and sends it. *)
Kept(h, id) == LET all == Append(h, id) IN IF Len(all) > MaxHistory THEN Tail(all) ELSE all

SendPacketToAll ==
    /\ busy # None /\ busy.op = "post"
    /\ \E r \in rooms : GoesOn(r, [r EXCEPT !.history = Kept(@, busy.arg)])
    /\ told' = [told EXCEPT ![busy.name] = busy.arg + 1]

Callback ==
    \/ \E n \in Name, u \in Uid : CreateRoom(n, u)
    \/ \E r \in rooms :
          /\ r.name \in Name
          /\ \/ RemoveRoom(r) \/ Say(r)
             \/ \E u \in Uid : Join(r, u) \/ Leave(r, u)
             \/ \E k \in {"banned", "moderators"}, u \in Uid : EditList(r, k, u)
    \/ SetOwner \/ SendPacketToAll

Handler == OpenFile \/ WriteRoom \/ WriteFails \/ Saved \/ Hang

Next == \/ Start \/ LoadFromFile \/ InsertRoom \/ Loaded
        \/ \E s \in Signal : Raise(s)
        \/ Handler \/ Callback \/ Crash

Spec == Init /\ [][Next]_vars

(* The processor goes on with the handler that is on top, which may be to  *)
(* hang.                                                                   *)
FairSpec == Spec /\ WF_vars(Handler)

-----------------------------------------------------------------------------
(* A start finds what the last complete writing of rooms.dat saved: every  *)
(* list, owner, id and history of every room, whether the process ended by *)
(* a signal or crashed after a save, and however handlers were nested.     *)
RestartKeepsRooms ==
    log = "loaded" /\ promised # None => {Contents(r) : r \in rooms} = promised

(* Room::newMessageId never gives again an id that peers have seen, and    *)
(* what PacketJoin replays of a history, in the order of its ids, is       *)
(* followed by later ids only: over any number of orderly restarts, also   *)
(* with a signal between taking the id and keeping the message.            *)
IdsFresh ==
    ~torn => \A r \in rooms : LET h == r.history IN
        /\ r.name \in Name => r.nextMessageId >= told[r.name]
        /\ \A i \in 1..(Len(h) - 1) : h[i] < h[i + 1]
        /\ h # <<>> => Last(h) < r.nextMessageId

(* A signal to shut down ends the process, whatever interrupts its handler *)
(* or fails on the disk, unless a handler hangs on what it interrupted;    *)
(* and when it finds the thread waiting and no other signal comes, always. *)
Shutting == \E i \in DOMAIN handlers : handlers[i].signal # USR1
Hung == \E i \in DOMAIN handlers : handlers[i].at = "hung"

ShutdownEnds ==
    /\ Shutting ~> (phase = "down" \/ Hung)
    /\ (Shutting /\ Len(handlers) = 1 /\ handlers[1].idle) ~> (phase = "down" \/ Len(handlers) > 1)

(* wsserver.cpp says "Last server state loaded", and has another message   *)
(* for a state that could not be loaded.                                   *)
LoadedMeansLoaded == log = "loaded" => ~torn

=============================================================================
