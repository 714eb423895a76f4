------------------------------- MODULE Server -------------------------------
(***************************************************************************)
(* The connection handling of src/server.cpp: the four callbacks of the    *)
(* WebSocket endpoint, the periodic job, and the resumption of a session   *)
(* by its token (PacketAuth of src/packets.cpp, Server::reviveClient).     *)
(*                                                                         *)
(* The program runs its handlers on one thread (thread_pool_size = 1), so  *)
(* a callback is one action.  The periodic job is split into one action    *)
(* per iteration of its two loops, none of which another handler           *)
(* interrupts (phase # "idle").                                            *)
(*                                                                         *)
(* The library delivers on_open once for a connection, then messages, then *)
(* one of on_close and on_error; messages and the terminal callback still  *)
(* come after the server has called send_close.  A Connection may stand    *)
(* for another connection of the same address once its terminal callback   *)
(* has been delivered.                                                     *)
(***************************************************************************)
EXTENDS ClientsManager

CONSTANTS MaxConnectionsFromIp, MaxClientsFromIp,
          PingInterval,    \* period of the job
          PingTimeout, ConnectTimeout, OrphanTimeout,
          TimerLag         \* how late the io_service may run the job

ASSUME LimitAssumption ==
    /\ MaxConnectionsFromIp \in Nat \ {0}
    /\ MaxClientsFromIp \in Nat
    /\ MaxClientsFromIp >= MaxConnectionsFromIp

ASSUME TimeAssumption ==
    /\ PingInterval \in Nat \ {0}
    /\ PingTimeout \in Nat
    /\ ConnectTimeout \in Nat
    /\ OrphanTimeout \in Nat
    /\ TimerLag \in Nat
    /\ ConnectTimeout >= PingTimeout + PingInterval + TimerLag
    /\ OrphanTimeout >= ConnectTimeout

VARIABLES manager,    \* clientsManager and the fields of Client it uses
          link,       \* per connection: "down", "up", or "closing" after send_close
          idle,       \* per client: time(nullptr) - lastPacketTime
          pinged,     \* clients sent a PacketPing since their last packet (history)
          sinceTick,  \* time since the job last ended
          phase,      \* "idle", or the loop of the job that is running
          next,       \* index of the next iteration of the first loop
          toKick      \* the job's vector of clients to remove

vars == <<manager, link, idle, pinged, sinceTick, phase, next, toKick>>
jobVars == <<sinceTick, phase, next, toKick>>

TypeOK ==
    /\ manager \in ManagerType
    /\ link \in [Connection -> {"down", "up", "closing"}]
    /\ idle \in [Client -> Nat]
    /\ pinged \in SUBSET Client
    /\ sinceTick \in 0..(PingInterval + TimerLag)
    /\ phase \in {"idle", "scan", "kick"}
    /\ next \in Nat \ {0}
    /\ toKick \in Seq(Client)

Init ==
    /\ manager = EmptyManager
    /\ link = [k \in Connection |-> "down"]
    /\ idle = [c \in Client |-> 0]
    /\ pinged = {}
    /\ sinceTick = 0
    /\ phase = "idle"
    /\ next = 1
    /\ toKick = <<>>

-----------------------------------------------------------------------------
(* The callbacks of the endpoint.                                          *)

(* Mutant of IsOrphanOf: any client of the address will do. *)
IsClientOf(ip, c) == manager.lastClientIP[c] = ip

IsOrphanOf(ip, c) ==
    manager.connection[c] = NoConnection /\ manager.lastClientIP[c] = ip

(* chat.on_open over the limit of connections: the peer is told to close,  *)
(* and the registry never hears of the connection.                         *)
OnOpenRefused(k) ==
    /\ phase = "idle"
    /\ link[k] = "down"
    /\ GetCounterFromIp(manager, RealClientIp[k])["connections"] >= MaxConnectionsFromIp
    /\ link' = [link EXCEPT ![k] = "closing"]
    /\ UNCHANGED <<manager, idle, pinged, jobVars>>

(* The first orphan of the address in the vector, or NoClient. *)
OldestOrphan(ip) ==
    LET Orphan(c) == IsOrphanOf(ip, c) IN FindFirstClient(manager, Orphan)

(* Mutant of MadeRoom: the limit is off by one. *)
MadeRoomLate(ip) ==
    IF \/ GetCounterFromIp(manager, ip)["clients"] <= MaxClientsFromIp
       \/ OldestOrphan(ip) = NoClient
    THEN manager
    ELSE RemoveClient(manager, OldestOrphan(ip))

(* The registry as on_open leaves it before connect: at the limit of       *)
(* clients, the oldest orphan of the address is removed.                   *)
MadeRoom(ip) ==
    IF \/ GetCounterFromIp(manager, ip)["clients"] < MaxClientsFromIp
       \/ OldestOrphan(ip) = NoClient
    THEN manager
    ELSE RemoveClient(manager, OldestOrphan(ip))

(* chat.on_open otherwise: a new Client c with a fresh token t.            *)
OnOpen(k, c, t) ==
    LET ip == RealClientIp[k]
        room == MadeRoom(ip)
    IN  /\ phase = "idle"
        /\ link[k] = "down"
        /\ GetCounterFromIp(manager, ip)["connections"] < MaxConnectionsFromIp
        /\ c \notin Registered(manager)
        /\ t \in FreshTokens(manager)
        /\ manager' = Connect(room, k, c, t)
        /\ link' = [link EXCEPT ![k] = "up"]
        /\ idle' = [d \in Client |->
                       IF d = c \/ d \notin Registered(room) THEN 0 ELSE idle[d]]
        /\ pinged' = pinged \cap Registered(room)
        /\ UNCHANGED jobVars

(* What the removal of clients leaves of the clocks: an object that is     *)
(* gone has none.                                                          *)
ForgetClocks ==
    /\ idle' = [d \in Client |-> IF d \in Registered(manager') THEN idle[d] ELSE 0]
    /\ pinged' = pinged \cap Registered(manager')

(* chat.on_close with status 1000 or 1001: the session ends.               *)
OnCloseNormal(k) ==
    LET c == FindClientByConnection(manager, k) IN
    /\ phase = "idle"
    /\ link[k] # "down"
    /\ manager' = IF c = NoClient THEN manager ELSE RemoveClient(manager, c)
    /\ link' = [link EXCEPT ![k] = "down"]
    /\ ForgetClocks
    /\ UNCHANGED jobVars

(* chat.on_close with any other status, and chat.on_error: the session     *)
(* stays and waits for its peer.                                           *)
OnConnectionLost(k) ==
    LET c == FindClientByConnection(manager, k) IN
    /\ phase = "idle"
    /\ link[k] # "down"
    /\ manager' = IF c = NoClient THEN manager ELSE MakeOrphan(manager, c)
    /\ link' = [link EXCEPT ![k] = "down"]
    /\ UNCHANGED <<idle, pinged, jobVars>>

(* chat.on_message with any valid packet that is not a resumption. A       *)
(* message of a connection that is not in the map, or one that does not    *)
(* parse, changes nothing.                                                 *)
OnMessage(k) ==
    LET c == FindClientByConnection(manager, k) IN
    /\ phase = "idle"
    /\ link[k] # "down"
    /\ c # NoClient
    /\ idle' = [idle EXCEPT ![c] = 0]
    /\ pinged' = pinged \ {c}
    /\ UNCHANGED <<manager, link, jobVars>>

(* PacketAuth with the token of another session: the connection of this    *)
(* client moves there, and the connection that the other session had is    *)
(* told to close.                                                          *)
OnAuthToken(k, t) ==
    LET cur == FindClientByConnection(manager, k)
        tgt == FindClientByToken(manager, t)
        old == manager.connection[tgt]
    IN  /\ phase = "idle"
        /\ link[k] # "down"
        /\ cur # NoClient
        /\ tgt \notin {NoClient, cur}
        /\ manager' = ReviveClient(manager, cur, tgt)
        /\ link' = [j \in Connection |->
                       IF j = old /\ j # manager.connection[cur] THEN "closing" ELSE link[j]]
        /\ idle' = [idle EXCEPT ![cur] = 0, ![tgt] = 0]
        /\ pinged' = pinged \ {cur, tgt}
        /\ UNCHANGED jobVars

-----------------------------------------------------------------------------
(* Time and the periodic job.                                              *)

(* A unit of time passes between handlers. The job is re-armed when it     *)
(* ends and runs at most TimerLag late.                                    *)
Elapse ==
    /\ phase = "idle"
    /\ sinceTick < PingInterval + TimerLag
    /\ sinceTick' = sinceTick + 1
    /\ idle' = [c \in Client |-> IF c \in Registered(manager) THEN idle[c] + 1 ELSE 0]
    /\ UNCHANGED <<manager, link, pinged, phase, next, toKick>>

(* Mutant of JobStart: the timer never fires. *)
JobStartNever ==
    /\ phase = "idle"
    /\ sinceTick > PingInterval + TimerLag
    /\ phase' = "scan"
    /\ UNCHANGED <<manager, link, idle, pinged, sinceTick, next, toKick>>

JobStart ==
    /\ phase = "idle"
    /\ sinceTick >= PingInterval
    /\ phase' = "scan"
    /\ UNCHANGED <<manager, link, idle, pinged, sinceTick, next, toKick>>

Scanning == phase = "scan" /\ next <= Len(manager.clients)
Scanned == manager.clients[next]

(* Mutant of ScanOutdated: the client is removed in the first loop, and    *)
(* the next one takes its index.                                           *)
ScanOutdatedRemoves ==
    LET c == Scanned
        k == manager.connection[c]
    IN  /\ Scanning
        /\ idle[c] > OrphanTimeout
        /\ link' = [j \in Connection |-> IF j = k THEN "closing" ELSE link[j]]
        /\ manager' = RemoveClient(manager, c)
        /\ ForgetClocks
        /\ next' = next + 1
        /\ UNCHANGED <<sinceTick, phase, toKick>>

(* timeWasted > orphanTimeout *)
ScanOutdated ==
    /\ Scanning
    /\ idle[Scanned] > OrphanTimeout
    /\ toKick' = Append(toKick, Scanned)
    /\ next' = next + 1
    /\ UNCHANGED <<manager, link, idle, pinged, sinceTick, phase>>

(* Mutants of ScanSilent: the peer is not told, the wrong timeout is used. *)
ScanSilentUntold ==
    /\ Scanning
    /\ idle[Scanned] \in (ConnectTimeout + 1)..OrphanTimeout
    /\ manager.connection[Scanned] # NoConnection
    /\ manager' = MakeOrphan(manager, Scanned)
    /\ next' = next + 1
    /\ UNCHANGED <<link, idle, pinged, sinceTick, phase, toKick>>

ScanSilentTooSoon ==
    LET k == manager.connection[Scanned] IN
    /\ Scanning
    /\ idle[Scanned] \in (PingTimeout + 1)..OrphanTimeout
    /\ k # NoConnection
    /\ link' = [link EXCEPT ![k] = "closing"]
    /\ manager' = MakeOrphan(manager, Scanned)
    /\ next' = next + 1
    /\ UNCHANGED <<idle, pinged, sinceTick, phase, toKick>>

(* timeWasted > connectTimeout, and the client has a connection *)
ScanSilent ==
    LET k == manager.connection[Scanned] IN
    /\ Scanning
    /\ idle[Scanned] \in (ConnectTimeout + 1)..OrphanTimeout
    /\ k # NoConnection
    /\ link' = [link EXCEPT ![k] = "closing"]
    /\ manager' = MakeOrphan(manager, Scanned)
    /\ next' = next + 1
    /\ UNCHANGED <<idle, pinged, sinceTick, phase, toKick>>

(* timeWasted > pingTimeout; sendPacket needs a connection *)
ScanPing ==
    /\ Scanning
    /\ idle[Scanned] \in (PingTimeout + 1)..ConnectTimeout
    /\ pinged' = IF manager.connection[Scanned] = NoConnection
                 THEN pinged ELSE pinged \cup {Scanned}
    /\ next' = next + 1
    /\ UNCHANGED <<manager, link, idle, sinceTick, phase, toKick>>

ScanSkip ==
    /\ Scanning
    /\ \/ idle[Scanned] <= PingTimeout
       \/ /\ idle[Scanned] \in (ConnectTimeout + 1)..OrphanTimeout
          /\ manager.connection[Scanned] = NoConnection
    /\ next' = next + 1
    /\ UNCHANGED <<manager, link, idle, pinged, sinceTick, phase, toKick>>

(* Mutant of ScanEnd: the index is reset to zero. *)
ScanEndAtZero ==
    /\ phase = "scan"
    /\ next > Len(manager.clients)
    /\ phase' = "kick"
    /\ next' = 0
    /\ UNCHANGED <<manager, link, idle, pinged, sinceTick, toKick>>

ScanEnd ==
    /\ phase = "scan"
    /\ next > Len(manager.clients)
    /\ phase' = "kick"
    /\ next' = 1
    /\ UNCHANGED <<manager, link, idle, pinged, sinceTick, toKick>>

KickOutdated ==
    LET c == Head(toKick)
        k == manager.connection[c]
    IN  /\ phase = "kick"
        /\ toKick # <<>>
        /\ link' = [j \in Connection |-> IF j = k THEN "closing" ELSE link[j]]
        /\ manager' = RemoveClient(manager, c)
        /\ toKick' = Tail(toKick)
        /\ ForgetClocks
        /\ UNCHANGED <<sinceTick, phase, next>>

JobEnd ==
    /\ phase = "kick"
    /\ toKick = <<>>
    /\ phase' = "idle"
    /\ sinceTick' = 0
    /\ UNCHANGED <<manager, link, idle, pinged, next, toKick>>

Job == JobStart \/ ScanOutdated \/ ScanSilent \/ ScanPing \/ ScanSkip
           \/ ScanEnd \/ KickOutdated \/ JobEnd

Next ==
    \/ \E k \in Connection :
         \/ OnOpenRefused(k)
         \/ \E c \in Client, t \in Token : OnOpen(k, c, t)
         \/ OnCloseNormal(k)
         \/ OnConnectionLost(k)
         \/ OnMessage(k)
         \/ \E t \in Token : OnAuthToken(k, t)
    \/ Elapse
    \/ Job

Spec == Init /\ [][Next]_vars

(* Time passes, and the io_service runs the job once it is due; nothing is *)
(* assumed of the peers.                                                   *)
FairSpec == Spec /\ WF_vars(Elapse) /\ WF_vars(Job)

-----------------------------------------------------------------------------
(* Safety.                                                                 *)

(* The counters are what the source counts with them, for every address    *)
(* and after every mixture of handlers: one per registered client, one per *)
(* registered client with a connection; and an address with no client has  *)
(* no entry. connect, makeOrphan, remove and reviveClient each adjust them *)
(* by hand, on an address that resumption changes under them.              *)
CountersExact == CountsAgree(manager)

(* on_open's limits hold of the clients themselves, also when sessions     *)
(* move between addresses by resumption (maxConnectionsFromIp,             *)
(* maxClientsFromIp).                                                      *)
WithinLimits ==
    \A ip \in Ip :
        /\ Cardinality(LiveFrom(manager, ip)) <= MaxConnectionsFromIp
        /\ Cardinality(ClientsFrom(manager, ip)) <= MaxClientsFromIp

(* When on_open has to make room it finds an orphan of the address: the    *)
(* branch that logs "Not found oldest orphan. Wtf?" is never taken.        *)
EvictionFindsOrphan ==
    \A ip \in Ip :
        /\ GetCounterFromIp(manager, ip)["connections"] < MaxConnectionsFromIp
        /\ GetCounterFromIp(manager, ip)["clients"] >= MaxClientsFromIp
        => \E c \in Registered(manager) : IsOrphanOf(ip, c)

(* The vector holds a client once, and the map by connection and the       *)
(* clients' own connection fields are inverse to each other: makeOrphan,   *)
(* remove and the job each consult only one of the two. The address of a   *)
(* client with a connection is that of the connection.                     *)
ConnectionsExact == ConnectionsAgree(manager)

(* A token resumes its own client and only while that client is            *)
(* registered: no eviction, expiry or resumption leaves a token behind in  *)
(* tokenToClient, and no two clients share one.                            *)
TokensExact == TokensAgree(manager)

(* The registry as a whole: its counters, its vector, its two maps and the *)
(* fields of the clients describe the same sessions, though each handler   *)
(* adjusts them one by one and reads whichever of them is at hand.         *)
RegistryExact == CountersExact /\ ConnectionsExact /\ TokensExact

(* A connection is known to the registry exactly as long as it is open and *)
(* the server has not told it to close: no peer is left with an open       *)
(* connection whose messages are silently dropped, and no closed or        *)
(* superseded connection can still speak for a client.                     *)
NoZombie ==
    \A k \in Connection : k \in Mapped(manager) <=> link[k] = "up"

(* The clients that the finished iterations of the job have passed over.   *)
Passed ==
    IF phase = "kick" THEN Registered(manager)
    ELSE {manager.clients[i] : i \in {j \in DOMAIN manager.clients : j < next}}

(* What an iteration leaves of a client it does not put on the list. *)
Settled(c) ==
    /\ idle[c] <= OrphanTimeout
    /\ manager.connection[c] # NoConnection =>
          /\ idle[c] <= ConnectTimeout
          /\ idle[c] > PingTimeout => c \in pinged

(* toKick outlives the iterations that fill it, and the second loop uses   *)
(* its elements unchecked: each is still registered, too old, and there    *)
(* once; the list is empty when the job has ended; and every client that   *)
(* was passed over and is not on the list is within the timeouts and has   *)
(* been pinged if it was due.                                              *)
JobExact ==
    /\ phase # "scan" => next = 1
    /\ ToSet(toKick) \subseteq Passed
    /\ \A i, j \in DOMAIN toKick : toKick[i] = toKick[j] => i = j
    /\ \A c \in ToSet(toKick) : idle[c] > OrphanTimeout
    /\ \A c \in Passed \ ToSet(toKick) : Settled(c)

(* No client is kept for more than OrphanTimeout, nor its connection for   *)
(* more than ConnectTimeout, after its last packet, but for the period and *)
(* the lag of the job.                                                     *)
BoundedRetention ==
    \A c \in Registered(manager) :
        /\ idle[c] <= OrphanTimeout + PingInterval + TimerLag
        /\ manager.connection[c] # NoConnection =>
              idle[c] <= ConnectTimeout + PingInterval + TimerLag

(* A client with a connection leaves the registry only by the normal close *)
(* of that connection, by taking that connection over to another session,  *)
(* or by age: never because a newcomer of its address needs room or        *)
(* because another session ends.                                           *)
LiveLeavesOnlyItself ==
    [][\A c \in Registered(manager) \ Registered(manager') :
          manager.connection[c] # NoConnection =>
              \/ link'[manager.connection[c]] = "down"
              \/ manager.connection[c] \in Mapped(manager')
              \/ idle[c] > OrphanTimeout]_vars

(* The job gives up on a connection only after it has pinged it and no     *)
(* packet came back: the three timeouts and the period leave room for at   *)
(* least one ping before the connection is dropped.                        *)
DroppedOnlyAfterPing ==
    [][phase = "scan" =>
          \A c \in Client :
              /\ manager.connection[c] # NoConnection
              /\ manager'.connection[c] = NoConnection
              => c \in pinged]_vars

-----------------------------------------------------------------------------
(* Liveness.                                                               *)

(* A client whose peer has gone silent, with or without a connection, is   *)
(* heard from again or removed: the periodic job leaves no client behind.  *)
SilentIsSettled == \A c \in Client : idle[c] > 0 ~> idle[c] = 0

-----------------------------------------------------------------------------
(* The abstract specification that the handlers implement.                 *)

SessionState ==
    [c \in Client |->
        IF c \notin Registered(manager) THEN "free"
        ELSE IF manager.connection[c] = NoConnection THEN "orphan" ELSE "live"]

Abstract == INSTANCE Sessions WITH state <- SessionState, from <- manager.lastClientIP

(* Every handler is one admission, loss, end or resumption of a session,   *)
(* or no change of any session at all.                                     *)
ImplementsSessions == Abstract!Spec

=============================================================================
