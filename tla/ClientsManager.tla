--------------------------- MODULE ClientsManager ---------------------------
(***************************************************************************)
(* src/src/clients_manager.hpp: the registry of Client objects, with the   *)
(* maps by connection and by token and the counters per address.           *)
(*                                                                         *)
(* The state of the class, together with the three fields of each Client   *)
(* it reads (connection, lastClientIP, token), is one record m:            *)
(*   clients             the vector, in order of connection                *)
(*   connectionToClient  total, NoClient standing for an absent key        *)
(*   tokenToClient       total, NoClient standing for an absent key        *)
(*   countersFromIp      total, zeroes standing for an absent key          *)
(*   countedIps          the keys present in countersFromIp                *)
(*   connection, lastClientIP, token   fields of the Client objects        *)
(* and each method is an operator from a record to a record, so that a     *)
(* handler which calls several of them is their composition.               *)
(***************************************************************************)
EXTENDS Integers, Sequences, FiniteSets, SequencesExt

CONSTANTS Client,        \* Client objects; one that is not in the vector does not exist
          Connection,    \* connection objects of the WebSocket library
          Ip,            \* addresses
          Token,         \* keys that Keygen generates
          NoClient, NoConnection, NoIp, NoToken,   \* null pointers and empty strings
          RealClientIp   \* the address of each connection (X-Real-IP or the endpoint)

ASSUME FiniteAssumption == IsFiniteSet(Client)
ASSUME NullAssumption ==
    /\ NoClient \notin Client
    /\ NoConnection \notin Connection
    /\ NoIp \notin Ip
    /\ NoToken \notin Token
ASSUME IpAssumption == RealClientIp \in [Connection -> Ip]

CounterField == {"connections", "clients"}
Counter == [CounterField -> Int]
NoCount == [f \in CounterField |-> 0]

ManagerType ==
    [clients : Seq(Client),
     connectionToClient : [Connection -> Client \cup {NoClient}],
     tokenToClient : [Token -> Client \cup {NoClient}],
     countersFromIp : [Ip -> Counter],
     countedIps : SUBSET Ip,
     connection : [Client -> Connection \cup {NoConnection}],
     lastClientIP : [Client -> Ip \cup {NoIp}],
     token : [Client -> Token \cup {NoToken}]]

EmptyManager ==
    [clients |-> <<>>,
     connectionToClient |-> [k \in Connection |-> NoClient],
     tokenToClient |-> [t \in Token |-> NoClient],
     countersFromIp |-> [i \in Ip |-> NoCount],
     countedIps |-> {},
     connection |-> [c \in Client |-> NoConnection],
     lastClientIP |-> [c \in Client |-> NoIp],
     token |-> [c \in Client |-> NoToken]]

-----------------------------------------------------------------------------
(* Views of the record.                                                    *)

Registered(m) == ToSet(m.clients)

(* The keys of connectionToClient. *)
Mapped(m) == {k \in Connection : m.connectionToClient[k] # NoClient}

(* getCounterFromIp. operator[] inserts the entry it does not find; on_open *)
(* either connects next, which counts in that entry, or found it nonzero.  *)
GetCounterFromIp(m, ip) == m.countersFromIp[ip]

ClientsFrom(m, ip) == {c \in Registered(m) : m.lastClientIP[c] = ip}
LiveFrom(m, ip) == {c \in ClientsFrom(m, ip) : m.connection[c] # NoConnection}

-----------------------------------------------------------------------------
(* Private methods.                                                        *)

Decremented(counter, field) ==
    [f \in CounterField |->
        IF f # field THEN counter[f]
        ELSE IF counter[f] - 1 < 0 THEN 0 ELSE counter[f] - 1]

Incremented(counter) == [f \in CounterField |-> counter[f] + 1]

(* Clamped at zero; the entry goes when both of its fields are zero. *)
DecrementForIp(m, ip, field) ==
    LET counter == Decremented(m.countersFromIp[ip], field) IN
    [m EXCEPT !.countersFromIp[ip] = counter,
              !.countedIps = IF counter["connections"] <= 0 /\ counter["clients"] <= 0
                             THEN @ \ {ip} ELSE @ \cup {ip}]

(* The vector and the token map lose the client together. *)
RemoveFromClients(m, c) ==
    IF c \notin Registered(m) THEN m
    ELSE LET i == CHOOSE j \in DOMAIN m.clients : m.clients[j] = c IN
         [m EXCEPT !.clients = RemoveAt(m.clients, i),
                   !.tokenToClient[m.token[c]] = NoClient]

(* connectionToClient.erase(connection) followed by the decrement it       *)
(* guards, in makeOrphan, remove and reviveClient.                         *)
EraseConnection(m, k, ip) ==
    IF k \notin Mapped(m) THEN m
    ELSE DecrementForIp([m EXCEPT !.connectionToClient[k] = NoClient],
                        ip, "connections")

-----------------------------------------------------------------------------
(* The hooks of Client that the methods call, as far as the registry sees. *)

SetConnection(m, c, k) ==
    [m EXCEPT !.connection[c] = k, !.lastClientIP[c] = RealClientIp[k]]

OnDisconnect(m, c) == [m EXCEPT !.connection[c] = NoConnection]

(* setConnection(nullptr); the last pointer to the object goes with its    *)
(* caller, so the object's fields go too.                                  *)
OnRemove(m, c) ==
    [m EXCEPT !.connection[c] = NoConnection,
              !.lastClientIP[c] = NoIp,
              !.token[c] = NoToken]

-----------------------------------------------------------------------------
(* Public methods.                                                         *)

FindClientByConnection(m, k) == m.connectionToClient[k]
FindClientByToken(m, t) == m.tokenToClient[t]

(* The first client of the vector that f selects, or NoClient. *)
FindFirstClient(m, f(_)) ==
    LET I == {i \in DOMAIN m.clients : f(m.clients[i])} IN
    IF I = {} THEN NoClient
    ELSE m.clients[CHOOSE i \in I : \A j \in I : i <= j]

(* What Keygen may return once the do-while loop ends. *)
FreshTokens(m) == {t \in Token : m.tokenToClient[t] = NoClient}

(* c is the object that make_shared allocates, t its token. *)
Connect(m, k, c, t) ==
    LET ip == RealClientIp[k]
    IN  SetConnection(
            [m EXCEPT
                !.clients = Append(m.clients, c),
                !.connectionToClient[k] = c,
                !.tokenToClient[t] = c,
                !.token[c] = t,
                !.countersFromIp[ip] = Incremented(@),
                !.countedIps = @ \cup {ip}],
            c, k)

MakeOrphan(m, c) ==
    LET k == m.connection[c] IN
    IF k \notin Mapped(m) THEN m
    ELSE OnDisconnect(EraseConnection(m, k, m.lastClientIP[c]), c)

(* Mutant of RemoveClient: the client is not discounted. *)
RemoveClientUncounted(m, c) ==
    OnRemove(RemoveFromClients(EraseConnection(m, m.connection[c], m.lastClientIP[c]), c), c)

RemoveClient(m, c) ==
    LET ip == m.lastClientIP[c]
        erased == EraseConnection(m, m.connection[c], ip)
        removed == RemoveFromClients(erased, c)
    IN  OnRemove(IF c \in Registered(m)
                 THEN DecrementForIp(removed, ip, "clients") ELSE removed, c)

(* Mutants of ReviveClient: the clients of the wrong address are counted,  *)
(* the address of the session stays.                                       *)
ReviveClientMiscounts(m, cur, tgt) ==
    LET k == m.connection[cur]
        erased == EraseConnection(m, m.connection[tgt], m.lastClientIP[tgt])
        counted == DecrementForIp(erased, m.lastClientIP[cur], "clients")
        removed == OnRemove(RemoveFromClients(counted, cur), cur)
    IN  SetConnection([removed EXCEPT !.connectionToClient[k] = tgt], tgt, k)

ReviveClientKeepsAddress(m, cur, tgt) ==
    LET k == m.connection[cur]
        erased == EraseConnection(m, m.connection[tgt], m.lastClientIP[tgt])
        counted == DecrementForIp(erased, m.lastClientIP[tgt], "clients")
        removed == OnRemove(RemoveFromClients(counted, cur), cur)
    IN  [removed EXCEPT !.connectionToClient[k] = tgt, !.connection[tgt] = k]

(* The connection of cur moves to tgt, and cur is gone. The order of the   *)
(* steps is the code's: the counters of the address of tgt first.          *)
ReviveClient(m, cur, tgt) ==
    LET k == m.connection[cur]
        tgtIp == m.lastClientIP[tgt]
        erased == EraseConnection(m, m.connection[tgt], tgtIp)
        counted == DecrementForIp(erased, tgtIp, "clients")
        removed == OnRemove(RemoveFromClients(counted, cur), cur)
    IN  IF k = NoConnection THEN m
        ELSE SetConnection([removed EXCEPT !.connectionToClient[k] = tgt], tgt, k)

-----------------------------------------------------------------------------
(* What the containers of the registry have to agree on.                   *)

(* The vector holds a client once; the map by connection and the clients'  *)
(* own connection fields are inverse to each other; the address of a       *)
(* client with a connection is that of the connection; an object that is   *)
(* not in the vector holds nothing.                                        *)
ConnectionsAgree(m) ==
    /\ \A i, j \in DOMAIN m.clients : m.clients[i] = m.clients[j] => i = j
    /\ \A k \in Mapped(m) :
          LET c == m.connectionToClient[k]
          IN  c \in Registered(m) /\ m.connection[c] = k
    /\ \A c \in Client :
          m.connection[c] # NoConnection =>
              /\ m.connectionToClient[m.connection[c]] = c
              /\ m.lastClientIP[c] = RealClientIp[m.connection[c]]
    /\ \A c \in Registered(m) : m.lastClientIP[c] \in Ip
    /\ \A c \in Client \ Registered(m) :
          m.connection[c] = NoConnection /\ m.lastClientIP[c] = NoIp

TokensAgree(m) ==
    /\ \A t \in Token, c \in Client :
          m.tokenToClient[t] = c <=> c \in Registered(m) /\ m.token[c] = t
    /\ \A c \in Registered(m) : m.token[c] \in Token

CountsAgree(m) ==
    \A ip \in Ip :
        /\ GetCounterFromIp(m, ip)["clients"] = Cardinality(ClientsFrom(m, ip))
        /\ GetCounterFromIp(m, ip)["connections"] = Cardinality(LiveFrom(m, ip))
        /\ ip \in m.countedIps <=> ClientsFrom(m, ip) # {}

=============================================================================
