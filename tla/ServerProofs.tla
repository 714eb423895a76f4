---------------------------- MODULE ServerProofs ----------------------------
(***************************************************************************)
(* The safety properties of Server.tla for every value of the constants.   *)
(*                                                                         *)
(* First the registry: each method of ClientsManager keeps the vector, the *)
(* two maps and the counters in agreement (RegistryOK), and does what its  *)
(* lemma says to the set of registered clients and to their connections.   *)
(*                                                                         *)
(* Then the server: the inductive invariant IInv joins RegistryOK, the     *)
(* correspondence of the registry and the connections, the limits, and two *)
(* facts about the periodic job: what its finished iterations have settled,*)
(* and how old a client can be.  For each handler a lemma says what it does*)
(* to the registry in terms of the sets that the properties speak of; the  *)
(* preservation of each conjunct is then shown handler by handler.         *)
(***************************************************************************)
EXTENDS Server, FiniteSetTheorems, SequenceTheorems, WellFoundedInduction, TLAPS

(* The agreement of all the containers of the registry, with their types.  *)
RegistryOK(m) ==
    /\ m \in ManagerType
    /\ ConnectionsAgree(m)
    /\ TokensAgree(m)
    /\ CountsAgree(m)

-----------------------------------------------------------------------------
(* The vector.                                                             *)

(* vector::erase at an index keeps the others in order.                    *)
LEMMA RemoveAtElements ==
    ASSUME NEW S, NEW s \in Seq(S), NEW i \in 1..Len(s)
    PROVE  /\ RemoveAt(s, i) \in Seq(S)
           /\ Len(RemoveAt(s, i)) = Len(s) - 1
           /\ \A j \in 1..(Len(s) - 1) :
                 RemoveAt(s, i)[j] = IF j < i THEN s[j] ELSE s[j + 1]
  <1> DEFINE a == SubSeq(s, 1, i - 1)
             b == SubSeq(s, i + 1, Len(s))
  <1>1. /\ a \in Seq(S)
        /\ Len(a) = i - 1
        /\ \A j \in 1..(i - 1) : a[j] = s[j]
    OBVIOUS
  <1>2. /\ b \in Seq(S)
        /\ Len(b) = Len(s) - i
        /\ \A j \in 1..(Len(s) - i) : b[j] = s[j + i]
    OBVIOUS
  <1>3. RemoveAt(s, i) = a \o b
    BY DEF RemoveAt
  <1> HIDE DEF a, b
  <1>4. a \o b \in Seq(S) /\ Len(a \o b) = Len(s) - 1
    <2>1. a \o b \in Seq(S) /\ Len(a \o b) = Len(a) + Len(b)
      BY <1>1, <1>2, ConcatProperties
    <2>2. Len(s) \in Nat /\ i \in Int
      BY LenProperties
    <2> QED
      BY <1>1, <1>2, <2>1, <2>2
  <1>5. ASSUME NEW j \in 1..(Len(s) - 1)
        PROVE  (a \o b)[j] = IF j < i THEN s[j] ELSE s[j + 1]
    <2>1. CASE j < i
      BY <1>1, <1>2, <2>1
    <2>2. CASE ~(j < i)
      <3>1. (a \o b)[j] = b[j - (i - 1)]
        BY <1>1, <1>2, <2>2
      <3> QED
        BY <1>2, <2>2, <3>1
    <2> QED
      BY <2>1, <2>2
  <1> QED
    BY <1>3, <1>4, <1>5

(* Erasing the one occurrence of an element takes just that element out.   *)
LEMMA RemoveAtRange ==
    ASSUME NEW S, NEW s \in Seq(S), NEW i \in 1..Len(s),
           \A p, q \in 1..Len(s) : s[p] = s[q] => p = q
    PROVE  /\ ToSet(RemoveAt(s, i)) = ToSet(s) \ {s[i]}
           /\ \A p, q \in 1..Len(RemoveAt(s, i)) :
                 RemoveAt(s, i)[p] = RemoveAt(s, i)[q] => p = q
  <1> DEFINE r == RemoveAt(s, i)
  <1>1. /\ r \in Seq(S)
        /\ Len(r) = Len(s) - 1
        /\ \A j \in 1..(Len(s) - 1) : r[j] = IF j < i THEN s[j] ELSE s[j + 1]
    BY RemoveAtElements
  <1>2. \A p, q \in 1..Len(r) : r[p] = r[q] => p = q
    BY <1>1
  <1>3. ASSUME NEW j \in 1..Len(r)
        PROVE  r[j] \in ToSet(s) \ {s[i]}
    BY <1>1 DEF ToSet
  <1>4. ASSUME NEW j \in 1..Len(s), j # i
        PROVE  s[j] \in ToSet(r)
    <2> DEFINE h == IF j < i THEN j ELSE j - 1
    <2>1. h \in 1..Len(r) /\ r[h] = s[j]
      BY <1>1, <1>4
    <2>2. h \in DOMAIN r
      BY <1>1, <2>1
    <2> QED
      BY <2>1, <2>2 DEF ToSet
  <1>5. ToSet(r) = ToSet(s) \ {s[i]}
    BY <1>1, <1>3, <1>4 DEF ToSet
  <1> QED
    BY <1>2, <1>5

-----------------------------------------------------------------------------
(* The private methods, field by field.                                    *)

Injective(s) == \A i, j \in DOMAIN s : s[i] = s[j] => i = j

(* removeFromClients takes one client, and only its token, out of the      *)
(* registry.                                                               *)
LEMMA RemoveFromClientsEffect ==
    ASSUME NEW m \in ManagerType, Injective(m.clients),
           NEW c \in Registered(m), m.token[c] \in Token,
           NEW n, n = RemoveFromClients(m, c)
    PROVE  /\ n \in ManagerType
           /\ Registered(n) = Registered(m) \ {c}
           /\ Injective(n.clients)
           /\ n.tokenToClient = [m.tokenToClient EXCEPT ![m.token[c]] = NoClient]
           /\ n.connectionToClient = m.connectionToClient
           /\ n.countersFromIp = m.countersFromIp
           /\ n.countedIps = m.countedIps
           /\ n.connection = m.connection
           /\ n.lastClientIP = m.lastClientIP
           /\ n.token = m.token
  <1> DEFINE i == CHOOSE j \in DOMAIN m.clients : m.clients[j] = c
             r == RemoveAt(m.clients, i)
  <1>1. m.clients \in Seq(Client)
    BY DEF ManagerType
  <1>2. i \in 1..Len(m.clients) /\ m.clients[i] = c
    <2>1. \E j \in DOMAIN m.clients : m.clients[j] = c
      BY DEF Registered, ToSet
    <2> QED
      BY <1>1, <2>1
  <1>3. n = [m EXCEPT !.clients = r, !.tokenToClient[m.token[c]] = NoClient]
    BY DEF RemoveFromClients
  <1> HIDE DEF i
  <1>4. \A p, q \in 1..Len(m.clients) : m.clients[p] = m.clients[q] => p = q
    BY <1>1 DEF Injective
  <1>5. r \in Seq(Client)
    BY <1>1, <1>2, RemoveAtElements
  <1>6. /\ ToSet(r) = ToSet(m.clients) \ {c}
        /\ \A p, q \in 1..Len(r) : r[p] = r[q] => p = q
    BY <1>1, <1>2, <1>4, RemoveAtRange
  <1> HIDE DEF r
  <1>7. Injective(r)
    BY <1>5, <1>6 DEF Injective
  <1> DEFINE tokens == [m.tokenToClient EXCEPT ![m.token[c]] = NoClient]
  <1>8. tokens \in [Token -> Client \cup {NoClient}]
    BY DEF ManagerType
  <1>9. n = [m EXCEPT !.clients = r, !.tokenToClient = tokens]
    BY <1>3 DEF ManagerType
  <1> HIDE DEF tokens
  <1>10. n \in ManagerType
    BY <1>5, <1>8, <1>9 DEF ManagerType
  <1>11. /\ n.clients = r
         /\ n.tokenToClient = tokens
         /\ n.connectionToClient = m.connectionToClient
         /\ n.countersFromIp = m.countersFromIp
         /\ n.countedIps = m.countedIps
         /\ n.connection = m.connection
         /\ n.lastClientIP = m.lastClientIP
         /\ n.token = m.token
    BY <1>9 DEF ManagerType
  <1> QED
    BY <1>6, <1>7, <1>10, <1>11 DEF Registered, tokens

CountedDown(m, n, ip, f) ==
    /\ n \in ManagerType
    /\ n.countersFromIp =
          [m.countersFromIp EXCEPT ![ip] = Decremented(m.countersFromIp[ip], f)]
    /\ \A a \in Ip \ {ip} : a \in n.countedIps <=> a \in m.countedIps
    /\ ip \in n.countedIps <=>
          \E g \in CounterField : Decremented(m.countersFromIp[ip], f)[g] > 0
    /\ n.clients = m.clients
    /\ n.tokenToClient = m.tokenToClient
    /\ n.connectionToClient = m.connectionToClient
    /\ n.connection = m.connection
    /\ n.lastClientIP = m.lastClientIP
    /\ n.token = m.token

(* decrementForIp changes one field of one address and keeps the set of    *)
(* counted addresses exact.                                                *)
LEMMA DecrementForIpEffect ==
    ASSUME NEW m \in ManagerType, NEW ip \in Ip, NEW f \in CounterField
    PROVE  CountedDown(m, DecrementForIp(m, ip, f), ip, f)
  <1> DEFINE n == DecrementForIp(m, ip, f)
             counter == Decremented(m.countersFromIp[ip], f)
             counted == IF counter["connections"] <= 0 /\ counter["clients"] <= 0
                        THEN m.countedIps \ {ip} ELSE m.countedIps \cup {ip}
  <1>1. counter \in Counter
    BY DEF ManagerType, Counter, Decremented, CounterField
  <1>2. n = [m EXCEPT !.countersFromIp[ip] = counter, !.countedIps = counted]
    BY DEF DecrementForIp, ManagerType
  <1> HIDE DEF counter, n
  <1>3. (\E g \in CounterField : counter[g] > 0)
          <=> ~(counter["connections"] <= 0 /\ counter["clients"] <= 0)
    BY <1>1 DEF Counter, CounterField
  <1>4. /\ counted \in SUBSET Ip
        /\ \A a \in Ip \ {ip} : a \in counted <=> a \in m.countedIps
        /\ ip \in counted <=> \E g \in CounterField : counter[g] > 0
    BY <1>3 DEF ManagerType
  <1> HIDE DEF counted
  <1> DEFINE counters == [m.countersFromIp EXCEPT ![ip] = counter]
  <1>5. counters \in [Ip -> Counter] /\ n = [m EXCEPT !.countersFromIp = counters,
                                                   !.countedIps = counted]
    BY <1>1, <1>2 DEF ManagerType
  <1> HIDE DEF counters
  <1>6. n \in ManagerType
    BY <1>4, <1>5 DEF ManagerType
  <1>7. /\ n.clients = m.clients
        /\ n.tokenToClient = m.tokenToClient
        /\ n.connectionToClient = m.connectionToClient
        /\ n.connection = m.connection
        /\ n.lastClientIP = m.lastClientIP
        /\ n.token = m.token
        /\ n.countersFromIp = counters
        /\ n.countedIps = counted
    BY <1>5 DEF ManagerType
  <1> QED
    BY <1>4, <1>6, <1>7 DEF counter, counters, n, CountedDown

(* Erasing a mapped connection unmaps it and discounts it at the given     *)
(* address.                                                                *)
LEMMA EraseConnectionEffect ==
    ASSUME NEW m \in ManagerType, NEW k \in Mapped(m), NEW ip \in Ip,
           NEW n, n = EraseConnection(m, k, ip)
    PROVE  /\ n \in ManagerType
           /\ n.connectionToClient = [m.connectionToClient EXCEPT ![k] = NoClient]
           /\ n.countersFromIp = [m.countersFromIp EXCEPT
                                     ![ip] = Decremented(m.countersFromIp[ip], "connections")]
           /\ \A a \in Ip \ {ip} : a \in n.countedIps <=> a \in m.countedIps
           /\ ip \in n.countedIps <=>
                 \E g \in CounterField : Decremented(m.countersFromIp[ip], "connections")[g] > 0
           /\ n.clients = m.clients
           /\ n.tokenToClient = m.tokenToClient
           /\ n.connection = m.connection
           /\ n.lastClientIP = m.lastClientIP
           /\ n.token = m.token
  <1> DEFINE map == [m.connectionToClient EXCEPT ![k] = NoClient]
             e == [m EXCEPT !.connectionToClient = map]
  <1>1. map \in [Connection -> Client \cup {NoClient}]
    BY DEF ManagerType
  <1>2. n = DecrementForIp(e, ip, "connections")
    BY DEF EraseConnection, ManagerType
  <1> HIDE DEF map
  <1>3. e \in ManagerType
    BY <1>1 DEF ManagerType
  <1>4. /\ e.connectionToClient = map
        /\ e.clients = m.clients
        /\ e.tokenToClient = m.tokenToClient
        /\ e.countersFromIp = m.countersFromIp
        /\ e.countedIps = m.countedIps
        /\ e.connection = m.connection
        /\ e.lastClientIP = m.lastClientIP
        /\ e.token = m.token
    BY DEF ManagerType
  <1> HIDE DEF e
  <1>5. "connections" \in CounterField
    BY DEF CounterField
  <1>6. /\ n \in ManagerType
        /\ n.countersFromIp = [e.countersFromIp EXCEPT
                                  ![ip] = Decremented(e.countersFromIp[ip], "connections")]
        /\ \A a \in Ip \ {ip} : a \in n.countedIps <=> a \in e.countedIps
        /\ ip \in n.countedIps <=>
              \E g \in CounterField : Decremented(e.countersFromIp[ip], "connections")[g] > 0
        /\ n.clients = e.clients
        /\ n.tokenToClient = e.tokenToClient
        /\ n.connectionToClient = e.connectionToClient
        /\ n.connection = e.connection
        /\ n.lastClientIP = e.lastClientIP
        /\ n.token = e.token
    <2>1. CountedDown(e, n, ip, "connections")
      BY <1>2, <1>3, <1>5, DecrementForIpEffect
    <2> QED
      BY <2>1 DEF CountedDown
  <1> QED
    BY <1>4, <1>6 DEF map

(* Erasing the connection of a registered client, if it has one.           *)
Disconnected(counter, live) == IF live THEN Decremented(counter, "connections") ELSE counter

(* Erasing the connection a client has leaves the registry exact but for   *)
(* that client's own field.                                                *)
LEMMA EraseOwnConnection ==
    ASSUME NEW m \in ManagerType, ConnectionsAgree(m), NEW c \in Registered(m),
           NEW ip, ip = m.lastClientIP[c],
           NEW e, e = EraseConnection(m, m.connection[c], ip),
           NEW first, first = Disconnected(m.countersFromIp[ip], m.connection[c] # NoConnection)
    PROVE  /\ e \in ManagerType
           /\ e.connectionToClient = [k \in Connection |->
                 IF k = m.connection[c] THEN NoClient ELSE m.connectionToClient[k]]
           /\ e.countersFromIp = [m.countersFromIp EXCEPT ![ip] = first]
           /\ \A a \in Ip \ {ip} : a \in e.countedIps <=> a \in m.countedIps
           /\ e.clients = m.clients
           /\ e.tokenToClient = m.tokenToClient
           /\ e.connection = m.connection
           /\ e.lastClientIP = m.lastClientIP
           /\ e.token = m.token
  <1> DEFINE k0 == m.connection[c]
  <1>1. /\ ip \in Ip
        /\ k0 # NoConnection => k0 \in Mapped(m)
    BY NullAssumption DEF ManagerType, ConnectionsAgree, Registered, ToSet, Mapped
  <1>2. CASE k0 # NoConnection
    <2> DEFINE less == Decremented(m.countersFromIp[ip], "connections")
    <2>1. less = first
      BY <1>2 DEF Disconnected
    <2>e. e = EraseConnection(m, k0, ip) /\ k0 \in Mapped(m)
      BY <1>1, <1>2
    <2> HIDE DEF less, k0
    <2>2. /\ e \in ManagerType
          /\ e.connectionToClient = [m.connectionToClient EXCEPT ![k0] = NoClient]
          /\ e.countersFromIp = [m.countersFromIp EXCEPT ![ip] = less]
          /\ \A a \in Ip \ {ip} : a \in e.countedIps <=> a \in m.countedIps
          /\ e.clients = m.clients
          /\ e.tokenToClient = m.tokenToClient
          /\ e.connection = m.connection
          /\ e.lastClientIP = m.lastClientIP
          /\ e.token = m.token
      BY <1>1, <2>e, EraseConnectionEffect DEF less
    <2> QED
      BY <2>1, <2>2 DEF ManagerType, k0
  <1>3. CASE k0 = NoConnection
    <2>1. e = m /\ first = m.countersFromIp[ip]
      BY <1>3, NullAssumption DEF EraseConnection, Mapped, Disconnected
    <2>2. \A k \in Connection : k # k0
      BY <1>3, NullAssumption
    <2> QED
      BY <1>1, <2>1, <2>2 DEF ManagerType
  <1> QED
    BY <1>2, <1>3

-----------------------------------------------------------------------------
(* remove                                                                  *)

(* The counter of an address after a client of it is gone.                 *)
Uncounted(counter, live) == Decremented(Disconnected(counter, live), "clients")

(* ClientsManager::remove: what is left of the registry when one client    *)
(* is gone.                                                                *)
LEMMA RemoveClientEffect ==
    ASSUME NEW m \in ManagerType, ConnectionsAgree(m), TokensAgree(m),
           NEW c \in Registered(m), NEW n, n = RemoveClient(m, c),
           NEW ip, ip = m.lastClientIP[c],
           NEW counter, counter = Uncounted(m.countersFromIp[ip],
                                            m.connection[c] # NoConnection)
    PROVE  /\ n \in ManagerType
           /\ Registered(n) = Registered(m) \ {c}
           /\ Injective(n.clients)
           /\ n.connectionToClient = [k \in Connection |->
                 IF k = m.connection[c] THEN NoClient ELSE m.connectionToClient[k]]
           /\ n.tokenToClient = [m.tokenToClient EXCEPT ![m.token[c]] = NoClient]
           /\ n.countersFromIp = [m.countersFromIp EXCEPT ![ip] = counter]
           /\ \A a \in Ip \ {ip} : a \in n.countedIps <=> a \in m.countedIps
           /\ ip \in n.countedIps <=> \E g \in CounterField : counter[g] > 0
           /\ n.connection = [m.connection EXCEPT ![c] = NoConnection]
           /\ n.lastClientIP = [m.lastClientIP EXCEPT ![c] = NoIp]
           /\ n.token = [m.token EXCEPT ![c] = NoToken]
  <1> DEFINE k0 == m.connection[c]
             e == EraseConnection(m, k0, ip)
             r == RemoveFromClients(e, c)
             d == DecrementForIp(r, ip, "clients")
             first == Disconnected(m.countersFromIp[ip], k0 # NoConnection)
  <1>1. /\ c \in Client
        /\ ip \in Ip
        /\ m.token[c] \in Token
        /\ Injective(m.clients)
    BY NullAssumption
       DEF ManagerType, ConnectionsAgree, TokensAgree, Registered, ToSet, Injective
  <1>2. n = OnRemove(d, c)
    BY DEF RemoveClient
  <1>0. /\ e = EraseConnection(m, m.connection[c], ip)
        /\ first = Disconnected(m.countersFromIp[ip], m.connection[c] # NoConnection)
    OBVIOUS
  <1> HIDE DEF e, first
  <1>3. /\ e \in ManagerType
        /\ e.connectionToClient = [k \in Connection |->
              IF k = k0 THEN NoClient ELSE m.connectionToClient[k]]
        /\ e.countersFromIp = [m.countersFromIp EXCEPT ![ip] = first]
        /\ \A a \in Ip \ {ip} : a \in e.countedIps <=> a \in m.countedIps
        /\ e.clients = m.clients
        /\ e.tokenToClient = m.tokenToClient
        /\ e.connection = m.connection
        /\ e.lastClientIP = m.lastClientIP
        /\ e.token = m.token
    BY <1>0, EraseOwnConnection
  <1>4. /\ r \in ManagerType
        /\ Registered(r) = Registered(e) \ {c}
        /\ Injective(r.clients)
        /\ r.tokenToClient = [e.tokenToClient EXCEPT ![e.token[c]] = NoClient]
        /\ r.connectionToClient = e.connectionToClient
        /\ r.countersFromIp = e.countersFromIp
        /\ r.countedIps = e.countedIps
        /\ r.connection = e.connection
        /\ r.lastClientIP = e.lastClientIP
        /\ r.token = e.token
    <2>1. c \in Registered(e) /\ Injective(e.clients) /\ e.token[c] \in Token
      BY <1>1, <1>3 DEF Registered
    <2> HIDE DEF r
    <2> QED
      BY <1>3, <2>1, RemoveFromClientsEffect DEF r
  <1> HIDE DEF r
  <1>5. /\ d \in ManagerType
        /\ d.countersFromIp =
              [r.countersFromIp EXCEPT ![ip] = Decremented(r.countersFromIp[ip], "clients")]
        /\ \A a \in Ip \ {ip} : a \in d.countedIps <=> a \in r.countedIps
        /\ ip \in d.countedIps <=>
              \E g \in CounterField : Decremented(r.countersFromIp[ip], "clients")[g] > 0
        /\ d.clients = r.clients
        /\ d.tokenToClient = r.tokenToClient
        /\ d.connectionToClient = r.connectionToClient
        /\ d.connection = r.connection
        /\ d.lastClientIP = r.lastClientIP
        /\ d.token = r.token
    <2>1. "clients" \in CounterField
      BY DEF CounterField
    <2>2. CountedDown(r, d, ip, "clients")
      BY <1>1, <1>4, <2>1, DecrementForIpEffect
    <2> QED
      BY <2>2 DEF CountedDown
  <1> HIDE DEF d
  <1>6. /\ r.countersFromIp[ip] = first
        /\ counter = Decremented(first, "clients")
        /\ d.countersFromIp = [m.countersFromIp EXCEPT ![ip] = counter]
    <2>1. r.countersFromIp = [m.countersFromIp EXCEPT ![ip] = first]
      BY <1>3, <1>4
    <2>2. r.countersFromIp[ip] = first
      BY <1>1, <2>1 DEF ManagerType
    <2>3. counter = Decremented(first, "clients")
      BY DEF Uncounted, first
    <2>4. d.countersFromIp = [r.countersFromIp EXCEPT ![ip] = counter]
      BY <1>5, <2>2, <2>3
    <2> QED
      BY <1>1, <2>1, <2>2, <2>3, <2>4 DEF ManagerType
  <1> DEFINE conn == [d.connection EXCEPT ![c] = NoConnection]
             addr == [d.lastClientIP EXCEPT ![c] = NoIp]
             tok == [d.token EXCEPT ![c] = NoToken]
  <1>7. /\ conn \in [Client -> Connection \cup {NoConnection}]
        /\ addr \in [Client -> Ip \cup {NoIp}]
        /\ tok \in [Client -> Token \cup {NoToken}]
        /\ n = [d EXCEPT !.connection = conn, !.lastClientIP = addr, !.token = tok]
    BY <1>1, <1>2, <1>5 DEF OnRemove, ManagerType
  <1> HIDE DEF conn, addr, tok
  <1>8. n \in ManagerType
    BY <1>5, <1>7 DEF ManagerType
  <1>9. /\ n.clients = d.clients
        /\ n.tokenToClient = d.tokenToClient
        /\ n.connectionToClient = d.connectionToClient
        /\ n.countersFromIp = d.countersFromIp
        /\ n.countedIps = d.countedIps
        /\ n.connection = conn
        /\ n.lastClientIP = addr
        /\ n.token = tok
    BY <1>5, <1>7 DEF ManagerType
  <1> QED
    BY <1>3, <1>4, <1>5, <1>6, <1>8, <1>9 DEF Registered, conn, addr, tok

(* The counted sets are finite, so that they have cardinalities.           *)
LEMMA CountedSetsFinite ==
    ASSUME NEW m \in ManagerType, NEW ip
    PROVE  /\ Registered(m) \subseteq Client
           /\ IsFiniteSet(ClientsFrom(m, ip))
           /\ IsFiniteSet(LiveFrom(m, ip))
           /\ Cardinality(ClientsFrom(m, ip)) \in Nat
           /\ Cardinality(LiveFrom(m, ip)) \in Nat
           /\ LiveFrom(m, ip) # {} => Cardinality(LiveFrom(m, ip)) > 0
           /\ ClientsFrom(m, ip) # {} <=> Cardinality(ClientsFrom(m, ip)) > 0
  <1>1. Registered(m) \subseteq Client
    BY DEF ManagerType, Registered, ToSet
  <1>2. IsFiniteSet(ClientsFrom(m, ip)) /\ IsFiniteSet(LiveFrom(m, ip))
    BY <1>1, FiniteAssumption, FS_Subset DEF ClientsFrom, LiveFrom
  <1>3. /\ Cardinality(ClientsFrom(m, ip)) \in Nat
        /\ Cardinality(LiveFrom(m, ip)) \in Nat
    BY <1>2, FS_CardinalityType
  <1>4. /\ Cardinality(ClientsFrom(m, ip)) = 0 <=> ClientsFrom(m, ip) = {}
        /\ Cardinality(LiveFrom(m, ip)) = 0 <=> LiveFrom(m, ip) = {}
    BY <1>2, FS_EmptySet
  <1> QED
    BY <1>1, <1>2, <1>3, <1>4

(* A decrement of a positive counter is exact; the clamp at zero is never  *)
(* used.                                                                   *)
LEMMA DecrementedValues ==
    ASSUME NEW counter \in Counter, NEW f \in CounterField
    PROVE  /\ Decremented(counter, f) \in Counter
           /\ counter[f] > 0 => Decremented(counter, f)[f] = counter[f] - 1
           /\ \A g \in CounterField \ {f} : Decremented(counter, f)[g] = counter[g]
  BY DEF Decremented, Counter

(* Counting one client less, and one connection less if it had one, keeps  *)
(* the counter exact; the clamp at zero is never needed.                   *)
LEMMA UncountedExact ==
    ASSUME NEW m \in ManagerType, CountsAgree(m), NEW c \in Registered(m),
           NEW ip \in Ip, ip = m.lastClientIP[c],
           NEW counter, counter = Uncounted(m.countersFromIp[ip],
                                            m.connection[c] # NoConnection)
    PROVE  /\ counter \in Counter
           /\ counter["clients"] = Cardinality(ClientsFrom(m, ip) \ {c})
           /\ counter["connections"] = Cardinality(LiveFrom(m, ip) \ {c})
           /\ (\E g \in CounterField : counter[g] > 0) <=> ClientsFrom(m, ip) \ {c} # {}
  <1> DEFINE F == ClientsFrom(m, ip)
             L == LiveFrom(m, ip)
             old == m.countersFromIp[ip]
             live == m.connection[c] # NoConnection
  <1>1. /\ IsFiniteSet(F) /\ Cardinality(F) \in Nat
        /\ IsFiniteSet(L) /\ Cardinality(L) \in Nat
    BY CountedSetsFinite
  <1>2. c \in F /\ (c \in L <=> live)
    BY DEF ClientsFrom, LiveFrom
  <1>3. L \ {c} \subseteq F \ {c}
    BY DEF LiveFrom
  <1>4. old \in Counter /\ old["clients"] = Cardinality(F) /\ old["connections"] = Cardinality(L)
    BY DEF CountsAgree, GetCounterFromIp, ManagerType
  <1> HIDE DEF F, L, old, live
  <1>5. /\ IsFiniteSet(F \ {c}) /\ IsFiniteSet(L \ {c})
        /\ Cardinality(F \ {c}) = Cardinality(F) - 1
        /\ Cardinality(L \ {c}) = IF live THEN Cardinality(L) - 1 ELSE Cardinality(L)
    BY <1>1, <1>2, FS_RemoveElement
  <1>6. /\ Cardinality(F \ {c}) \in Nat /\ Cardinality(L \ {c}) \in Nat
        /\ Cardinality(F \ {c}) = 0 <=> F \ {c} = {}
        /\ Cardinality(L \ {c}) = 0 <=> L \ {c} = {}
    BY <1>5, FS_CardinalityType, FS_EmptySet
  <1>7. counter = Uncounted(old, live)
    BY DEF old, live
  <1>8. /\ counter \in Counter
        /\ counter["clients"] = Cardinality(F \ {c})
        /\ counter["connections"] = Cardinality(L \ {c})
    <2> DEFINE first == Disconnected(old, live)
    <2>1. /\ "clients" \in CounterField
          /\ "connections" \in CounterField \ {"clients"}
          /\ "clients" \in CounterField \ {"connections"}
      BY DEF CounterField
    <2>2. /\ Cardinality(F) > 0
          /\ live => Cardinality(L) > 0
      BY <1>1, <1>5, <1>6
    <2>3. /\ first \in Counter
          /\ first["clients"] = Cardinality(F)
          /\ first["connections"] = Cardinality(L \ {c})
      <3>1. CASE live
        BY <1>4, <1>5, <2>1, <2>2, <3>1, DecrementedValues DEF Disconnected
      <3>2. CASE ~live
        BY <1>4, <1>5, <3>2 DEF Disconnected
      <3> QED
        BY <3>1, <3>2
    <2>4. counter = Decremented(first, "clients")
      BY <1>7 DEF Uncounted
    <2> HIDE DEF first
    <2> QED
      BY <1>5, <2>1, <2>2, <2>3, <2>4, DecrementedValues
  <1>9. (\E g \in CounterField : counter[g] > 0) <=> F \ {c} # {}
    BY <1>3, <1>6, <1>8 DEF CounterField, F, L
  <1> QED
    BY <1>8, <1>9 DEF F, L

(* What a reader of the registry n sees once c is gone from m.             *)
Gone(m, n, c) ==
    /\ RegistryOK(n)
    /\ Registered(n) = Registered(m) \ {c}
    /\ n.connection = [m.connection EXCEPT ![c] = NoConnection]
    /\ n.lastClientIP = [m.lastClientIP EXCEPT ![c] = NoIp]
    /\ Mapped(n) = Mapped(m) \ {m.connection[c]}
    /\ \A ip \in Ip : /\ ClientsFrom(n, ip) = ClientsFrom(m, ip) \ {c}
                      /\ LiveFrom(n, ip) = LiveFrom(m, ip) \ {c}

(* remove keeps the registry in agreement and takes out only its argument. *)
LEMMA RemoveClientOK ==
    ASSUME NEW m, RegistryOK(m), NEW c \in Registered(m), NEW n, n = RemoveClient(m, c)
    PROVE  Gone(m, n, c)
  <1> DEFINE ip0 == m.lastClientIP[c]
             counter == Uncounted(m.countersFromIp[ip0], m.connection[c] # NoConnection)
  <1>1. /\ m \in ManagerType
        /\ ConnectionsAgree(m)
        /\ TokensAgree(m)
        /\ CountsAgree(m)
        /\ c \in Client
        /\ ip0 \in Ip
    BY DEF RegistryOK, ConnectionsAgree, ManagerType, Registered, ToSet
  <1> HIDE DEF ip0, counter
  <1>2. /\ n \in ManagerType
        /\ Registered(n) = Registered(m) \ {c}
        /\ Injective(n.clients)
        /\ n.connectionToClient = [k \in Connection |->
              IF k = m.connection[c] THEN NoClient ELSE m.connectionToClient[k]]
        /\ n.tokenToClient = [m.tokenToClient EXCEPT ![m.token[c]] = NoClient]
        /\ n.countersFromIp = [m.countersFromIp EXCEPT ![ip0] = counter]
        /\ \A a \in Ip \ {ip0} : a \in n.countedIps <=> a \in m.countedIps
        /\ ip0 \in n.countedIps <=> \E g \in CounterField : counter[g] > 0
        /\ n.connection = [m.connection EXCEPT ![c] = NoConnection]
        /\ n.lastClientIP = [m.lastClientIP EXCEPT ![c] = NoIp]
        /\ n.token = [m.token EXCEPT ![c] = NoToken]
    BY <1>1, RemoveClientEffect DEF ip0, counter
  <1>3. /\ counter \in Counter
        /\ counter["clients"] = Cardinality(ClientsFrom(m, ip0) \ {c})
        /\ counter["connections"] = Cardinality(LiveFrom(m, ip0) \ {c})
        /\ (\E g \in CounterField : counter[g] > 0) <=> ClientsFrom(m, ip0) \ {c} # {}
    <2>1. /\ ip0 = m.lastClientIP[c]
          /\ counter = Uncounted(m.countersFromIp[ip0], m.connection[c] # NoConnection)
      BY DEF ip0, counter
    <2> QED
      BY <1>1, <2>1, UncountedExact
  <1>4. Mapped(n) = Mapped(m) \ {m.connection[c]}
    BY <1>2 DEF Mapped
  <1>5. ASSUME NEW ip \in Ip
        PROVE  /\ ClientsFrom(n, ip) = ClientsFrom(m, ip) \ {c}
               /\ LiveFrom(n, ip) = LiveFrom(m, ip) \ {c}
    <2>1. ClientsFrom(n, ip) = ClientsFrom(m, ip) \ {c}
      <3>1. \A d \in Registered(n) : n.lastClientIP[d] = m.lastClientIP[d]
        BY <1>1, <1>2, CountedSetsFinite DEF ManagerType
      <3> QED
        BY <1>2, <3>1 DEF ClientsFrom
    <2>2. \A d \in ClientsFrom(m, ip) \ {c} : n.connection[d] = m.connection[d]
      BY <1>1, <1>2, CountedSetsFinite DEF ClientsFrom, ManagerType
    <2> QED
      BY <2>1, <2>2 DEF LiveFrom
  <1>6. ConnectionsAgree(n)
    <2>1. \A i, j \in DOMAIN n.clients : n.clients[i] = n.clients[j] => i = j
      BY <1>2 DEF Injective
    <2>2. ASSUME NEW k \in Mapped(n)
          PROVE  /\ n.connectionToClient[k] \in Registered(n)
                 /\ n.connection[n.connectionToClient[k]] = k
      <3>1. /\ k \in Mapped(m)
            /\ k # m.connection[c]
            /\ n.connectionToClient[k] = m.connectionToClient[k]
        BY <1>2, <1>4, <2>2 DEF Mapped
      <3> QED
        BY <1>1, <1>2, <3>1 DEF ConnectionsAgree, ManagerType, Mapped
    <2>3. ASSUME NEW d \in Client, n.connection[d] # NoConnection
          PROVE  /\ n.connectionToClient[n.connection[d]] = d
                 /\ n.lastClientIP[d] = RealClientIp[n.connection[d]]
      <3>1. d # c /\ n.connection[d] = m.connection[d] /\ n.lastClientIP[d] = m.lastClientIP[d]
        BY <1>1, <1>2, <2>3 DEF ManagerType
      <3>2. m.connectionToClient[m.connection[d]] = d /\ m.connection[d] \in Connection
        BY <1>1, <2>3, <3>1 DEF ConnectionsAgree, ManagerType
      <3>3. m.connection[d] # m.connection[c]
        BY <1>1, <2>3, <3>1, <3>2 DEF ConnectionsAgree
      <3> QED
        BY <1>1, <1>2, <2>3, <3>1, <3>2, <3>3 DEF ConnectionsAgree
    <2>4. \A d \in Registered(n) : n.lastClientIP[d] \in Ip
      BY <1>1, <1>2 DEF ConnectionsAgree, ManagerType
    <2>5. \A d \in Client \ Registered(n) :
             n.connection[d] = NoConnection /\ n.lastClientIP[d] = NoIp
      BY <1>1, <1>2 DEF ConnectionsAgree, ManagerType
    <2> QED
      BY <2>1, <2>2, <2>3, <2>4, <2>5 DEF ConnectionsAgree
  <1>7. TokensAgree(n)
    BY <1>1, <1>2, NullAssumption DEF TokensAgree, ManagerType
  <1>8. CountsAgree(n)
    <2> SUFFICES ASSUME NEW ip \in Ip
                 PROVE  /\ n.countersFromIp[ip]["clients"] = Cardinality(ClientsFrom(n, ip))
                        /\ n.countersFromIp[ip]["connections"] = Cardinality(LiveFrom(n, ip))
                        /\ ip \in n.countedIps <=> ClientsFrom(n, ip) # {}
      BY DEF CountsAgree, GetCounterFromIp
    <2>1. CASE ip = ip0
      BY <1>1, <1>2, <1>3, <1>5, <2>1 DEF ManagerType
    <2>2. CASE ip # ip0
      <3>1. c \notin ClientsFrom(m, ip) /\ c \notin LiveFrom(m, ip)
        BY <2>2 DEF ClientsFrom, LiveFrom, ip0
      <3>2. ClientsFrom(n, ip) = ClientsFrom(m, ip) /\ LiveFrom(n, ip) = LiveFrom(m, ip)
        BY <1>5, <3>1
      <3> QED
        BY <1>1, <1>2, <2>2, <3>2 DEF ManagerType, CountsAgree, GetCounterFromIp
    <2> QED
      BY <2>1, <2>2
  <1> QED
    BY <1>2, <1>4, <1>5, <1>6, <1>7, <1>8 DEF RegistryOK, Gone

-----------------------------------------------------------------------------
(* makeOrphan                                                              *)

(* Counting one connection less keeps the counter exact.                   *)
LEMMA DisconnectedExact ==
    ASSUME NEW m \in ManagerType, CountsAgree(m), NEW c \in Registered(m),
           NEW ip \in Ip, ip = m.lastClientIP[c], m.connection[c] # NoConnection,
           NEW counter, counter = Decremented(m.countersFromIp[ip], "connections")
    PROVE  /\ counter \in Counter
           /\ counter["clients"] = Cardinality(ClientsFrom(m, ip))
           /\ counter["connections"] = Cardinality(LiveFrom(m, ip) \ {c})
           /\ \E g \in CounterField : counter[g] > 0
           /\ ip \in m.countedIps
  <1> DEFINE F == ClientsFrom(m, ip)
             L == LiveFrom(m, ip)
             old == m.countersFromIp[ip]
  <1>1. /\ IsFiniteSet(L)
        /\ Cardinality(F) \in Nat
        /\ Cardinality(L) \in Nat
    BY CountedSetsFinite
  <1>2. c \in F /\ c \in L
    BY DEF ClientsFrom, LiveFrom
  <1>3. Cardinality(F) > 0 /\ Cardinality(L) > 0
    BY <1>2, CountedSetsFinite
  <1>4. /\ old \in Counter
        /\ old["clients"] = Cardinality(F)
        /\ old["connections"] = Cardinality(L)
        /\ ip \in m.countedIps
    BY <1>2 DEF CountsAgree, GetCounterFromIp, ManagerType
  <1> HIDE DEF F, L, old
  <1>5. Cardinality(L \ {c}) = Cardinality(L) - 1
    BY <1>1, <1>2, FS_RemoveElement
  <1>6. /\ "clients" \in CounterField \ {"connections"}
        /\ "connections" \in CounterField
    BY DEF CounterField
  <1>7. counter = Decremented(old, "connections")
    BY DEF old
  <1>8. /\ counter \in Counter
        /\ counter["clients"] = Cardinality(F)
        /\ counter["connections"] = Cardinality(L \ {c})
    BY <1>3, <1>4, <1>5, <1>6, <1>7, DecrementedValues
  <1> QED
    BY <1>3, <1>4, <1>6, <1>8 DEF F, L

(* ClientsManager::makeOrphan: the client stays and loses its connection.  *)
LEMMA MakeOrphanEffect ==
    ASSUME NEW m \in ManagerType, ConnectionsAgree(m),
           NEW c \in Registered(m), m.connection[c] # NoConnection,
           NEW n, n = MakeOrphan(m, c),
           NEW ip, ip = m.lastClientIP[c],
           NEW counter, counter = Decremented(m.countersFromIp[ip], "connections")
    PROVE  /\ n \in ManagerType
           /\ n.clients = m.clients
           /\ n.connectionToClient = [m.connectionToClient EXCEPT
                                         ![m.connection[c]] = NoClient]
           /\ n.tokenToClient = m.tokenToClient
           /\ n.countersFromIp = [m.countersFromIp EXCEPT ![ip] = counter]
           /\ \A a \in Ip \ {ip} : a \in n.countedIps <=> a \in m.countedIps
           /\ ip \in n.countedIps <=> \E g \in CounterField : counter[g] > 0
           /\ n.connection = [m.connection EXCEPT ![c] = NoConnection]
           /\ n.lastClientIP = m.lastClientIP
           /\ n.token = m.token
  <1> DEFINE k == m.connection[c]
             e == EraseConnection(m, k, ip)
  <1>1. c \in Client /\ ip \in Ip /\ k \in Mapped(m)
    BY NullAssumption DEF ManagerType, ConnectionsAgree, Registered, ToSet, Mapped
  <1>2. n = OnDisconnect(e, c)
    BY <1>1 DEF MakeOrphan
  <1>e. e = EraseConnection(m, k, ip)
    OBVIOUS
  <1> HIDE DEF e, k
  <1>3. /\ e \in ManagerType
        /\ e.connectionToClient = [m.connectionToClient EXCEPT ![k] = NoClient]
        /\ e.countersFromIp = [m.countersFromIp EXCEPT ![ip] = counter]
        /\ \A a \in Ip \ {ip} : a \in e.countedIps <=> a \in m.countedIps
        /\ ip \in e.countedIps <=> \E g \in CounterField : counter[g] > 0
        /\ e.clients = m.clients
        /\ e.tokenToClient = m.tokenToClient
        /\ e.connection = m.connection
        /\ e.lastClientIP = m.lastClientIP
        /\ e.token = m.token
    <2> DEFINE less == Decremented(m.countersFromIp[ip], "connections")
    <2>1. less = counter
      OBVIOUS
    <2> HIDE DEF less
    <2>2. /\ e \in ManagerType
          /\ e.connectionToClient = [m.connectionToClient EXCEPT ![k] = NoClient]
          /\ e.countersFromIp = [m.countersFromIp EXCEPT ![ip] = less]
          /\ \A a \in Ip \ {ip} : a \in e.countedIps <=> a \in m.countedIps
          /\ ip \in e.countedIps <=> \E g \in CounterField : less[g] > 0
          /\ e.clients = m.clients
          /\ e.tokenToClient = m.tokenToClient
          /\ e.connection = m.connection
          /\ e.lastClientIP = m.lastClientIP
          /\ e.token = m.token
      BY <1>1, <1>e, EraseConnectionEffect DEF less
    <2> QED
      BY <2>1, <2>2
  <1> DEFINE conn == [e.connection EXCEPT ![c] = NoConnection]
  <1>4. /\ conn \in [Client -> Connection \cup {NoConnection}]
        /\ n = [e EXCEPT !.connection = conn]
    BY <1>1, <1>2, <1>3 DEF OnDisconnect, ManagerType
  <1> HIDE DEF conn
  <1>5. /\ n \in ManagerType
        /\ n.clients = e.clients
        /\ n.tokenToClient = e.tokenToClient
        /\ n.connectionToClient = e.connectionToClient
        /\ n.countersFromIp = e.countersFromIp
        /\ n.countedIps = e.countedIps
        /\ n.connection = conn
        /\ n.lastClientIP = e.lastClientIP
        /\ n.token = e.token
    BY <1>3, <1>4 DEF ManagerType
  <1> QED
    BY <1>3, <1>5 DEF conn, k

(* What a reader of the registry n sees once c has lost its connection.    *)
Orphaned(m, n, c) ==
    /\ RegistryOK(n)
    /\ n.clients = m.clients
    /\ n.connection = [m.connection EXCEPT ![c] = NoConnection]
    /\ n.lastClientIP = m.lastClientIP
    /\ Mapped(n) = Mapped(m) \ {m.connection[c]}
    /\ \A ip \in Ip : /\ ClientsFrom(n, ip) = ClientsFrom(m, ip)
                      /\ LiveFrom(n, ip) = LiveFrom(m, ip) \ {c}

(* makeOrphan keeps the registry in agreement: the client stays, without   *)
(* its connection.                                                         *)
LEMMA MakeOrphanOK ==
    ASSUME NEW m, RegistryOK(m), NEW c \in Registered(m), NEW n, n = MakeOrphan(m, c)
    PROVE  Orphaned(m, n, c)
  <1> DEFINE ip0 == m.lastClientIP[c]
             counter == Decremented(m.countersFromIp[ip0], "connections")
  <1>1. /\ m \in ManagerType
        /\ ConnectionsAgree(m)
        /\ TokensAgree(m)
        /\ CountsAgree(m)
        /\ c \in Client
        /\ ip0 \in Ip
    BY DEF RegistryOK, ConnectionsAgree, ManagerType, Registered, ToSet
  <1>2. CASE m.connection[c] = NoConnection
    <2>1. n = m
      BY <1>2, NullAssumption DEF MakeOrphan, Mapped
    <2>2. m.connection = [m.connection EXCEPT ![c] = NoConnection]
      BY <1>1, <1>2 DEF ManagerType
    <2>3. Mapped(m) = Mapped(m) \ {m.connection[c]}
      BY <1>2, NullAssumption DEF Mapped
    <2>4. \A ip \in Ip : c \notin LiveFrom(m, ip)
      BY <1>2 DEF LiveFrom
    <2> QED
      BY <2>1, <2>2, <2>3, <2>4 DEF Orphaned, LiveFrom
  <1>3. CASE m.connection[c] # NoConnection
    <2>1. ip0 = m.lastClientIP[c] /\ counter = Decremented(m.countersFromIp[ip0], "connections")
      OBVIOUS
    <2> HIDE DEF ip0, counter
    <2>2. /\ n \in ManagerType
          /\ n.clients = m.clients
          /\ n.connectionToClient = [m.connectionToClient EXCEPT
                                        ![m.connection[c]] = NoClient]
          /\ n.tokenToClient = m.tokenToClient
          /\ n.countersFromIp = [m.countersFromIp EXCEPT ![ip0] = counter]
          /\ \A a \in Ip \ {ip0} : a \in n.countedIps <=> a \in m.countedIps
          /\ ip0 \in n.countedIps <=> \E g \in CounterField : counter[g] > 0
          /\ n.connection = [m.connection EXCEPT ![c] = NoConnection]
          /\ n.lastClientIP = m.lastClientIP
          /\ n.token = m.token
      BY <1>1, <1>3, <2>1, MakeOrphanEffect
    <2>3. /\ counter \in Counter
          /\ counter["clients"] = Cardinality(ClientsFrom(m, ip0))
          /\ counter["connections"] = Cardinality(LiveFrom(m, ip0) \ {c})
          /\ \E g \in CounterField : counter[g] > 0
          /\ ip0 \in m.countedIps
      BY <1>1, <1>3, <2>1, DisconnectedExact
    <2>4. Mapped(n) = Mapped(m) \ {m.connection[c]}
      BY <1>1, <1>3, <2>2 DEF Mapped, ManagerType
    <2>5. ASSUME NEW ip \in Ip
          PROVE  /\ ClientsFrom(n, ip) = ClientsFrom(m, ip)
                 /\ LiveFrom(n, ip) = LiveFrom(m, ip) \ {c}
      <3>1. ClientsFrom(n, ip) = ClientsFrom(m, ip)
        BY <2>2 DEF ClientsFrom, Registered
      <3>2. \A d \in Client : n.connection[d] # NoConnection
                                <=> d # c /\ m.connection[d] # NoConnection
        BY <1>1, <2>2 DEF ManagerType
      <3>3. ClientsFrom(m, ip) \subseteq Client
        BY <1>1, CountedSetsFinite DEF ClientsFrom
      <3> QED
        BY <3>1, <3>2, <3>3 DEF LiveFrom
    <2>6. ConnectionsAgree(n)
      <3>1. Registered(n) = Registered(m)
        BY <2>2 DEF Registered
      <3>2. ASSUME NEW k \in Mapped(n)
            PROVE  /\ n.connectionToClient[k] \in Registered(n)
                   /\ n.connection[n.connectionToClient[k]] = k
        <4>1. /\ k \in Mapped(m)
              /\ k # m.connection[c]
              /\ n.connectionToClient[k] = m.connectionToClient[k]
          BY <1>1, <2>2, <2>4, <3>2 DEF Mapped, ManagerType
        <4> QED
          BY <1>1, <2>2, <3>1, <4>1 DEF ConnectionsAgree, ManagerType, Mapped
      <3>3. ASSUME NEW d \in Client, n.connection[d] # NoConnection
            PROVE  /\ n.connectionToClient[n.connection[d]] = d
                   /\ n.lastClientIP[d] = RealClientIp[n.connection[d]]
        <4>1. d # c /\ n.connection[d] = m.connection[d]
          BY <1>1, <2>2, <3>3 DEF ManagerType
        <4>2. m.connectionToClient[m.connection[d]] = d /\ m.connection[d] \in Connection
          BY <1>1, <3>3, <4>1 DEF ConnectionsAgree, ManagerType
        <4>3. m.connection[d] # m.connection[c]
          BY <1>1, <3>3, <4>1, <4>2 DEF ConnectionsAgree
        <4> QED
          BY <1>1, <2>2, <3>3, <4>1, <4>2, <4>3 DEF ConnectionsAgree, ManagerType
      <3> QED
        BY <1>1, <2>2, <3>1, <3>2, <3>3 DEF ConnectionsAgree, ManagerType
    <2>7. TokensAgree(n)
      BY <1>1, <2>2 DEF TokensAgree, Registered
    <2>8. CountsAgree(n)
      <3> SUFFICES ASSUME NEW ip \in Ip
                   PROVE  /\ n.countersFromIp[ip]["clients"] = Cardinality(ClientsFrom(n, ip))
                          /\ n.countersFromIp[ip]["connections"] = Cardinality(LiveFrom(n, ip))
                          /\ ip \in n.countedIps <=> ClientsFrom(n, ip) # {}
        BY DEF CountsAgree, GetCounterFromIp
      <3>1. CASE ip = ip0
        BY <1>1, <2>2, <2>3, <2>5, <3>1 DEF ManagerType, CountsAgree
      <3>2. CASE ip # ip0
        <4>1. c \notin LiveFrom(m, ip)
          BY <3>2 DEF ClientsFrom, LiveFrom, ip0
        <4>2. ClientsFrom(n, ip) = ClientsFrom(m, ip) /\ LiveFrom(n, ip) = LiveFrom(m, ip)
          BY <2>5, <4>1
        <4> QED
          BY <1>1, <2>2, <3>2, <4>2 DEF ManagerType, CountsAgree, GetCounterFromIp
      <3> QED
        BY <3>1, <3>2
    <2> QED
      BY <2>2, <2>4, <2>5, <2>6, <2>7, <2>8 DEF RegistryOK, Orphaned
  <1> QED
    BY <1>2, <1>3

-----------------------------------------------------------------------------
(* connect                                                                 *)

(* push_back of an object that is not in the vector.                       *)
LEMMA AppendNew ==
    ASSUME NEW s \in Seq(Client), Injective(s), NEW c \in Client, c \notin ToSet(s),
           NEW r, r = Append(s, c)
    PROVE  /\ r \in Seq(Client)
           /\ ToSet(r) = ToSet(s) \cup {c}
           /\ Injective(r)
  <1>1. Len(s) \in Nat /\ DOMAIN s = 1..Len(s)
    OBVIOUS
  <1>2. /\ r \in Seq(Client)
        /\ DOMAIN r = 1..(Len(s) + 1)
        /\ \A i \in 1..Len(s) : r[i] = s[i]
        /\ r[Len(s) + 1] = c
    OBVIOUS
  <1>3. \A i \in 1..Len(s) : s[i] # c
    BY <1>1 DEF ToSet
  <1>4. \A i, j \in 1..Len(s) : s[i] = s[j] => i = j
    BY <1>1 DEF Injective
  <1>5. Injective(r)
    BY <1>1, <1>2, <1>3, <1>4 DEF Injective
  <1>6. ToSet(r) = ToSet(s) \cup {c}
    BY <1>1, <1>2 DEF ToSet
  <1> QED
    BY <1>2, <1>5, <1>6

Connected(m, n, k, c, t) ==
    /\ n \in ManagerType
    /\ Registered(n) = Registered(m) \cup {c}
    /\ Injective(n.clients)
    /\ n.connectionToClient = [m.connectionToClient EXCEPT ![k] = c]
    /\ n.tokenToClient = [m.tokenToClient EXCEPT ![t] = c]
    /\ n.countersFromIp = [m.countersFromIp EXCEPT
          ![RealClientIp[k]] = Incremented(m.countersFromIp[RealClientIp[k]])]
    /\ n.countedIps = m.countedIps \cup {RealClientIp[k]}
    /\ n.connection = [m.connection EXCEPT ![c] = k]
    /\ n.lastClientIP = [m.lastClientIP EXCEPT ![c] = RealClientIp[k]]
    /\ n.token = [m.token EXCEPT ![c] = t]

(* ClientsManager::connect: one more client, at the end of the vector.     *)
LEMMA ConnectEffect ==
    ASSUME NEW m \in ManagerType, Injective(m.clients),
           NEW k \in Connection, NEW c \in Client, c \notin Registered(m), NEW t \in Token
    PROVE  Connected(m, Connect(m, k, c, t), k, c, t)
  <1> DEFINE n == Connect(m, k, c, t)
             ip == RealClientIp[k]
             counter == Incremented(m.countersFromIp[ip])
             vector == Append(m.clients, c)
             map == [m.connectionToClient EXCEPT ![k] = c]
             tokens == [m.tokenToClient EXCEPT ![t] = c]
             counters == [m.countersFromIp EXCEPT ![ip] = counter]
             ips == m.countedIps \cup {ip}
             conn == [m.connection EXCEPT ![c] = k]
             addr == [m.lastClientIP EXCEPT ![c] = ip]
             tok == [m.token EXCEPT ![c] = t]
             a == [m EXCEPT !.clients = vector, !.connectionToClient = map,
                            !.tokenToClient = tokens, !.token = tok,
                            !.countersFromIp = counters, !.countedIps = ips]
  <1>1. ip \in Ip
    BY IpAssumption
  <1>2. /\ map \in [Connection -> Client \cup {NoClient}]
        /\ tokens \in [Token -> Client \cup {NoClient}]
        /\ ips \in SUBSET Ip
        /\ conn \in [Client -> Connection \cup {NoConnection}]
        /\ addr \in [Client -> Ip \cup {NoIp}]
        /\ tok \in [Client -> Token \cup {NoToken}]
    BY <1>1 DEF ManagerType
  <1>3. counters \in [Ip -> Counter]
    BY <1>1 DEF ManagerType, Counter, Incremented
  <1>4. n = [a EXCEPT !.connection[c] = k, !.lastClientIP[c] = ip]
    BY DEF Connect, SetConnection, ManagerType
  <1> HIDE DEF n
  <1>5. a.connection = m.connection /\ a.lastClientIP = m.lastClientIP
    BY DEF ManagerType
  <1>6. n = [a EXCEPT !.connection = conn, !.lastClientIP = addr]
    BY <1>4, <1>5 DEF ManagerType
  <1>7. vector = Append(m.clients, c)
    OBVIOUS
  <1> HIDE DEF vector, map, tokens, counters, ips, conn, addr, tok
  <1>8. /\ vector \in Seq(Client)
        /\ ToSet(vector) = ToSet(m.clients) \cup {c}
        /\ Injective(vector)
    <2>1. m.clients \in Seq(Client) /\ c \notin ToSet(m.clients)
      BY DEF ManagerType, Registered
    <2> QED
      BY <1>7, <2>1, AppendNew
  <1>9. /\ n \in ManagerType
        /\ n.clients = vector
        /\ n.connectionToClient = map
        /\ n.tokenToClient = tokens
        /\ n.countersFromIp = counters
        /\ n.countedIps = ips
        /\ n.connection = conn
        /\ n.lastClientIP = addr
        /\ n.token = tok
    BY <1>2, <1>3, <1>6, <1>8 DEF ManagerType
  <1> QED
    BY <1>8, <1>9 DEF map, tokens, counters, ips, conn, addr, tok, Registered, n, Connected

(* What a reader of the registry n sees once connect has added c to m.     *)
ConnectedOK(m, n, k, c) ==
    /\ RegistryOK(n)
    /\ Registered(n) = Registered(m) \cup {c}
    /\ n.connection = [m.connection EXCEPT ![c] = k]
    /\ n.lastClientIP = [m.lastClientIP EXCEPT ![c] = RealClientIp[k]]
    /\ Mapped(n) = Mapped(m) \cup {k}
    /\ \A ip \in Ip :
          /\ ClientsFrom(n, ip) = IF ip = RealClientIp[k]
                                  THEN ClientsFrom(m, ip) \cup {c} ELSE ClientsFrom(m, ip)
          /\ LiveFrom(n, ip) = IF ip = RealClientIp[k]
                               THEN LiveFrom(m, ip) \cup {c} ELSE LiveFrom(m, ip)

(* connect keeps the registry in agreement and adds the one client, live.  *)
LEMMA ConnectOK ==
    ASSUME NEW m, RegistryOK(m), NEW k \in Connection \ Mapped(m),
           NEW c \in Client \ Registered(m), NEW t \in FreshTokens(m)
    PROVE  ConnectedOK(m, Connect(m, k, c, t), k, c)
  <1> DEFINE n == Connect(m, k, c, t)
             ip0 == RealClientIp[k]
             counter == Incremented(m.countersFromIp[ip0])
  <1>1. /\ m \in ManagerType
        /\ ConnectionsAgree(m)
        /\ TokensAgree(m)
        /\ CountsAgree(m)
        /\ t \in Token /\ k \in Connection /\ c \in Client
        /\ m.tokenToClient[t] = NoClient
        /\ m.connectionToClient[k] = NoClient
        /\ ip0 \in Ip
        /\ ip0 = RealClientIp[k]
        /\ counter = Incremented(m.countersFromIp[ip0])
        /\ Injective(m.clients)
    BY IpAssumption DEF RegistryOK, FreshTokens, Mapped, ConnectionsAgree, Injective
  <1> HIDE DEF ip0, counter
  <1>c. Connected(m, n, k, c, t)
    BY <1>1, ConnectEffect
  <1> HIDE DEF n
  <1>2. /\ n \in ManagerType
        /\ Registered(n) = Registered(m) \cup {c}
        /\ Injective(n.clients)
        /\ n.connectionToClient = [m.connectionToClient EXCEPT ![k] = c]
        /\ n.tokenToClient = [m.tokenToClient EXCEPT ![t] = c]
        /\ n.countersFromIp = [m.countersFromIp EXCEPT ![ip0] = counter]
        /\ n.countedIps = m.countedIps \cup {ip0}
        /\ n.connection = [m.connection EXCEPT ![c] = k]
        /\ n.lastClientIP = [m.lastClientIP EXCEPT ![c] = ip0]
        /\ n.token = [m.token EXCEPT ![c] = t]
    BY <1>c DEF ip0, counter, Connected
  <1>3. Mapped(n) = Mapped(m) \cup {k}
    BY <1>1, <1>2, NullAssumption DEF Mapped, ManagerType
  <1>4. /\ m.connection[c] = NoConnection
        /\ \A d \in Client : d # c => m.connection[d] # k
    BY <1>1, NullAssumption DEF ConnectionsAgree
  <1>5. ASSUME NEW ip \in Ip
        PROVE  /\ ClientsFrom(n, ip) = IF ip = ip0 THEN ClientsFrom(m, ip) \cup {c}
                                                   ELSE ClientsFrom(m, ip)
               /\ LiveFrom(n, ip) = IF ip = ip0 THEN LiveFrom(m, ip) \cup {c}
                                                ELSE LiveFrom(m, ip)
    <2>1. \A d \in Registered(m) : /\ n.lastClientIP[d] = m.lastClientIP[d]
                                   /\ n.connection[d] = m.connection[d]
      BY <1>1, <1>2, CountedSetsFinite DEF ManagerType
    <2>2. n.lastClientIP[c] = ip0 /\ n.connection[c] # NoConnection
      BY <1>1, <1>2, NullAssumption DEF ManagerType
    <2>3. ClientsFrom(n, ip) = IF ip = ip0 THEN ClientsFrom(m, ip) \cup {c}
                                           ELSE ClientsFrom(m, ip)
      BY <1>2, <2>1, <2>2 DEF ClientsFrom
    <2>4. ClientsFrom(m, ip) \subseteq Registered(m)
      BY DEF ClientsFrom
    <2> QED
      BY <2>1, <2>2, <2>3, <2>4 DEF LiveFrom
  <1>6. ConnectionsAgree(n)
    <2>1. ASSUME NEW j \in Mapped(n)
          PROVE  /\ n.connectionToClient[j] \in Registered(n)
                 /\ n.connection[n.connectionToClient[j]] = j
      BY <1>1, <1>2, <1>3, <1>4, <2>1, CountedSetsFinite
         DEF ConnectionsAgree, ManagerType, Mapped
    <2>2. ASSUME NEW d \in Client, n.connection[d] # NoConnection
          PROVE  /\ n.connectionToClient[n.connection[d]] = d
                 /\ n.lastClientIP[d] = RealClientIp[n.connection[d]]
      <3>1. CASE d = c
        BY <1>1, <1>2, <3>1 DEF ManagerType
      <3>2. CASE d # c
        BY <1>1, <1>2, <1>4, <2>2, <3>2 DEF ConnectionsAgree, ManagerType
      <3> QED
        BY <3>1, <3>2
    <2>3. \A d \in Registered(n) : n.lastClientIP[d] \in Ip
      BY <1>1, <1>2, CountedSetsFinite DEF ConnectionsAgree, ManagerType
    <2>4. \A d \in Client \ Registered(n) :
             n.connection[d] = NoConnection /\ n.lastClientIP[d] = NoIp
      BY <1>1, <1>2, <1>3 DEF ConnectionsAgree, ManagerType
    <2> QED
      BY <1>2, <2>1, <2>2, <2>3, <2>4 DEF ConnectionsAgree, Injective
  <1>7. TokensAgree(n)
    <2>1. \A d \in Registered(m) : m.token[d] \in Token /\ m.token[d] # t /\ d \in Client
      BY <1>1, NullAssumption, CountedSetsFinite DEF TokensAgree
    <2>2. ASSUME NEW u \in Token, NEW d \in Client
          PROVE  n.tokenToClient[u] = d <=> d \in Registered(n) /\ n.token[d] = u
      <3>1. CASE u = t
        BY <1>1, <1>2, <2>1, <3>1 DEF ManagerType
      <3>2. CASE u # t
        BY <1>1, <1>2, <3>2 DEF ManagerType, TokensAgree
      <3> QED
        BY <3>1, <3>2
    <2>3. \A d \in Registered(n) : n.token[d] \in Token
      BY <1>1, <1>2, <2>1 DEF ManagerType
    <2> QED
      BY <2>2, <2>3 DEF TokensAgree
  <1>8. CountsAgree(n)
    <2> SUFFICES ASSUME NEW ip \in Ip
                 PROVE  /\ n.countersFromIp[ip]["clients"] = Cardinality(ClientsFrom(n, ip))
                        /\ n.countersFromIp[ip]["connections"] = Cardinality(LiveFrom(n, ip))
                        /\ ip \in n.countedIps <=> ClientsFrom(n, ip) # {}
      BY DEF CountsAgree, GetCounterFromIp
    <2>1. CASE ip = ip0
      <3>1. c \notin ClientsFrom(m, ip) /\ c \notin LiveFrom(m, ip)
        BY DEF ClientsFrom, LiveFrom
      <3>2. /\ Cardinality(ClientsFrom(m, ip) \cup {c}) = Cardinality(ClientsFrom(m, ip)) + 1
            /\ Cardinality(LiveFrom(m, ip) \cup {c}) = Cardinality(LiveFrom(m, ip)) + 1
        BY <1>1, <3>1, CountedSetsFinite, FS_AddElement
      <3>3. /\ n.countersFromIp[ip]["clients"] = m.countersFromIp[ip]["clients"] + 1
            /\ n.countersFromIp[ip]["connections"] = m.countersFromIp[ip]["connections"] + 1
        BY <1>1, <1>2, <2>1 DEF ManagerType, CounterField, Incremented
      <3>4. /\ ClientsFrom(n, ip) = ClientsFrom(m, ip) \cup {c}
            /\ LiveFrom(n, ip) = LiveFrom(m, ip) \cup {c}
        BY <1>5, <2>1
      <3>5. /\ m.countersFromIp[ip]["clients"] = Cardinality(ClientsFrom(m, ip))
            /\ m.countersFromIp[ip]["connections"] = Cardinality(LiveFrom(m, ip))
        BY <1>1 DEF CountsAgree, GetCounterFromIp
      <3>6. ip \in n.countedIps
        BY <1>2, <2>1
      <3> QED
        BY <3>2, <3>3, <3>4, <3>5, <3>6
    <2>2. CASE ip # ip0
      BY <1>1, <1>2, <1>5, <2>2 DEF ManagerType, CountsAgree, GetCounterFromIp
    <2> QED
      BY <2>1, <2>2
  <1> QED
    BY <1>1, <1>2, <1>3, <1>5, <1>6, <1>7, <1>8
       DEF n, RegistryOK, ConnectedOK

-----------------------------------------------------------------------------
(* reviveClient                                                            *)

Revived(m, n, cur, tgt, ip, counter) ==
    /\ n \in ManagerType
    /\ Registered(n) = Registered(m) \ {cur}
    /\ Injective(n.clients)
    /\ n.connectionToClient = [k \in Connection |->
          IF k = m.connection[cur] THEN tgt
          ELSE IF k = m.connection[tgt] THEN NoClient ELSE m.connectionToClient[k]]
    /\ n.tokenToClient = [m.tokenToClient EXCEPT ![m.token[cur]] = NoClient]
    /\ n.countersFromIp = [m.countersFromIp EXCEPT ![ip] = counter]
    /\ \A a \in Ip \ {ip} : a \in n.countedIps <=> a \in m.countedIps
    /\ ip \in n.countedIps <=> \E g \in CounterField : counter[g] > 0
    /\ n.connection = [m.connection EXCEPT ![cur] = NoConnection, ![tgt] = m.connection[cur]]
    /\ n.lastClientIP = [m.lastClientIP EXCEPT ![cur] = NoIp,
                                              ![tgt] = RealClientIp[m.connection[cur]]]
    /\ n.token = [m.token EXCEPT ![cur] = NoToken]

(* ClientsManager::reviveClient: the connection of one client moves to     *)
(* another, and the first is gone.                                         *)
LEMMA ReviveClientEffect ==
    ASSUME NEW m \in ManagerType, ConnectionsAgree(m), TokensAgree(m),
           NEW cur \in Registered(m), NEW tgt \in Registered(m), cur # tgt,
           m.connection[cur] # NoConnection
    PROVE  Revived(m, ReviveClient(m, cur, tgt), cur, tgt, m.lastClientIP[tgt],
                   Uncounted(m.countersFromIp[m.lastClientIP[tgt]],
                             m.connection[tgt] # NoConnection))
  <1> DEFINE n == ReviveClient(m, cur, tgt)
             k == m.connection[cur]
             ip == m.lastClientIP[tgt]
             counter == Uncounted(m.countersFromIp[ip], m.connection[tgt] # NoConnection)
             first == Disconnected(m.countersFromIp[ip], m.connection[tgt] # NoConnection)
             e == EraseConnection(m, m.connection[tgt], ip)
             d == DecrementForIp(e, ip, "clients")
             r == RemoveFromClients(d, cur)
  <1>1. /\ cur \in Client /\ tgt \in Client
        /\ k \in Connection
        /\ ip \in Ip
        /\ RealClientIp[k] \in Ip
        /\ m.token[cur] \in Token
        /\ Injective(m.clients)
    BY IpAssumption
       DEF ManagerType, ConnectionsAgree, TokensAgree, Registered, ToSet, Injective
  <1>2. /\ n = SetConnection([OnRemove(r, cur) EXCEPT !.connectionToClient[k] = tgt], tgt, k)
        /\ e = EraseConnection(m, m.connection[tgt], ip)
        /\ first = Disconnected(m.countersFromIp[ip], m.connection[tgt] # NoConnection)
        /\ ip = m.lastClientIP[tgt]
        /\ counter = Decremented(first, "clients")
    BY DEF ReviveClient, Uncounted
  <1> HIDE DEF n, k, ip, counter, first, e
  <1>3. /\ e \in ManagerType
        /\ e.connectionToClient = [j \in Connection |->
              IF j = m.connection[tgt] THEN NoClient ELSE m.connectionToClient[j]]
        /\ e.countersFromIp = [m.countersFromIp EXCEPT ![ip] = first]
        /\ \A a \in Ip \ {ip} : a \in e.countedIps <=> a \in m.countedIps
        /\ e.clients = m.clients
        /\ e.tokenToClient = m.tokenToClient
        /\ e.connection = m.connection
        /\ e.lastClientIP = m.lastClientIP
        /\ e.token = m.token
    BY <1>2, EraseOwnConnection
  <1>4. /\ d \in ManagerType
        /\ d.countersFromIp =
              [e.countersFromIp EXCEPT ![ip] = Decremented(e.countersFromIp[ip], "clients")]
        /\ \A a \in Ip \ {ip} : a \in d.countedIps <=> a \in e.countedIps
        /\ ip \in d.countedIps <=>
              \E g \in CounterField : Decremented(e.countersFromIp[ip], "clients")[g] > 0
        /\ d.clients = e.clients
        /\ d.tokenToClient = e.tokenToClient
        /\ d.connectionToClient = e.connectionToClient
        /\ d.connection = e.connection
        /\ d.lastClientIP = e.lastClientIP
        /\ d.token = e.token
    <2>1. "clients" \in CounterField
      BY DEF CounterField
    <2>2. CountedDown(e, d, ip, "clients")
      BY <1>1, <1>3, <2>1, DecrementForIpEffect
    <2> QED
      BY <2>2 DEF CountedDown
  <1> HIDE DEF d
  <1>5. /\ e.countersFromIp[ip] = first
        /\ d.countersFromIp = [m.countersFromIp EXCEPT ![ip] = counter]
    <2>1. e.countersFromIp[ip] = first
      BY <1>1, <1>3 DEF ManagerType
    <2>2. d.countersFromIp = [e.countersFromIp EXCEPT ![ip] = counter]
      BY <1>2, <1>4, <2>1
    <2> QED
      BY <1>1, <1>3, <2>1, <2>2 DEF ManagerType
  <1>6. /\ r \in ManagerType
        /\ Registered(r) = Registered(d) \ {cur}
        /\ Injective(r.clients)
        /\ r.tokenToClient = [d.tokenToClient EXCEPT ![d.token[cur]] = NoClient]
        /\ r.connectionToClient = d.connectionToClient
        /\ r.countersFromIp = d.countersFromIp
        /\ r.countedIps = d.countedIps
        /\ r.connection = d.connection
        /\ r.lastClientIP = d.lastClientIP
        /\ r.token = d.token
    <2>1. cur \in Registered(d) /\ Injective(d.clients) /\ d.token[cur] \in Token
      BY <1>1, <1>3, <1>4 DEF Registered
    <2> HIDE DEF r
    <2> QED
      BY <1>4, <2>1, RemoveFromClientsEffect DEF r
  <1> HIDE DEF r
  <1> DEFINE map == [r.connectionToClient EXCEPT ![k] = tgt]
             conn == [r.connection EXCEPT ![cur] = NoConnection, ![tgt] = k]
             addr == [r.lastClientIP EXCEPT ![cur] = NoIp, ![tgt] = RealClientIp[k]]
             tok == [r.token EXCEPT ![cur] = NoToken]
  <1>7. /\ map \in [Connection -> Client \cup {NoClient}]
        /\ conn \in [Client -> Connection \cup {NoConnection}]
        /\ addr \in [Client -> Ip \cup {NoIp}]
        /\ tok \in [Client -> Token \cup {NoToken}]
    BY <1>1, <1>6 DEF ManagerType
  <1>8. n = [r EXCEPT !.connectionToClient = map, !.connection = conn,
                      !.lastClientIP = addr, !.token = tok]
    BY <1>1, <1>2, <1>6 DEF SetConnection, OnRemove, ManagerType
  <1> HIDE DEF map, conn, addr, tok
  <1>9. /\ n \in ManagerType
        /\ n.clients = r.clients
        /\ n.tokenToClient = r.tokenToClient
        /\ n.connectionToClient = map
        /\ n.countersFromIp = r.countersFromIp
        /\ n.countedIps = r.countedIps
        /\ n.connection = conn
        /\ n.lastClientIP = addr
        /\ n.token = tok
    BY <1>6, <1>7, <1>8 DEF ManagerType
  <1>10. n.connectionToClient = [j \in Connection |->
            IF j = k THEN tgt
            ELSE IF j = m.connection[tgt] THEN NoClient ELSE m.connectionToClient[j]]
    BY <1>1, <1>3, <1>4, <1>6, <1>9 DEF map
  <1>11. /\ Registered(n) = Registered(m) \ {cur}
         /\ Injective(n.clients)
    BY <1>3, <1>4, <1>6, <1>9 DEF Registered
  <1>12. ip \in n.countedIps <=> \E g \in CounterField : counter[g] > 0
    BY <1>2, <1>4, <1>5, <1>6, <1>9
  <1> QED
    BY <1>3, <1>4, <1>5, <1>6, <1>9, <1>10, <1>11, <1>12
       DEF Revived, n, k, ip, counter, conn, addr, tok

(* Replacing one element of a finite set by another.                       *)
LEMMA ReplaceCardinality ==
    ASSUME NEW S, IsFiniteSet(S), NEW x \in S, NEW y, y \notin S
    PROVE  Cardinality((S \ {x}) \cup {y}) = Cardinality(S)
  <1>1. IsFiniteSet(S \ {x}) /\ Cardinality(S \ {x}) = Cardinality(S) - 1
    BY FS_RemoveElement
  <1>2. Cardinality((S \ {x}) \cup {y}) = Cardinality(S \ {x}) + 1
    BY <1>1, FS_AddElement
  <1> QED
    BY <1>1, <1>2, FS_CardinalityType

(* What a reader of the registry n sees once cur has moved to tgt.         *)
Resumed(m, n, cur, tgt) ==
    /\ RegistryOK(n)
    /\ Registered(n) = Registered(m) \ {cur}
    /\ n.connection = [m.connection EXCEPT ![cur] = NoConnection,
                                           ![tgt] = m.connection[cur]]
    /\ n.lastClientIP = [m.lastClientIP EXCEPT ![cur] = NoIp,
                                               ![tgt] = m.lastClientIP[cur]]
    /\ Mapped(n) = Mapped(m) \ {m.connection[tgt]}
    /\ \A a \in Ip :
          /\ Cardinality(ClientsFrom(n, a)) <= Cardinality(ClientsFrom(m, a))
          /\ Cardinality(LiveFrom(n, a)) <= Cardinality(LiveFrom(m, a))

(* reviveClient keeps the registry in agreement: cur is gone, and tgt has  *)
(* its connection and its address.                                         *)
LEMMA ReviveClientOK ==
    ASSUME NEW m, RegistryOK(m), NEW cur \in Registered(m), NEW tgt \in Registered(m),
           cur # tgt, m.connection[cur] # NoConnection,
           NEW n, n = ReviveClient(m, cur, tgt)
    PROVE  Resumed(m, n, cur, tgt)
  <1> DEFINE k == m.connection[cur]
             ip0 == m.lastClientIP[tgt]
             ip1 == m.lastClientIP[cur]
             counter == Uncounted(m.countersFromIp[ip0], m.connection[tgt] # NoConnection)
  <1>1. /\ m \in ManagerType
        /\ ConnectionsAgree(m)
        /\ TokensAgree(m)
        /\ CountsAgree(m)
        /\ cur \in Client /\ tgt \in Client
        /\ ip0 \in Ip /\ ip1 \in Ip
        /\ k \in Connection
        /\ ip1 = RealClientIp[k]
        /\ m.connection[tgt] # k
        /\ m.connectionToClient[k] = cur
    BY DEF RegistryOK, ConnectionsAgree, ManagerType, Registered, ToSet
  <1>2. Revived(m, n, cur, tgt, ip0, counter)
    BY <1>1, ReviveClientEffect
  <1>3. /\ counter \in Counter
        /\ counter["clients"] = Cardinality(ClientsFrom(m, ip0) \ {tgt})
        /\ counter["connections"] = Cardinality(LiveFrom(m, ip0) \ {tgt})
        /\ (\E g \in CounterField : counter[g] > 0) <=> ClientsFrom(m, ip0) \ {tgt} # {}
    <2>1. /\ ip0 = m.lastClientIP[tgt]
          /\ counter = Uncounted(m.countersFromIp[ip0], m.connection[tgt] # NoConnection)
      OBVIOUS
    <2> HIDE DEF counter, ip0
    <2> QED
      BY <1>1, <2>1, UncountedExact
  <1>4. /\ k = m.connection[cur]
        /\ ip0 = m.lastClientIP[tgt]
        /\ ip1 = m.lastClientIP[cur]
    OBVIOUS
  <1> HIDE DEF k, ip0, ip1, counter
  <1>5. /\ n \in ManagerType
        /\ Registered(n) = Registered(m) \ {cur}
        /\ Injective(n.clients)
        /\ n.connectionToClient = [j \in Connection |->
              IF j = k THEN tgt
              ELSE IF j = m.connection[tgt] THEN NoClient ELSE m.connectionToClient[j]]
        /\ n.tokenToClient = [m.tokenToClient EXCEPT ![m.token[cur]] = NoClient]
        /\ n.countersFromIp = [m.countersFromIp EXCEPT ![ip0] = counter]
        /\ \A a \in Ip \ {ip0} : a \in n.countedIps <=> a \in m.countedIps
        /\ ip0 \in n.countedIps <=> \E g \in CounterField : counter[g] > 0
        /\ n.connection = [m.connection EXCEPT ![cur] = NoConnection, ![tgt] = k]
        /\ n.lastClientIP = [m.lastClientIP EXCEPT ![cur] = NoIp, ![tgt] = ip1]
        /\ n.token = [m.token EXCEPT ![cur] = NoToken]
    BY <1>1, <1>2, <1>4 DEF Revived
  <1>6. Mapped(n) = Mapped(m) \ {m.connection[tgt]}
    BY <1>1, <1>5, NullAssumption DEF Mapped
  <1>7. /\ \A d \in Client \ {cur, tgt} :
              /\ n.connection[d] = m.connection[d]
              /\ n.lastClientIP[d] = m.lastClientIP[d]
              /\ n.token[d] = m.token[d]
        /\ n.connection[cur] = NoConnection /\ n.connection[tgt] = k
        /\ n.lastClientIP[cur] = NoIp /\ n.lastClientIP[tgt] = ip1
    BY <1>1, <1>5 DEF ManagerType
  <1>8. ConnectionsAgree(n)
    <2>1. ASSUME NEW j \in Mapped(n)
          PROVE  /\ n.connectionToClient[j] \in Registered(n)
                 /\ n.connection[n.connectionToClient[j]] = j
      <3>1. CASE j = k
        BY <1>1, <1>5, <1>7, <3>1
      <3>2. CASE j # k
        <4>1. /\ j \in Mapped(m)
              /\ j # m.connection[tgt]
              /\ n.connectionToClient[j] = m.connectionToClient[j]
          BY <1>5, <1>6, <3>2 DEF Mapped
        <4>2. /\ m.connectionToClient[j] \in Registered(m)
              /\ m.connection[m.connectionToClient[j]] = j
          BY <1>1, <4>1 DEF ConnectionsAgree
        <4>3. m.connectionToClient[j] \notin {cur, tgt}
          BY <1>4, <3>2, <4>1, <4>2
        <4> QED
          BY <1>1, <1>5, <1>7, <4>1, <4>2, <4>3, CountedSetsFinite
      <3> QED
        BY <3>1, <3>2
    <2>2. ASSUME NEW d \in Client, n.connection[d] # NoConnection
          PROVE  /\ n.connectionToClient[n.connection[d]] = d
                 /\ n.lastClientIP[d] = RealClientIp[n.connection[d]]
      <3>1. CASE d = tgt
        BY <1>1, <1>5, <1>7, <3>1
      <3>2. CASE d # tgt
        <4>1. d # cur /\ n.connection[d] = m.connection[d] /\ n.lastClientIP[d] = m.lastClientIP[d]
          BY <1>7, <2>2, <3>2
        <4>2. m.connectionToClient[m.connection[d]] = d /\ m.connection[d] \in Connection
          BY <1>1, <2>2, <4>1 DEF ConnectionsAgree, ManagerType
        <4>3. m.connection[d] # k
          BY <1>1, <4>1, <4>2
        <4>4. m.connection[d] # m.connection[tgt]
          BY <1>1, <2>2, <3>2, <4>1, <4>2 DEF ConnectionsAgree
        <4> QED
          BY <1>1, <1>5, <2>2, <4>1, <4>2, <4>3, <4>4 DEF ConnectionsAgree
      <3> QED
        BY <3>1, <3>2
    <2>3. ASSUME NEW d \in Registered(n)
          PROVE  n.lastClientIP[d] \in Ip
      <3>1. d \in Registered(m) /\ d # cur /\ d \in Client
        BY <1>1, <1>5, CountedSetsFinite
      <3>2. CASE d = tgt
        BY <1>1, <1>7, <3>2
      <3>3. CASE d # tgt
        BY <1>1, <1>7, <3>1, <3>3 DEF ConnectionsAgree
      <3> QED
        BY <3>2, <3>3
    <2>4. \A d \in Client \ Registered(n) :
             n.connection[d] = NoConnection /\ n.lastClientIP[d] = NoIp
      BY <1>1, <1>5, <1>7 DEF ConnectionsAgree
    <2> QED
      BY <1>5, <2>1, <2>2, <2>3, <2>4 DEF ConnectionsAgree, Injective
  <1>9. TokensAgree(n)
    BY <1>1, <1>5, NullAssumption DEF TokensAgree, ManagerType
  <1>10. ASSUME NEW a \in Ip
         PROVE  /\ ClientsFrom(n, a) = IF a = ip1 THEN (ClientsFrom(m, a) \ {cur}) \cup {tgt}
                                       ELSE ClientsFrom(m, a) \ {tgt}
                /\ LiveFrom(n, a) = IF a = ip1 THEN (LiveFrom(m, a) \ {cur}) \cup {tgt}
                                    ELSE LiveFrom(m, a) \ {tgt}
    <2>1. cur \in ClientsFrom(m, a) <=> a = ip1
      BY <1>4 DEF ClientsFrom
    <2>2. \A d : d \in ClientsFrom(n, a) <=>
                  IF d = tgt THEN a = ip1 ELSE d # cur /\ d \in ClientsFrom(m, a)
      <3>1. \A d \in Registered(m) : d \in Client
        BY <1>1, CountedSetsFinite
      <3>2. \A d : d \in ClientsFrom(n, a) <=>
                     d \in Registered(m) /\ d # cur /\ n.lastClientIP[d] = a
        BY <1>5 DEF ClientsFrom
      <3>3. \A d : d \in ClientsFrom(m, a) <=> d \in Registered(m) /\ m.lastClientIP[d] = a
        BY DEF ClientsFrom
      <3> QED
        BY <1>7, <3>1, <3>2, <3>3
    <2>3. \A d \in ClientsFrom(m, a) : d \in Client
      BY <1>1, CountedSetsFinite DEF ClientsFrom
    <2>4. \A d : d \in LiveFrom(n, a) <=>
                  IF d = tgt THEN a = ip1 ELSE d # cur /\ d \in LiveFrom(m, a)
      BY <1>1, <1>7, <2>2, <2>3, NullAssumption DEF LiveFrom
    <2>5. cur \in LiveFrom(m, a) <=> a = ip1
      BY <1>1, <1>4, <2>1, NullAssumption DEF LiveFrom
    <2> QED
      BY <2>1, <2>2, <2>4, <2>5
  <1>11. ASSUME NEW a \in Ip
         PROVE  /\ Cardinality(ClientsFrom(n, a)) = IF a = ip0
                   THEN Cardinality(ClientsFrom(m, a) \ {tgt}) ELSE Cardinality(ClientsFrom(m, a))
                /\ Cardinality(LiveFrom(n, a)) = IF a = ip0
                   THEN Cardinality(LiveFrom(m, a) \ {tgt}) ELSE Cardinality(LiveFrom(m, a))
                /\ ClientsFrom(n, a) # {} <=> IF a = ip0
                   THEN ClientsFrom(m, a) \ {tgt} # {} ELSE ClientsFrom(m, a) # {}
    <2> DEFINE F == ClientsFrom(m, a)
               L == LiveFrom(m, a)
    <2>1. /\ IsFiniteSet(F) /\ IsFiniteSet(L)
          /\ tgt \in F <=> a = ip0
          /\ tgt \in L => a = ip0
          /\ a = ip1 => cur \in F /\ cur \in L
      BY <1>1, <1>4, CountedSetsFinite, NullAssumption DEF ClientsFrom, LiveFrom
    <2>2. /\ ClientsFrom(n, a) = IF a = ip1 THEN (F \ {cur}) \cup {tgt} ELSE F \ {tgt}
          /\ LiveFrom(n, a) = IF a = ip1 THEN (L \ {cur}) \cup {tgt} ELSE L \ {tgt}
      BY <1>10
    <2> HIDE DEF F, L
    <2>3. CASE a # ip1
      <3>1. ClientsFrom(n, a) = F \ {tgt} /\ LiveFrom(n, a) = L \ {tgt}
        BY <2>2, <2>3
      <3>2. a # ip0 => F \ {tgt} = F /\ L \ {tgt} = L
        BY <2>1
      <3> QED
        BY <3>1, <3>2 DEF F, L
    <2>4. CASE a = ip1 /\ a # ip0
      BY <2>1, <2>2, <2>4, ReplaceCardinality DEF F, L
    <2>5. CASE a = ip1 /\ a = ip0
      <3>1. /\ ClientsFrom(n, a) = ((F \ {tgt}) \ {cur}) \cup {tgt}
            /\ LiveFrom(n, a) = ((L \ {tgt}) \ {cur}) \cup {tgt}
        BY <2>2, <2>5
      <3>2. /\ IsFiniteSet(F \ {tgt}) /\ cur \in F \ {tgt} /\ tgt \notin F \ {tgt}
            /\ IsFiniteSet(L \ {tgt}) /\ cur \in L \ {tgt} /\ tgt \notin L \ {tgt}
        BY <2>1, <2>5, FS_RemoveElement
      <3>3. /\ Cardinality(ClientsFrom(n, a)) = Cardinality(F \ {tgt})
            /\ Cardinality(LiveFrom(n, a)) = Cardinality(L \ {tgt})
        BY <3>1, <3>2, ReplaceCardinality
      <3> QED
        BY <2>5, <3>1, <3>2, <3>3 DEF F, L
    <2> QED
      BY <2>3, <2>4, <2>5
  <1>12. CountsAgree(n)
    <2> SUFFICES ASSUME NEW a \in Ip
                 PROVE  /\ n.countersFromIp[a]["clients"] = Cardinality(ClientsFrom(n, a))
                        /\ n.countersFromIp[a]["connections"] = Cardinality(LiveFrom(n, a))
                        /\ a \in n.countedIps <=> ClientsFrom(n, a) # {}
      BY DEF CountsAgree, GetCounterFromIp
    <2>1. CASE a = ip0
      BY <1>1, <1>3, <1>5, <1>11, <2>1 DEF ManagerType
    <2>2. CASE a # ip0
      <3>1. /\ n.countersFromIp[a] = m.countersFromIp[a]
            /\ a \in n.countedIps <=> a \in m.countedIps
        BY <1>1, <1>5, <2>2 DEF ManagerType
      <3>2. /\ m.countersFromIp[a]["clients"] = Cardinality(ClientsFrom(m, a))
            /\ m.countersFromIp[a]["connections"] = Cardinality(LiveFrom(m, a))
            /\ a \in m.countedIps <=> ClientsFrom(m, a) # {}
        BY <1>1 DEF CountsAgree, GetCounterFromIp
      <3> QED
        BY <1>11, <2>2, <3>1, <3>2
    <2> QED
      BY <2>1, <2>2
  <1>13. ASSUME NEW a \in Ip
         PROVE  /\ Cardinality(ClientsFrom(n, a)) <= Cardinality(ClientsFrom(m, a))
                /\ Cardinality(LiveFrom(n, a)) <= Cardinality(LiveFrom(m, a))
    <2>1. /\ IsFiniteSet(ClientsFrom(m, a)) /\ Cardinality(ClientsFrom(m, a)) \in Nat
          /\ IsFiniteSet(LiveFrom(m, a)) /\ Cardinality(LiveFrom(m, a)) \in Nat
      BY <1>1, CountedSetsFinite
    <2>2. ASSUME NEW S, IsFiniteSet(S)
          PROVE  Cardinality(S \ {tgt}) <= Cardinality(S)
      BY <2>2, FS_Subset
    <2> QED
      <3>1. /\ Cardinality(ClientsFrom(m, a) \ {tgt}) <= Cardinality(ClientsFrom(m, a))
            /\ Cardinality(LiveFrom(m, a) \ {tgt}) <= Cardinality(LiveFrom(m, a))
        BY <2>1, <2>2
      <3> QED
        BY <1>11, <2>1, <3>1
  <1> QED
    BY <1>4, <1>5, <1>6, <1>8, <1>9, <1>12, <1>13 DEF RegistryOK, Resumed

-----------------------------------------------------------------------------
(* The invariant of the server.                                            *)

(* How old a client can be, in terms of the time since the job last ended. *)
Aging ==
    \A c \in Registered(manager) :
        /\ idle[c] <= OrphanTimeout + sinceTick
        /\ manager.connection[c] # NoConnection =>
              /\ idle[c] <= ConnectTimeout + sinceTick
              /\ idle[c] > PingTimeout + sinceTick => c \in pinged

IInv ==
    /\ TypeOK
    /\ RegistryOK(manager)
    /\ NoZombie
    /\ WithinLimits
    /\ JobExact
    /\ Aging

-----------------------------------------------------------------------------
(* What each handler does to the registry.                                 *)

(* What the lemmas below need of a state.                                  *)
Known == TypeOK /\ RegistryOK(manager) /\ NoZombie

(* The client found by a connection or by a token is the registered client *)
(* of that connection or token.                                            *)
LEMMA FoundClient ==
    ASSUME RegistryOK(manager)
    PROVE  /\ Registered(manager) \subseteq Client
           /\ \A k \in Connection :
                 manager.connectionToClient[k] # NoClient =>
                    /\ manager.connectionToClient[k] \in Registered(manager)
                    /\ manager.connection[manager.connectionToClient[k]] = k
           /\ \A t \in Token :
                 manager.tokenToClient[t] # NoClient =>
                    manager.tokenToClient[t] \in Registered(manager)
           /\ \A c \in Registered(manager) :
                 /\ manager.connection[c] \in Connection \cup {NoConnection}
                 /\ manager.connection[c] # NoConnection =>
                       /\ manager.connection[c] \in Mapped(manager)
                       /\ manager.connectionToClient[manager.connection[c]] = c
  <1>1. manager \in ManagerType /\ ConnectionsAgree(manager) /\ TokensAgree(manager)
    BY DEF RegistryOK
  <1>2. Registered(manager) \subseteq Client
    BY <1>1, CountedSetsFinite
  <1>3. \A k \in Connection :
           manager.connectionToClient[k] # NoClient =>
              /\ manager.connectionToClient[k] \in Registered(manager)
              /\ manager.connection[manager.connectionToClient[k]] = k
    BY <1>1 DEF ConnectionsAgree, Mapped
  <1>4. ASSUME NEW t \in Token, manager.tokenToClient[t] # NoClient
        PROVE  manager.tokenToClient[t] \in Registered(manager)
    <2>1. manager.tokenToClient[t] \in Client
      BY <1>1, <1>4 DEF ManagerType
    <2> QED
      BY <1>1, <2>1 DEF TokensAgree
  <1>5. ASSUME NEW c \in Registered(manager)
        PROVE  /\ manager.connection[c] \in Connection \cup {NoConnection}
               /\ manager.connection[c] # NoConnection =>
                     /\ manager.connection[c] \in Mapped(manager)
                     /\ manager.connectionToClient[manager.connection[c]] = c
    <2>1. c \in Client /\ manager.connection[c] \in Connection \cup {NoConnection}
      BY <1>1, <1>2 DEF ManagerType
    <2> QED
      BY <1>1, <2>1, NullAssumption DEF ConnectionsAgree, Mapped
  <1> QED
    BY <1>2, <1>3, <1>4, <1>5

(* At the limit of clients but not of connections there is an orphan of    *)
(* the address: the counters are exact, so they count a client that has no *)
(* connection.                                                             *)
LEMMA OrphanExists ==
    ASSUME RegistryOK(manager), NEW ip \in Ip,
           GetCounterFromIp(manager, ip)["connections"] < MaxConnectionsFromIp,
           GetCounterFromIp(manager, ip)["clients"] >= MaxClientsFromIp
    PROVE  \E c \in Registered(manager) : IsOrphanOf(ip, c)
  <1> DEFINE F == ClientsFrom(manager, ip)
             L == LiveFrom(manager, ip)
  <1>1. Cardinality(F) >= MaxClientsFromIp /\ Cardinality(L) < MaxConnectionsFromIp
    BY DEF RegistryOK, CountsAgree
  <1>2. manager \in ManagerType
    BY DEF RegistryOK
  <1>3. Cardinality(F) \in Nat /\ Cardinality(L) \in Nat
    BY <1>2, CountedSetsFinite
  <1>4. F # L
    BY <1>1, <1>3, LimitAssumption
  <1> QED
    BY <1>4 DEF F, L, ClientsFrom, LiveFrom, IsOrphanOf

(* findFirstClient with the predicate of on_open.                          *)
LEMMA FoundOrphan ==
    ASSUME manager \in ManagerType, NEW ip, NEW o, o = OldestOrphan(ip)
    PROVE  IF \E c \in Registered(manager) : IsOrphanOf(ip, c)
           THEN o \in Registered(manager) /\ IsOrphanOf(ip, o)
           ELSE o = NoClient
  <1> DEFINE I == {i \in DOMAIN manager.clients : IsOrphanOf(ip, manager.clients[i])}
  <1>1. o = IF I = {} THEN NoClient
            ELSE manager.clients[CHOOSE i \in I : \A j \in I : i <= j]
    BY DEF OldestOrphan, FindFirstClient
  <1>2. I \subseteq Nat
    BY DEF ManagerType
  <1>3. (\E c \in Registered(manager) : IsOrphanOf(ip, c)) <=> I # {}
    BY DEF Registered, ToSet
  <1>4. CASE I = {}
    BY <1>1, <1>3, <1>4
  <1>5. CASE I # {}
    <2>1. \E i \in I : \A j \in I : i <= j
      <3> DEFINE R == {ss \in Nat \X Nat : ss[1] < ss[2]}
      <3>1. IsWellFoundedOn(R, Nat)
        BY NatLessThanWellFounded DEF OpToRel
      <3>2. PICK i \in I : \A j \in I : ~ (<<j, i>> \in R)
        <4> HIDE DEF I, R
        <4> QED
          BY <1>2, <1>5, <3>1, WFMin
      <3>3. ASSUME NEW j \in I
            PROVE  i <= j
        <4>1. i \in Nat /\ j \in Nat
          BY <1>2, <3>3
        <4>2. j < i => <<j, i>> \in R
          BY <4>1
        <4> QED
          BY <3>2, <3>3, <4>1, <4>2
      <3> HIDE DEF I
      <3> QED
        BY <3>3
    <2>2. (CHOOSE i \in I : \A j \in I : i <= j) \in I
      BY <2>1
    <2> QED
      BY <1>1, <1>3, <1>5, <2>2 DEF Registered, ToSet
  <1> QED
    BY <1>4, <1>5


(* on_open's preparation: nothing below the limit of clients, and the      *)
(* removal of one orphan of the address at the limit.                      *)
LEMMA MadeRoomEffect ==
    ASSUME RegistryOK(manager), NEW ip \in Ip,
           GetCounterFromIp(manager, ip)["connections"] < MaxConnectionsFromIp,
           NEW r, r = MadeRoom(ip)
    PROVE  \/ /\ Cardinality(ClientsFrom(manager, ip)) < MaxClientsFromIp
              /\ r = manager
           \/ /\ Cardinality(ClientsFrom(manager, ip)) >= MaxClientsFromIp
              /\ \E o \in Registered(manager) :
                    IsOrphanOf(ip, o) /\ r = RemoveClient(manager, o)
  <1> DEFINE o == OldestOrphan(ip)
  <1>1. /\ GetCounterFromIp(manager, ip)["clients"] = Cardinality(ClientsFrom(manager, ip))
        /\ Cardinality(ClientsFrom(manager, ip)) \in Nat
        /\ manager \in ManagerType
        /\ Registered(manager) \subseteq Client
    BY CountedSetsFinite DEF RegistryOK, CountsAgree
  <1>2. IF \E c \in Registered(manager) : IsOrphanOf(ip, c)
        THEN o \in Registered(manager) /\ IsOrphanOf(ip, o)
        ELSE o = NoClient
    <2>1. o = OldestOrphan(ip)
      OBVIOUS
    <2> HIDE DEF o
    <2> QED
      BY <1>1, <2>1, FoundOrphan
  <1>3. r = IF GetCounterFromIp(manager, ip)["clients"] < MaxClientsFromIp \/ o = NoClient
            THEN manager ELSE RemoveClient(manager, o)
    BY DEF MadeRoom
  <1> HIDE DEF o
  <1>4. CASE Cardinality(ClientsFrom(manager, ip)) < MaxClientsFromIp
    BY <1>1, <1>3, <1>4
  <1>5. CASE Cardinality(ClientsFrom(manager, ip)) >= MaxClientsFromIp
    <2>1. \E c \in Registered(manager) : IsOrphanOf(ip, c)
      BY <1>1, <1>5, OrphanExists
    <2>2. o \in Registered(manager) /\ IsOrphanOf(ip, o) /\ o # NoClient
      BY <1>1, <1>2, <2>1, NullAssumption
    <2>3. ~(GetCounterFromIp(manager, ip)["clients"] < MaxClientsFromIp)
      BY <1>1, <1>5, LimitAssumption
    <2> QED
      BY <1>3, <1>5, <2>2, <2>3
  <1> QED
    BY <1>1, <1>4, <1>5, LimitAssumption

(* What on_open does to the registry m: gone holds the orphan that gave    *)
(* way to c, if one had to.                                                *)
Admitted(m, n, k, c, gone) ==
    LET ip == RealClientIp[k] IN
    /\ RegistryOK(n)
    /\ gone \subseteq Registered(m)
    /\ \A o \in gone : m.connection[o] = NoConnection /\ m.lastClientIP[o] = ip
    /\ Registered(n) = (Registered(m) \ gone) \cup {c}
    /\ n.connection = [m.connection EXCEPT ![c] = k]
    /\ n.lastClientIP = [d \in Client |-> IF d = c THEN ip
                                          ELSE IF d \in gone THEN NoIp ELSE m.lastClientIP[d]]
    /\ Mapped(n) = Mapped(m) \cup {k}
    /\ Cardinality(LiveFrom(m, ip)) < MaxConnectionsFromIp
    /\ \/ gone = {} /\ Cardinality(ClientsFrom(m, ip)) < MaxClientsFromIp
       \/ /\ \E o \in Registered(m) : gone = {o}
          /\ Cardinality(ClientsFrom(m, ip)) >= MaxClientsFromIp
    /\ \A a \in Ip :
          /\ ClientsFrom(n, a) = IF a = ip THEN (ClientsFrom(m, a) \ gone) \cup {c}
                                 ELSE ClientsFrom(m, a)
          /\ LiveFrom(n, a) = IF a = ip THEN LiveFrom(m, a) \cup {c} ELSE LiveFrom(m, a)

(* chat.on_open, eviction included, leaves a registry that is exact and    *)
(* within its limits.                                                      *)
LEMMA OnOpenEffect ==
    ASSUME Known, NEW k \in Connection, NEW c \in Client, NEW t \in Token, OnOpen(k, c, t)
    PROVE  /\ \E gone : Admitted(manager, manager', k, c, gone)
           /\ Registered(MadeRoom(RealClientIp[k])) = Registered(manager') \ {c}
  <1> DEFINE ip == RealClientIp[k]
             room == MadeRoom(ip)
  <1>1. /\ manager \in ManagerType
        /\ RegistryOK(manager)
        /\ k \notin Mapped(manager)
        /\ c \notin Registered(manager)
        /\ GetCounterFromIp(manager, ip)["connections"] < MaxConnectionsFromIp
        /\ GetCounterFromIp(manager, ip)["connections"] = Cardinality(LiveFrom(manager, ip))
        /\ t \in FreshTokens(manager)
        /\ manager' = Connect(room, k, c, t)
        /\ room = MadeRoom(ip)
        /\ ip \in Ip
        /\ ip = RealClientIp[k]
    BY IpAssumption DEF OnOpen, Known, NoZombie, RegistryOK, CountsAgree
  <1> HIDE DEF room, ip
  <1>2. ASSUME NEW gone,
               /\ RegistryOK(room)
               /\ gone \subseteq Registered(manager)
               /\ \A o \in gone : IsOrphanOf(ip, o)
               /\ Registered(room) = Registered(manager) \ gone
               /\ room.connection = manager.connection
               /\ room.lastClientIP = [d \in Client |-> IF d \in gone THEN NoIp
                                                        ELSE manager.lastClientIP[d]]
               /\ Mapped(room) = Mapped(manager)
               /\ t \in FreshTokens(room)
               /\ \A a \in Ip : /\ ClientsFrom(room, a) = ClientsFrom(manager, a) \ gone
                                /\ LiveFrom(room, a) = LiveFrom(manager, a) \ gone
               /\ \/ gone = {} /\ Cardinality(ClientsFrom(manager, ip)) < MaxClientsFromIp
                  \/ /\ \E o \in Registered(manager) : gone = {o}
                     /\ Cardinality(ClientsFrom(manager, ip)) >= MaxClientsFromIp
        PROVE  /\ Admitted(manager, manager', k, c, gone)
               /\ Registered(room) = Registered(manager') \ {c}
    <2>1. /\ RegistryOK(manager')
          /\ Registered(manager') = Registered(room) \cup {c}
          /\ manager'.connection = [room.connection EXCEPT ![c] = k]
          /\ manager'.lastClientIP = [room.lastClientIP EXCEPT ![c] = ip]
          /\ Mapped(manager') = Mapped(room) \cup {k}
          /\ \A a \in Ip :
                /\ ClientsFrom(manager', a) = IF a = ip THEN ClientsFrom(room, a) \cup {c}
                                              ELSE ClientsFrom(room, a)
                /\ LiveFrom(manager', a) = IF a = ip THEN LiveFrom(room, a) \cup {c}
                                           ELSE LiveFrom(room, a)
      <3>1. /\ RegistryOK(room)
            /\ k \in Connection \ Mapped(room)
            /\ c \in Client \ Registered(room)
            /\ t \in FreshTokens(room)
        BY <1>1, <1>2
      <3>2. manager' = Connect(room, k, c, t)
        BY <1>1
      <3>3. ConnectedOK(room, manager', k, c)
        BY <3>1, <3>2, ConnectOK
      <3> QED
        BY <1>1, <3>3 DEF ConnectedOK
    <2>2. manager'.lastClientIP = [d \in Client |-> IF d = c THEN ip
                                     ELSE IF d \in gone THEN NoIp ELSE manager.lastClientIP[d]]
      BY <1>2, <2>1
    <2>3. \A a \in Ip : /\ a # ip => ClientsFrom(manager, a) \ gone = ClientsFrom(manager, a)
                        /\ LiveFrom(manager, a) \ gone = LiveFrom(manager, a)
      BY <1>2 DEF IsOrphanOf, ClientsFrom, LiveFrom
    <2>4. \A a \in Ip :
                /\ ClientsFrom(manager', a) = IF a = ip THEN (ClientsFrom(manager, a) \ gone) \cup {c}
                                              ELSE ClientsFrom(manager, a)
                /\ LiveFrom(manager', a) = IF a = ip THEN LiveFrom(manager, a) \cup {c}
                                           ELSE LiveFrom(manager, a)
      BY <1>2, <2>1, <2>3
    <2>5. \A o \in gone : manager.connection[o] = NoConnection /\ manager.lastClientIP[o] = ip
      BY <1>2 DEF IsOrphanOf
    <2>6. Admitted(manager, manager', k, c, gone)
      BY <1>1, <1>2, <2>1, <2>2, <2>4, <2>5 DEF Admitted
    <2> QED
      BY <1>1, <1>2, <2>1, <2>6
  <1>3. CASE room = manager /\ Cardinality(ClientsFrom(manager, ip)) < MaxClientsFromIp
    <2>1. manager.lastClientIP = [d \in Client |-> IF d \in {} THEN NoIp
                                                   ELSE manager.lastClientIP[d]]
      BY <1>1 DEF ManagerType
    <2>2. \A a \in Ip : /\ ClientsFrom(room, a) = ClientsFrom(manager, a) \ {}
                        /\ LiveFrom(room, a) = LiveFrom(manager, a) \ {}
      BY <1>3
    <2>3. /\ RegistryOK(room)
          /\ \A o \in {} : IsOrphanOf(ip, o)
          /\ Registered(room) = Registered(manager) \ {}
          /\ room.lastClientIP = [d \in Client |-> IF d \in {} THEN NoIp
                                                   ELSE manager.lastClientIP[d]]
          /\ t \in FreshTokens(room)
      BY <1>1, <1>3, <2>1
    <2>4. /\ Admitted(manager, manager', k, c, {})
          /\ Registered(room) = Registered(manager') \ {c}
      BY <1>2, <1>3, <2>2, <2>3
    <2> QED
      BY <1>1, <2>4
  <1>4. ASSUME NEW o \in Registered(manager), IsOrphanOf(ip, o),
               room = RemoveClient(manager, o),
               Cardinality(ClientsFrom(manager, ip)) >= MaxClientsFromIp
        PROVE  /\ Admitted(manager, manager', k, c, {o})
               /\ Registered(room) = Registered(manager') \ {c}
    <2>1. /\ RegistryOK(room)
          /\ Registered(room) = Registered(manager) \ {o}
          /\ room.connection = [manager.connection EXCEPT ![o] = NoConnection]
          /\ room.lastClientIP = [manager.lastClientIP EXCEPT ![o] = NoIp]
          /\ Mapped(room) = Mapped(manager) \ {manager.connection[o]}
          /\ \A a \in Ip : /\ ClientsFrom(room, a) = ClientsFrom(manager, a) \ {o}
                           /\ LiveFrom(room, a) = LiveFrom(manager, a) \ {o}
      BY <1>1, <1>4, RemoveClientOK DEF Gone
    <2>2. o \in Client /\ manager.connection[o] = NoConnection
      BY <1>1, <1>4, CountedSetsFinite DEF IsOrphanOf
    <2>3. room.connection = manager.connection
      BY <1>1, <2>1, <2>2 DEF ManagerType
    <2>4. room.lastClientIP = [d \in Client |-> IF d \in {o} THEN NoIp
                                                ELSE manager.lastClientIP[d]]
      BY <1>1, <2>1 DEF ManagerType
    <2>5. Mapped(room) = Mapped(manager)
      BY <2>1, <2>2, NullAssumption DEF Mapped
    <2>6. t \in FreshTokens(room)
      <3>1. t \in Token /\ manager.tokenToClient[t] = NoClient
        BY <1>1 DEF FreshTokens
      <3>2. \A d \in Client : ~(d \in Registered(manager) /\ manager.token[d] = t)
        BY <1>1, <3>1, NullAssumption DEF RegistryOK, TokensAgree
      <3>3. room.token = [manager.token EXCEPT ![o] = NoToken]
        BY <1>1, <1>4, RemoveClientEffect DEF RegistryOK
      <3>4. \A d \in Client : ~(d \in Registered(room) /\ room.token[d] = t)
        BY <1>1, <2>1, <3>2, <3>3 DEF ManagerType
      <3>5. room.tokenToClient[t] \in Client \cup {NoClient}
        BY <2>1, <3>1 DEF RegistryOK, ManagerType
      <3> QED
        BY <2>1, <3>1, <3>4, <3>5 DEF RegistryOK, TokensAgree, FreshTokens
    <2> QED
      BY <1>1, <1>2, <1>4, <2>1, <2>3, <2>4, <2>5, <2>6
  <1> QED
    <2>1. \/ /\ Cardinality(ClientsFrom(manager, ip)) < MaxClientsFromIp
             /\ room = manager
          \/ /\ Cardinality(ClientsFrom(manager, ip)) >= MaxClientsFromIp
             /\ \E o \in Registered(manager) :
                   IsOrphanOf(ip, o) /\ room = RemoveClient(manager, o)
      BY <1>1, MadeRoomEffect
    <2> QED
      BY <1>1, <1>3, <1>4, <2>1

(* The client that a terminal callback or the job's list names is          *)
(* registered.                                                             *)
LEMMA HandledClients ==
    ASSUME Known, JobExact
    PROVE  /\ \A k \in Connection :
                 LET c == FindClientByConnection(manager, k)
                 IN  c # NoClient => c \in Registered(manager) /\ manager.connection[c] = k
           /\ Scanning => Scanned \in Registered(manager) /\ Scanned \in Client
           /\ toKick # <<>> => /\ Head(toKick) \in Registered(manager)
                               /\ Head(toKick) \in Client
  <1>1. \A k \in Connection :
           LET c == FindClientByConnection(manager, k)
           IN  c # NoClient => c \in Registered(manager) /\ manager.connection[c] = k
    BY FoundClient DEF Known, FindClientByConnection
  <1>2. Registered(manager) \subseteq Client
    BY FoundClient DEF Known
  <1>3. Scanning => Scanned \in Registered(manager)
    BY DEF Known, TypeOK, ManagerType, Scanning, Scanned, Registered, ToSet
  <1>4. toKick # <<>> => Head(toKick) \in Registered(manager)
    <2>1. toKick # <<>> => Head(toKick) \in ToSet(toKick)
      BY DEF Known, TypeOK, ToSet
    <2>2. Passed \subseteq Registered(manager)
      BY DEF Passed, Registered, ToSet
    <2> QED
      BY <2>1, <2>2 DEF JobExact
  <1> QED
    BY <1>1, <1>2, <1>3, <1>4

(* Resumption joins two registered clients, the first with a connection.   *)
LEMMA ResumedClients ==
    ASSUME Known, NEW k \in Connection, NEW t \in Token, OnAuthToken(k, t),
           NEW cur, cur = FindClientByConnection(manager, k),
           NEW tgt, tgt = FindClientByToken(manager, t)
    PROVE  /\ cur \in Registered(manager) /\ tgt \in Registered(manager) /\ cur # tgt
           /\ cur \in Client /\ tgt \in Client
           /\ manager.connection[cur] = k
           /\ k # NoConnection
           /\ manager' = ReviveClient(manager, cur, tgt)
  BY FoundClient, NullAssumption
     DEF Known, OnAuthToken, FindClientByConnection, FindClientByToken

(* Every step leaves the registry alone or is one call of one method.      *)
LEMMA ManagerStep ==
    ASSUME Known, JobExact, [Next]_vars
    PROVE  \/ manager' = manager
           \/ \E k \in Connection, c \in Client, t \in Token : OnOpen(k, c, t)
           \/ \E c \in Registered(manager) : manager' = RemoveClient(manager, c)
           \/ \E c \in Registered(manager) : manager' = MakeOrphan(manager, c)
           \/ \E cur, tgt \in Registered(manager) :
                 /\ cur # tgt
                 /\ manager.connection[cur] # NoConnection
                 /\ manager' = ReviveClient(manager, cur, tgt)
  <1>1. CASE UNCHANGED vars
    BY <1>1 DEF vars
  <1>2. ASSUME NEW k \in Connection, OnOpenRefused(k) \/ OnMessage(k)
        PROVE  manager' = manager
    BY <1>2 DEF OnOpenRefused, OnMessage
  <1>3. ASSUME NEW k \in Connection, OnCloseNormal(k)
        PROVE  \/ manager' = manager
               \/ \E c \in Registered(manager) : manager' = RemoveClient(manager, c)
    BY <1>3, HandledClients DEF OnCloseNormal
  <1>4. ASSUME NEW k \in Connection, OnConnectionLost(k)
        PROVE  \/ manager' = manager
               \/ \E c \in Registered(manager) : manager' = MakeOrphan(manager, c)
    BY <1>4, HandledClients DEF OnConnectionLost
  <1>5. ASSUME NEW k \in Connection, NEW t \in Token, OnAuthToken(k, t)
        PROVE  \E cur, tgt \in Registered(manager) :
                 /\ cur # tgt
                 /\ manager.connection[cur] # NoConnection
                 /\ manager' = ReviveClient(manager, cur, tgt)
    BY <1>5, ResumedClients
  <1>6. CASE Elapse \/ JobStart \/ ScanOutdated \/ ScanPing \/ ScanSkip \/ ScanEnd \/ JobEnd
    BY <1>6 DEF Elapse, JobStart, ScanOutdated, ScanPing, ScanSkip, ScanEnd, JobEnd
  <1>7. CASE ScanSilent
    BY <1>7, HandledClients DEF ScanSilent
  <1>8. CASE KickOutdated
    BY <1>8, HandledClients DEF KickOutdated
  <1> QED
    BY <1>1, <1>2, <1>3, <1>4, <1>5, <1>6, <1>7, <1>8 DEF Next, Job

(* Every step keeps the registry exact and its connections in step with    *)
(* the links.                                                              *)
LEMMA RegistryStep ==
    ASSUME Known, JobExact, [Next]_vars
    PROVE  RegistryOK(manager')
  <1>1. RegistryOK(manager)
    BY DEF Known
  <1>2. ASSUME NEW k \in Connection, NEW c \in Client, NEW t \in Token, OnOpen(k, c, t)
        PROVE  RegistryOK(manager')
    BY <1>2, OnOpenEffect DEF Admitted
  <1>3. ASSUME NEW c \in Registered(manager), manager' = RemoveClient(manager, c)
        PROVE  RegistryOK(manager')
    BY <1>1, <1>3, RemoveClientOK DEF Gone
  <1>4. ASSUME NEW c \in Registered(manager), manager' = MakeOrphan(manager, c)
        PROVE  RegistryOK(manager')
    BY <1>1, <1>4, MakeOrphanOK DEF Orphaned
  <1>5. ASSUME NEW cur \in Registered(manager), NEW tgt \in Registered(manager), cur # tgt,
               manager.connection[cur] # NoConnection,
               manager' = ReviveClient(manager, cur, tgt)
        PROVE  RegistryOK(manager')
    BY <1>1, <1>5, ReviveClientOK DEF Resumed
  <1> QED
    BY <1>1, <1>2, <1>3, <1>4, <1>5, ManagerStep

(* The limits: only on_open adds a client or a connection to an address,   *)
(* and it has compared both counters, which are exact. Resumption moves a  *)
(* connection to another client, but not to another address.               *)
LEMMA LimitsStep ==
    ASSUME Known, JobExact, WithinLimits, [Next]_vars
    PROVE  WithinLimits'
  <1>1. RegistryOK(manager) /\ manager \in ManagerType
    BY DEF Known, RegistryOK
  <1>2. ASSUME NEW ip \in Ip
        PROVE  /\ IsFiniteSet(ClientsFrom(manager, ip)) /\ IsFiniteSet(LiveFrom(manager, ip))
               /\ Cardinality(ClientsFrom(manager, ip)) \in Nat
               /\ Cardinality(LiveFrom(manager, ip)) \in Nat
               /\ Cardinality(ClientsFrom(manager, ip)) <= MaxClientsFromIp
               /\ Cardinality(LiveFrom(manager, ip)) <= MaxConnectionsFromIp
    BY <1>1, CountedSetsFinite DEF WithinLimits
  <1> SUFFICES ASSUME NEW ip \in Ip
               PROVE  /\ Cardinality(LiveFrom(manager', ip)) <= MaxConnectionsFromIp
                      /\ Cardinality(ClientsFrom(manager', ip)) <= MaxClientsFromIp
    BY DEF WithinLimits
  <1>3. ASSUME ClientsFrom(manager', ip) \subseteq ClientsFrom(manager, ip),
               LiveFrom(manager', ip) \subseteq LiveFrom(manager, ip)
        PROVE  /\ Cardinality(LiveFrom(manager', ip)) <= MaxConnectionsFromIp
               /\ Cardinality(ClientsFrom(manager', ip)) <= MaxClientsFromIp
    <2>1. /\ Cardinality(LiveFrom(manager', ip)) <= Cardinality(LiveFrom(manager, ip))
          /\ Cardinality(LiveFrom(manager', ip)) \in Nat
          /\ Cardinality(ClientsFrom(manager', ip)) <= Cardinality(ClientsFrom(manager, ip))
          /\ Cardinality(ClientsFrom(manager', ip)) \in Nat
      BY <1>2, <1>3, FS_Subset, FS_CardinalityType
    <2> QED
      BY <1>2, <2>1, LimitAssumption
  <1>4. ASSUME NEW k \in Connection, NEW c \in Client, NEW t \in Token, OnOpen(k, c, t)
        PROVE  /\ Cardinality(LiveFrom(manager', ip)) <= MaxConnectionsFromIp
               /\ Cardinality(ClientsFrom(manager', ip)) <= MaxClientsFromIp
    <2>1. PICK gone : Admitted(manager, manager', k, c, gone)
      BY <1>4, OnOpenEffect
    <2>2. CASE ip # RealClientIp[k]
      BY <1>3, <2>1, <2>2 DEF Admitted
    <2>3. CASE ip = RealClientIp[k]
      <3> DEFINE F == ClientsFrom(manager, ip)
                 L == LiveFrom(manager, ip)
      <3>1. /\ ClientsFrom(manager', ip) = (F \ gone) \cup {c}
            /\ LiveFrom(manager', ip) = L \cup {c}
            /\ Cardinality(L) < MaxConnectionsFromIp
            /\ \/ gone = {} /\ Cardinality(F) < MaxClientsFromIp
               \/ /\ \E o \in Registered(manager) : gone = {o}
                  /\ Cardinality(F) >= MaxClientsFromIp
            /\ gone \subseteq F
        BY <2>1, <2>3 DEF Admitted, ClientsFrom
      <3>2. /\ IsFiniteSet(F) /\ IsFiniteSet(L)
            /\ Cardinality(F) \in Nat /\ Cardinality(L) \in Nat
            /\ Cardinality(F) <= MaxClientsFromIp
        BY <1>2
      <3>3. c \notin F /\ c \notin L
        BY <1>4 DEF OnOpen, ClientsFrom, LiveFrom
      <3> HIDE DEF F, L
      <3>4. Cardinality(L \cup {c}) = Cardinality(L) + 1
        BY <3>2, <3>3, FS_AddElement
      <3>5. CASE gone = {} /\ Cardinality(F) < MaxClientsFromIp
        <4>1. Cardinality((F \ gone) \cup {c}) = Cardinality(F) + 1
          <5>1. F \ gone = F
            BY <3>5
          <5> QED
            BY <3>2, <3>3, <5>1, FS_AddElement
        <4> QED
          BY <3>1, <3>2, <3>4, <3>5, <4>1, LimitAssumption
      <3>6. CASE \E o \in Registered(manager) : gone = {o}
        <4>1. PICK o \in Registered(manager) : gone = {o}
          BY <3>6
        <4>2. o \in F
          BY <3>1, <4>1
        <4>3. Cardinality((F \ {o}) \cup {c}) = Cardinality(F)
          BY <3>2, <3>3, <4>2, ReplaceCardinality
        <4> QED
          BY <3>1, <3>2, <3>4, <4>1, <4>3, LimitAssumption
      <3> QED
        BY <3>1, <3>5, <3>6
    <2> QED
      BY <2>2, <2>3
  <1>5. ASSUME NEW c \in Registered(manager), manager' = RemoveClient(manager, c)
        PROVE  /\ ClientsFrom(manager', ip) \subseteq ClientsFrom(manager, ip)
               /\ LiveFrom(manager', ip) \subseteq LiveFrom(manager, ip)
    <2>1. Gone(manager, manager', c)
      BY <1>1, <1>5, RemoveClientOK
    <2> QED
      BY <2>1 DEF Gone
  <1>6. ASSUME NEW c \in Registered(manager), manager' = MakeOrphan(manager, c)
        PROVE  /\ ClientsFrom(manager', ip) \subseteq ClientsFrom(manager, ip)
               /\ LiveFrom(manager', ip) \subseteq LiveFrom(manager, ip)
    <2>1. Orphaned(manager, manager', c)
      BY <1>1, <1>6, MakeOrphanOK
    <2> QED
      BY <2>1 DEF Orphaned
  <1>7. ASSUME NEW cur \in Registered(manager), NEW tgt \in Registered(manager), cur # tgt,
               manager.connection[cur] # NoConnection,
               manager' = ReviveClient(manager, cur, tgt)
        PROVE  /\ Cardinality(LiveFrom(manager', ip)) <= MaxConnectionsFromIp
               /\ Cardinality(ClientsFrom(manager', ip)) <= MaxClientsFromIp
    <2>1. /\ Cardinality(ClientsFrom(manager', ip)) <= Cardinality(ClientsFrom(manager, ip))
          /\ Cardinality(LiveFrom(manager', ip)) <= Cardinality(LiveFrom(manager, ip))
          /\ RegistryOK(manager')
      BY <1>1, <1>7, ReviveClientOK DEF Resumed
    <2>2. /\ Cardinality(ClientsFrom(manager', ip)) \in Nat
          /\ Cardinality(LiveFrom(manager', ip)) \in Nat
      BY <2>1, CountedSetsFinite DEF RegistryOK
    <2> QED
      BY <1>2, <2>1, <2>2, LimitAssumption
  <1>8. CASE manager' = manager
    BY <1>3, <1>8
  <1> QED
    BY <1>3, <1>4, <1>5, <1>6, <1>7, <1>8, ManagerStep

(* Every handler that takes a connection out of the registry, or puts one  *)
(* in, does the same to the connection itself.                             *)
LEMMA NoZombieStep ==
    ASSUME Known, JobExact, [Next]_vars
    PROVE  NoZombie'
  <1>1. /\ RegistryOK(manager)
        /\ link \in [Connection -> {"down", "up", "closing"}]
        /\ \A k \in Connection : k \in Mapped(manager) <=> link[k] = "up"
        /\ \A n : Mapped(n) \subseteq Connection
    BY DEF Known, TypeOK, NoZombie, Mapped
  <1> SUFFICES \A j \in Connection : j \in Mapped(manager') <=> link'[j] = "up"
    BY DEF NoZombie
  <1>2. CASE UNCHANGED <<manager, link>>
    BY <1>1, <1>2
  <1>3. ASSUME NEW k \in Connection, OnOpenRefused(k)
        PROVE  \A j \in Connection : j \in Mapped(manager') <=> link'[j] = "up"
    BY <1>1, <1>3 DEF OnOpenRefused
  <1>4. ASSUME NEW k \in Connection, NEW c \in Client, NEW t \in Token, OnOpen(k, c, t)
        PROVE  \A j \in Connection : j \in Mapped(manager') <=> link'[j] = "up"
    <2>1. Mapped(manager') = Mapped(manager) \cup {k}
      BY <1>4, OnOpenEffect DEF Admitted
    <2> QED
      BY <1>1, <1>4, <2>1 DEF OnOpen
  <1>5. ASSUME NEW k \in Connection, OnCloseNormal(k) \/ OnConnectionLost(k)
        PROVE  \A j \in Connection : j \in Mapped(manager') <=> link'[j] = "up"
    <2> DEFINE c == FindClientByConnection(manager, k)
    <2>1. link' = [link EXCEPT ![k] = "down"]
      BY <1>5 DEF OnCloseNormal, OnConnectionLost
    <2>2. CASE c = NoClient
      <3>1. manager' = manager
        BY <1>5, <2>2 DEF OnCloseNormal, OnConnectionLost
      <3>2. k \notin Mapped(manager)
        BY <2>2 DEF FindClientByConnection, Mapped
      <3> QED
        BY <1>1, <2>1, <3>1, <3>2
    <2>3. CASE c # NoClient
      <3>1. c \in Registered(manager) /\ manager.connection[c] = k
        BY <2>3, HandledClients
      <3>2. manager' = RemoveClient(manager, c) \/ manager' = MakeOrphan(manager, c)
        BY <1>5, <2>3 DEF OnCloseNormal, OnConnectionLost
      <3> HIDE DEF c
      <3>3. Gone(manager, manager', c) \/ Orphaned(manager, manager', c)
        BY <1>1, <3>1, <3>2, RemoveClientOK, MakeOrphanOK
      <3>4. Mapped(manager') = Mapped(manager) \ {k}
        BY <3>1, <3>3 DEF Gone, Orphaned
      <3> QED
        BY <1>1, <2>1, <3>4
    <2> QED
      BY <2>2, <2>3
  <1>6. ASSUME NEW k \in Connection, NEW t \in Token, OnAuthToken(k, t)
        PROVE  \A j \in Connection : j \in Mapped(manager') <=> link'[j] = "up"
    <2> DEFINE cur == FindClientByConnection(manager, k)
               tgt == FindClientByToken(manager, t)
               old == manager.connection[tgt]
    <2>1. link' = [j \in Connection |->
                      IF j = old /\ j # manager.connection[cur] THEN "closing" ELSE link[j]]
      BY <1>6 DEF OnAuthToken
    <2>2. /\ cur \in Registered(manager) /\ tgt \in Registered(manager) /\ cur # tgt
          /\ manager.connection[cur] = k
          /\ k # NoConnection
          /\ manager' = ReviveClient(manager, cur, tgt)
      BY <1>6, ResumedClients
    <2>3. old # NoConnection => manager.connectionToClient[old] = tgt
      BY <1>1, <2>2, FoundClient
    <2>4. old # k
      <3>1. manager.connectionToClient[k] = cur
        BY <1>1, <2>2, FoundClient
      <3> QED
        BY <2>2, <2>3, <3>1
    <2> HIDE DEF cur, tgt
    <2>5. Resumed(manager, manager', cur, tgt)
      BY <1>1, <2>2, ReviveClientOK
    <2>6. Mapped(manager') = Mapped(manager) \ {old}
      BY <2>5 DEF Resumed
    <2> HIDE DEF old
    <2> QED
      BY <1>1, <2>1, <2>2, <2>4, <2>6
  <1>7. CASE ScanSilent
    <2>1. Orphaned(manager, manager', Scanned)
      BY <1>1, <1>7, HandledClients, MakeOrphanOK DEF ScanSilent
    <2> QED
      BY <1>1, <1>7, <2>1 DEF ScanSilent, Orphaned
  <1>8. CASE KickOutdated
    <2>1. Gone(manager, manager', Head(toKick))
      BY <1>1, <1>8, HandledClients, RemoveClientOK DEF KickOutdated
    <2> QED
      BY <1>1, <1>8, <2>1 DEF KickOutdated, Gone
  <1>9. CASE Elapse \/ JobStart \/ ScanOutdated \/ ScanPing \/ ScanSkip \/ ScanEnd \/ JobEnd
    BY <1>2, <1>9 DEF Elapse, JobStart, ScanOutdated, ScanPing, ScanSkip, ScanEnd, JobEnd
  <1>10. ASSUME NEW k \in Connection, OnMessage(k)
         PROVE  UNCHANGED <<manager, link>>
    BY <1>10 DEF OnMessage
  <1> QED
    BY <1>2, <1>3, <1>4, <1>5, <1>6, <1>7, <1>8, <1>9, <1>10 DEF Next, Job, vars

(* Every step keeps the type invariant.                                    *)
LEMMA TypeStep ==
    ASSUME Known, JobExact, [Next]_vars
    PROVE  TypeOK'
  <1>1. manager' \in ManagerType
    BY RegistryStep DEF RegistryOK
  <1>2. TypeOK
    BY DEF Known
  <1>3. CASE UNCHANGED vars
    BY <1>1, <1>2, <1>3 DEF TypeOK, vars
  <1>4. ASSUME NEW k \in Connection
        PROVE  /\ OnOpenRefused(k) => TypeOK'
               /\ OnMessage(k) => TypeOK'
               /\ OnConnectionLost(k) => TypeOK'
               /\ OnCloseNormal(k) => TypeOK'
    <2>1. OnOpenRefused(k) => TypeOK'
      BY <1>1, <1>2 DEF TypeOK, OnOpenRefused, jobVars
    <2>2. OnMessage(k) => TypeOK'
      <3> SUFFICES ASSUME OnMessage(k)
                   PROVE  TypeOK'
        OBVIOUS
      <3> DEFINE c == FindClientByConnection(manager, k)
      <3>1. /\ idle' = [idle EXCEPT ![c] = 0] /\ pinged' = pinged \ {c}
            /\ UNCHANGED <<manager, link, sinceTick, phase, next, toKick>>
        BY DEF OnMessage, jobVars
      <3> HIDE DEF c
      <3> QED
        BY <1>1, <1>2, <3>1 DEF TypeOK
    <2>3. OnConnectionLost(k) => TypeOK'
      BY <1>1, <1>2 DEF TypeOK, OnConnectionLost, jobVars
    <2>4. OnCloseNormal(k) => TypeOK'
      BY <1>1, <1>2 DEF TypeOK, OnCloseNormal, ForgetClocks, jobVars
    <2> QED
      BY <2>1, <2>2, <2>3, <2>4
  <1>5. ASSUME NEW k \in Connection, NEW c \in Client, NEW t \in Token, OnOpen(k, c, t)
        PROVE  TypeOK'
    BY <1>1, <1>2, <1>5 DEF TypeOK, OnOpen, jobVars
  <1>6. ASSUME NEW k \in Connection, NEW t \in Token, OnAuthToken(k, t)
        PROVE  TypeOK'
    BY <1>1, <1>2, <1>6 DEF TypeOK, OnAuthToken, jobVars
  <1>7. CASE Elapse
    BY <1>1, <1>2, <1>7, TimeAssumption DEF TypeOK, Elapse
  <1>8. CASE JobStart \/ ScanSkip \/ ScanEnd \/ JobEnd
    BY <1>1, <1>2, <1>8, TimeAssumption
       DEF TypeOK, JobStart, ScanSkip, ScanEnd, JobEnd
  <1>12. CASE ScanPing
    BY <1>1, <1>2, <1>12, HandledClients DEF TypeOK, ScanPing
  <1>9. CASE ScanOutdated
    BY <1>1, <1>2, <1>9, HandledClients DEF TypeOK, ScanOutdated
  <1>10. CASE ScanSilent
    <2> DEFINE k == manager.connection[Scanned]
    <2>1. /\ link' = [link EXCEPT ![k] = "closing"] /\ next' = next + 1
          /\ UNCHANGED <<idle, pinged, sinceTick, phase, toKick>>
      BY <1>10 DEF ScanSilent
    <2> HIDE DEF k
    <2>2. link' \in [Connection -> {"down", "up", "closing"}]
      <3>1. link \in [Connection -> {"down", "up", "closing"}]
        BY <1>2 DEF TypeOK
      <3> QED
        BY <2>1, <3>1
    <2>3. next' \in Nat \ {0}
      BY <1>2, <2>1 DEF TypeOK
    <2> QED
      BY <1>1, <1>2, <2>1, <2>2, <2>3 DEF TypeOK
  <1>11. CASE KickOutdated
    BY <1>1, <1>2, <1>11 DEF TypeOK, KickOutdated, ForgetClocks
  <1> QED
    BY <1>3, <1>4, <1>5, <1>6, <1>7, <1>8, <1>9, <1>10, <1>11, <1>12
       DEF Next, Job

(* A list without repetitions loses its head, and only its head.           *)
LEMMA TailOfList ==
    ASSUME NEW S, NEW s \in Seq(S), s # <<>>, Injective(s)
    PROVE  /\ Tail(s) \in Seq(S)
           /\ ToSet(Tail(s)) = ToSet(s) \ {Head(s)}
           /\ Injective(Tail(s))
  <1>1. /\ Len(s) \in Nat \ {0}
        /\ Tail(s) \in Seq(S)
        /\ Len(Tail(s)) = Len(s) - 1
        /\ DOMAIN s = 1..Len(s)
        /\ DOMAIN Tail(s) = 1..(Len(s) - 1)
        /\ \A i \in DOMAIN Tail(s) : Tail(s)[i] = s[i + 1]
        /\ Head(s) = s[1]
    OBVIOUS
  <1>2. Injective(Tail(s))
    BY <1>1 DEF Injective
  <1>3. ASSUME NEW x \in ToSet(Tail(s))
        PROVE  x \in ToSet(s) /\ x # Head(s)
    BY <1>1 DEF ToSet, Injective
  <1>4. ASSUME NEW x \in ToSet(s), x # Head(s)
        PROVE  x \in ToSet(Tail(s))
    <2>1. PICK i \in DOMAIN s : x = s[i]
      BY DEF ToSet
    <2>2. i - 1 \in DOMAIN Tail(s) /\ x = Tail(s)[i - 1]
      BY <1>1, <1>4, <2>1
    <2> QED
      BY <2>2 DEF ToSet
  <1> QED
    BY <1>1, <1>2, <1>3, <1>4

(* Before its first iteration the job has passed over nobody.              *)
LEMMA NothingPassed ==
    ASSUME manager \in ManagerType, phase # "kick", next = 1
    PROVE  Passed = {}
  BY DEF Passed, ManagerType

(* An iteration of the first loop passes over one client more, which was   *)
(* not passed over before.                                                 *)
LEMMA OneMorePassed ==
    ASSUME Known, Scanning, next' = next + 1, phase' = phase,
           manager'.clients = manager.clients
    PROVE  /\ Passed' = Passed \cup {Scanned}
           /\ Scanned \notin Passed
  <1>1. /\ manager.clients \in Seq(Client)
        /\ next \in DOMAIN manager.clients
        /\ next \in Nat
        /\ Injective(manager.clients)
        /\ phase = "scan"
        /\ DOMAIN manager.clients \subseteq Nat
    BY DEF Known, TypeOK, RegistryOK, ManagerType, ConnectionsAgree, Scanning, Injective
  <1>2. /\ Passed = {manager.clients[i] : i \in {j \in DOMAIN manager.clients : j < next}}
        /\ Passed' = {manager.clients[i] : i \in {j \in DOMAIN manager.clients : j < next + 1}}
    BY <1>1 DEF Passed
  <1>3. {j \in DOMAIN manager.clients : j < next + 1}
           = {j \in DOMAIN manager.clients : j < next} \cup {next}
    BY <1>1
  <1>4. Passed' = Passed \cup {Scanned}
    BY <1>2, <1>3 DEF Scanned
  <1>5. Scanned \notin Passed
    BY <1>1, <1>2 DEF Scanned, Injective
  <1> QED
    BY <1>4, <1>5

(* Every step keeps what is true of the two loops of the periodic job.     *)
LEMMA JobStep ==
    ASSUME Known, JobExact, [Next]_vars
    PROVE  JobExact'
  <1>1. /\ RegistryOK(manager)
        /\ manager \in ManagerType
        /\ manager' \in ManagerType
        /\ next \in Nat \ {0}
        /\ toKick \in Seq(Client)
        /\ idle \in [Client -> Nat]
    BY RegistryStep DEF Known, TypeOK, RegistryOK
  <1>2. /\ phase # "scan" => next = 1
        /\ ToSet(toKick) \subseteq Passed
        /\ Injective(toKick)
        /\ \A c \in ToSet(toKick) : idle[c] > OrphanTimeout
        /\ \A c \in Passed \ ToSet(toKick) : Settled(c)
    BY DEF JobExact, Injective
  <1>3. Passed \subseteq Registered(manager) /\ Registered(manager) \subseteq Client
    BY <1>1, CountedSetsFinite DEF Passed, Registered, ToSet
  <1>4. ASSUME phase = "idle", UNCHANGED <<next, toKick>>, phase' # "kick"
        PROVE  JobExact'
    <2>1. Passed = {} /\ Passed' = {}
      BY <1>1, <1>2, <1>4, NothingPassed DEF Passed, ManagerType
    <2>2. ToSet(toKick') = {}
      BY <1>2, <1>4, <2>1
    <2> QED
      BY <1>2, <1>4, <2>1, <2>2 DEF JobExact, Injective
  <1>5. ASSUME NEW d, d = Scanned, Scanning,
               next' = next + 1, phase' = phase, toKick' = toKick, idle' = idle,
               manager'.clients = manager.clients,
               \A c \in Passed : Settled(c) => Settled(c)',
               Settled(d)'
        PROVE  JobExact'
    <2>1. Passed' = Passed \cup {d}
      BY <1>5, OneMorePassed
    <2>2. \A c \in Passed' \ ToSet(toKick') : Settled(c)'
      BY <1>2, <1>5, <2>1
    <2> QED
      BY <1>2, <1>5, <2>1, <2>2 DEF JobExact, Injective, Scanning
  <1>6. CASE UNCHANGED vars
    BY <1>6 DEF vars, JobExact, Passed, Settled
  <1>7. ASSUME NEW k \in Connection
        PROVE  /\ OnOpenRefused(k) => JobExact'
               /\ OnMessage(k) => JobExact'
               /\ OnCloseNormal(k) => JobExact'
               /\ OnConnectionLost(k) => JobExact'
               /\ \A c \in Client, t \in Token : OnOpen(k, c, t) => JobExact'
               /\ \A t \in Token : OnAuthToken(k, t) => JobExact'
    BY <1>4 DEF OnOpenRefused, OnMessage, OnCloseNormal, OnConnectionLost, OnOpen,
                OnAuthToken, jobVars
  <1>8. CASE Elapse \/ JobStart
    BY <1>4, <1>8 DEF Elapse, JobStart
  <1>9. CASE ScanOutdated
    <2>1. /\ Passed' = Passed \cup {Scanned}
          /\ Scanned \notin Passed
      BY <1>9, OneMorePassed DEF ScanOutdated
    <2>2. /\ toKick' = Append(toKick, Scanned)
          /\ Scanned \in Client
          /\ phase' = "scan"
          /\ UNCHANGED <<manager, idle, pinged>>
      BY <1>9, HandledClients DEF ScanOutdated, Scanning
    <2>3. /\ ToSet(toKick') = ToSet(toKick) \cup {Scanned}
          /\ Injective(toKick')
      BY <1>1, <1>2, <2>1, <2>2, AppendNew
    <2>5. idle[Scanned] > OrphanTimeout
      BY <1>9 DEF ScanOutdated
    <2>4. \A c : Settled(c)' = Settled(c)
      BY <2>2 DEF Settled
    <2> QED
      BY <1>2, <2>1, <2>2, <2>3, <2>4, <2>5 DEF JobExact, Injective
  <1>10. CASE ScanSilent
    <2>0. PICK d : d = Scanned
      OBVIOUS
    <2>1. /\ d \in Registered(manager) /\ d \in Client
          /\ manager' = MakeOrphan(manager, d)
          /\ idle[d] \in (ConnectTimeout + 1)..OrphanTimeout
          /\ UNCHANGED <<idle, pinged, phase, toKick>>
          /\ next' = next + 1
          /\ Scanning
      BY <1>10, <2>0, HandledClients DEF ScanSilent
    <2>2. Orphaned(manager, manager', d)
      BY <1>1, <2>1, MakeOrphanOK
    <2>3. /\ manager'.clients = manager.clients
          /\ manager'.connection = [manager.connection EXCEPT ![d] = NoConnection]
      BY <2>2 DEF Orphaned
    <2>4. ASSUME NEW c \in Client, Settled(c)
          PROVE  Settled(c)'
      BY <1>1, <2>1, <2>3, <2>4 DEF Settled, ManagerType
    <2>5. Settled(d)'
      BY <1>1, <2>1, <2>3, TimeAssumption DEF Settled, ManagerType
    <2> QED
      BY <1>3, <1>5, <2>1, <2>3, <2>4, <2>0, <2>5
  <1>11. CASE ScanPing
    <2>0. PICK d : d = Scanned
      OBVIOUS
    <2>1. /\ d \in Client
          /\ Scanning
          /\ idle[d] \in (PingTimeout + 1)..ConnectTimeout
          /\ pinged' = IF manager.connection[d] = NoConnection THEN pinged ELSE pinged \cup {d}
          /\ UNCHANGED <<manager, idle, phase, toKick>>
          /\ next' = next + 1
      BY <1>11, <2>0, HandledClients DEF ScanPing
    <2>2. \A c \in Passed : Settled(c) => Settled(c)'
      BY <2>1 DEF Settled
    <2>3. Settled(d)'
      BY <1>1, <2>1, TimeAssumption DEF Settled
    <2> QED
      BY <1>5, <2>1, <2>2, <2>0, <2>3
  <1>12. CASE ScanSkip
    <2>0. PICK d : d = Scanned
      OBVIOUS
    <2>1. /\ d \in Client
          /\ Scanning
          /\ \/ idle[d] <= PingTimeout
             \/ /\ idle[d] \in (ConnectTimeout + 1)..OrphanTimeout
                /\ manager.connection[d] = NoConnection
          /\ UNCHANGED <<manager, idle, pinged, phase, toKick>>
          /\ next' = next + 1
      BY <1>12, <2>0, HandledClients DEF ScanSkip
    <2>2. \A c \in Passed : Settled(c) => Settled(c)'
      BY <2>1 DEF Settled
    <2>3. Settled(d)'
      BY <1>1, <2>1, TimeAssumption DEF Settled
    <2> QED
      BY <1>5, <2>1, <2>2, <2>0, <2>3
  <1>13. CASE ScanEnd
    <2>1. /\ phase = "scan" /\ phase' = "kick" /\ next' = 1
          /\ next > Len(manager.clients)
          /\ UNCHANGED <<manager, idle, pinged, toKick>>
      BY <1>13 DEF ScanEnd
    <2>2. Passed' = Passed
      BY <1>1, <2>1 DEF Passed, Registered, ToSet, ManagerType
    <2>3. \A c : Settled(c)' = Settled(c)
      BY <2>1 DEF Settled
    <2> QED
      BY <1>2, <2>1, <2>2, <2>3 DEF JobExact, Injective
  <1>14. CASE KickOutdated
    <2> DEFINE c == Head(toKick)
    <2>1. /\ c \in Registered(manager) /\ c \in Client
          /\ manager' = RemoveClient(manager, c)
          /\ toKick' = Tail(toKick)
          /\ toKick # <<>>
          /\ ForgetClocks
          /\ phase = "kick"
          /\ UNCHANGED <<phase, next>>
      BY <1>14, HandledClients DEF KickOutdated
    <2>2. /\ ToSet(toKick') = ToSet(toKick) \ {c}
          /\ Injective(toKick')
      BY <1>1, <1>2, <2>1, TailOfList
    <2> HIDE DEF c
    <2>3. Gone(manager, manager', c)
      BY <1>1, <2>1, RemoveClientOK
    <2>4. /\ Passed = Registered(manager)
          /\ Passed' = Registered(manager) \ {c}
          /\ manager'.connection = [manager.connection EXCEPT ![c] = NoConnection]
          /\ Registered(manager') = Registered(manager) \ {c}
      BY <2>1, <2>3 DEF Passed, Gone
    <2>5. ASSUME NEW d \in Passed', d \notin ToSet(toKick')
          PROVE  Settled(d)'
      <3>1. Settled(d) /\ d # c /\ d \in Client /\ d \in Registered(manager')
        BY <1>2, <1>3, <2>2, <2>4, <2>5
      <3>2. /\ idle'[d] = idle[d]
            /\ manager'.connection[d] = manager.connection[d]
            /\ d \in pinged' <=> d \in pinged
        BY <1>1, <2>1, <2>4, <3>1 DEF ForgetClocks, ManagerType
      <3> QED
        BY <3>1, <3>2 DEF Settled
    <2>6. ASSUME NEW d \in ToSet(toKick')
          PROVE  idle'[d] > OrphanTimeout
      <3>1. d \in ToSet(toKick) /\ d \in Client /\ d \in Registered(manager')
        BY <1>2, <1>3, <2>2, <2>4
      <3> QED
        BY <1>2, <2>1, <3>1 DEF ForgetClocks
    <2> QED
      BY <1>2, <2>1, <2>2, <2>4, <2>5, <2>6 DEF JobExact, Injective
  <1>15. CASE JobEnd
    <2>1. /\ phase = "kick" /\ phase' = "idle" /\ toKick = <<>>
          /\ UNCHANGED <<manager, next, toKick>>
      BY <1>15 DEF JobEnd
    <2>2. Passed' = {} /\ ToSet(toKick') = {}
      BY <1>1, <1>2, <2>1 DEF Passed, ManagerType, ToSet
    <2> QED
      BY <1>2, <2>1, <2>2 DEF JobExact, Injective
  <1> QED
    BY <1>6, <1>7, <1>8, <1>9, <1>10, <1>11, <1>12, <1>13, <1>14, <1>15 DEF Next, Job

(* Age grows with the time since the job last ended, and the job ends with *)
(* every client settled.                                                   *)
LEMMA AgingStep ==
    ASSUME Known, JobExact, Aging, [Next]_vars
    PROVE  Aging'
  <1> DEFINE Aged(c) ==
                 /\ idle[c] <= OrphanTimeout + sinceTick
                 /\ manager.connection[c] # NoConnection =>
                       /\ idle[c] <= ConnectTimeout + sinceTick
                       /\ idle[c] > PingTimeout + sinceTick => c \in pinged
  <1>1. /\ RegistryOK(manager)
        /\ manager \in ManagerType
        /\ manager' \in ManagerType
        /\ idle \in [Client -> Nat]
        /\ sinceTick \in Nat /\ sinceTick' \in Nat
        /\ Registered(manager) \subseteq Client
        /\ Registered(manager') \subseteq Client
    <2>1. TypeOK /\ TypeOK' /\ RegistryOK(manager)
      BY TypeStep DEF Known
    <2>2. manager \in ManagerType /\ manager' \in ManagerType
      BY <2>1 DEF TypeOK
    <2>3. /\ Registered(manager) \subseteq Client
          /\ Registered(manager') \subseteq Client
      BY <2>2, CountedSetsFinite
    <2>4. sinceTick \in Nat /\ sinceTick' \in Nat
      BY <2>1, TimeAssumption DEF TypeOK
    <2> QED
      BY <2>1, <2>2, <2>3, <2>4 DEF TypeOK
  <1>2. \A c \in Registered(manager) : Aged(c)
    BY DEF Aging
  <1>3. /\ OrphanTimeout \in Nat /\ ConnectTimeout \in Nat /\ PingTimeout \in Nat
    BY TimeAssumption
  <1> SUFFICES ASSUME NEW d \in Registered(manager')
               PROVE  Aged(d)'
    BY DEF Aging
  <1>4. ASSUME idle'[d] = 0
        PROVE  Aged(d)'
    BY <1>1, <1>3, <1>4
  <1>5. ASSUME d \in Registered(manager), idle'[d] = idle[d], sinceTick' = sinceTick,
               manager'.connection[d] \in {manager.connection[d], NoConnection},
               d \in pinged => d \in pinged'
        PROVE  Aged(d)'
    BY <1>2, <1>5
  <1> HIDE DEF Aged
  <1>6. ASSUME NEW k \in Connection, NEW c \in Client, NEW t \in Token, OnOpen(k, c, t)
        PROVE  Aged(d)'
    <2> DEFINE room == MadeRoom(RealClientIp[k])
    <2>1. /\ idle' = [e \in Client |-> IF e = c \/ e \notin Registered(room) THEN 0 ELSE idle[e]]
          /\ pinged' = pinged \cap Registered(room)
          /\ sinceTick' = sinceTick
      BY <1>6 DEF OnOpen, jobVars
    <2>2. PICK gone : Admitted(manager, manager', k, c, gone)
      BY <1>6, OnOpenEffect
    <2>3. Registered(room) = Registered(manager') \ {c}
      BY <1>6, OnOpenEffect
    <2>4. /\ Registered(manager') = (Registered(manager) \ gone) \cup {c}
          /\ manager'.connection = [manager.connection EXCEPT ![c] = k]
      BY <2>2 DEF Admitted
    <2> HIDE DEF room
    <2>5. CASE d = c
      BY <1>4, <2>1, <2>5
    <2>6. CASE d # c
      <3>1. d \in Registered(manager) /\ d \in Client /\ d \in Registered(room)
        BY <1>1, <2>3, <2>4, <2>6
      <3>2. manager'.connection[d] = manager.connection[d]
        BY <1>1, <2>4, <2>6, <3>1 DEF ManagerType
      <3> QED
        BY <1>5, <2>1, <2>6, <3>1, <3>2
    <2> QED
      BY <2>5, <2>6
  <1>7. ASSUME NEW c \in Registered(manager), manager' = RemoveClient(manager, c),
               ForgetClocks, sinceTick' = sinceTick
        PROVE  Aged(d)'
    <2>1. Gone(manager, manager', c)
      BY <1>1, <1>7, RemoveClientOK
    <2>2. /\ d \in Registered(manager) /\ d # c /\ d \in Client
          /\ manager'.connection = [manager.connection EXCEPT ![c] = NoConnection]
      BY <1>1, <2>1 DEF Gone
    <2>3. manager'.connection[d] = manager.connection[d]
      BY <1>1, <2>2 DEF ManagerType
    <2> QED
      BY <1>5, <1>7, <2>2, <2>3 DEF ForgetClocks
  <1>8. ASSUME NEW c \in Registered(manager), manager' = MakeOrphan(manager, c),
               UNCHANGED <<idle, pinged, sinceTick>>
        PROVE  Aged(d)'
    <2>1. Orphaned(manager, manager', c)
      BY <1>1, <1>8, MakeOrphanOK
    <2>2. /\ d \in Registered(manager) /\ d \in Client
          /\ manager'.connection = [manager.connection EXCEPT ![c] = NoConnection]
      BY <1>1, <2>1 DEF Orphaned, Registered
    <2>3. manager'.connection[d] \in {manager.connection[d], NoConnection}
      BY <1>1, <2>2 DEF ManagerType
    <2> QED
      BY <1>5, <1>8, <2>2, <2>3
  <1>9. ASSUME manager' = manager, idle' = idle, sinceTick' = sinceTick, pinged \subseteq pinged'
        PROVE  Aged(d)'
    BY <1>5, <1>9
  <1>10. CASE UNCHANGED vars
    BY <1>9, <1>10 DEF vars
  <1>11. ASSUME NEW k \in Connection, OnOpenRefused(k)
         PROVE  Aged(d)'
    BY <1>9, <1>11 DEF OnOpenRefused, jobVars
  <1>12. ASSUME NEW k \in Connection, OnMessage(k)
         PROVE  Aged(d)'
    <2> DEFINE c == FindClientByConnection(manager, k)
    <2>1. /\ manager' = manager /\ sinceTick' = sinceTick
          /\ idle' = [idle EXCEPT ![c] = 0]
          /\ pinged' = pinged \ {c}
      BY <1>12 DEF OnMessage, jobVars
    <2> HIDE DEF c
    <2>2. d \in Registered(manager) /\ d \in Client
      BY <1>1, <2>1
    <2> QED
      BY <1>1, <1>4, <1>5, <2>1, <2>2
  <1>13. ASSUME NEW k \in Connection, OnCloseNormal(k)
         PROVE  Aged(d)'
    <2>1. CASE FindClientByConnection(manager, k) = NoClient
      <3>1. manager' = manager /\ sinceTick' = sinceTick /\ ForgetClocks
        BY <1>13, <2>1 DEF OnCloseNormal, jobVars
      <3> QED
        BY <1>1, <1>5, <3>1 DEF ForgetClocks
    <2>2. CASE FindClientByConnection(manager, k) # NoClient
      BY <1>7, <1>13, <2>2, HandledClients DEF OnCloseNormal, jobVars
    <2> QED
      BY <2>1, <2>2
  <1>14. ASSUME NEW k \in Connection, OnConnectionLost(k)
         PROVE  Aged(d)'
    BY <1>8, <1>9, <1>14, HandledClients DEF OnConnectionLost, jobVars
  <1>15. ASSUME NEW k \in Connection, NEW t \in Token, OnAuthToken(k, t)
         PROVE  Aged(d)'
    <2> DEFINE cur == FindClientByConnection(manager, k)
               tgt == FindClientByToken(manager, t)
    <2>1. /\ cur \in Registered(manager) /\ tgt \in Registered(manager) /\ cur # tgt
          /\ manager.connection[cur] = k
          /\ k # NoConnection
          /\ manager' = ReviveClient(manager, cur, tgt)
      BY <1>15, ResumedClients
    <2>2. /\ idle' = [idle EXCEPT ![cur] = 0, ![tgt] = 0]
          /\ pinged' = pinged \ {cur, tgt}
          /\ sinceTick' = sinceTick
      BY <1>15 DEF OnAuthToken, jobVars
    <2> HIDE DEF cur, tgt
    <2>3. Resumed(manager, manager', cur, tgt)
      BY <1>1, <2>1, ReviveClientOK
    <2>4. /\ d \in Registered(manager) /\ d # cur /\ d \in Client
          /\ manager'.connection = [manager.connection EXCEPT ![cur] = NoConnection, ![tgt] = k]
      BY <1>1, <2>1, <2>3 DEF Resumed
    <2>5. CASE d = tgt
      BY <1>1, <1>4, <2>2, <2>4, <2>5
    <2>6. CASE d # tgt
      <3>1. manager'.connection[d] = manager.connection[d]
        BY <1>1, <2>4, <2>6 DEF ManagerType
      <3>2. idle'[d] = idle[d] /\ (d \in pinged => d \in pinged')
        BY <1>1, <2>2, <2>4, <2>6
      <3> QED
        BY <1>5, <2>2, <2>4, <3>1, <3>2
    <2> QED
      BY <2>5, <2>6
  <1>16. CASE Elapse
    <2>1. /\ manager' = manager /\ pinged' = pinged /\ sinceTick' = sinceTick + 1
          /\ idle'[d] = idle[d] + 1
          /\ d \in Registered(manager) /\ d \in Client
      BY <1>1, <1>16 DEF Elapse
    <2>2. Aged(d) /\ idle[d] \in Nat
      BY <1>1, <1>2, <2>1
    <2> QED
      BY <1>1, <1>3, <2>1, <2>2 DEF Aged
  <1>17. CASE JobStart \/ ScanOutdated \/ ScanPing \/ ScanSkip \/ ScanEnd
    BY <1>9, <1>17 DEF JobStart, ScanOutdated, ScanPing, ScanSkip, ScanEnd
  <1>18. CASE ScanSilent
    BY <1>8, <1>18, HandledClients DEF ScanSilent
  <1>19. CASE KickOutdated
    BY <1>7, <1>19, HandledClients DEF KickOutdated
  <1>20. CASE JobEnd
    <2>1. /\ manager' = manager /\ idle' = idle /\ pinged' = pinged /\ sinceTick' = 0
          /\ phase = "kick" /\ toKick = <<>>
      BY <1>20 DEF JobEnd
    <2>2. d \in Passed /\ ToSet(toKick) = {}
      BY <2>1 DEF Passed, ToSet
    <2>3. Settled(d) /\ idle[d] \in Nat
      BY <1>1, <2>2 DEF JobExact
    <2> QED
      BY <1>3, <2>1, <2>3 DEF Aged, Settled
  <1> QED
    BY <1>6, <1>10, <1>11, <1>12, <1>13, <1>14, <1>15, <1>16, <1>17, <1>18, <1>19, <1>20
       DEF Next, Job

-----------------------------------------------------------------------------
(* The inductive invariant.                                                *)

(* The registry of a server that has just started is exact.                *)
LEMMA EmptyRegistryOK == RegistryOK(EmptyManager)
  <1> DEFINE m == EmptyManager
  <1>1. /\ m \in ManagerType
        /\ Registered(m) = {} /\ Mapped(m) = {}
        /\ DOMAIN m.clients = {}
        /\ \A c \in Client : m.connection[c] = NoConnection /\ m.lastClientIP[c] = NoIp
        /\ \A t \in Token : m.tokenToClient[t] = NoClient
        /\ \A ip \in Ip : m.countersFromIp[ip] = NoCount
        /\ m.countedIps = {}
    BY DEF EmptyManager, ManagerType, Registered, Mapped, ToSet, Counter, NoCount
  <1>2. \A ip \in Ip : ClientsFrom(m, ip) = {} /\ LiveFrom(m, ip) = {}
    BY <1>1 DEF ClientsFrom, LiveFrom
  <1>3. NoCount["clients"] = 0 /\ NoCount["connections"] = 0
    BY DEF NoCount, CounterField
  <1> HIDE DEF m
  <1>4. ConnectionsAgree(m) /\ TokensAgree(m)
    BY <1>1, NullAssumption DEF ConnectionsAgree, TokensAgree
  <1>5. CountsAgree(m)
    BY <1>1, <1>2, <1>3, FS_EmptySet DEF CountsAgree, GetCounterFromIp
  <1> QED
    BY <1>1, <1>4, <1>5 DEF RegistryOK, m

(* The inductive invariant holds initially.                                *)
LEMMA IInvInit == Init => IInv
  <1> SUFFICES ASSUME Init
               PROVE  IInv
    OBVIOUS
  <1>1. RegistryOK(manager)
    BY EmptyRegistryOK DEF Init
  <1>2. /\ Registered(manager) = {} /\ Mapped(manager) = {} /\ DOMAIN manager.clients = {}
        /\ manager \in ManagerType
    BY <1>1 DEF Init, EmptyManager, Registered, Mapped, ToSet, RegistryOK
  <1>3. TypeOK
    BY <1>2, TimeAssumption DEF Init, TypeOK
  <1>4. NoZombie
    BY <1>2 DEF Init, NoZombie
  <1>5. WithinLimits
    <2>1. \A ip \in Ip : ClientsFrom(manager, ip) = {} /\ LiveFrom(manager, ip) = {}
      BY <1>2 DEF ClientsFrom, LiveFrom
    <2> QED
      BY <2>1, FS_EmptySet, LimitAssumption DEF WithinLimits
  <1>6. JobExact
    BY <1>2 DEF Init, JobExact, Passed, ToSet
  <1>7. Aging
    BY <1>2 DEF Aging
  <1> QED
    BY <1>1, <1>3, <1>4, <1>5, <1>6, <1>7 DEF IInv

(* The inductive invariant is kept by every step.                          *)
LEMMA IInvNext == IInv /\ [Next]_vars => IInv'
  <1> SUFFICES ASSUME IInv, [Next]_vars
               PROVE  IInv'
    OBVIOUS
  <1>1. Known /\ JobExact /\ WithinLimits /\ Aging
    BY DEF IInv, Known
  <1>2. RegistryOK(manager')
    BY <1>1, RegistryStep
  <1>3. TypeOK'
    BY <1>1, TypeStep
  <1>4. NoZombie'
    BY <1>1, NoZombieStep
  <1>5. WithinLimits'
    BY <1>1, LimitsStep
  <1>6. JobExact'
    BY <1>1, JobStep
  <1>7. Aging'
    BY <1>1, AgingStep
  <1> QED
    BY <1>2, <1>3, <1>4, <1>5, <1>6, <1>7 DEF IInv

(* Every reachable state satisfies the inductive invariant.                *)
THEOREM Inductive == Spec => []IInv
  BY IInvInit, IInvNext, PTL DEF Spec

-----------------------------------------------------------------------------
(* The properties, for every value of the constants.                       *)

(* TypeOK: every variable keeps its type, whatever the handlers do.        *)
THEOREM TypeCorrect == Spec => []TypeOK
  BY Inductive, PTL DEF IInv

(* CountersExact: the hand-kept counters of clients_manager.hpp count the  *)
(* clients and the connections of each address.                            *)
THEOREM CountersAreExact == Spec => []CountersExact
  <1>1. IInv => CountersExact
    BY DEF IInv, RegistryOK, CountersExact
  <1> QED
    BY Inductive, <1>1, PTL

(* WithinLimits: on_open's comparison with the counters is enough to keep  *)
(* every address within both limits, resumption included.                  *)
THEOREM LimitsHold == Spec => []WithinLimits
  BY Inductive, PTL DEF IInv

(* EvictionFindsOrphan: the "Wtf" branch of on_open is unreachable.        *)
THEOREM EvictionSucceeds == Spec => []EvictionFindsOrphan
  <1>1. IInv => EvictionFindsOrphan
    BY OrphanExists DEF IInv, EvictionFindsOrphan
  <1> QED
    BY Inductive, <1>1, PTL

(* ConnectionsExact: the vector, the map by connection and the clients     *)
(* agree.                                                                  *)
THEOREM ConnectionsAreExact == Spec => []ConnectionsExact
  <1>1. IInv => ConnectionsExact
    BY DEF IInv, RegistryOK, ConnectionsExact
  <1> QED
    BY Inductive, <1>1, PTL

(* TokensExact: a token leads to its own registered client or nowhere.     *)
THEOREM TokensAreExact == Spec => []TokensExact
  <1>1. IInv => TokensExact
    BY DEF IInv, RegistryOK, TokensExact
  <1> QED
    BY Inductive, <1>1, PTL

(* RegistryExact: clients_manager.hpp keeps counters, vector, maps and     *)
(* clients in step.                                                        *)
THEOREM RegistryIsExact == Spec => []RegistryExact
  BY CountersAreExact, ConnectionsAreExact, TokensAreExact, PTL DEF RegistryExact

(* NoZombie: the registry knows exactly the connections that are open and  *)
(* were not told to close.                                                 *)
THEOREM NoZombies == Spec => []NoZombie
  BY Inductive, PTL DEF IInv

(* JobExact: the list of the periodic job is what its iterations left.     *)
THEOREM JobIsExact == Spec => []JobExact
  BY Inductive, PTL DEF IInv

(* BoundedRetention: the job removes every silent client in time.          *)
THEOREM RetentionIsBounded == Spec => []BoundedRetention
  <1>1. IInv => BoundedRetention
    <2> SUFFICES ASSUME IInv, NEW c \in Registered(manager)
                 PROVE  /\ idle[c] <= OrphanTimeout + PingInterval + TimerLag
                        /\ manager.connection[c] # NoConnection =>
                              idle[c] <= ConnectTimeout + PingInterval + TimerLag
      BY DEF BoundedRetention
    <2>1. /\ sinceTick \in 0..(PingInterval + TimerLag)
          /\ idle[c] <= OrphanTimeout + sinceTick
          /\ manager.connection[c] # NoConnection => idle[c] <= ConnectTimeout + sinceTick
      BY DEF IInv, TypeOK, Aging
    <2>2. c \in Client
      BY FoundClient DEF IInv
    <2>3. idle[c] \in Nat
      BY <2>2 DEF IInv, TypeOK
    <2> QED
      BY <2>1, <2>3, TimeAssumption
  <1> QED
    BY Inductive, <1>1, PTL

(* LiveLeavesOnlyItself: no handler removes a client that has a connection *)
(* for the sake of another one.                                            *)
LEMMA LiveLeavesStep ==
    ASSUME IInv, [Next]_vars,
           NEW c \in Registered(manager) \ Registered(manager'),
           manager.connection[c] # NoConnection
    PROVE  \/ link'[manager.connection[c]] = "down"
           \/ manager.connection[c] \in Mapped(manager')
           \/ idle[c] > OrphanTimeout
  <1>1. /\ RegistryOK(manager) /\ Known /\ JobExact
        /\ manager.connection[c] \in Mapped(manager)
        /\ manager.connectionToClient[manager.connection[c]] = c
    BY FoundClient DEF IInv, Known
  <1>2. manager' # manager
    OBVIOUS
  <1>3. ASSUME NEW k \in Connection, NEW d \in Client, NEW t \in Token, OnOpen(k, d, t)
        PROVE  FALSE
    <2>1. PICK gone : Admitted(manager, manager', k, d, gone)
      BY <1>1, <1>3, OnOpenEffect
    <2> QED
      BY <2>1 DEF Admitted
  <1>4. ASSUME NEW k \in Connection, OnCloseNormal(k)
        PROVE  link'[manager.connection[c]] = "down"
    <2> DEFINE d == FindClientByConnection(manager, k)
    <2>1. /\ d \in Registered(manager) /\ manager.connection[d] = k
          /\ manager' = RemoveClient(manager, d)
          /\ link' = [link EXCEPT ![k] = "down"]
      BY <1>1, <1>2, <1>4, HandledClients DEF OnCloseNormal
    <2> HIDE DEF d
    <2>2. Gone(manager, manager', d)
      BY <1>1, <2>1, RemoveClientOK
    <2>3. c = d
      BY <2>2 DEF Gone
    <2> QED
      BY <1>1, <2>1, <2>3 DEF Known, TypeOK
  <1>5. ASSUME NEW d \in Registered(manager), manager' = MakeOrphan(manager, d)
        PROVE  FALSE
    <2>1. Orphaned(manager, manager', d)
      BY <1>1, <1>5, MakeOrphanOK
    <2> QED
      BY <2>1 DEF Orphaned, Registered
  <1>6. ASSUME NEW k \in Connection, NEW t \in Token, OnAuthToken(k, t)
        PROVE  manager.connection[c] \in Mapped(manager')
    <2> DEFINE cur == FindClientByConnection(manager, k)
               tgt == FindClientByToken(manager, t)
    <2>1. /\ cur \in Registered(manager) /\ tgt \in Registered(manager) /\ cur # tgt
          /\ manager.connection[cur] # NoConnection
          /\ manager' = ReviveClient(manager, cur, tgt)
      BY <1>1, <1>6, ResumedClients
    <2> HIDE DEF cur, tgt
    <2>2. Resumed(manager, manager', cur, tgt)
      BY <1>1, <2>1, ReviveClientOK
    <2>3. c = cur /\ Mapped(manager') = Mapped(manager) \ {manager.connection[tgt]}
      BY <2>2 DEF Resumed
    <2>4. manager.connection[tgt] # manager.connection[c]
      BY <1>1, <2>1, <2>3, FoundClient
    <2> QED
      BY <1>1, <2>3, <2>4
  <1>7. CASE KickOutdated
    <2> DEFINE d == Head(toKick)
    <2>1. /\ d \in Registered(manager) /\ toKick # <<>>
          /\ manager' = RemoveClient(manager, d)
      BY <1>1, <1>7, HandledClients DEF KickOutdated
    <2>2. d \in ToSet(toKick)
      BY <1>1, <2>1 DEF Known, TypeOK, ToSet
    <2> HIDE DEF d
    <2>3. Gone(manager, manager', d)
      BY <1>1, <2>1, RemoveClientOK
    <2>4. c = d
      BY <2>3 DEF Gone
    <2> QED
      BY <1>1, <2>2, <2>4 DEF JobExact
  <1>8. CASE ScanSilent
    BY <1>1, <1>5, <1>8, HandledClients DEF ScanSilent
  <1>9. ASSUME NEW k \in Connection, OnConnectionLost(k)
        PROVE  FALSE
    BY <1>1, <1>2, <1>5, <1>9, HandledClients DEF OnConnectionLost
  <1>10. ASSUME NEW k \in Connection, OnOpenRefused(k) \/ OnMessage(k)
         PROVE  FALSE
    BY <1>2, <1>10 DEF OnOpenRefused, OnMessage
  <1>11. CASE UNCHANGED vars
    BY <1>2, <1>11 DEF vars
  <1>12. CASE Elapse \/ JobStart \/ ScanOutdated \/ ScanPing \/ ScanSkip \/ ScanEnd \/ JobEnd
    BY <1>2, <1>12 DEF Elapse, JobStart, ScanOutdated, ScanPing, ScanSkip, ScanEnd, JobEnd
  <1> QED
    BY <1>3, <1>4, <1>6, <1>7, <1>8, <1>9, <1>10, <1>11, <1>12 DEF Next, Job

(* LiveLeavesOnlyItself, as an action property of every behaviour.         *)
THEOREM LiveLeaves == Spec => LiveLeavesOnlyItself
  <1>1. IInv /\ [Next]_vars =>
           [\A c \in Registered(manager) \ Registered(manager') :
               manager.connection[c] # NoConnection =>
                  \/ link'[manager.connection[c]] = "down"
                  \/ manager.connection[c] \in Mapped(manager')
                  \/ idle[c] > OrphanTimeout]_vars
    BY LiveLeavesStep
  <1> QED
    BY Inductive, <1>1, PTL DEF Spec, LiveLeavesOnlyItself

(* DroppedOnlyAfterPing: the order of the timeouts and the period leave    *)
(* the job time to ping before it drops a connection.                      *)
LEMMA DroppedStep ==
    ASSUME IInv, [Next]_vars, phase = "scan", NEW c \in Client,
           manager.connection[c] # NoConnection,
           manager'.connection[c] = NoConnection
    PROVE  c \in pinged
  <1>1. manager' # manager /\ Known /\ JobExact
    BY DEF IInv, Known
  <1>2. ScanSilent
    BY <1>1 DEF Next, Job, vars, OnOpenRefused, OnOpen, OnCloseNormal, OnConnectionLost, OnMessage,
                OnAuthToken, Elapse, JobStart, ScanOutdated, ScanPing, ScanSkip, ScanEnd,
                KickOutdated, JobEnd
  <1> DEFINE d == Scanned
  <1>3. /\ d \in Registered(manager) /\ d \in Client
        /\ manager' = MakeOrphan(manager, d)
        /\ idle[d] \in (ConnectTimeout + 1)..OrphanTimeout
    BY <1>1, <1>2, HandledClients DEF ScanSilent
  <1> HIDE DEF d
  <1>4. Orphaned(manager, manager', d)
    BY <1>1, <1>3, MakeOrphanOK DEF Known
  <1>5. c = d
    BY <1>1, <1>3, <1>4 DEF Orphaned, Known, TypeOK, ManagerType
  <1>6. idle[d] > PingTimeout + sinceTick
    BY <1>1, <1>3, TimeAssumption DEF Known, TypeOK
  <1> QED
    BY <1>3, <1>5, <1>6 DEF IInv, Aging

(* DroppedOnlyAfterPing, as an action property of every behaviour.         *)
THEOREM DroppedAfterPing == Spec => DroppedOnlyAfterPing
  <1>1. IInv /\ [Next]_vars =>
           [phase = "scan" =>
               \A c \in Client :
                   /\ manager.connection[c] # NoConnection
                   /\ manager'.connection[c] = NoConnection
                   => c \in pinged]_vars
    BY DroppedStep
  <1> QED
    BY Inductive, <1>1, PTL DEF Spec, DroppedOnlyAfterPing

-----------------------------------------------------------------------------
(* Server implements Sessions.                                             *)

(* The sets that the abstract limits count are those of the registry.      *)
LEMMA AbstractSets ==
    ASSUME RegistryOK(manager), NEW ip \in Ip
    PROVE  /\ Abstract!Live(ip) = LiveFrom(manager, ip)
           /\ Abstract!From(ip) = ClientsFrom(manager, ip)
  <1>1. Registered(manager) \subseteq Client
    BY FoundClient
  <1>2. \A c \in Client :
           /\ SessionState[c] = "live" <=> /\ c \in Registered(manager)
                                           /\ manager.connection[c] # NoConnection
           /\ SessionState[c] # "free" <=> c \in Registered(manager)
    BY DEF SessionState
  <1> QED
    BY <1>1, <1>2 DEF Abstract!Live, Abstract!From, LiveFrom, ClientsFrom

(* Sessions counts with an instance of Cardinality of its own.             *)
LEMMA AbstractCardinality == \A S : Abstract!Cardinality(S) = Cardinality(S)
  BY DEF Abstract!Cardinality, Cardinality

(* The initial state implements the initial state of Sessions.             *)
LEMMA RefinesInit == Init => Abstract!Init
  <1> SUFFICES ASSUME Init
               PROVE  Abstract!Init
    OBVIOUS
  <1>1. /\ Registered(manager) = {}
        /\ manager.lastClientIP = [c \in Client |-> NoIp]
    BY DEF Init, EmptyManager, Registered, ToSet
  <1>2. SessionState = [c \in Client |-> "free"]
    BY <1>1 DEF SessionState
  <1> QED
    BY <1>1, <1>2 DEF Abstract!Init

(* What a step does to the sessions, from what it does to the registry.    *)
LEMMA RefinesNext == IInv /\ [Next]_vars => [Abstract!Next]_(Abstract!vars)
  <1> SUFFICES ASSUME IInv, [Next]_vars
               PROVE  [Abstract!Next]_(Abstract!vars)
    OBVIOUS
  <1>1. /\ RegistryOK(manager) /\ Known /\ JobExact
        /\ manager \in ManagerType
        /\ Registered(manager) \subseteq Client
    BY FoundClient DEF IInv, Known, RegistryOK
  <1> DEFINE StateOf(m) == [c \in Client |->
                               IF c \notin Registered(m) THEN "free"
                               ELSE IF m.connection[c] = NoConnection THEN "orphan" ELSE "live"]
             State == SessionState
             From == manager.lastClientIP
  <1>2. /\ SessionState = StateOf(manager)
        /\ SessionState' = StateOf(manager')
        /\ \A c \in Client : SessionState[c] = StateOf(manager)[c]
    BY DEF SessionState
  <1>3. CASE manager' = manager
    BY <1>2, <1>3 DEF Abstract!vars
  <1>4. ASSUME NEW k \in Connection, NEW c \in Client, NEW t \in Token, OnOpen(k, c, t)
        PROVE  Abstract!Next
    <2> DEFINE ip == RealClientIp[k]
    <2>1. PICK gone : Admitted(manager, manager', k, c, gone)
      BY <1>1, <1>4, OnOpenEffect
    <2>2. ip \in Ip /\ c \notin Registered(manager) /\ k # NoConnection
      BY <1>4, IpAssumption, NullAssumption DEF OnOpen
    <2>3. /\ gone \subseteq Registered(manager)
          /\ \A o \in gone : manager.connection[o] = NoConnection /\ manager.lastClientIP[o] = ip
          /\ Registered(manager') = (Registered(manager) \ gone) \cup {c}
          /\ manager'.connection = [manager.connection EXCEPT ![c] = k]
          /\ manager'.lastClientIP = [d \in Client |-> IF d = c THEN ip
                                         ELSE IF d \in gone THEN NoIp ELSE manager.lastClientIP[d]]
          /\ Cardinality(LiveFrom(manager, ip)) < MaxConnectionsFromIp
          /\ \/ gone = {} /\ Cardinality(ClientsFrom(manager, ip)) < MaxClientsFromIp
             \/ /\ \E o \in Registered(manager) : gone = {o}
                /\ Cardinality(ClientsFrom(manager, ip)) >= MaxClientsFromIp
      BY <2>1 DEF Admitted
    <2>4. /\ Cardinality(Abstract!Live(ip)) = Cardinality(LiveFrom(manager, ip))
          /\ Cardinality(Abstract!From(ip)) = Cardinality(ClientsFrom(manager, ip))
          /\ Abstract!From(ip) \ Abstract!Live(ip)
                = ClientsFrom(manager, ip) \ LiveFrom(manager, ip)
      BY <1>1, <2>2, AbstractSets
    <2>5. SessionState[c] = "free"
      BY <1>2, <2>2
    <2> HIDE DEF ip
    <2>6. \A d \in Client : d # c => manager'.connection[d] = manager.connection[d]
      BY <1>1, <2>3 DEF ManagerType
    <2>7. manager'.connection[c] = k
      BY <1>1, <2>3 DEF ManagerType
    <2>8. StateOf(manager') = [d \in Client |-> IF d = c THEN "live"
                                  ELSE IF d \in gone THEN "free" ELSE StateOf(manager)[d]]
      BY <2>2, <2>3, <2>6, <2>7
    <2> HIDE DEF StateOf
    <2>9. CASE gone = {} /\ Cardinality(ClientsFrom(manager, ip)) < MaxClientsFromIp
      <3>1. /\ SessionState' = [SessionState EXCEPT ![c] = "live"]
            /\ manager'.lastClientIP = [manager.lastClientIP EXCEPT ![c] = ip]
        <4>1. SessionState' = [SessionState EXCEPT ![c] = "live"]
          BY <1>2, <2>8, <2>9 DEF SessionState
        <4>2. manager'.lastClientIP = [manager.lastClientIP EXCEPT ![c] = ip]
          BY <1>1, <2>3, <2>9 DEF ManagerType
        <4> QED
          BY <4>1, <4>2
      <3>3. /\ Cardinality(Abstract!Live(ip)) < MaxConnectionsFromIp
            /\ Cardinality(Abstract!From(ip)) < MaxClientsFromIp
        BY <2>3, <2>4, <2>9
      <3>2. Abstract!Admit(c, ip)
        BY <2>5, <3>1, <3>3, AbstractCardinality DEF Abstract!Admit
      <3> QED
        BY <2>2, <3>2 DEF Abstract!Next
    <2>10. ASSUME NEW o \in Registered(manager), gone = {o},
                  Cardinality(ClientsFrom(manager, ip)) >= MaxClientsFromIp
           PROVE  Abstract!Next
      <3>1. o \in Client /\ o # c
        BY <1>1, <2>2
      <3>2. o \in Abstract!From(ip) \ Abstract!Live(ip)
        BY <2>3, <2>4, <2>10 DEF ClientsFrom, LiveFrom
      <3>3. SessionState' = [SessionState EXCEPT ![c] = "live", ![o] = "free"]
        BY <1>2, <2>8, <2>10, <3>1 DEF SessionState
      <3>4. manager'.lastClientIP = [manager.lastClientIP EXCEPT ![c] = ip, ![o] = NoIp]
        BY <1>1, <2>3, <2>10, <3>1 DEF ManagerType
      <3>6. /\ Cardinality(Abstract!Live(ip)) < MaxConnectionsFromIp
            /\ Cardinality(Abstract!From(ip)) >= MaxClientsFromIp
        BY <2>3, <2>4, <2>10
      <3>5. Abstract!AdmitEvicting(c, o, ip)
        BY <2>5, <3>2, <3>3, <3>4, <3>6, AbstractCardinality
           DEF Abstract!AdmitEvicting
      <3> QED
        BY <2>2, <3>1, <3>5 DEF Abstract!Next
    <2> QED
      BY <2>2, <2>3, <2>9, <2>10
  <1>5. ASSUME NEW c \in Registered(manager), manager' = RemoveClient(manager, c)
        PROVE  Abstract!Next
    <2>1. Gone(manager, manager', c)
      BY <1>1, <1>5, RemoveClientOK
    <2>2. /\ c \in Client
          /\ Registered(manager') = Registered(manager) \ {c}
          /\ manager'.connection = [manager.connection EXCEPT ![c] = NoConnection]
          /\ manager'.lastClientIP = [manager.lastClientIP EXCEPT ![c] = NoIp]
      BY <1>1, <2>1 DEF Gone
    <2>3. \A d \in Client : d # c => manager'.connection[d] = manager.connection[d]
      BY <1>1, <2>2 DEF ManagerType
    <2>4. SessionState' = [SessionState EXCEPT ![c] = "free"]
      BY <1>2, <2>2, <2>3
    <2>5. SessionState[c] # "free"
      BY <1>2, <2>2
    <2>6. Abstract!End(c)
      BY <2>2, <2>4, <2>5 DEF Abstract!End
    <2> QED
      BY <2>2, <2>6 DEF Abstract!Next
  <1>6. ASSUME NEW c \in Registered(manager), manager' = MakeOrphan(manager, c)
        PROVE  [Abstract!Next]_(Abstract!vars)
    <2>1. Orphaned(manager, manager', c)
      BY <1>1, <1>6, MakeOrphanOK
    <2>2. /\ c \in Client
          /\ Registered(manager') = Registered(manager)
          /\ manager'.connection = [manager.connection EXCEPT ![c] = NoConnection]
          /\ manager'.lastClientIP = manager.lastClientIP
      BY <1>1, <2>1 DEF Orphaned, Registered
    <2>3. /\ \A d \in Client : d # c => manager'.connection[d] = manager.connection[d]
          /\ manager'.connection[c] = NoConnection
      BY <1>1, <2>2 DEF ManagerType
    <2>4. SessionState' = [SessionState EXCEPT ![c] = "orphan"]
      BY <1>2, <2>2, <2>3
    <2>5. CASE manager.connection[c] = NoConnection
      <3>1. SessionState' = SessionState
        BY <1>2, <2>2, <2>3, <2>5
      <3> QED
        BY <2>2, <3>1 DEF Abstract!vars
    <2>6. CASE manager.connection[c] # NoConnection
      <3>1. SessionState[c] = "live"
        BY <1>2, <2>2, <2>6
      <3>2. Abstract!Disconnect(c)
        BY <2>2, <2>4, <3>1 DEF Abstract!Disconnect
      <3> QED
        BY <2>2, <3>2 DEF Abstract!Next
    <2> QED
      BY <2>5, <2>6
  <1>7. ASSUME NEW cur \in Registered(manager), NEW tgt \in Registered(manager), cur # tgt,
               manager.connection[cur] # NoConnection,
               manager' = ReviveClient(manager, cur, tgt)
        PROVE  Abstract!Next
    <2>1. Resumed(manager, manager', cur, tgt)
      BY <1>1, <1>7, ReviveClientOK
    <2> DEFINE k == manager.connection[cur]
               ip == manager.lastClientIP[cur]
    <2>2. /\ cur \in Client /\ tgt \in Client
          /\ Registered(manager') = Registered(manager) \ {cur}
          /\ manager'.connection = [manager.connection EXCEPT ![cur] = NoConnection, ![tgt] = k]
          /\ manager'.lastClientIP = [manager.lastClientIP EXCEPT ![tgt] = ip, ![cur] = NoIp]
      <3>1. /\ cur \in Client /\ tgt \in Client
            /\ Registered(manager') = Registered(manager) \ {cur}
            /\ manager'.connection = [manager.connection EXCEPT ![cur] = NoConnection, ![tgt] = k]
            /\ manager'.lastClientIP = [manager.lastClientIP EXCEPT ![cur] = NoIp, ![tgt] = ip]
        BY <1>1, <2>1 DEF Resumed
      <3> HIDE DEF ip
      <3>2. manager'.lastClientIP = [manager.lastClientIP EXCEPT ![tgt] = ip, ![cur] = NoIp]
        BY <1>1, <1>7, <3>1 DEF ManagerType
      <3> QED
        BY <3>1, <3>2
    <2>3. k # NoConnection
      BY <1>7
    <2> HIDE DEF k
    <2>4. /\ \A d \in Client \ {cur, tgt} : manager'.connection[d] = manager.connection[d]
          /\ manager'.connection[tgt] = k
      BY <1>1, <1>7, <2>2 DEF ManagerType
    <2>5. SessionState' = [SessionState EXCEPT ![tgt] = "live", ![cur] = "free"]
      BY <1>2, <1>7, <2>2, <2>3, <2>4
    <2>6. SessionState[cur] = "live" /\ SessionState[tgt] # "free"
      BY <1>2, <1>7, <2>2
    <2>7. Abstract!Resume(cur, tgt)
      BY <1>7, <2>2, <2>5, <2>6 DEF Abstract!Resume
    <2> QED
      BY <2>2, <2>7 DEF Abstract!Next
  <1> QED
    BY <1>1, <1>3, <1>4, <1>5, <1>6, <1>7, ManagerStep

(* ImplementsSessions: every behaviour of the handlers, seen through       *)
(* SessionState, is a behaviour of Sessions.                               *)
THEOREM Refinement == Spec => ImplementsSessions
  BY Inductive, RefinesInit, RefinesNext, PTL DEF Spec, ImplementsSessions, Abstract!Spec

=============================================================================
