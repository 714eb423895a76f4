------------------------------ MODULE Sessions ------------------------------
(***************************************************************************)
(* What the connection layer of the chat server promises to the rest of    *)
(* the program, with no connections, maps or counters in it: a session     *)
(* (the source's Client) is live while a peer is attached to it, becomes   *)
(* an orphan when the peer is lost, may be resumed by another session of   *)
(* any address, and ends.  Per address, the number of live sessions and    *)
(* the number of all sessions stay within two limits.                      *)
(*                                                                         *)
(* Server.tla, the detailed specification of src/server.cpp and            *)
(* src/src/clients_manager.hpp, implements this one.                       *)
(***************************************************************************)
EXTENDS Integers, FiniteSets

CONSTANTS Client,                \* the Client objects there can be
          Ip,                    \* addresses
          NoIp,                  \* the address of a session that was never attached
          MaxConnectionsFromIp,  \* live sessions allowed per address
          MaxClientsFromIp       \* sessions allowed per address

VARIABLES state,  \* per session: "free", "live" or "orphan"
          from    \* per session: the address it was last attached from

vars == <<state, from>>

Live(ip) == {c \in Client : state[c] = "live" /\ from[c] = ip}
From(ip) == {c \in Client : state[c] # "free" /\ from[c] = ip}

SessionsTypeOK ==
    /\ state \in [Client -> {"free", "live", "orphan"}]
    /\ from \in [Client -> Ip \cup {NoIp}]

Init ==
    /\ state = [c \in Client |-> "free"]
    /\ from = [c \in Client |-> NoIp]

-----------------------------------------------------------------------------

(* A new session from an address below both of its limits. *)
Admit(c, ip) ==
    /\ state[c] = "free"
    /\ Cardinality(Live(ip)) < MaxConnectionsFromIp
    /\ Cardinality(From(ip)) < MaxClientsFromIp
    /\ state' = [state EXCEPT ![c] = "live"]
    /\ from' = [from EXCEPT ![c] = ip]

(* A new session from an address that is at its limit of sessions: one of  *)
(* the orphans of that same address gives way.                             *)
AdmitEvicting(c, o, ip) ==
    /\ state[c] = "free"
    /\ Cardinality(Live(ip)) < MaxConnectionsFromIp
    /\ Cardinality(From(ip)) >= MaxClientsFromIp
    /\ o \in From(ip) \ Live(ip)
    /\ state' = [state EXCEPT ![c] = "live", ![o] = "free"]
    /\ from' = [from EXCEPT ![c] = ip, ![o] = NoIp]

(* The peer of a live session is lost; the session stays. *)
Disconnect(c) ==
    /\ state[c] = "live"
    /\ state' = [state EXCEPT ![c] = "orphan"]
    /\ UNCHANGED from

(* A session ends. *)
End(c) ==
    /\ state[c] # "free"
    /\ state' = [state EXCEPT ![c] = "free"]
    /\ from' = [from EXCEPT ![c] = NoIp]

(* The peer of the live session cur takes over the session tgt, which may  *)
(* be an orphan or attached to another peer; cur ends.                     *)
Resume(cur, tgt) ==
    /\ cur # tgt
    /\ state[cur] = "live"
    /\ state[tgt] # "free"
    /\ state' = [state EXCEPT ![tgt] = "live", ![cur] = "free"]
    /\ from' = [from EXCEPT ![tgt] = from[cur], ![cur] = NoIp]

Next ==
    \/ \E c \in Client, ip \in Ip : Admit(c, ip)
    \/ \E c, o \in Client, ip \in Ip : AdmitEvicting(c, o, ip)
    \/ \E c \in Client : Disconnect(c) \/ End(c)
    \/ \E cur, tgt \in Client : Resume(cur, tgt)

Spec == Init /\ [][Next]_vars

-----------------------------------------------------------------------------

(* Neither limit of an address is ever exceeded, whatever mixture of       *)
(* admissions, losses, evictions and resumptions led here                  *)
(* (maxConnectionsFromIp and maxClientsFromIp of src/server.hpp).          *)
WithinLimits ==
    \A ip \in Ip :
        /\ Cardinality(Live(ip)) <= MaxConnectionsFromIp
        /\ Cardinality(From(ip)) <= MaxClientsFromIp

=============================================================================
