------------------------------- MODULE MCSent -------------------------------
(* What the peers in a room are sent: its messages and the list of its     *)
(* members. Once the sessions are abstracted the two share no state, and   *)
(* are checked side by side: a behaviour is one of the component that part *)
(* names, and the other stays as it begins.                                *)
EXTENDS Messages, TLC

CONSTANTS Nick, Look, NoNick, NoMember, MaxId    \* of Roster

VARIABLES part, listState, listMember, nextMemberId, view

(* Roster, with what is proved of it. *)
List == INSTANCE RosterProofs WITH state <- listState, member <- listMember

ASSUME SentAssumption == List!RosterAssumption

listVars == <<listState, listMember, nextMemberId, view>>

InitEach == Init /\ List!Init /\ part \in {"messages", "list"}

NextOfPart ==
    /\ \/ part = "messages" /\ Next /\ UNCHANGED listVars
       \/ part = "list" /\ List!Next /\ UNCHANGED vars
    /\ UNCHANGED part

SpecOfParts == InitEach /\ [][NextOfPart]_<<vars, listVars, part>>

Symmetry == UNION {Permutations(S) : S \in {Client, Nick, Look}}

(* Each component keeps the types of its state.                            *)
TypesOK == TypeOK /\ List!TypeOK

(* The list of a peer is that of the room it is in, after PacketJoin,      *)
(* PacketStatus, PacketLeave and resumptions (Roster.tla).                 *)
RosterExact == List!RosterExact

=============================================================================
