------------------------------ MODULE Messages ------------------------------
(***************************************************************************)
(* What is said in one room: PacketMessage::process of src/packets.cpp     *)
(* for a message that FloodControl.tla lets pass, the command that styles  *)
(* one, Room::addToHistory and Room::sendPacketToAll of src/rooms.cpp, and *)
(* the replay of the history on join and on revival; the commands msg and  *)
(* umsg of src/commands/command_private_message.hpp.                       *)
(*                                                                         *)
(* A message is its id. Private messages have none; they are counted below *)
(* zero here.                                                              *)
(***************************************************************************)
EXTENDS Integers, Sequences, FiniteSets, SequencesExt

CONSTANTS Client,
          MaxHistory,   \* config["maxHistory"]
          MaxMessage,   \* bound of the model on the messages of the room
          MaxPrivate    \* bound of the model on the private ones

ASSUME MessagesAssumption ==
    /\ MaxHistory \in Nat
    /\ MaxMessage \in Nat
    /\ MaxPrivate \in Nat

VARIABLES state,          \* per client: "free", "live" or "orphan"
          member,         \* clients in the room
          named,          \* those of them with a nick
          nextMessageId, history,  \* fields of the Room
          received,       \* messages sent to the peer of each live member since it is the
                          \* peer and the client is a member (history)
          firstDue,       \* id of the first message that a member is to have (history)
          parties         \* per private message: its sender and its addressee (history)

roomVars == <<nextMessageId, history>>
clientVars == <<state, member, named>>
deliveryVars == <<received, firstDue>>
vars == <<clientVars, roomVars, deliveryVars, parties>>

TypeOK ==
    /\ state \in [Client -> {"free", "live", "orphan"}]
    /\ member \in SUBSET Client
    /\ named \in SUBSET member
    /\ nextMessageId \in 0..MaxMessage
    /\ history \in Seq(0..(MaxMessage - 1))
    /\ received \in [Client -> SUBSET ((-MaxPrivate)..(MaxMessage - 1))]
    /\ firstDue \in [Client -> 0..MaxMessage]
    /\ parties \in Seq(SUBSET Client) /\ Len(parties) <= MaxPrivate

Init ==
    /\ state = [c \in Client |-> "free"]
    /\ member = {}
    /\ named = {}
    /\ nextMessageId = 0
    /\ history = <<>>
    /\ received = [c \in Client |-> {}]
    /\ firstDue = [c \in Client |-> 0]
    /\ parties = <<>>

-----------------------------------------------------------------------------
(* Sessions and membership, as far as messages see them.                   *)

(* on_open: a new Client. *)
Connect(c) ==
    /\ state[c] = "free"
    /\ state' = [state EXCEPT ![c] = "live"]
    /\ UNCHANGED <<member, named, roomVars, deliveryVars, parties>>

(* PacketJoin, with or without load_history, and with or without a nick    *)
(* from auto_login.                                                        *)
Join(c, loadHistory, nick) ==
    /\ state[c] = "live"
    /\ c \notin member
    /\ member' = member \cup {c}
    /\ named' = IF nick THEN named \cup {c} ELSE named
    /\ received' = [received EXCEPT ![c] = IF loadHistory THEN ToSet(history) ELSE {}]
    /\ firstDue' = [firstDue EXCEPT ![c] = IF loadHistory THEN 0 ELSE nextMessageId]
    /\ UNCHANGED <<state, roomVars, parties>>

(* /nick, which may also give the nick up. *)
ChangeNick(c) ==
    /\ state[c] = "live"
    /\ c \in member
    /\ named' = IF c \in named THEN named \ {c} ELSE named \cup {c}
    /\ UNCHANGED <<state, member, roomVars, deliveryVars, parties>>

(* Mutant of Leave: the member leaves its nick behind. *)
LeaveKeepsNick(c) ==
    /\ c \in member
    /\ member' = member \ {c}
    /\ UNCHANGED <<state, named, roomVars, deliveryVars, parties>>

(* The member leaves or is kicked. *)
Leave(c) ==
    /\ c \in member
    /\ member' = member \ {c}
    /\ named' = named \ {c}
    /\ received' = [received EXCEPT ![c] = {}]
    /\ firstDue' = [firstDue EXCEPT ![c] = 0]
    /\ UNCHANGED <<state, roomVars, parties>>

Disconnect(c) ==
    /\ state[c] = "live"
    /\ state' = [state EXCEPT ![c] = "orphan"]
    /\ received' = [received EXCEPT ![c] = {}]
    /\ firstDue' = [firstDue EXCEPT ![c] = 0]
    /\ UNCHANGED <<member, named, roomVars, parties>>

(* Client::onRemove; of the object itself nothing is left. *)
Ended(c) ==
    /\ member' = member \ {c}
    /\ named' = named \ {c}

End(c) ==
    /\ state[c] # "free"
    /\ state' = [state EXCEPT ![c] = "free"]
    /\ Ended(c)
    /\ received' = [received EXCEPT ![c] = {}]
    /\ firstDue' = [firstDue EXCEPT ![c] = 0]
    /\ UNCHANGED <<roomVars, parties>>

(* Mutant of Revive: the history is not replayed. *)
ReviveWithoutHistory(cur, tgt) ==
    /\ cur # tgt
    /\ state[cur] = "live"
    /\ state[tgt] # "free"
    /\ state' = [state EXCEPT ![cur] = "free", ![tgt] = "live"]
    /\ Ended(cur)
    /\ received' = [received EXCEPT ![cur] = {}, ![tgt] = {}]
    /\ firstDue' = [firstDue EXCEPT ![cur] = 0, ![tgt] = 0]
    /\ UNCHANGED <<roomVars, parties>>

(* Client::onRevive: the peer of cur, which as the peer of tgt need not    *)
(* have received anything, takes tgt over, whether or not it had lost its  *)
(* own, and is sent the history of the room.                               *)
Revive(cur, tgt) ==
    /\ cur # tgt
    /\ state[cur] = "live"
    /\ state[tgt] # "free"
    /\ state' = [state EXCEPT ![cur] = "free", ![tgt] = "live"]
    /\ Ended(cur)
    /\ received' = [received EXCEPT ![cur] = {},
                                   ![tgt] = IF tgt \in member THEN ToSet(history) ELSE {}]
    /\ firstDue' = [firstDue EXCEPT ![cur] = 0, ![tgt] = 0]
    /\ UNCHANGED <<roomVars, parties>>

-----------------------------------------------------------------------------
(* Messages.                                                               *)

(* Mutant of AddToHistory: the bound is applied before the message is kept. *)
AddToHistoryLate(id) ==
    Append(IF Len(history) > MaxHistory THEN Tail(history) ELSE history, id)

(* Room::addToHistory: the oldest go when there are more than the bound. *)
AddToHistory(id) ==
    LET longer == Append(history, id) IN
    IF Len(longer) > MaxHistory THEN SubSeq(longer, Len(longer) - MaxHistory + 1, Len(longer))
    ELSE longer

(* The peers that client->sendPacket reaches of those in C. *)
Sent(C, id) ==
    received' = [d \in Client |-> IF d \in C /\ state[d] = "live"
                                   THEN received[d] \cup {id} ELSE received[d]]

(* A text, or a command that styles one, of a member with a nick.          *)
(* sendPacketToAll writes to the members that have a peer.                 *)
Say(c) ==
    /\ state[c] = "live"
    /\ c \in named
    /\ nextMessageId < MaxMessage
    /\ nextMessageId' = nextMessageId + 1
    /\ history' = AddToHistory(nextMessageId)
    /\ Sent(member, nextMessageId)
    /\ UNCHANGED <<clientVars, firstDue, parties>>

(* Mutant of Whisper: it has no addressee for the room, which keeps it. *)
WhisperToRoom(c, to) ==
    /\ state[c] = "live" /\ {c, to} \subseteq named /\ Len(parties) < MaxPrivate
    /\ parties' = Append(parties, {c, to})
    /\ Sent({c, to}, -(Len(parties) + 1))
    /\ history' = AddToHistory(-(Len(parties) + 1))
    /\ UNCHANGED <<clientVars, nextMessageId, firstDue>>

(* /msg and /umsg of a member with a nick to one with a nick, perhaps      *)
(* itself, and perhaps without a peer: then it is lost.                    *)
Whisper(c, to) ==
    /\ state[c] = "live" /\ {c, to} \subseteq named /\ Len(parties) < MaxPrivate
    /\ parties' = Append(parties, {c, to})
    /\ Sent({c, to}, -(Len(parties) + 1))
    /\ UNCHANGED <<clientVars, roomVars, firstDue>>

Next ==
    \E c \in Client :
         \/ Connect(c)
         \/ \E loadHistory, nick \in BOOLEAN : Join(c, loadHistory, nick)
         \/ ChangeNick(c)
         \/ Leave(c)
         \/ Disconnect(c)
         \/ End(c)
         \/ \E tgt \in Client : Revive(c, tgt)
         \/ Say(c)
         \/ \E to \in Client : Whisper(c, to)

Spec == Init /\ [][Next]_vars

-----------------------------------------------------------------------------
(* Safety.                                                                 *)

(* The history is the most recent public messages of the room, all of them *)
(* up to its bound, in the order of their ids and with none repeated.      *)
HistoryExact ==
    /\ Len(history) = IF nextMessageId < MaxHistory THEN nextMessageId ELSE MaxHistory
    /\ \A i \in DOMAIN history : history[i] = nextMessageId - Len(history) + i - 1

(* The peer of a live member has been sent every message of the history,   *)
(* whoever it is and whatever it missed while the session was an orphan;   *)
(* only a member that joined without load_history lacks the older ones.    *)
HistoryDelivered ==
    \A c \in member : state[c] = "live" =>
        \A i \in DOMAIN history : history[i] >= firstDue[c] => history[i] \in received[c]

(* A private message is for two: no other peer is ever sent it, not when   *)
(* it joins later, nor, as it is in no history, when it takes over the     *)
(* session of either.                                                      *)
PrivateConfined ==
    /\ \A c \in Client : \A id \in received[c] : id < 0 => c \in parties[-id]
    /\ \A i \in DOMAIN history : history[i] >= 0

=============================================================================
