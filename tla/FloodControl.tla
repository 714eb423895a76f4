---------------------------- MODULE FloodControl ----------------------------
(***************************************************************************)
(* The flood control of PacketMessage::process (src/packets.cpp): two      *)
(* fields of Client, lastMessageTime and messageCounter, and the clock.    *)
(* Time is counted in the seconds of time(nullptr).                        *)
(***************************************************************************)
EXTENDS Integers

CONSTANTS Client,
          FloodWindow,  \* 1: the counter is reset after more than this
          FloodLimit    \* 3: a counter above this refuses the message

FloodAssumption ==
    /\ FloodWindow \in Nat
    /\ FloodLimit \in Nat

VARIABLES state,          \* per client: "free", "live" or "orphan"
          sinceReset,     \* per client: time(nullptr) - lastMessageTime
          messageCounter, \* field of Client
          passed          \* messages passed in this second and the s - 1 before it (history)

floodVars == <<sinceReset, messageCounter, passed>>
vars == <<state, floodVars>>

(* Where the model stops counting: only "> FloodWindow" is asked. *)
MaxSince == FloodWindow + 1

(* This second, and as many before it as two windows touch. *)
Seconds == 1..(FloodWindow + 2)
NonePassed == [s \in Seconds |-> 0]

TypeOK ==
    /\ state \in [Client -> {"free", "live", "orphan"}]
    /\ sinceReset \in [Client -> 0..MaxSince]
    /\ messageCounter \in [Client -> 0..(FloodLimit + 1)]
    /\ passed \in [Client -> [Seconds -> Nat]]

Init ==
    /\ state = [c \in Client |-> "free"]
    /\ sinceReset = [c \in Client |-> 0]
    /\ messageCounter = [c \in Client |-> 0]
    /\ passed = [c \in Client |-> NonePassed]

-----------------------------------------------------------------------------

(* The constructor of Client: lastMessageTime is now. *)
Connect(c) ==
    /\ state[c] = "free"
    /\ state' = [state EXCEPT ![c] = "live"]
    /\ UNCHANGED floodVars

Disconnect(c) ==
    /\ state[c] = "live"
    /\ state' = [state EXCEPT ![c] = "orphan"]
    /\ UNCHANGED floodVars

Forget(c) ==
    /\ sinceReset' = [sinceReset EXCEPT ![c] = 0]
    /\ messageCounter' = [messageCounter EXCEPT ![c] = 0]
    /\ passed' = [passed EXCEPT ![c] = NonePassed]

End(c) ==
    /\ state[c] # "free"
    /\ state' = [state EXCEPT ![c] = "free"]
    /\ Forget(c)

(* Resumption: the object of cur goes, that of tgt stays as it was. *)
Revive(cur, tgt) ==
    /\ cur # tgt
    /\ state[cur] = "live"
    /\ state[tgt] # "free"
    /\ state' = [state EXCEPT ![cur] = "free", ![tgt] = "live"]
    /\ Forget(cur)

(* Mutant of Due: the window is off by one. *)
DueEarly(c) == sinceReset[c] >= FloodWindow

Due(c) == sinceReset[c] > FloodWindow
Counter(c) == IF Due(c) THEN 0 ELSE messageCounter[c]

(* A message that passes, whatever becomes of it: it reaches a room, is a  *)
(* command, or is for a room the client is not in.                         *)
Pass(c) ==
    /\ state[c] = "live"
    /\ Counter(c) <= FloodLimit
    /\ messageCounter' = [messageCounter EXCEPT ![c] = Counter(c) + 1]
    /\ sinceReset' = [sinceReset EXCEPT ![c] = IF Due(c) THEN 0 ELSE @]
    /\ passed' = [passed EXCEPT ![c] = [s \in Seconds |-> @[s] + 1]]
    /\ UNCHANGED state

(* A blank text is refused before it counts, and after a due reset. A      *)
(* message that is refused as too frequent changes nothing: a reset is     *)
(* never due then.                                                         *)
Blank(c) ==
    /\ state[c] = "live"
    /\ Due(c)
    /\ messageCounter' = [messageCounter EXCEPT ![c] = 0]
    /\ sinceReset' = [sinceReset EXCEPT ![c] = 0]
    /\ UNCHANGED <<state, passed>>

(* A second passes. *)
Tick ==
    /\ sinceReset' = [c \in Client |->
                         IF state[c] = "free" \/ sinceReset[c] = MaxSince
                         THEN sinceReset[c] ELSE sinceReset[c] + 1]
    /\ passed' = [c \in Client |-> [s \in Seconds |-> IF s = 1 THEN 0 ELSE passed[c][s - 1]]]
    /\ UNCHANGED <<state, messageCounter>>

Next ==
    \/ \E c \in Client :
         \/ Connect(c)
         \/ Disconnect(c)
         \/ End(c)
         \/ Pass(c)
         \/ Blank(c)
         \/ \E tgt \in Client : Revive(c, tgt)
    \/ Tick

Spec == Init /\ [][Next]_vars

-----------------------------------------------------------------------------
(* Safety.                                                                 *)

(* In FloodWindow + 2 successive seconds at most two allowances of         *)
(* FloodLimit + 1 messages of a session pass: the counter is reset lazily, *)
(* by the next message, so a session may use one allowance late and the    *)
(* next one early, but never three; and to lose the connection and resume  *)
(* does not renew it.                                                      *)
FloodBounded == \A c \in Client : passed[c][FloodWindow + 2] <= 2 * (FloodLimit + 1)

=============================================================================
