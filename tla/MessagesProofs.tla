--------------------------- MODULE MessagesProofs ---------------------------
(***************************************************************************)
(* Proofs about Messages: the history of a room, to whom it is delivered   *)
(* and who is sent a private message, for any clients, any bound of the    *)
(* history and any number of messages.                                     *)
(***************************************************************************)
EXTENDS MCSent, TLAPS

(* Members are clients that exist. *)
MembersExist == \A c \in member : state[c] # "free"

(* A private message that was received was sent: it has its parties. *)
Recorded == \A c \in Client : \A id \in received[c] : id < 0 => -id \in DOMAIN parties

IInv ==
    TypeOK /\ MembersExist /\ Recorded /\ HistoryExact /\ HistoryDelivered /\ PrivateConfined

-----------------------------------------------------------------------------
(* h is the history with id at its end and, when there is no room for it,  *)
(* without its oldest message.                                             *)
Longer(h, id) ==
    /\ Len(h) = IF Len(history) < MaxHistory THEN Len(history) + 1 ELSE MaxHistory
    /\ \A i \in 1..Len(h) : h[i] = Append(history, id)[i + (Len(history) + 1 - Len(h))]
    /\ \A i \in 1..Len(h) : h[i] = id \/ \E k \in 1..Len(history) : h[i] = history[k]

(* What Room::addToHistory makes of a history within its bound.            *)
LEMMA Added ==
    ASSUME NEW S, NEW id \in S, history \in Seq(S), Len(history) <= MaxHistory,
           NEW h, h = AddToHistory(id)
    PROVE  h \in Seq(S) /\ Longer(h, id)
  <1> DEFINE longer == Append(history, id)
             L == Len(history)
  <1>1. MaxHistory \in Nat /\ L \in Nat
      BY MessagesAssumption
  <1>2. /\ longer \in Seq(S) /\ Len(longer) = L + 1
        /\ \A k \in 1..(L + 1) : longer[k] = IF k = L + 1 THEN id ELSE history[k]
      OBVIOUS
  <1> HIDE DEF longer
  <1>3. /\ h \in Seq(S)
        /\ Len(h) = IF L < MaxHistory THEN L + 1 ELSE MaxHistory
        /\ \A i \in 1..Len(h) : h[i] = longer[i + (L + 1 - Len(h))]
      <2>1. CASE L + 1 > MaxHistory
          <3>1. L = MaxHistory /\ L + 1 - L = 1
              BY <1>1, <2>1
          <3>2. h = SubSeq(longer, 2, L + 1)
              BY <1>1, <1>2, <2>1, <3>1 DEF AddToHistory, longer
          <3>3. /\ h \in Seq(S) /\ Len(h) = L
                /\ \A i \in 1..L : h[i] = longer[i + 1]
              BY <1>1, <1>2, <3>2
          <3> QED BY <3>1, <3>3
      <2>2. CASE L + 1 <= MaxHistory
          <3>1. h = longer
              BY <1>1, <1>2, <2>2 DEF AddToHistory, longer
          <3> QED BY <1>1, <1>2, <2>2, <3>1
      <2> QED BY <1>1, <2>1, <2>2
  <1>4. ASSUME NEW i \in 1..Len(h)
        PROVE  h[i] = id \/ \E k \in 1..Len(history) : h[i] = history[k]
      <2> DEFINE k == i + (L + 1 - Len(h))
      <2>1. k \in 1..(L + 1)
          <3>1. Len(h) \in Nat /\ Len(h) <= L + 1
              BY <1>1, <1>3
          <3> QED BY <1>1, <3>1
      <2>2. h[i] = longer[k]
          BY <1>3
      <2> HIDE DEF k
      <2>3. h[i] = IF k = L + 1 THEN id ELSE history[k]
          BY <1>2, <2>1, <2>2
      <2>4. k = L + 1 \/ k \in 1..L
          BY <1>1, <2>1
      <2> QED BY <2>3, <2>4
  <1> QED BY <1>3, <1>4 DEF longer, Longer

(* What a history holds are ids that were given out. *)
LEMMA HistoryIds ==
    ASSUME TypeOK, HistoryExact
    PROVE  /\ \A i \in DOMAIN history :
                 history[i] \in Int /\ 0 <= history[i] /\ history[i] < nextMessageId
           /\ ToSet(history) \in SUBSET ((-MaxPrivate)..(MaxMessage - 1))
  <1>1. nextMessageId \in Nat /\ Len(history) \in Nat /\ DOMAIN history = 1..Len(history)
      BY DEF TypeOK
  <1>2. \A i \in DOMAIN history : history[i] \in 0..(MaxMessage - 1)
      <2> DEFINE S == 0..(MaxMessage - 1)
      <2>1. history \in Seq(S)
          BY DEF TypeOK
      <2> HIDE DEF S
      <2>2. \A i \in DOMAIN history : history[i] \in S
          BY <2>1
      <2> QED BY <2>2 DEF S
  <1>3. \A i \in DOMAIN history : history[i] = nextMessageId - Len(history) + i - 1
      BY DEF HistoryExact
  <1>4. ToSet(history) \in SUBSET ((-MaxPrivate)..(MaxMessage - 1))
      BY <1>2, MessagesAssumption DEF ToSet
  <1> QED BY <1>1, <1>2, <1>3, <1>4, MessagesAssumption

-----------------------------------------------------------------------------
(* Most steps send nothing new.                                            *)

(* Such a step leaves the room and the private messages.  A peer whose     *)
(* member stays in the room with it has received and is due what it was;   *)
(* other peers have received nothing, or the history.                      *)
Settled ==
    /\ UNCHANGED <<nextMessageId, history, parties>>
    /\ \A c \in Client :
          \/ received'[c] = received[c] /\ firstDue'[c] = firstDue[c]
          \/ received'[c] = ToSet(history)
          \/ received'[c] = {}
    /\ \A c \in member' : state'[c] = "live" =>
          \/ c \in member /\ state[c] = "live" /\ UNCHANGED <<received[c], firstDue[c]>>
          \/ received'[c] = ToSet(history)
          \/ firstDue'[c] = nextMessageId
    /\ \A c \in member' : state'[c] # "free"

(* A settled step keeps the invariant if it keeps the types. *)
LEMMA SettledKeeps == IInv /\ TypeOK' /\ Settled => IInv'
  <1> SUFFICES ASSUME IInv, TypeOK', Settled PROVE IInv'
      OBVIOUS
  <1> USE DEF IInv
  <1>1. history' = history /\ nextMessageId' = nextMessageId /\ parties' = parties
      BY DEF Settled
  <1>2. ToSet(history) = {history[i] : i \in DOMAIN history}
      BY DEF ToSet
  <1>3. \A i \in DOMAIN history :
            history[i] \in Int /\ 0 <= history[i] /\ history[i] < nextMessageId
      BY HistoryIds
  <1>4. MembersExist'
      BY DEF Settled, MembersExist
  <1>5. Recorded'
      BY <1>1, <1>2, <1>3 DEF Settled, Recorded
  <1>6. HistoryExact'
      BY <1>1 DEF HistoryExact
  <1>7. HistoryDelivered'
      <2> SUFFICES ASSUME NEW c \in member', state'[c] = "live",
                          NEW i \in DOMAIN history, history[i] >= firstDue'[c]
                   PROVE  history[i] \in received'[c]
          BY <1>1 DEF HistoryDelivered
      <2>1. CASE c \in member /\ state[c] = "live" /\ UNCHANGED <<received[c], firstDue[c]>>
          BY <2>1 DEF HistoryDelivered
      <2>2. CASE received'[c] = ToSet(history)
          BY <1>2, <2>2
      <2>3. CASE firstDue'[c] = nextMessageId
          BY <1>3, <2>3 DEF TypeOK
      <2> QED BY <2>1, <2>2, <2>3 DEF Settled
  <1>8. PrivateConfined'
      BY <1>1, <1>2, <1>3 DEF Settled, PrivateConfined
  <1> QED BY <1>4, <1>5, <1>6, <1>7, <1>8

(* Sessions come and go, and take their members with them. *)
LEMMA SessionsSettle ==
    ASSUME IInv, NEW c \in Client, Connect(c) \/ Disconnect(c) \/ End(c)
    PROVE  TypeOK' /\ Settled
  <1> USE DEF IInv, roomVars, deliveryVars
  <1>1. CASE Connect(c)
      BY <1>1 DEF Connect, TypeOK, Settled, MembersExist
  <1>2. CASE Disconnect(c)
      BY <1>2, MessagesAssumption DEF Disconnect, TypeOK, Settled, MembersExist
  <1>3. CASE End(c)
      BY <1>3, MessagesAssumption DEF End, Ended, TypeOK, Settled, MembersExist
  <1> QED BY <1>1, <1>2, <1>3

(* A resumed session is sent the history, whatever its peer was sent       *)
(* before as the peer of another.                                          *)
LEMMA ReviveSettles ==
    ASSUME IInv, NEW cur \in Client, NEW tgt \in Client, Revive(cur, tgt)
    PROVE  TypeOK' /\ Settled
  <1> USE DEF IInv, roomVars
  <1>1. ToSet(history) \in SUBSET ((-MaxPrivate)..(MaxMessage - 1))
      BY HistoryIds
  <1>2. /\ received' \in [Client -> SUBSET ((-MaxPrivate)..(MaxMessage - 1))]
        /\ received'[tgt] = IF tgt \in member THEN ToSet(history) ELSE {}
        /\ received'[cur] = {}
        /\ \A c \in Client \ {cur, tgt} : received'[c] = received[c] /\ firstDue'[c] = firstDue[c]
      BY <1>1 DEF Revive, TypeOK
  <1>3. /\ state' \in [Client -> {"free", "live", "orphan"}]
        /\ firstDue' \in [Client -> 0..MaxMessage]
        /\ member' \in SUBSET Client /\ named' \in SUBSET member'
        /\ UNCHANGED <<nextMessageId, history, parties>>
      <2>1. 0 \in 0..MaxMessage
          BY MessagesAssumption
      <2> QED BY <2>1 DEF Revive, Ended, TypeOK
  <1>4. TypeOK'
      BY <1>2, <1>3 DEF TypeOK
  <1>5. Settled
      BY <1>2 DEF Revive, Ended, TypeOK, Settled, MembersExist
  <1> QED BY <1>4, <1>5

(* Who joins is sent the history or is due what comes next only. *)
LEMMA JoinSettles ==
    ASSUME IInv, NEW c \in Client, NEW loadHistory \in BOOLEAN, NEW nick \in BOOLEAN,
           Join(c, loadHistory, nick)
    PROVE  TypeOK' /\ Settled
  <1> USE DEF IInv, roomVars
  <1>1. ToSet(history) \in SUBSET ((-MaxPrivate)..(MaxMessage - 1))
      BY HistoryIds
  <1>2. /\ received' \in [Client -> SUBSET ((-MaxPrivate)..(MaxMessage - 1))]
        /\ received'[c] = IF loadHistory THEN ToSet(history) ELSE {}
        /\ \A d \in Client \ {c} : received'[d] = received[d] /\ firstDue'[d] = firstDue[d]
        /\ firstDue' \in [Client -> 0..MaxMessage]
        /\ firstDue'[c] = IF loadHistory THEN 0 ELSE nextMessageId
      BY <1>1, MessagesAssumption DEF Join, TypeOK
  <1>3. TypeOK'
      BY <1>2 DEF Join, TypeOK
  <1>4. Settled
      BY <1>2 DEF Join, TypeOK, Settled, MembersExist
  <1> QED BY <1>3, <1>4

(* /nick and leaving. *)
LEMMA MembersSettle ==
    ASSUME IInv, NEW c \in Client, ChangeNick(c) \/ Leave(c)
    PROVE  TypeOK' /\ Settled
  <1> USE DEF IInv, roomVars, deliveryVars
  <1>1. CASE ChangeNick(c)
      BY <1>1 DEF ChangeNick, TypeOK, Settled, MembersExist
  <1>2. CASE Leave(c)
      BY <1>2, MessagesAssumption DEF Leave, TypeOK, Settled, MembersExist
  <1> QED BY <1>1, <1>2

-----------------------------------------------------------------------------
(* The steps that send.                                                    *)

(* A public message takes the next id and goes to the history and to every *)
(* member with a peer in one step.                                         *)
LEMMA SayKeeps ==
    ASSUME IInv, NEW c \in Client, Say(c)
    PROVE  IInv'
  <1> USE DEF IInv, clientVars
  <1> DEFINE S == 0..(MaxMessage - 1)
             id == nextMessageId
             L == Len(history)
  <1>1. /\ UNCHANGED <<state, member, named, firstDue, parties>>
        /\ id \in Nat /\ id < MaxMessage /\ nextMessageId' = id + 1
        /\ history' = AddToHistory(id)
      BY DEF Say, TypeOK
  <1>2. id \in S /\ MaxHistory \in Nat /\ MaxMessage \in Nat /\ MaxPrivate \in Nat
      BY <1>1, MessagesAssumption
  <1>3. history \in Seq(S) /\ L \in Nat /\ L <= MaxHistory
      BY <1>1, <1>2 DEF TypeOK, HistoryExact
  <1>4. /\ history' \in Seq(S)
        /\ Len(history') = IF L < MaxHistory THEN L + 1 ELSE MaxHistory
        /\ \A i \in 1..Len(history') :
              history'[i] = Append(history, id)[i + (L + 1 - Len(history'))]
        /\ \A i \in 1..Len(history') :
              history'[i] = id \/ \E k \in 1..L : history'[i] = history[k]
      <2> HIDE DEF S
      <2>1. id \in S /\ history \in Seq(S) /\ Len(history) <= MaxHistory
          BY <1>2, <1>3
      <2>2. history' = AddToHistory(id)
          BY <1>1
      <2> HIDE DEF id
      <2>3. history' \in Seq(S) /\ Longer(history', id)
          BY <2>1, <2>2, Added
      <2> QED BY <2>3 DEF Longer
  <1>5. DOMAIN history = 1..L /\ DOMAIN history' = 1..Len(history')
      BY <1>3, <1>4
  <1>6. /\ received' \in [Client -> SUBSET ((-MaxPrivate)..(MaxMessage - 1))]
        /\ \A d \in Client : received'[d] =
              IF d \in member /\ state[d] = "live" THEN received[d] \cup {id} ELSE received[d]
      BY <1>1, <1>2 DEF Say, Sent, TypeOK
  <1>7. TypeOK'
      BY <1>1, <1>2, <1>4, <1>6 DEF TypeOK
  <1>8. MembersExist'
      BY <1>1 DEF MembersExist
  <1>9. Recorded'
      BY <1>1, <1>6 DEF Recorded
  <1>10. HistoryExact'
      <2>1. L = IF id < MaxHistory THEN id ELSE MaxHistory
          BY DEF HistoryExact
      <2>2. Len(history') = IF id + 1 < MaxHistory THEN id + 1 ELSE MaxHistory
          BY <1>1, <1>2, <1>3, <1>4, <2>1
      <2>3. ASSUME NEW i \in 1..Len(history')
            PROVE  history'[i] = id + 1 - Len(history') + i - 1
          <3> DEFINE k == i + (L + 1 - Len(history'))
          <3>1. Len(history') \in Nat /\ Len(history') <= L + 1
              BY <1>2, <1>3, <1>4
          <3>2. k \in 1..(L + 1)
              BY <1>3, <3>1
          <3>3. history'[i] = IF k = L + 1 THEN id ELSE history[k]
              <4>1. history'[i] = Append(history, id)[k]
                  BY <1>4
              <4> HIDE DEF k, S, id
              <4> QED BY <1>2, <1>3, <3>2, <4>1
          <3>4. CASE k = L + 1
              BY <1>1, <1>3, <3>1, <3>3, <3>4
          <3>5. CASE k # L + 1
              <4>1. k \in DOMAIN history
                  BY <1>3, <1>5, <3>2, <3>5
              <4>2. history'[i] = id - L + k - 1
                  BY <3>3, <3>5, <4>1 DEF HistoryExact
              <4> QED BY <1>1, <1>3, <3>1, <4>2
          <3> QED BY <3>4, <3>5
      <2> QED BY <1>1, <1>5, <2>2, <2>3 DEF HistoryExact
  <1>11. HistoryDelivered'
      <2> SUFFICES ASSUME NEW d \in member, state[d] = "live", NEW i \in 1..Len(history'),
                          history'[i] >= firstDue[d]
                   PROVE  history'[i] \in received'[d]
          BY <1>1, <1>5 DEF HistoryDelivered
      <2>1. received'[d] = received[d] \cup {id}
          BY <1>6 DEF TypeOK
      <2>2. CASE history'[i] = id
          BY <2>1, <2>2
      <2>3. CASE \E k \in 1..L : history'[i] = history[k]
          BY <1>5, <2>1, <2>3 DEF HistoryDelivered
      <2> QED BY <1>4, <2>2, <2>3
  <1>12. PrivateConfined'
      <2>1. \A d \in Client : \A k \in received'[d] : k < 0 => k \in received[d]
          BY <1>1, <1>6
      <2>2. \A d \in Client : \A k \in received'[d] : k < 0 => d \in parties'[-k]
          BY <1>1, <2>1 DEF PrivateConfined
      <2>3. \A i \in 1..Len(history') : history'[i] >= 0
          <3> SUFFICES ASSUME NEW i \in 1..Len(history') PROVE history'[i] >= 0
              OBVIOUS
          <3>1. CASE history'[i] = id
              BY <1>1, <3>1
          <3>2. CASE \E k \in 1..L : history'[i] = history[k]
              BY <1>5, <3>2 DEF PrivateConfined
          <3> QED BY <1>4, <3>1, <3>2
      <2> QED BY <1>5, <2>2, <2>3 DEF PrivateConfined
  <1> QED BY <1>7, <1>8, <1>9, <1>10, <1>11, <1>12

(* A private message is sent to its two parties and is in no history. *)
LEMMA WhisperKeeps ==
    ASSUME IInv, NEW c \in Client, NEW to \in Client, Whisper(c, to)
    PROVE  IInv'
  <1> USE DEF IInv, clientVars, roomVars
  <1> DEFINE n == Len(parties) + 1
  <1>1. /\ UNCHANGED <<state, member, named, nextMessageId, history, firstDue>>
        /\ parties' = Append(parties, {c, to}) /\ Len(parties) < MaxPrivate
      BY DEF Whisper
  <1>2. /\ n \in 1..MaxPrivate /\ MaxMessage \in Nat /\ MaxPrivate \in Nat
        /\ parties' \in Seq(SUBSET Client) /\ DOMAIN parties' = 1..n /\ Len(parties') = n
        /\ parties'[n] = {c, to} /\ DOMAIN parties = 1..(n - 1)
        /\ \A k \in DOMAIN parties : parties'[k] = parties[k]
      BY <1>1, MessagesAssumption DEF TypeOK
  <1>3. \A d \in Client : received'[d] =
            IF d \in {c, to} /\ state[d] = "live" THEN received[d] \cup {-n} ELSE received[d]
      BY DEF Whisper, Sent
  <1> HIDE DEF n
  <1>4. received' \in [Client -> SUBSET ((-MaxPrivate)..(MaxMessage - 1))]
      <2>1. -n \in (-MaxPrivate)..(MaxMessage - 1)
          BY <1>2
      <2>2. received' = [d \in Client |-> received'[d]]
          BY DEF Whisper, Sent
      <2> QED BY <1>3, <2>1, <2>2 DEF TypeOK
  <1>5. TypeOK'
      BY <1>1, <1>2, <1>4 DEF TypeOK
  <1>6. MembersExist' /\ HistoryExact'
      BY <1>1 DEF MembersExist, HistoryExact
  <1>7. -(-n) = n
      BY <1>2
  <1>8. \A d \in Client : \A id \in received'[d] :
            id \in received[d] \/ (id = -n /\ d \in {c, to})
      BY <1>3
  <1>9. Recorded'
      <2> SUFFICES ASSUME NEW d \in Client, NEW id \in received'[d], id < 0
                   PROVE  -id \in DOMAIN parties'
          BY DEF Recorded
      <2>1. CASE id \in received[d]
          <3>1. -id \in DOMAIN parties
              BY <2>1 DEF Recorded
          <3> QED BY <1>2, <3>1
      <2>2. CASE id = -n
          BY <1>2, <1>7, <2>2
      <2> QED BY <1>8, <2>1, <2>2
  <1>10. HistoryDelivered'
      BY <1>1, <1>3 DEF HistoryDelivered, TypeOK
  <1>11. PrivateConfined'
      <2>1. ASSUME NEW d \in Client, NEW id \in received'[d], id < 0
            PROVE  d \in parties'[-id]
          <3>1. CASE id \in received[d]
              <4>1. -id \in DOMAIN parties /\ d \in parties[-id]
                  BY <2>1, <3>1 DEF Recorded, PrivateConfined
              <4> QED BY <1>2, <4>1
          <3>2. CASE id = -n /\ d \in {c, to}
              BY <1>2, <1>7, <3>2
          <3> QED BY <1>8, <3>1, <3>2
      <2> QED BY <1>1, <2>1 DEF PrivateConfined
  <1> QED BY <1>5, <1>6, <1>9, <1>10, <1>11

-----------------------------------------------------------------------------
(* The invariant.                                                          *)

(* The room begins empty, with nothing said. *)
LEMMA InitHolds == Init => IInv
  <1> SUFFICES ASSUME Init PROVE IInv
      OBVIOUS
  <1>1. TypeOK
      <2>1. /\ history \in Seq(0..(MaxMessage - 1)) /\ nextMessageId \in 0..MaxMessage
            /\ parties \in Seq(SUBSET Client) /\ Len(parties) <= MaxPrivate
          BY MessagesAssumption DEF Init
      <2>2. 0 \in 0..MaxMessage
          BY MessagesAssumption
      <2>3. /\ state \in [Client -> {"free", "live", "orphan"}]
            /\ member \in SUBSET Client /\ named \in SUBSET member
            /\ received \in [Client -> SUBSET ((-MaxPrivate)..(MaxMessage - 1))]
            /\ firstDue \in [Client -> 0..MaxMessage]
          BY <2>2 DEF Init
      <2> QED BY <2>1, <2>3 DEF TypeOK
  <1>2. HistoryExact
      BY MessagesAssumption DEF Init, HistoryExact
  <1>3. MembersExist /\ Recorded /\ HistoryDelivered /\ PrivateConfined
      BY DEF Init, MembersExist, Recorded, HistoryDelivered, PrivateConfined
  <1> QED BY <1>1, <1>2, <1>3 DEF IInv

(* The invariant is inductive. *)
LEMMA Inductive == IInv /\ [Next]_vars => IInv'
  <1>1. IInv /\ Next => IInv'
      BY SessionsSettle, ReviveSettles, JoinSettles, MembersSettle, SettledKeeps,
         SayKeeps, WhisperKeeps DEF Next
  <1>2. IInv /\ UNCHANGED vars => IInv'
      BY DEF vars, clientVars, roomVars, deliveryVars, IInv, TypeOK, MembersExist, Recorded,
             HistoryExact, HistoryDelivered, PrivateConfined
  <1> QED BY <1>1, <1>2

(* The invariant holds in every reachable state of the room. *)
THEOREM Invariant == Spec => []IInv
  BY InitHolds, Inductive, PTL DEF Spec

(* The history, what was received and the parties have their types. *)
THEOREM TypesCorrect == Spec => []TypeOK
  <1>1. IInv => TypeOK
      BY DEF IInv
  <1> QED BY <1>1, Invariant, PTL

(* HistoryExact holds for every bound, zero included: addToHistory after   *)
(* newMessageId keeps the latest ids in order and drops none too early.    *)
THEOREM HistoryExactHolds == Spec => []HistoryExact
  <1>1. IInv => HistoryExact
      BY DEF IInv
  <1> QED BY <1>1, Invariant, PTL

(* HistoryDelivered holds: sendPacketToAll, the replay of PacketJoin and   *)
(* that of onRevive leave no gap for a live member, however often its      *)
(* session was lost and resumed.                                           *)
THEOREM HistoryDeliveredHolds == Spec => []HistoryDelivered
  <1>1. IInv => HistoryDelivered
      BY DEF IInv
  <1> QED BY <1>1, Invariant, PTL

(* PrivateConfined holds: what msg and umsg send never reaches a third     *)
(* peer through the history, which is all that is ever sent again.         *)
THEOREM PrivateConfinedHolds == Spec => []PrivateConfined
  <1>1. IInv => PrivateConfined
      BY DEF IInv
  <1> QED BY <1>1, Invariant, PTL

-----------------------------------------------------------------------------
(* The two components side by side (MCSent).                               *)

(* A behaviour of the two is one of each, with the other's steps for       *)
(* stuttering ones.                                                        *)
LEMMA PartsBehave == SpecOfParts => Spec /\ List!Spec
  <1>1. InitEach => Init /\ List!Init
      BY DEF InitEach
  <1>2. [NextOfPart]_<<vars, listVars, part>> => [Next]_vars
      BY DEF NextOfPart
  <1>3. [NextOfPart]_<<vars, listVars, part>> => [List!Next]_(List!vars)
      BY DEF NextOfPart, listVars, List!vars
  <1> QED BY <1>1, <1>2, <1>3, PTL DEF SpecOfParts, Spec, List!Spec

(* Both components keep the types of their state. *)
THEOREM TypesOKHolds == SpecOfParts => []TypesOK
  <1>1. SpecOfParts => []TypeOK
      BY PartsBehave, TypesCorrect
  <1>2. SpecOfParts => []List!TypeOK
      BY PartsBehave, SentAssumption, List!TypesCorrect
  <1> QED BY <1>1, <1>2, PTL DEF TypesOK

(* RosterExact holds: what a peer makes of the packets it is sent is the   *)
(* list of the room it is in, for any clients, nicks, looks and ids.       *)
THEOREM RosterExactHolds == SpecOfParts => []RosterExact
  <1>1. SpecOfParts => []List!RosterExact
      BY PartsBehave, SentAssumption, List!RosterExactHolds
  <1> QED BY <1>1, PTL DEF RosterExact

=============================================================================
