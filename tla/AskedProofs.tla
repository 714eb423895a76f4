----------------------------- MODULE AskedProofs ----------------------------
(***************************************************************************)
(* Proofs about what becomes of what a peer sends: what a command that     *)
(* reports shows and to whom, and whose authority changes the lists of a   *)
(* room; what is made of a line; how many messages pass the flood control; *)
(* how requests are answered. For any clients, rooms and accounts, any     *)
(* lines, any limits and any number of requests.                           *)
(***************************************************************************)
EXTENDS MCAsked, Sequences, FiniteSetTheorems, TLAPS

-----------------------------------------------------------------------------
(* Commands.                                                               *)

(* TypeOK, with the type of named said in full. *)
Types == TypeOK /\ named \in [Room -> SUBSET Client]

IInv == Types /\ ReportsExact

-----------------------------------------------------------------------------
(* The commands that report change nothing; those that act are none of     *)
(* them.                                                                   *)
LEMMA ReportingChangesNothing ==
    ASSUME NEW c, NEW r, NEW cmd \in Reporting, Acts(c, r, cmd)
    PROVE  UNCHANGED <<rights, banned>>
  BY DEF Acts, Reporting

(* CommandHelp's texts, put together by the same conditions, show what the *)
(* processors would run, and the commands for users in any case.           *)
LEMMA HelpShowsWhatRuns ==
    ASSUME TypeOK, NEW c \in Client, NEW r \in Room
    PROVE  Help(c, r) = {cmd \in Command : Runs(c, r, cmd)}
                            \cup (IF c \in named[r] THEN {} ELSE CmdUser)
  <1> DEFINE H == {CmdAll, CmdUser,
                   IF uid[c] > 0 THEN CmdAuthUser ELSE {},
                   IF IsOwner(c, r) THEN CmdOwner ELSE {},
                   IF IsModer(c, r) THEN CmdModer ELSE {},
                   IF IsAdmin(c) THEN CmdAdmin ELSE {}}
  <1>1. Command = CmdAll \cup CmdUser \cup CmdAuthUser \cup CmdModer \cup CmdOwner \cup CmdAdmin
      BY DEF Command
  <1>2. \A cmd : cmd \in Help(c, r) <=>
            \/ cmd \in CmdAll \cup CmdUser
            \/ uid[c] > 0 /\ cmd \in CmdAuthUser
            \/ IsOwner(c, r) /\ cmd \in CmdOwner
            \/ IsModer(c, r) /\ cmd \in CmdModer
            \/ IsAdmin(c) /\ cmd \in CmdAdmin
      BY DEF Help
  <1>3. \A cmd : cmd \in Help(c, r) <=>
            \/ cmd \in Command /\ Runs(c, r, cmd)
            \/ c \notin named[r] /\ cmd \in CmdUser
      BY <1>1, <1>2 DEF Runs
  <1> QED BY <1>3

(* A right to a report is the right its processor asks for. *)
LEMMA ReportsAsk ==
    ASSUME NEW c, NEW r, NEW cmd, Runs(c, r, cmd)
    PROVE  /\ cmd \in {"userlist", "banlist", "moderlist"} => IsModer(c, r)
           /\ cmd \in {"roomlist", "ipcounter"} => IsAdmin(c)
           /\ cmd = "myrooms" => uid[c] > 0
           /\ cmd \in {"addmoder", "delmoder"} => IsOwner(c, r)
           /\ cmd \in {"banuid", "banip", "bannick", "unbanuid", "unbanip", "unbannick"} =>
                 IsModer(c, r)
  BY DEF Runs, CmdAll, CmdUser, CmdAuthUser, CmdModer, CmdOwner, CmdAdmin

-----------------------------------------------------------------------------

(* processCommand reports exactly, whichever command was given.            *)
LEMMA ProcessCommandReports ==
    ASSUME TypeOK, NEW c \in Client, NEW r \in Room, NEW cmd \in Command \cup {"none such"},
           ProcessCommand(c, r, cmd)
    PROVE  ReportsExact'
  <1>1. CASE ~Runs(c, r, cmd)
      <2>1. did' = Nothing
          BY <1>1, Zenon DEF ProcessCommand
      <2>2. did'.ran = FALSE
          BY <2>1 DEF Nothing
      <2> QED BY <2>2 DEF ReportsExact, HelpExact, ReportsConfined
  <1>2. CASE Runs(c, r, cmd) /\ cmd \notin Reporting
      <2>1. did' = [by |-> c, in |-> r, cmd |-> "other", ran |-> TRUE, report |-> Report(c, r, cmd)]
          BY <1>2, Zenon DEF ProcessCommand
      <2>2. did'.cmd = "other"
          BY <2>1
      <2> QED BY <2>2 DEF ReportsExact, HelpExact, ReportsConfined
  <1>3. CASE Runs(c, r, cmd) /\ cmd \in Reporting
      <2>1. /\ did' = [by |-> c, in |-> r, cmd |-> cmd, ran |-> TRUE, report |-> Report(c, r, cmd)]
            /\ Acts(c, r, cmd)
          BY <1>3, Zenon DEF ProcessCommand
      <2>2. /\ did'.by = c /\ did'.in = r /\ did'.cmd = cmd /\ did'.report = Report(c, r, cmd)
            /\ UNCHANGED <<uid, member, named, owner, moderators, banned>>
          BY <1>3, <2>1, ReportingChangesNothing DEF rights
      <2>3. HelpExact'
          <3> SUFFICES ASSUME cmd = "help" PROVE HelpExact'
              BY <2>2 DEF HelpExact
          <3>1. did'.report = Help(c, r)
              BY <2>2 DEF Report
          <3>2. \A k : Runs(c, r, k)' <=> Runs(c, r, k)
              BY <2>2 DEF Runs, IsAdmin, IsOwner, IsModer
          <3> QED BY <2>2, <3>1, <3>2, HelpShowsWhatRuns DEF HelpExact
      <2>4. ReportsConfined'
          <3>1. /\ cmd \in {"userlist", "banlist", "moderlist"} => IsModer(c, r)'
                /\ cmd \in {"roomlist", "ipcounter"} => IsAdmin(c)'
                /\ cmd = "myrooms" => uid[c] > 0
              BY <1>3, <2>2, ReportsAsk DEF IsAdmin, IsOwner, IsModer
          <3>2. cmd = "myrooms" =>
                    /\ uid[c] # 0
                    /\ \A q \in Room : q \in did'.report <=>
                          owner[q] # NoRoom /\ IsOwner(c, q) /\ uid[c] = owner[q]
              BY <2>2, <3>1 DEF Report, MyRooms, Exists, IsOwner
          <3> QED BY <2>2, <3>1, <3>2 DEF ReportsConfined, IsAdmin, IsOwner
      <2> QED BY <2>3, <2>4 DEF ReportsExact
  <1> QED BY <1>1, <1>2, <1>3

(* What AuthorityHeld says of one room in a step. *)
Authority(r) ==
    /\ moderators'[r] # moderators[r] =>
          owner'[r] = NoRoom \/ (did'.ran /\ IsOwner(did'.by, r))
    /\ banned'[r] # banned[r] =>
          owner'[r] = NoRoom \/ (did'.ran /\ IsModer(did'.by, r))
    /\ owner'[r] # owner[r] /\ owner'[r] # NoRoom => moderators'[r] = {} /\ banned'[r] = {}

(* A command that acts changes one room, which exists, in the ways that    *)
(* its processor guards.                                                   *)
LEMMA ActsOnOneRoom ==
    ASSUME Types, NEW c \in Client, NEW r \in Room, NEW cmd, c \in member[r], Acts(c, r, cmd)
    PROVE  /\ Types'
           /\ UNCHANGED <<uid, owner>>
           /\ \A q \in Room \ {r} : moderators'[q] = moderators[q] /\ banned'[q] = banned[q]
           /\ moderators'[r] # moderators[r] => cmd \in {"addmoder", "delmoder"}
           /\ banned'[r] # banned[r] =>
                 cmd \in {"banuid", "banip", "bannick", "unbanuid", "unbanip", "unbannick"}
  <1> USE DEF Types, rights
  <1>1. owner[r] # NoRoom
      BY DEF TypeOK
  <1>2. UNCHANGED <<uid, owner>>
      BY DEF Acts, Removed
  <1>3. /\ member' \in [Room -> SUBSET Client] /\ named' \in [Room -> SUBSET Client]
        /\ \A q \in Room : named'[q] \subseteq member'[q] /\ member'[q] \subseteq member[q]
      BY DEF Acts, Removed, TypeOK
  <1>4. /\ moderators' \in [Room -> SUBSET (Uid \ {0})]
        /\ \A q \in Room \ {r} : moderators'[q] = moderators[q]
        /\ moderators'[r] # moderators[r] => cmd \in {"addmoder", "delmoder"}
      BY CommandsAssumption DEF Acts, TypeOK
  <1>5. /\ banned' \in [Room -> SUBSET Uid]
        /\ \A q \in Room \ {r} : banned'[q] = banned[q]
        /\ banned'[r] # banned[r] =>
              cmd \in {"banuid", "banip", "bannick", "unbanuid", "unbanip", "unbannick"}
      BY CommandsAssumption DEF Acts, TypeOK
  <1>6. Types'
      BY <1>1, <1>2, <1>3, <1>4, <1>5 DEF TypeOK
  <1> QED BY <1>2, <1>4, <1>5, <1>6

(* A command keeps the invariant and acts by the rights of its speaker.    *)
LEMMA ProcessCommandKeeps ==
    ASSUME IInv, NEW c \in Client, NEW r \in Room, NEW cmd \in Command \cup {"none such"},
           ProcessCommand(c, r, cmd)
    PROVE  IInv' /\ \A q \in Room : Authority(q)
  <1> USE DEF IInv
  <1>1. ReportsExact'
      BY ProcessCommandReports DEF Types
  <1>2. CASE ~Runs(c, r, cmd)
      <2>1. UNCHANGED <<rights, banned>>
          BY <1>2, Zenon DEF ProcessCommand
      <2> QED BY <1>1, <2>1 DEF rights, Types, TypeOK, Authority
  <1>3. CASE Runs(c, r, cmd)
      <2>1. /\ did' = [by |-> c, in |-> r, cmd |-> IF cmd \in Reporting THEN cmd ELSE "other",
                       ran |-> TRUE, report |-> Report(c, r, cmd)]
            /\ c \in member[r] /\ Acts(c, r, cmd)
          BY <1>3, Zenon DEF ProcessCommand
      <2>2. did'.ran = TRUE /\ did'.by = c
          BY <2>1
      <2>3. /\ Types' /\ UNCHANGED <<uid, owner>>
            /\ \A q \in Room \ {r} : moderators'[q] = moderators[q] /\ banned'[q] = banned[q]
            /\ moderators'[r] # moderators[r] => IsOwner(c, r)
            /\ banned'[r] # banned[r] => IsModer(c, r)
          BY <1>3, <2>1, ActsOnOneRoom, ReportsAsk
      <2>4. \A q \in Room : Authority(q)
          BY <2>2, <2>3 DEF Authority
      <2> QED BY <1>1, <2>3, <2>4
  <1> QED BY <1>2, <1>3

(* Whatever else changes rights leaves the lists of a room alone, or ends  *)
(* the room; a new room has none yet.                                      *)
LEMMA OthersKeep ==
    ASSUME IInv, NEW c \in Client,
           \/ \E u \in Uid \ {0} : Auth(c, u)
           \/ \E r \in Room : \/ \E nick \in BOOLEAN : Join(c, r, nick)
                             \/ Leave(c, r) \/ CreateRoom(c, r) \/ RemoveRoom(c, r)
    PROVE  IInv' /\ \A q \in Room : Authority(q)
  <1> USE DEF IInv
  <1>1. ReportsExact'
      <2>1. did' = Nothing
          BY DEF Auth, Join, Leave, CreateRoom, RemoveRoom
      <2>2. did'.ran = FALSE
          BY <2>1 DEF Nothing
      <2> QED BY <2>2 DEF ReportsExact, HelpExact, ReportsConfined
  <1>2. CASE \E u \in Uid \ {0} : Auth(c, u)
      BY <1>1, <1>2 DEF Auth, Types, TypeOK, Authority
  <1>3. ASSUME NEW r \in Room, NEW nick \in BOOLEAN, Join(c, r, nick)
        PROVE  Types' /\ \A q \in Room : Authority(q)
      BY <1>3 DEF Join, Exists, Types, TypeOK, Authority
  <1>4. ASSUME NEW r \in Room, Leave(c, r)
        PROVE  Types' /\ \A q \in Room : Authority(q)
      BY <1>4 DEF Leave, Removed, Types, TypeOK, Authority
  <1>5. ASSUME NEW r \in Room, CreateRoom(c, r)
        PROVE  Types' /\ \A q \in Room : Authority(q)
      BY <1>5, CommandsAssumption DEF CreateRoom, Exists, Types, TypeOK, Authority
  <1>6. ASSUME NEW r \in Room, RemoveRoom(c, r)
        PROVE  Types' /\ \A q \in Room : Authority(q)
      BY <1>6, CommandsAssumption DEF RemoveRoom, Types, TypeOK, Authority
  <1> QED BY <1>1, <1>2, <1>3, <1>4, <1>5, <1>6

-----------------------------------------------------------------------------
(* The invariant.                                                          *)

(* At first there are guests and no rooms, and nothing was said. *)
LEMMA InitHolds == Init => IInv
  <1> SUFFICES ASSUME Init PROVE IInv
      OBVIOUS
  <1>1. Types
      BY CommandsAssumption DEF Init, Types, TypeOK
  <1>2. did.ran = FALSE
      BY DEF Init, Nothing
  <1> QED BY <1>1, <1>2 DEF IInv, ReportsExact, HelpExact, ReportsConfined

(* The invariant is inductive, and every step has its authority. *)
LEMMA Inductive == IInv /\ [Next]_vars => IInv' /\ [\A r \in Room : Authority(r)]_vars
  <1>1. IInv /\ Next => IInv' /\ \A r \in Room : Authority(r)
      BY ProcessCommandKeeps, OthersKeep DEF Next
  <1>2. IInv /\ UNCHANGED vars => IInv'
      BY DEF vars, rights, IInv, Types, TypeOK, ReportsExact, HelpExact, ReportsConfined, Runs,
             IsModer, IsOwner, IsAdmin
  <1> QED BY <1>1, <1>2

(* The invariant holds in every reachable state. *)
THEOREM Invariant == Spec => []IInv
  BY InitHolds, Inductive, PTL DEF Spec

(* Accounts, members, owners and lists have their types, and a room that   *)
(* does not exist has no members and no lists.                             *)
THEOREM TypesCorrect == Spec => []TypeOK
  <1>1. IInv => TypeOK
      BY DEF IInv, Types
  <1> QED BY <1>1, Invariant, PTL

(* ReportsExact holds: what CommandHelp shows is what processCommand would *)
(* run, and reports are shown to those whose processors have them.         *)
THEOREM ReportsExactHolds == Spec => []ReportsExact
  <1>1. IInv => ReportsExact
      BY DEF IInv
  <1> QED BY <1>1, Invariant, PTL

(* AuthorityHeld holds: addmoder and delmoder are an owner's commands, the *)
(* bans a moderator's, and no other way leads to the lists of a room.      *)
THEOREM AuthorityHeldHolds == Spec => AuthorityHeld
  <1>1. IInv /\ [Next]_vars => [\A r \in Room : Authority(r)]_vars
      BY Inductive
  <1> QED BY <1>1, Invariant, PTL DEF Spec, AuthorityHeld, Authority

-----------------------------------------------------------------------------
(* The flood control.                                                      *)

FloodTypes ==
    /\ Flood!TypeOK
    /\ FloodWindow \in Nat /\ FloodLimit \in Nat

(* What passed since the second of the last reset is in the counter; what  *)
(* passed before it is one allowance at most; and nothing has passed in a  *)
(* second in which a reset is due.                                         *)
AllowancesOf(c) ==
    /\ \A s \in Flood!Seconds :
          passed[c][s] <= messageCounter[c] + IF s <= sinceReset[c] + 1 THEN 0 ELSE FloodLimit + 1
    /\ Flood!Due(c) => passed[c][1] = 0

Allowances == \A c \in Client : AllowancesOf(c)

FloodIInv == FloodTypes /\ Allowances

(* The fields of a session are numbers, and the seconds begin with 1. *)
LEMMA FloodNumbers ==
    ASSUME FloodTypes, NEW c \in Client
    PROVE  /\ FloodWindow \in Nat /\ FloodLimit \in Nat
           /\ messageCounter[c] \in Nat /\ messageCounter[c] <= FloodLimit + 1
           /\ sinceReset[c] \in Nat
           /\ \A s \in Flood!Seconds : passed[c][s] \in Nat
           /\ 1 \in Flood!Seconds
           /\ \A s \in Flood!Seconds : s \in Nat /\ s >= 1 /\ (s # 1 => s - 1 \in Flood!Seconds)
  <1>1. /\ FloodWindow \in Nat /\ FloodLimit \in Nat
        /\ messageCounter[c] \in 0..(FloodLimit + 1) /\ sinceReset[c] \in 0..(FloodWindow + 1)
        /\ \A s \in Flood!Seconds : passed[c][s] \in Nat
      BY DEF FloodTypes, Flood!TypeOK, Flood!MaxSince
  <1> QED BY <1>1 DEF Flood!Seconds

(* A step of one session leaves the allowances of the others.              *)
LEMMA OneStep ==
    ASSUME FloodIInv, NEW c \in Client, AllowancesOf(c)',
           \A d \in Client \ {c} : /\ sinceReset'[d] = sinceReset[d]
                                  /\ messageCounter'[d] = messageCounter[d]
                                  /\ passed'[d] = passed[d]
    PROVE  Allowances'
  BY DEF FloodIInv, Allowances, AllowancesOf, Flood!Due

(* A session whose fields are as those of a new one.                       *)
LEMMA ForgetKeeps ==
    ASSUME FloodIInv, NEW c \in Client, Flood!Forget(c),
           state' \in [Client -> {"free", "live", "orphan"}]
    PROVE  FloodIInv'
  <1>1. FloodTypes'
    <2>1. /\ 0 \in 0..(FloodLimit + 1) /\ 0 \in 0..Flood!MaxSince
          /\ Flood!NonePassed \in [Flood!Seconds -> Nat]
        BY DEF FloodIInv, FloodTypes, Flood!MaxSince, Flood!NonePassed
    <2> QED BY <2>1 DEF FloodIInv, FloodTypes, Flood!TypeOK, Flood!Forget
  <1>2. /\ sinceReset'[c] = 0 /\ messageCounter'[c] = 0
        /\ \A s \in Flood!Seconds : passed'[c][s] = 0
        /\ \A d \in Client \ {c} : /\ sinceReset'[d] = sinceReset[d]
                                   /\ messageCounter'[d] = messageCounter[d]
                                   /\ passed'[d] = passed[d]
      BY DEF FloodIInv, FloodTypes, Flood!TypeOK, Flood!Forget, Flood!NonePassed
  <1>3. AllowancesOf(c)'
      BY <1>2, FloodNumbers DEF FloodIInv, AllowancesOf, Flood!Due
  <1> QED BY <1>1, <1>2, <1>3, OneStep DEF FloodIInv

(* A message passes: it is counted, and by a counter that was reset first  *)
(* when that was due, in a second in which nothing had passed.             *)
LEMMA PassKeeps ==
    ASSUME FloodIInv, NEW c \in Client, Flood!Pass(c)
    PROVE  FloodIInv'
  <1>1. FloodTypes
      BY DEF FloodIInv
  <1>2. /\ FloodWindow \in Nat /\ FloodLimit \in Nat
        /\ messageCounter[c] \in Nat /\ messageCounter[c] <= FloodLimit + 1
        /\ sinceReset[c] \in Nat
      BY <1>1, FloodNumbers
  <1>3. /\ Flood!Counter(c) \in 0..FloodLimit /\ messageCounter'[c] = Flood!Counter(c) + 1
        /\ sinceReset'[c] = IF Flood!Due(c) THEN 0 ELSE sinceReset[c]
        /\ \A s \in Flood!Seconds : passed'[c][s] = passed[c][s] + 1
        /\ \A d \in Client \ {c} : /\ sinceReset'[d] = sinceReset[d]
                                   /\ messageCounter'[d] = messageCounter[d]
                                   /\ passed'[d] = passed[d]
      BY <1>1, <1>2 DEF FloodTypes, Flood!TypeOK, Flood!Pass, Flood!Counter
  <1>4. FloodTypes'
    <2>1. /\ state' = state /\ state \in [Client -> {"free", "live", "orphan"}]
          /\ Flood!Counter(c) + 1 \in 0..(FloodLimit + 1)
          /\ 0 \in 0..Flood!MaxSince
          /\ [s \in Flood!Seconds |-> passed[c][s] + 1] \in [Flood!Seconds -> Nat]
        BY <1>1, <1>2, <1>3, FloodNumbers DEF FloodTypes, Flood!TypeOK, Flood!Pass, Flood!MaxSince
    <2> QED BY <1>1, <2>1 DEF FloodTypes, Flood!TypeOK, Flood!Pass
  <1>5. ~Flood!Due(c)'
      BY <1>2, <1>3 DEF Flood!Due
  <1>6. ASSUME NEW s \in Flood!Seconds
        PROVE  passed'[c][s] <=
                  messageCounter'[c] + IF s <= sinceReset'[c] + 1 THEN 0 ELSE FloodLimit + 1
    <2>1. s \in Nat /\ s >= 1 /\ passed[c][s] \in Nat
        BY <1>1, FloodNumbers
    <2>2. /\ passed[c][s] <= messageCounter[c] + IF s <= sinceReset[c] + 1 THEN 0 ELSE FloodLimit + 1
          /\ Flood!Due(c) => passed[c][1] = 0
        BY DEF FloodIInv, Allowances, AllowancesOf
    <2>3. CASE Flood!Due(c)
      <3>1. Flood!Counter(c) = 0 /\ sinceReset[c] > FloodWindow
          BY <2>3 DEF Flood!Counter, Flood!Due
      <3>2. sinceReset'[c] = 0 /\ messageCounter'[c] = 1 /\ passed'[c][s] = passed[c][s] + 1
          BY <1>3, <2>3, <3>1
      <3>3. s <= sinceReset[c] + 1
          BY <1>1, <1>2, <2>1, <3>1 DEF Flood!Seconds
      <3>4. passed[c][s] <= FloodLimit + 1 /\ (s = 1 => passed[c][s] = 0)
          BY <1>2, <2>1, <2>2, <2>3, <3>3
      <3> QED BY <1>2, <2>1, <3>2, <3>4
    <2>4. CASE ~Flood!Due(c)
      <3>1. /\ sinceReset'[c] = sinceReset[c] /\ messageCounter'[c] = messageCounter[c] + 1
            /\ passed'[c][s] = passed[c][s] + 1
          BY <1>3, <2>4 DEF Flood!Counter
      <3> QED BY <1>2, <2>1, <2>2, <3>1
    <2> QED BY <2>3, <2>4
  <1>7. AllowancesOf(c)'
      BY <1>5, <1>6 DEF AllowancesOf
  <1> QED BY <1>3, <1>4, <1>7, OneStep DEF FloodIInv

(* A blank text resets the counter when that is due.                       *)
LEMMA BlankKeeps ==
    ASSUME FloodIInv, NEW c \in Client, Flood!Blank(c)
    PROVE  FloodIInv'
  <1>1. FloodTypes
      BY DEF FloodIInv
  <1>2. /\ sinceReset'[c] = 0 /\ messageCounter'[c] = 0 /\ passed' = passed
        /\ \A d \in Client \ {c} : /\ sinceReset'[d] = sinceReset[d]
                                   /\ messageCounter'[d] = messageCounter[d]
      BY <1>1 DEF FloodTypes, Flood!TypeOK, Flood!Blank
  <1>3. FloodTypes'
    <2>1. 0 \in 0..(FloodLimit + 1) /\ 0 \in 0..Flood!MaxSince
        BY <1>1 DEF FloodTypes, Flood!MaxSince
    <2> QED BY <1>1, <2>1 DEF FloodTypes, Flood!TypeOK, Flood!Blank
  <1>4. ~Flood!Due(c)'
      BY <1>1, <1>2 DEF FloodTypes, Flood!Due
  <1>5. ASSUME NEW s \in Flood!Seconds
        PROVE  passed[c][s] <= IF s <= 1 THEN 0 ELSE FloodLimit + 1
    <2>1. /\ FloodWindow \in Nat /\ FloodLimit \in Nat /\ messageCounter[c] \in Nat
          /\ messageCounter[c] <= FloodLimit + 1 /\ sinceReset[c] \in Nat
          /\ s \in Nat /\ s >= 1 /\ passed[c][s] \in Nat
        BY <1>1, FloodNumbers
    <2>2. sinceReset[c] > FloodWindow
        BY DEF Flood!Blank, Flood!Due
    <2>3. s <= sinceReset[c] + 1
        BY <2>1, <2>2 DEF Flood!Seconds
    <2>4. /\ passed[c][s] <= messageCounter[c] + IF s <= sinceReset[c] + 1 THEN 0 ELSE FloodLimit + 1
          /\ passed[c][1] = 0
        BY DEF FloodIInv, Allowances, AllowancesOf, Flood!Blank
    <2> QED BY <2>1, <2>3, <2>4
  <1>6. AllowancesOf(c)'
    <2>1. \A s \in Flood!Seconds : s \in Nat /\ passed[c][s] \in Nat
        BY <1>1, FloodNumbers
    <2> QED BY <1>1, <1>2, <1>4, <1>5, <2>1 DEF FloodTypes, AllowancesOf
  <1> QED BY <1>2, <1>3, <1>6, OneStep DEF FloodIInv

(* A second passes: what passed before the last reset is the older by it.  *)
LEMMA TickKeeps ==
    ASSUME FloodIInv, Flood!Tick
    PROVE  FloodIInv'
  <1>1. Flood!TypeOK'
      BY DEF FloodIInv, FloodTypes, Flood!TypeOK, Flood!MaxSince, Flood!Seconds, Flood!Tick
  <1>2. ASSUME NEW c \in Client
        PROVE  /\ passed'[c][1] = 0
               /\ \A s \in Flood!Seconds :
                     passed'[c][s] <=
                        messageCounter'[c] + IF s <= sinceReset'[c] + 1 THEN 0 ELSE FloodLimit + 1
    <2>1. /\ messageCounter'[c] = messageCounter[c]
          /\ sinceReset'[c] = sinceReset[c] \/ sinceReset'[c] = sinceReset[c] + 1
          /\ \A s \in Flood!Seconds : passed'[c][s] = IF s = 1 THEN 0 ELSE passed[c][s - 1]
        BY DEF FloodIInv, FloodTypes, Flood!TypeOK, Flood!Tick
    <2>2. /\ FloodWindow \in Nat /\ FloodLimit \in Nat
          /\ messageCounter[c] \in Nat /\ sinceReset[c] \in Nat
          /\ \A s \in Flood!Seconds : passed[c][s] \in Nat
        BY DEF FloodIInv, FloodTypes, Flood!TypeOK, Flood!MaxSince
    <2>3. /\ 1 \in Flood!Seconds
          /\ \A s \in Flood!Seconds : s \in Nat /\ (s # 1 => s - 1 \in Flood!Seconds)
        BY <2>2 DEF Flood!Seconds
    <2>4. passed'[c][1] = 0
        BY <2>1, <2>3
    <2>5. ASSUME NEW s \in Flood!Seconds
          PROVE  passed'[c][s] <=
                    messageCounter'[c] + IF s <= sinceReset'[c] + 1 THEN 0 ELSE FloodLimit + 1
      <3>1. CASE s = 1
          BY <2>1, <2>2, <3>1
      <3>2. CASE s # 1
        <4>1. s - 1 \in Flood!Seconds /\ passed'[c][s] = passed[c][s - 1]
            BY <2>1, <2>3, <3>2
        <4>2. passed[c][s - 1] <=
                 messageCounter[c] + IF s - 1 <= sinceReset[c] + 1 THEN 0 ELSE FloodLimit + 1
            BY <4>1 DEF FloodIInv, Allowances, AllowancesOf
        <4>3. s \in Nat /\ passed[c][s - 1] \in Nat
            BY <2>2, <2>3, <4>1
        <4> QED BY <2>1, <2>2, <4>1, <4>2, <4>3
      <3> QED BY <3>1, <3>2
    <2> QED BY <2>4, <2>5
  <1>3. Allowances'
      BY <1>2 DEF Allowances, AllowancesOf, Flood!Due
  <1> QED BY <1>1, <1>3 DEF FloodIInv, FloodTypes

(* At first nothing has passed.                                            *)
LEMMA FloodInitHolds == Flood!Init => FloodIInv
  <1> SUFFICES ASSUME Flood!Init PROVE FloodIInv
      OBVIOUS
  <1>1. FloodWindow \in Nat /\ FloodLimit \in Nat
      BY AskedAssumption DEF Flood!FloodAssumption
  <1>2. Flood!TypeOK
      BY <1>1 DEF Flood!Init, Flood!TypeOK, Flood!MaxSince, Flood!Seconds, Flood!NonePassed
  <1>3. Allowances
      BY <1>1 DEF Flood!Init, Allowances, AllowancesOf, Flood!Due, Flood!Seconds, Flood!NonePassed
  <1> QED BY <1>1, <1>2, <1>3 DEF FloodIInv, FloodTypes

(* The invariant of the flood control is inductive.                        *)
LEMMA FloodInductive == FloodIInv /\ [Flood!Next]_(Flood!vars) => FloodIInv'
  <1> SUFFICES ASSUME FloodIInv, [Flood!Next]_(Flood!vars) PROVE FloodIInv'
      OBVIOUS
  <1>1. ASSUME UNCHANGED Flood!floodVars, state' \in [Client -> {"free", "live", "orphan"}]
        PROVE  FloodIInv'
      BY <1>1 DEF FloodIInv, FloodTypes, Allowances, AllowancesOf, Flood!TypeOK, Flood!Due, Flood!floodVars
  <1>2. state \in [Client -> {"free", "live", "orphan"}]
      BY DEF FloodIInv, FloodTypes, Flood!TypeOK
  <1>3. CASE \E c \in Client : Flood!Connect(c) \/ Flood!Disconnect(c)
      BY <1>1, <1>2, <1>3 DEF Flood!Connect, Flood!Disconnect
  <1>4. CASE \E c \in Client : Flood!End(c) \/ \E tgt \in Client : Flood!Revive(c, tgt)
      BY <1>2, <1>4, ForgetKeeps DEF Flood!End, Flood!Revive
  <1>5. CASE (\E c \in Client : Flood!Pass(c) \/ Flood!Blank(c)) \/ Flood!Tick
      BY <1>5, PassKeeps, BlankKeeps, TickKeeps
  <1>6. CASE UNCHANGED Flood!vars
      BY <1>1, <1>2, <1>6 DEF Flood!vars
  <1> QED BY <1>3, <1>4, <1>5, <1>6 DEF Flood!Next

(* What passed in the last FloodWindow + 2 seconds is at most what is in   *)
(* the counter and one allowance.                                          *)
LEMMA AllowancesBound == FloodIInv => FloodBounded
  <1> SUFFICES ASSUME FloodIInv, NEW c \in Client
               PROVE  passed[c][FloodWindow + 2] <= 2 * (FloodLimit + 1)
      BY DEF FloodBounded, Flood!FloodBounded
  <1>1. /\ FloodWindow \in Nat /\ FloodLimit \in Nat
        /\ messageCounter[c] \in Nat /\ messageCounter[c] <= FloodLimit + 1
        /\ \A s \in Flood!Seconds : passed[c][s] \in Nat
      BY FloodNumbers DEF FloodIInv
  <1>2. FloodWindow + 2 \in Flood!Seconds
      BY <1>1 DEF Flood!Seconds
  <1>3. passed[c][FloodWindow + 2] <= messageCounter[c] + FloodLimit + 1
      BY <1>1, <1>2 DEF FloodIInv, Allowances, AllowancesOf
  <1> QED BY <1>1, <1>2, <1>3

-----------------------------------------------------------------------------
(* The answers to requests. First, sequences of packets.                   *)

Listed(s) == s \in Seq(Ask!ToSet(s))

(* The packets of a short list.                                            *)
LEMMA ListedShort ==
    /\ Listed(<<>>) /\ Ask!ToSet(<<>>) = {}
    /\ \A a : Listed(<<a>>) /\ Ask!ToSet(<<a>>) = {a}
    /\ \A a, b : Listed(<<a, b>>) /\ Ask!ToSet(<<a, b>>) = {a, b}
  <1>1. Listed(<<>>) /\ Ask!ToSet(<<>>) = {}
      BY DEF Listed, Ask!ToSet
  <1>2. ASSUME NEW a PROVE Listed(<<a>>) /\ Ask!ToSet(<<a>>) = {a}
    <2>1. Ask!ToSet(<<a>>) = {a}
        BY DEF Ask!ToSet
    <2> QED BY <2>1 DEF Listed
  <1>3. ASSUME NEW a, NEW b PROVE Listed(<<a, b>>) /\ Ask!ToSet(<<a, b>>) = {a, b}
    <2>1. /\ DOMAIN <<a, b>> = {1, 2}
          /\ <<a, b>>[1] = a /\ <<a, b>>[2] = b
        OBVIOUS
    <2>2. Ask!ToSet(<<a, b>>) = {a, b}
        BY <2>1 DEF Ask!ToSet
    <2> QED BY <2>2 DEF Listed
  <1> QED BY <1>1, <1>2, <1>3

(* The packets of two lists, one after the other.                          *)
LEMMA ListedJoined ==
    ASSUME NEW s, NEW t, Listed(s), Listed(t)
    PROVE  Listed(s \o t) /\ Ask!ToSet(s \o t) = Ask!ToSet(s) \cup Ask!ToSet(t)
  <1> DEFINE S == Ask!ToSet(s) \cup Ask!ToSet(t)
  <1>1. s \in Seq(S) /\ t \in Seq(S)
      BY DEF Listed
  <1>2. /\ s \o t \in Seq(S) /\ Len(s \o t) = Len(s) + Len(t)
        /\ \A i \in 1..Len(s) : (s \o t)[i] = s[i]
        /\ \A i \in 1..Len(t) : (s \o t)[Len(s) + i] = t[i]
        /\ Len(s) \in Nat /\ Len(t) \in Nat
      BY <1>1
  <1>3. /\ DOMAIN s = 1..Len(s) /\ DOMAIN t = 1..Len(t) /\ DOMAIN (s \o t) = 1..Len(s \o t)
      BY <1>1, <1>2
  <1>4. \A i \in DOMAIN (s \o t) : (s \o t)[i] \in S
      BY <1>2, <1>3
  <1>5. ASSUME NEW i \in DOMAIN s PROVE s[i] \in Ask!ToSet(s \o t)
    <2>1. i \in DOMAIN (s \o t) /\ (s \o t)[i] = s[i]
        BY <1>2, <1>3
    <2> QED BY <2>1 DEF Ask!ToSet
  <1>6. ASSUME NEW i \in DOMAIN t PROVE t[i] \in Ask!ToSet(s \o t)
    <2>1. Len(s) + i \in DOMAIN (s \o t) /\ (s \o t)[Len(s) + i] = t[i]
        BY <1>2, <1>3
    <2> QED BY <2>1 DEF Ask!ToSet
  <1>7. Ask!ToSet(s \o t) = S
      BY <1>4, <1>5, <1>6 DEF Ask!ToSet
  <1> QED BY <1>2, <1>7 DEF Listed

(* Packets that go to the clients in S are listed as the packets are.      *)
LEMMA ListedTo ==
    ASSUME NEW S, NEW s, Listed(s)
    PROVE  Listed(Ask!To(S, s)) /\ Ask!ToSet(Ask!To(S, s)) = {[to |-> S, pack |-> p] : p \in Ask!ToSet(s)}
  <1> DEFINE t == Ask!To(S, s)
             E == {[to |-> S, pack |-> p] : p \in Ask!ToSet(s)}
  <1>1. DOMAIN s = 1..Len(s) /\ Len(s) \in Nat
      BY DEF Listed
  <1>2. DOMAIN t = DOMAIN s /\ \A i \in DOMAIN s : t[i] = [to |-> S, pack |-> s[i]]
      BY DEF Ask!To
  <1>3. Ask!ToSet(t) = E
      BY <1>2 DEF Ask!ToSet
  <1>4. t \in [1..Len(s) -> E]
      BY <1>1, <1>2 DEF Ask!To, Ask!ToSet
  <1> QED BY <1>1, <1>3, <1>4 DEF Listed

(* One packet alone. *)
LEMMA ListedOne ==
    ASSUME NEW S, NEW p
    PROVE  LET s == Ask!To(S, <<p>>) IN Listed(s) /\ Ask!ToSet(s) = {[to |-> S, pack |-> p]}
  <1> DEFINE s == Ask!To(S, <<p>>)
  <1>1. Listed(<<p>>) /\ Ask!ToSet(<<p>>) = {p}
      BY ListedShort
  <1>2. Listed(s) /\ Ask!ToSet(s) = {[to |-> S, pack |-> r] : r \in Ask!ToSet(<<p>>)}
      BY <1>1, ListedTo
  <1> QED BY <1>1, <1>2

(* SetToSeq lists every element of a set, and nothing else. *)
LEMMA SetToSeqOf ==
    ASSUME NEW S, IsFiniteSet(S)
    PROVE  LET s == Ask!SetToSeq(S) IN s \in Seq(S) /\ \A x \in S : \E i \in DOMAIN s : s[i] = x
  <1> DEFINE s == Ask!SetToSeq(S)
             n == Cardinality(S)
  <1>1. n \in Nat /\ ExistsBijection(1..n, S)
      BY FS_CardinalityType
  <1>2. \E f \in [1..n -> S] : Ask!IsInjective(f)
      BY <1>1 DEF ExistsBijection, Bijection, Injection, IsInjective, Ask!IsInjective
  <1>3. s \in [1..n -> S] /\ Ask!IsInjective(s)
      BY <1>2 DEF Ask!SetToSeq, Ask!Cardinality, Cardinality
  <1>4. s \in Injection(1..n, S)
      BY <1>3 DEF Injection, IsInjective, Ask!IsInjective
  <1>5. Cardinality(1..n) = n
      BY <1>1, FS_Interval
  <1>6. s \in Surjection(1..n, S)
      BY <1>4, <1>5, FS_Injection
  <1> QED BY <1>1, <1>3, <1>6 DEF Surjection

-----------------------------------------------------------------------------
(* The packets.                                                            *)

Vouched(p) ==
    /\ p.type \in DOMAIN Ask!Type /\ p.target \in Ask!AnyTarget
    /\ \A f \in Ask!Type[p.type].wire :
          p.from[f] # "none" /\ (p.from[f] = "peer" => f \in {"target", "message", "status"})

(* A packet that is not the answer of a resumption: type, id and target.   *)
Is(p, type, id, t) ==
    Vouched(p) /\ p.type = type /\ p.id = id /\ p.target = t /\ p.resumed = FALSE

(* serialize sends fields that the class has. *)
LEMMA WireOfType ==
    /\ DOMAIN Ask!Type = {"error", "system", "message", "online_list", "auth", "status", "join",
                          "leave", "create_room", "remove_room", "ping"}
    /\ \A type \in DOMAIN Ask!Type : Ask!Type[type].wire \subseteq DOMAIN Ask!Type[type].new
    /\ Ask!Type["error"].wire = {"source", "target", "code", "info"}
    /\ Ask!Type["error"].new.target = "default"
    /\ Ask!Type["system"].wire = Ask!PacketSystem.wire
    /\ Ask!Type["message"].wire = Ask!MessageWire /\ Ask!Type["status"].wire = Ask!StatusWire
    /\ Ask!Type["join"].wire = {"target", "member_id", "login"}
    /\ Ask!Type["online_list"].wire = {"target", "list"}
    /\ Ask!Type["auth"].wire = {"user_id", "name", "token"}
    /\ \A type \in {"leave", "create_room", "remove_room"} :
          /\ Ask!Type[type].wire = {"target"} /\ Ask!Type[type].read = {"target"}
          /\ Ask!Type[type].new.target = "default"
  <1>1. DOMAIN Ask!Type = {"error", "system", "message", "online_list", "auth", "status", "join",
                          "leave", "create_room", "remove_room", "ping"}
      BY DEF Ask!Type
  <1>2. /\ Ask!Type["error"] = Ask!PacketError /\ Ask!Type["system"] = Ask!PacketSystem
        /\ Ask!Type["message"] = Ask!PacketMessage
        /\ Ask!Type["online_list"] = Ask!PacketOnlineList
        /\ Ask!Type["auth"] = Ask!PacketAuth /\ Ask!Type["status"] = Ask!PacketStatus
        /\ Ask!Type["join"] = Ask!PacketJoin /\ Ask!Type["leave"] = Ask!PacketLeave
        /\ Ask!Type["create_room"] = Ask!PacketCreateRoom
        /\ Ask!Type["remove_room"] = Ask!PacketRemoveRoom /\ Ask!Type["ping"] = Ask!PacketPing
      BY DEF Ask!Type
  <1>3. /\ Ask!PacketError.wire \subseteq DOMAIN Ask!PacketError.new
        /\ Ask!PacketSystem.wire \subseteq DOMAIN Ask!PacketSystem.new
        /\ Ask!PacketMessage.wire \subseteq DOMAIN Ask!PacketMessage.new
        /\ Ask!PacketOnlineList.wire \subseteq DOMAIN Ask!PacketOnlineList.new
      BY DEF Ask!PacketError, Ask!PacketSystem, Ask!PacketMessage, Ask!PacketOnlineList, Ask!Default
  <1>4. /\ Ask!PacketAuth.wire \subseteq DOMAIN Ask!PacketAuth.new
        /\ Ask!PacketStatus.wire \subseteq DOMAIN Ask!PacketStatus.new
        /\ Ask!PacketJoin.wire \subseteq DOMAIN Ask!PacketJoin.new
        /\ Ask!PacketPing.wire \subseteq DOMAIN Ask!PacketPing.new
      BY DEF Ask!PacketAuth, Ask!PacketStatus, Ask!PacketJoin, Ask!PacketPing, Ask!Default
  <1>5. \A type \in {"leave", "create_room", "remove_room"} :
          /\ Ask!Type[type].wire = {"target"} /\ Ask!Type[type].read = {"target"}
          /\ Ask!Type[type].new.target = "default" /\ DOMAIN Ask!Type[type].new = {"target"}
      BY <1>2 DEF Ask!PacketLeave, Ask!PacketCreateRoom, Ask!PacketRemoveRoom, Ask!Default
  <1>6. /\ Ask!Type["error"].wire = {"source", "target", "code", "info"}
        /\ Ask!Type["error"].new.target = "default"
        /\ Ask!Type["system"].wire = Ask!PacketSystem.wire
        /\ Ask!Type["message"].wire = Ask!MessageWire /\ Ask!Type["status"].wire = Ask!StatusWire
        /\ Ask!Type["join"].wire = {"target", "member_id", "login"}
        /\ Ask!Type["online_list"].wire = {"target", "list"}
        /\ Ask!Type["auth"].wire = {"user_id", "name", "token"}
      BY <1>2 DEF Ask!PacketError, Ask!PacketMessage, Ask!PacketStatus, Ask!PacketJoin,
                  Ask!PacketOnlineList, Ask!PacketAuth
  <1>7. \A type \in DOMAIN Ask!Type : Ask!Type[type].wire \subseteq DOMAIN Ask!Type[type].new
      BY <1>1, <1>2, <1>3, <1>4, <1>5
  <1> QED BY <1>1, <1>5, <1>6, <1>7

(* A packet whose fields the server sets. *)
LEMMA MakeVouched ==
    ASSUME NEW type \in DOMAIN Ask!Type, NEW id, NEW t \in Ask!AnyTarget, NEW S,
           Ask!Type[type].wire \subseteq S
    PROVE  Is(Ask!Make(type, id, t, S), type, id, t)
  <1> DEFINE p == Ask!Make(type, id, t, S)
  <1>1. /\ p.type = type /\ p.id = id /\ p.target = t /\ p.resumed = FALSE
        /\ p.from = [f \in DOMAIN Ask!Type[type].new |->
                        IF f \in S THEN "server" ELSE Ask!Type[type].new[f]]
      BY DEF Ask!Make
  <1>2. \A f \in Ask!Type[type].wire : p.from[f] = "server"
      BY <1>1, WireOfType
  <1> QED BY <1>1, <1>2 DEF Vouched, Is

(* The request sent back: what deserialize took and the handler did not    *)
(* set again is the peer's.                                                *)
LEMMA ThisVouched ==
    ASSUME NEW q, q.type \in {"leave", "create_room", "remove_room"}, q.target \in Ask!AnyTarget
    PROVE  Is(Ask!This(q, {}), q.type, q.id, q.target)
  <1> DEFINE p == Ask!This(q, {})
  <1>1. /\ p.type = q.type /\ p.id = q.id /\ p.target = q.target /\ p.resumed = FALSE
        /\ DOMAIN p.from = DOMAIN Ask!Type[q.type].new
        /\ \A f \in DOMAIN p.from : f \in Ask!Type[q.type].read => p.from[f] = "peer"
      BY DEF Ask!This, Ask!Make, Ask!SequenceId
  <1>2. q.type \in DOMAIN Ask!Type /\ p.from["target"] = "peer"
      BY <1>1, WireOfType
  <1> QED BY <1>1, <1>2, WireOfType DEF Vouched, Is

(* The answer of PacketAuth: the account, the name and the token are set   *)
(* by the server.                                                          *)
LEMMA AuthAnswerVouched ==
    ASSUME NEW q, q.type = "auth", q.target \in Ask!AnyTarget, NEW u, NEW resumed
    PROVE  LET p == Ask!AuthAnswer(q, u, resumed) IN
           /\ Vouched(p) /\ p.type = "auth" /\ p.id = q.id /\ p.target = q.target
           /\ p.user = u /\ p.resumed = resumed
  <1> DEFINE p == Ask!AuthAnswer(q, u, resumed)
             S == {"user_id", "name", "token"}
  <1>1. /\ p.type = "auth" /\ p.id = q.id /\ p.target = q.target
        /\ p.user = u /\ p.resumed = resumed
        /\ DOMAIN p.from = DOMAIN Ask!Type["auth"].new
        /\ \A f \in DOMAIN p.from : f \in S => p.from[f] = "server"
      BY DEF Ask!AuthAnswer, Ask!This, Ask!Make, Ask!SequenceId
  <1>2. "auth" \in DOMAIN Ask!Type /\ \A f \in S : p.from[f] = "server"
      BY <1>1, WireOfType
  <1> QED BY <1>1, <1>2, WireOfType DEF Vouched

(* PacketError, whose constructor leaves the source and the code to the    *)
(* handler; the target is the one that was asked for.                      *)
LEMMA ErrorVouched ==
    ASSUME NEW q, q.target \in Ask!AnyTarget, NEW code
    PROVE  Is(Ask!Error(q, code), "error", Ask!SequenceId(q), q.target)
  <1> DEFINE p == Ask!Error(q, code)
             S == {"source", "code", "info"}
  <1>1. /\ p.type = "error" /\ p.id = Ask!SequenceId(q) /\ p.target = q.target /\ p.resumed = FALSE
        /\ DOMAIN p.from = DOMAIN Ask!Type["error"].new
        /\ p.from = [[f \in DOMAIN Ask!Type["error"].new |->
                        IF f \in S THEN "server" ELSE Ask!Type["error"].new[f]]
                     EXCEPT !.target = IF q.type = "auth" THEN "default" ELSE "peer"]
      BY DEF Ask!Error, Ask!Make
  <1>2. "error" \in DOMAIN Ask!Type /\ S \cup {"target"} = Ask!Type["error"].wire
      BY WireOfType
  <1>3. /\ \A f \in S : p.from[f] = "server"
        /\ p.from["target"] \in {"default", "peer"}
      BY <1>1, <1>2, WireOfType
  <1> QED BY <1>1, <1>2, <1>3 DEF Vouched, Is

(* What peers are told of a member or a room, or is said there, which says *)
(* nothing of where the one is who is told.                                *)
Quiet(p) ==
    \E type \in {"system", "status", "message", "online_list"}, t \in Ask!AnyTarget : Is(p, type, NoId, t)

(* The status of a member, a message, a line of the system. *)
LEMMA QuietPackets ==
    ASSUME NEW t \in Ask!AnyTarget, NEW all,
           \/ all \in Ask!Change(t)
           \/ all = <<Ask!System(t)>> \/ all = <<>>
           \/ all = <<Ask!Make("online_list", NoId, t, {"target", "list"})>>
           \/ all = <<[Ask!Make("message", NoId, t, Ask!MessageWire) EXCEPT !.from.message = "peer"]>>
           \/ all = <<[Ask!Make("status", NoId, t, Ask!StatusWire) EXCEPT !.from.status = "peer"]>>
    PROVE  Listed(all) /\ \A p \in Ask!ToSet(all) : Quiet(p)
  <1>1. ASSUME NEW p, Quiet(p), all = <<p>>
        PROVE  Listed(all) /\ \A r \in Ask!ToSet(all) : Quiet(r)
      BY <1>1, ListedShort
  <1>2. ASSUME NEW type \in {"system", "status", "message", "online_list"}, NEW S,
               Ask!Type[type].wire \subseteq S
        PROVE  Quiet(Ask!Make(type, NoId, t, S))
    <2>1. Is(Ask!Make(type, NoId, t, S), type, NoId, t)
        BY <1>2, MakeVouched, WireOfType
    <2> QED BY <2>1 DEF Quiet
  <1>3. ASSUME NEW type \in {"message", "status"}, NEW f, f = type,
               NEW S, Ask!Type[type].wire = S,
               NEW p, p = [Ask!Make(type, NoId, t, S) EXCEPT !.from[f] = "peer"]
        PROVE  Quiet(p)
    <2> DEFINE m == Ask!Make(type, NoId, t, S)
    <2>1. Is(m, type, NoId, t)
        BY <1>3, MakeVouched, WireOfType
    <2>2. /\ p.type = type /\ p.id = NoId /\ p.target = t /\ p.resumed = FALSE
          /\ DOMAIN p.from = DOMAIN m.from
          /\ \A g \in DOMAIN m.from : p.from[g] = IF g = f THEN "peer" ELSE m.from[g]
        BY <1>3, <2>1 DEF Ask!Make, Is
    <2>3. DOMAIN m.from = DOMAIN Ask!Type[type].new /\ type \in DOMAIN Ask!Type
        BY WireOfType DEF Ask!Make
    <2>4. Vouched(p)
        BY <1>3, <2>1, <2>2, <2>3, WireOfType DEF Vouched, Is
    <2> QED BY <2>2, <2>4 DEF Quiet, Is
  <1>4. CASE all = <<>>
      BY <1>4, ListedShort
  <1>5. CASE all \in Ask!Change(t)
      BY <1>1, <1>2, <1>4, <1>5, WireOfType DEF Ask!Change
  <1>6. CASE all = <<Ask!System(t)>>
      BY <1>1, <1>2, <1>6, WireOfType DEF Ask!System
  <1>7. CASE all = <<Ask!Make("online_list", NoId, t, {"target", "list"})>>
      BY <1>1, <1>2, <1>7, WireOfType
  <1>8. CASE all = <<[Ask!Make("message", NoId, t, Ask!MessageWire) EXCEPT !.from.message = "peer"]>>
    <2>1. [Ask!Make("message", NoId, t, Ask!MessageWire) EXCEPT !.from.message = "peer"]
             = [Ask!Make("message", NoId, t, Ask!MessageWire) EXCEPT !.from["message"] = "peer"]
        OBVIOUS
    <2> QED BY <1>1, <1>3, <1>8, <2>1, WireOfType
  <1>9. CASE all = <<[Ask!Make("status", NoId, t, Ask!StatusWire) EXCEPT !.from.status = "peer"]>>
    <2>1. [Ask!Make("status", NoId, t, Ask!StatusWire) EXCEPT !.from.status = "peer"]
             = [Ask!Make("status", NoId, t, Ask!StatusWire) EXCEPT !.from["status"] = "peer"]
        OBVIOUS
    <2> QED BY <1>1, <1>3, <1>9, <2>1, WireOfType
  <1> QED BY <1>4, <1>5, <1>6, <1>7, <1>8, <1>9

(* The packets that follow a join or a resumption.                         *)
LEMMA WelcomeVouched ==
    ASSUME NEW t \in Ask!AnyTarget, NEW id
    PROVE  LET s == Ask!Welcome(t, id) IN
           /\ Listed(s) /\ Ask!ToSet(s) = {s[1], s[2]}
           /\ Is(s[1], "join", id, t) /\ Is(s[2], "online_list", id, t)
  <1> DEFINE p1 == Ask!Make("join", id, t, {"target", "member_id", "login"})
             p2 == Ask!Make("online_list", id, t, {"target", "list"})
  <1>1. Is(p1, "join", id, t) /\ Is(p2, "online_list", id, t)
      BY MakeVouched, WireOfType
  <1>2. Listed(<<p1, p2>>) /\ Ask!ToSet(<<p1, p2>>) = {p1, p2}
      BY ListedShort
  <1>3. Ask!Welcome(t, id) = <<p1, p2>> /\ <<p1, p2>>[1] = p1 /\ <<p1, p2>>[2] = p2
      BY DEF Ask!Welcome
  <1> QED BY <1>1, <1>2, <1>3

-----------------------------------------------------------------------------
(* What a step sends.                                                      *)

(* Accounts, members and owners; who is in a room is in one that exists.   *)
WorldTypes ==
    /\ account \in [Client -> AskUid \cup {Guest}]
    /\ joined \in [Client -> SUBSET AskRoom]
    /\ roomOwner \in [Ask!AnyTarget -> AskUid \cup {NoRoom}] /\ roomOwner[BadName] = NoRoom
    /\ \A c \in Client : \A r \in joined[c] : roomOwner[r] # NoRoom

(* The packets of the last step.                                           *)
SentTypes ==
    \A i \in DOMAIN sent : /\ sent[i].pack.type \in DOMAIN Ask!Type
                           /\ sent[i].pack.target \in Ask!AnyTarget
                           /\ sent[i].to \subseteq Client

(* The packets of a step are vouched for and go to clients; a number id is *)
(* only on what goes to c alone, and there is no other.                    *)
Serves(c, id) ==
    /\ Listed(sent')
    /\ \A s \in Ask!ToSet(sent') :
          /\ Vouched(s.pack) /\ s.to \subseteq Client
          /\ s.pack.id = NoId \/ (s.pack.id = id /\ s.to = {c})

(* One of them answers q.                                                  *)
Gives(c, q) ==
    \E s \in Ask!ToSet(sent') :
        /\ s.to = {c} /\ s.pack.type \in {"error", q.type} /\ s.pack.target = q.target
        /\ s.pack.id = q.id \/ (q.type = "online_list" /\ s.pack.id = NoId)

(* What AnswersTrue says of a step.                                        *)
Truthful == Ask!AccountsTold /\ Ask!RoomsTold /\ Ask!OwnersTold

(* AnswersTrue, of packets E whose order does not matter: nobody is told   *)
(* both that he came and that he left.                                     *)
TruthfulAnyhow(E) ==
    /\ \A d \in Client :
          /\ \A s \in E : Ask!TellsAccount(s, d) => account'[d] = s.pack.user
          /\ (\A s \in E : ~Ask!TellsAccount(s, d)) => account'[d] = account[d]
    /\ \A d \in Client, r \in AskRoom :
          /\ \A s \in E, x \in E : ~(Ask!TellsIn(s, d, r) /\ Ask!TellsOut(x, d, r))
          /\ r \in joined'[d] <=> \/ r \in joined[d] /\ \A s \in E : ~Ask!TellsOut(s, d, r)
                                  \/ \E s \in E : Ask!TellsIn(s, d, r)
    /\ \A t \in Ask!AnyTarget :
          LET Yes(type) == \E s \in E : s.to = {req'.by} /\ s.pack.type = type /\ s.pack.target = t
          IN roomOwner'[t] = IF Yes("create_room") THEN account[req'.by]
                             ELSE IF Yes("remove_room") THEN NoRoom ELSE roomOwner[t]

(* Then the packets tell what they tell in any order.                      *)
LEMMA OrderIdle ==
    ASSUME Listed(sent'), TruthfulAnyhow(Ask!ToSet(sent'))
    PROVE  Truthful
  <1> DEFINE E == Ask!ToSet(sent')
  <1>1. /\ \A i \in DOMAIN sent' : sent'[i] \in E /\ i \in Nat /\ i > 0
        /\ \A s \in E : \E i \in DOMAIN sent' : sent'[i] = s
    <2>1. DOMAIN sent' = 1..Len(sent') /\ Len(sent') \in Nat
        BY DEF Listed
    <2> QED BY <2>1 DEF Ask!ToSet
  <1> HIDE DEF E
  <1>2. TruthfulAnyhow(E)
      BY DEF E
  <1>3. Ask!AccountsTold
      BY <1>1, <1>2 DEF TruthfulAnyhow, Ask!AccountsTold
  <1>4. Ask!OwnersTold
    <2> DEFINE Sent(t, type) == \E i \in DOMAIN sent' : /\ sent'[i].to = {req'.by}
                                                        /\ sent'[i].pack.type = type
                                                        /\ sent'[i].pack.target = t
               In(t, type) == \E s \in E : s.to = {req'.by} /\ s.pack.type = type /\ s.pack.target = t
    <2>1. \A t, type : Sent(t, type) <=> In(t, type)
        BY <1>1
    <2>2. \A t \in Ask!AnyTarget :
             roomOwner'[t] = IF In(t, "create_room") THEN account[req'.by]
                             ELSE IF In(t, "remove_room") THEN NoRoom ELSE roomOwner[t]
        BY <1>2 DEF TruthfulAnyhow
    <2> HIDE DEF In
    <2>3. \A t \in Ask!AnyTarget :
             roomOwner'[t] = IF Sent(t, "create_room") THEN account[req'.by]
                             ELSE IF Sent(t, "remove_room") THEN NoRoom ELSE roomOwner[t]
      <3> HIDE DEF Sent
      <3> QED BY <2>1, <2>2
    <2> QED BY <2>3 DEF Ask!OwnersTold
  <1>5. ASSUME NEW d \in Client, NEW r \in AskRoom
        PROVE  LET StaysFrom(k) == \A i \in DOMAIN sent' : i > k => ~Ask!TellsOut(sent'[i], d, r) IN
               r \in joined'[d] <=> \/ r \in joined[d] /\ StaysFrom(0)
                                    \/ \E k \in DOMAIN sent' : Ask!TellsIn(sent'[k], d, r) /\ StaysFrom(k)
    <2> DEFINE StaysFrom(k) == \A i \in DOMAIN sent' : i > k => ~Ask!TellsOut(sent'[i], d, r)
    <2>1. StaysFrom(0) <=> \A s \in E : ~Ask!TellsOut(s, d, r)
        BY <1>1
    <2>2. ASSUME NEW k \in DOMAIN sent', Ask!TellsIn(sent'[k], d, r)
          PROVE  StaysFrom(k)
        BY <1>1, <1>2, <2>2 DEF TruthfulAnyhow
    <2>3. (\E k \in DOMAIN sent' : Ask!TellsIn(sent'[k], d, r) /\ StaysFrom(k))
             <=> \E s \in E : Ask!TellsIn(s, d, r)
        BY <1>1, <2>2
    <2> QED BY <1>2, <2>1, <2>3 DEF TruthfulAnyhow
  <1>6. Ask!RoomsTold
      BY <1>5 DEF Ask!RoomsTold
  <1> QED BY <1>3, <1>4, <1>6 DEF Truthful

(* A quiet packet is vouched for, has no number and tells nothing.         *)
LEMMA QuietTells ==
    ASSUME NEW s, Quiet(s.pack)
    PROVE  /\ Vouched(s.pack) /\ s.pack.id = NoId
           /\ s.pack.type \notin {"create_room", "remove_room"}
           /\ \A d : ~Ask!TellsAccount(s, d)
           /\ \A d, r : ~Ask!TellsIn(s, d, r) /\ ~Ask!TellsOut(s, d, r)
  BY DEF Quiet, Is, Ask!TellsAccount, Ask!TellsIn, Ask!TellsOut

(* Only those in L need be looked at of packets of which the others are    *)
(* quiet.                                                                  *)
LEMMA QuietIdle ==
    ASSUME NEW c \in Client, NEW id, NEW L, Listed(sent'),
           L \subseteq Ask!ToSet(sent'), TruthfulAnyhow(L),
           \A s \in Ask!ToSet(sent') : s \in L \/ (Quiet(s.pack) /\ s.to \subseteq Client),
           \A s \in L : /\ Vouched(s.pack) /\ s.to \subseteq Client
                        /\ s.pack.id = NoId \/ (s.pack.id = id /\ s.to = {c})
    PROVE  Serves(c, id) /\ Truthful
  <1> DEFINE E == Ask!ToSet(sent')
  <1>1. /\ L \subseteq E
        /\ \A s \in E : \/ s \in L
                        \/ /\ s.pack.type \notin {"create_room", "remove_room"}
                           /\ \A d : ~Ask!TellsAccount(s, d)
                           /\ \A d, r : ~Ask!TellsIn(s, d, r) /\ ~Ask!TellsOut(s, d, r)
      BY QuietTells
  <1>2. Serves(c, id)
      BY QuietTells DEF Serves
  <1>3. TruthfulAnyhow(E)
    <2> HIDE DEF E
    <2>1. \A d \in Client :
             /\ \A s \in E : Ask!TellsAccount(s, d) => account'[d] = s.pack.user
             /\ (\A s \in E : ~Ask!TellsAccount(s, d)) => account'[d] = account[d]
        BY <1>1 DEF TruthfulAnyhow
    <2>2. ASSUME NEW d \in Client, NEW r \in AskRoom
          PROVE  /\ \A s \in E, x \in E : ~(Ask!TellsIn(s, d, r) /\ Ask!TellsOut(x, d, r))
                 /\ r \in joined'[d] <=> \/ r \in joined[d] /\ \A s \in E : ~Ask!TellsOut(s, d, r)
                                         \/ \E s \in E : Ask!TellsIn(s, d, r)
        BY <1>1 DEF TruthfulAnyhow
    <2> DEFINE Yes(S, t, type) == \E s \in S : s.to = {req'.by} /\ s.pack.type = type /\ s.pack.target = t
    <2>3. \A t, type : type \in {"create_room", "remove_room"} => (Yes(E, t, type) <=> Yes(L, t, type))
        BY <1>1
    <2>4. \A t \in Ask!AnyTarget :
             roomOwner'[t] = IF Yes(L, t, "create_room") THEN account[req'.by]
                             ELSE IF Yes(L, t, "remove_room") THEN NoRoom ELSE roomOwner[t]
        BY DEF TruthfulAnyhow
    <2>5. \A t \in Ask!AnyTarget :
             roomOwner'[t] = IF Yes(E, t, "create_room") THEN account[req'.by]
                             ELSE IF Yes(E, t, "remove_room") THEN NoRoom ELSE roomOwner[t]
      <3> HIDE DEF Yes
      <3> QED BY <2>3, <2>4
    <2> QED BY <2>1, <2>2, <2>5 DEF TruthfulAnyhow
  <1> QED BY <1>2, <1>3, OrderIdle

(* Packets of which none is to be looked at, with no change.               *)
LEMMA QuietStep ==
    ASSUME NEW c \in Client, NEW id, Listed(sent'), UNCHANGED Ask!world,
           \A s \in Ask!ToSet(sent') : Quiet(s.pack) /\ s.to \subseteq Client
    PROVE  Serves(c, id) /\ Truthful
  <1>1. TruthfulAnyhow({})
      BY DEF TruthfulAnyhow, Ask!world
  <1> QED BY <1>1, QuietIdle

-----------------------------------------------------------------------------
(* The process methods.                                                    *)

(* c asks for something. *)
Asks(c, q, type) ==
    WorldTypes /\ c \in Client /\ q \in Ask!Request /\ q.type = type /\ req'.by = c

(* It is answered, and everybody is told the truth. *)
Answered(c, q) ==
    Serves(c, q.id) /\ Gives(c, q) /\ WorldTypes' /\ Truthful

(* An error comes alone and with no change. *)
LEMMA RefusesAnswers ==
    ASSUME NEW c, NEW q, Asks(c, q, q.type), NEW code, Ask!Refuses(c, q, code)
    PROVE  Answered(c, q)
  <1> DEFINE p == Ask!Error(q, code)
             x == [to |-> {c}, pack |-> p]
  <1>1. WorldTypes /\ c \in Client /\ q.target \in Ask!AnyTarget
      BY DEF Asks, Ask!Request
  <1>2. sent' = Ask!To({c}, <<p>>) /\ UNCHANGED Ask!world
      BY DEF Ask!Refuses, Ask!Sends
  <1>3. Is(p, "error", Ask!SequenceId(q), q.target)
      BY <1>1, ErrorVouched
  <1>4. Listed(sent') /\ Ask!ToSet(sent') = {x}
      BY <1>2, ListedOne
  <1>5. TruthfulAnyhow({x})
      BY <1>2, <1>3 DEF TruthfulAnyhow, Is, Ask!TellsAccount, Ask!TellsIn, Ask!TellsOut, Ask!world
  <1>6. Vouched(p) /\ x.to = {c} /\ x.pack = p /\ p.id = Ask!SequenceId(q) /\ p.type = "error" /\ p.target = q.target
      BY <1>3 DEF Is
  <1> HIDE DEF p, x
  <1>7. Serves(c, q.id) /\ Truthful
    <2>1. p.id \in {q.id, NoId}
        BY <1>6 DEF Ask!SequenceId
    <2> QED BY <1>1, <1>4, <1>5, <1>6, <2>1, QuietIdle
  <1>8. Gives(c, q)
      BY <1>4, <1>6 DEF Gives, Ask!SequenceId
  <1>9. WorldTypes'
      BY <1>1, <1>2 DEF Ask!world, WorldTypes
  <1> QED BY <1>7, <1>8, <1>9 DEF Answered

(* PacketJoin::process, with its refusals.                                 *)
LEMMA JoinAnswers ==
    ASSUME NEW c, NEW q, Asks(c, q, "join"), Ask!Join(c, q)
    PROVE  Answered(c, q)
  <1> DEFINE t == q.target
             w == Ask!Welcome(t, q.id)
             y == <<Ask!System(t)>>
  <1>1. /\ WorldTypes /\ c \in Client /\ t \in Ask!AnyTarget
        /\ Ask!SequenceId(q) = q.id /\ q.type = "join" /\ Asks(c, q, q.type)
      BY DEF Asks, Ask!Request, Ask!SequenceId
  <1>2. CASE \E code : Ask!Refuses(c, q, code)
      BY <1>1, <1>2, RefusesAnswers
  <1>3. ASSUME NEW all \in Ask!Change(t), t \notin joined[c], roomOwner[t] # NoRoom,
               Ask!Sends(Ask!To({c}, w \o y) \o Ask!To(Ask!Members(t) \cup {c}, all)),
               joined' = [joined EXCEPT ![c] = @ \cup {t}], UNCHANGED <<account, roomOwner>>
        PROVE  Answered(c, q)
    <2> DEFINE x1 == [to |-> {c}, pack |-> w[1]]
               x2 == [to |-> {c}, pack |-> w[2]]
               E == Ask!ToSet(sent')
    <2>1. t \in AskRoom /\ WorldTypes'
      <3>1. t \in AskRoom
          BY <1>1, <1>3 DEF WorldTypes, Ask!AnyTarget
      <3> QED BY <1>1, <1>3, <3>1 DEF WorldTypes
    <2>2. /\ Listed(w) /\ Ask!ToSet(w) = {w[1], w[2]}
          /\ Is(w[1], "join", q.id, t) /\ Is(w[2], "online_list", q.id, t)
        BY <1>1, WelcomeVouched
    <2>3. /\ Listed(y) /\ \A p \in Ask!ToSet(y) : Quiet(p)
          /\ Listed(all) /\ \A p \in Ask!ToSet(all) : Quiet(p)
        BY <1>1, <1>3, QuietPackets
    <2>4. Listed(w \o y) /\ Ask!ToSet(w \o y) = {w[1], w[2]} \cup Ask!ToSet(y)
        BY <2>2, <2>3, ListedJoined
    <2>5. /\ Listed(sent')
          /\ E = {[to |-> {c}, pack |-> p] : p \in {w[1], w[2]} \cup Ask!ToSet(y)}
                    \cup {[to |-> Ask!Members(t) \cup {c}, pack |-> p] : p \in Ask!ToSet(all)}
      <3> DEFINE own == Ask!To({c}, w \o y)
                 others == Ask!To(Ask!Members(t) \cup {c}, all)
      <3>1. /\ Listed(own)
            /\ Ask!ToSet(own) = {[to |-> {c}, pack |-> p] : p \in {w[1], w[2]} \cup Ask!ToSet(y)}
        <4> HIDE DEF w, y
        <4> QED BY <2>4, ListedTo
      <3>2. /\ Listed(others)
            /\ Ask!ToSet(others) = {[to |-> Ask!Members(t) \cup {c}, pack |-> p] : p \in Ask!ToSet(all)}
          BY <2>3, ListedTo
      <3>3. sent' = own \o others
          BY <1>3 DEF Ask!Sends
      <3> HIDE DEF own, others
      <3> QED BY <3>1, <3>2, <3>3, ListedJoined
    <2>6. /\ x1 \in E /\ x2 \in E
          /\ \A s \in E : s \in {x1, x2} \/ (Quiet(s.pack) /\ s.to \subseteq Client)
      <3>1. Ask!Members(t) \cup {c} \subseteq Client
          BY <1>1 DEF Ask!Members
      <3>2. ASSUME NEW p \in {w[1], w[2]} \cup Ask!ToSet(y), NEW s, s = [to |-> {c}, pack |-> p]
            PROVE  s \in {x1, x2} \/ (Quiet(s.pack) /\ s.to \subseteq Client)
        <4>1. s.pack = p /\ s.to = {c}
            BY <3>2
        <4>2. CASE p \in Ask!ToSet(y)
            BY <1>1, <2>3, <4>1, <4>2
        <4>3. CASE p \in {w[1], w[2]}
          <5> HIDE DEF w
          <5> QED BY <3>2, <4>3
        <4> QED BY <3>2, <4>2, <4>3
      <3>3. ASSUME NEW p \in Ask!ToSet(all), NEW s, s = [to |-> Ask!Members(t) \cup {c}, pack |-> p]
            PROVE  Quiet(s.pack) /\ s.to \subseteq Client
          BY <2>3, <3>1, <3>3
      <3>4. x1 \in E /\ x2 \in E
        <4> HIDE DEF w, y
        <4> QED BY <2>5
      <3>5. \A s \in E : \/ \E p \in {w[1], w[2]} \cup Ask!ToSet(y) : s = [to |-> {c}, pack |-> p]
                        \/ \E p \in Ask!ToSet(all) : s = [to |-> Ask!Members(t) \cup {c}, pack |-> p]
        <4> HIDE DEF w, y
        <4> QED BY <2>5
      <3> HIDE DEF w, y, E, x1, x2
      <3> QED BY <3>2, <3>3, <3>4, <3>5
    <2>7. /\ x1.to = {c} /\ x2.to = {c}
          /\ Vouched(x1.pack) /\ x1.pack.type = "join" /\ x1.pack.id = q.id
          /\ x1.pack.target = t /\ x1.pack.resumed = FALSE
          /\ Vouched(x2.pack) /\ x2.pack.type = "online_list" /\ x2.pack.id = q.id
          /\ x2.pack.resumed = FALSE
        BY <2>2 DEF Is
    <2> HIDE DEF x1, x2, E
    <2>8. TruthfulAnyhow({x1, x2})
      <3>1. /\ \A d : \A s \in {x1, x2} : ~Ask!TellsAccount(s, d)
            /\ \A d, r : \A s \in {x1, x2} : ~Ask!TellsOut(s, d, r)
            /\ \A d, r : Ask!TellsIn(x1, d, r) <=> (d = c /\ r = t)
            /\ \A d, r : ~Ask!TellsIn(x2, d, r)
            /\ \A s \in {x1, x2} : s.pack.type \notin {"create_room", "remove_room"}
          BY <2>7 DEF Ask!TellsAccount, Ask!TellsIn, Ask!TellsOut
      <3>2. \A d \in Client : \A r : r \in joined'[d] <=> r \in joined[d] \/ (d = c /\ r = t)
          BY <1>1, <1>3 DEF WorldTypes
      <3> QED BY <1>3, <3>1, <3>2 DEF TruthfulAnyhow
    <2>9. Serves(c, q.id) /\ Truthful
      <3> DEFINE L == {x1, x2}
      <3>1. \A s \in L : Vouched(s.pack) /\ s.to \subseteq Client /\ s.pack.id = q.id /\ s.to = {c}
          BY <1>1, <2>7
      <3>2. L \subseteq E
          BY <2>6
      <3> HIDE DEF L
      <3>3. TruthfulAnyhow(L) /\ \A s \in E : s \in L \/ (Quiet(s.pack) /\ s.to \subseteq Client)
          BY <2>6, <2>8 DEF L
      <3> QED BY <1>1, <2>5, <3>1, <3>2, <3>3, QuietIdle DEF E
    <2>10. Gives(c, q)
        BY <1>1, <2>6, <2>7 DEF Gives, E
    <2> QED BY <2>1, <2>9, <2>10 DEF Answered
  <1> QED BY <1>1, <1>2, <1>3 DEF Ask!Join

(* PacketLeave::process, and what a kick sends.                            *)
LEMMA GoneTold ==
    ASSUME WorldTypes, NEW c \in Client, NEW t \in Ask!AnyTarget, t \in joined[c], NEW id, NEW p,
           Is(p, "leave", id, t), NEW all \in Ask!Change(t),
           Ask!Sends(Ask!To(Ask!Members(t), all) \o Ask!To({c}, <<p>>)),
           joined' = [joined EXCEPT ![c] = @ \ {t}], UNCHANGED <<account, roomOwner>>
    PROVE  /\ Serves(c, id) /\ Truthful /\ WorldTypes'
           /\ [to |-> {c}, pack |-> p] \in Ask!ToSet(sent')
  <1> DEFINE x == [to |-> {c}, pack |-> p]
             E == Ask!ToSet(sent')
  <1>1. WorldTypes'
      BY DEF WorldTypes
  <1>2. Listed(all) /\ \A r \in Ask!ToSet(all) : Quiet(r)
      BY QuietPackets
  <1>4. Listed(sent') /\ E = {[to |-> Ask!Members(t), pack |-> r] : r \in Ask!ToSet(all)} \cup {x}
    <2> DEFINE others == Ask!To(Ask!Members(t), all)
               own == Ask!To({c}, <<p>>)
    <2>1. Listed(others) /\ Ask!ToSet(others) = {[to |-> Ask!Members(t), pack |-> r] : r \in Ask!ToSet(all)}
        BY <1>2, ListedTo
    <2>2. Listed(own) /\ Ask!ToSet(own) = {x}
        BY ListedOne
    <2>3. sent' = others \o own
        BY DEF Ask!Sends
    <2> HIDE DEF others, own
    <2> QED BY <2>1, <2>2, <2>3, ListedJoined
  <1>5. x \in E /\ \A s \in E : s \in {x} \/ (Quiet(s.pack) /\ s.to \subseteq Client)
      BY <1>2, <1>4 DEF Ask!Members
  <1>6. /\ x.to = {c} /\ Vouched(x.pack) /\ x.pack.type = "leave" /\ x.pack.id = id
        /\ x.pack.target = t /\ x.pack.resumed = FALSE
      BY DEF Is
  <1> HIDE DEF x, E
  <1>7. TruthfulAnyhow({x})
    <2>1. /\ \A d : ~Ask!TellsAccount(x, d)
          /\ \A d, r : ~Ask!TellsIn(x, d, r)
          /\ \A d, r : Ask!TellsOut(x, d, r) <=> (d = c /\ r = t)
        BY <1>6 DEF Ask!TellsAccount, Ask!TellsIn, Ask!TellsOut
    <2>2. \A d \in Client : \A r : r \in joined'[d] <=> r \in joined[d] /\ ~(d = c /\ r = t)
        BY DEF WorldTypes
    <2> QED BY <1>6, <2>1, <2>2 DEF TruthfulAnyhow
  <1>8. Serves(c, id) /\ Truthful
      BY <1>4, <1>5, <1>6, <1>7, QuietIdle DEF E
  <1> QED BY <1>1, <1>5, <1>8 DEF x, E

(* PacketLeave::process, with its refusal.                                 *)
LEMMA LeaveAnswers ==
    ASSUME NEW c, NEW q, Asks(c, q, "leave"), Ask!Leave(c, q)
    PROVE  Answered(c, q)
  <1> DEFINE p == Ask!This(q, {})
  <1>1. /\ WorldTypes /\ c \in Client /\ q.target \in Ask!AnyTarget /\ q.type = "leave"
        /\ Asks(c, q, q.type)
      BY DEF Asks, Ask!Request
  <1>2. CASE \E code : Ask!Refuses(c, q, code)
      BY <1>1, <1>2, RefusesAnswers
  <1>3. ASSUME NEW all \in Ask!Change(q.target), q.target \in joined[c],
               Ask!Sends(Ask!To(Ask!Members(q.target), all) \o Ask!To({c}, <<p>>)),
               joined' = [joined EXCEPT ![c] = @ \ {q.target}], UNCHANGED <<account, roomOwner>>
        PROVE  Answered(c, q)
    <2>1. Is(p, "leave", q.id, q.target)
        BY <1>1, ThisVouched
    <2> HIDE DEF p
    <2>2. /\ Serves(c, q.id) /\ Truthful /\ WorldTypes'
          /\ [to |-> {c}, pack |-> p] \in Ask!ToSet(sent')
        BY <1>1, <1>3, <2>1, GoneTold
    <2>3. Gives(c, q)
        BY <1>1, <2>1, <2>2 DEF Gives, Is
    <2> QED BY <2>2, <2>3 DEF Answered
  <1> QED BY <1>1, <1>2, <1>3 DEF Ask!Leave

(* PacketCreateRoom::process.                                              *)
LEMMA CreateRoomAnswers ==
    ASSUME NEW c, NEW q, Asks(c, q, "create_room"), Ask!CreateRoom(c, q)
    PROVE  Answered(c, q)
  <1> DEFINE p == Ask!This(q, {})
             x == [to |-> {c}, pack |-> p]
             t == q.target
  <1>1. /\ WorldTypes /\ c \in Client /\ t \in Ask!AnyTarget /\ q.type = "create_room"
        /\ Asks(c, q, q.type) /\ req'.by = c
      BY DEF Asks, Ask!Request
  <1>2. CASE \E code : Ask!Refuses(c, q, code)
      BY <1>1, <1>2, RefusesAnswers
  <1>3. ASSUME account[c] # Guest, t # BadName, roomOwner[t] = NoRoom, Ask!Sends(Ask!To({c}, <<p>>)),
               roomOwner' = [roomOwner EXCEPT ![t] = account[c]], UNCHANGED <<account, joined>>
        PROVE  Answered(c, q)
    <2>1. account[c] \in AskUid /\ account[c] # NoRoom
        BY <1>1, <1>3, AskedAssumption DEF WorldTypes, Ask!RequestsAssumption
    <2>2. WorldTypes'
        BY <1>1, <1>3, <2>1 DEF WorldTypes
    <2>3. Is(p, "create_room", q.id, t)
        BY <1>1, ThisVouched
    <2>4. Listed(sent') /\ Ask!ToSet(sent') = {x}
        BY <1>3, ListedOne DEF Ask!Sends
    <2>5. /\ x.to = {c} /\ Vouched(x.pack) /\ x.pack.type = "create_room" /\ x.pack.id = q.id
          /\ x.pack.target = t /\ x.pack.resumed = FALSE
        BY <2>3 DEF Is
    <2> HIDE DEF x
    <2>6. TruthfulAnyhow({x})
      <3>1. /\ \A d : ~Ask!TellsAccount(x, d)
            /\ \A d, r : ~Ask!TellsIn(x, d, r) /\ ~Ask!TellsOut(x, d, r)
          BY <2>5 DEF Ask!TellsAccount, Ask!TellsIn, Ask!TellsOut
      <3>2. \A z \in Ask!AnyTarget : roomOwner'[z] = IF z = t THEN account[c] ELSE roomOwner[z]
          BY <1>1, <1>3 DEF WorldTypes
      <3> QED BY <1>1, <1>3, <2>5, <3>1, <3>2 DEF TruthfulAnyhow
    <2>7. Serves(c, q.id) /\ Truthful
        BY <1>1, <2>4, <2>5, <2>6, QuietIdle
    <2>8. Gives(c, q)
        BY <1>1, <2>4, <2>5 DEF Gives
    <2> QED BY <2>2, <2>7, <2>8 DEF Answered
  <1> QED BY <1>1, <1>2, <1>3 DEF Ask!CreateRoom

(* PacketRemoveRoom::process: the requester, when a member, is told like   *)
(* the others, before its answer.                                          *)
LEMMA RemoveRoomAnswers ==
    ASSUME NEW c, NEW q, Asks(c, q, "remove_room"), Ask!RemoveRoom(c, q)
    PROVE  Answered(c, q)
  <1> DEFINE p == Ask!This(q, {})
             t == q.target
             out == Ask!Make("leave", NoId, t, {"target"})
             x == [to |-> {c}, pack |-> p]
             y == [to |-> Ask!Members(t), pack |-> out]
             E == Ask!ToSet(sent')
  <1>1. /\ WorldTypes /\ c \in Client /\ t \in Ask!AnyTarget /\ q.type = "remove_room"
        /\ Asks(c, q, q.type) /\ req'.by = c
      BY DEF Asks, Ask!Request
  <1>2. CASE \E code : Ask!Refuses(c, q, code)
      BY <1>1, <1>2, RefusesAnswers
  <1>3. ASSUME NEW all \in Ask!Change(t), roomOwner[t] # NoRoom,
               Ask!Sends(Ask!To(Ask!Members(t), all \o <<out>>) \o Ask!To({c}, <<p>>)),
               roomOwner' = [roomOwner EXCEPT ![t] = NoRoom],
               joined' = [d \in Client |-> joined[d] \ {t}], UNCHANGED account
        PROVE  Answered(c, q)
    <2>1. WorldTypes'
        BY <1>1, <1>3 DEF WorldTypes
    <2>2. Is(p, "remove_room", q.id, t) /\ Is(out, "leave", NoId, t)
        BY <1>1, ThisVouched, MakeVouched, WireOfType
    <2>3. Listed(all) /\ \A r \in Ask!ToSet(all) : Quiet(r)
        BY <1>1, <1>3, QuietPackets
    <2>4. /\ Listed(sent')
          /\ E = {[to |-> Ask!Members(t), pack |-> r] : r \in Ask!ToSet(all)} \cup {y} \cup {x}
      <3> DEFINE others == Ask!To(Ask!Members(t), all \o <<out>>)
                 own == Ask!To({c}, <<p>>)
      <3>1. Listed(all \o <<out>>) /\ Ask!ToSet(all \o <<out>>) = Ask!ToSet(all) \cup {out}
          BY <2>3, ListedShort, ListedJoined
      <3>2. /\ Listed(others)
            /\ Ask!ToSet(others) = {[to |-> Ask!Members(t), pack |-> r] : r \in Ask!ToSet(all) \cup {out}}
        <4> HIDE DEF out
        <4> QED BY <3>1, ListedTo
      <3>3. Listed(own) /\ Ask!ToSet(own) = {x}
          BY ListedOne
      <3>4. sent' = others \o own
          BY <1>3 DEF Ask!Sends
      <3>5. {[to |-> Ask!Members(t), pack |-> r] : r \in Ask!ToSet(all) \cup {out}}
               = {[to |-> Ask!Members(t), pack |-> r] : r \in Ask!ToSet(all)} \cup {y}
        <4> HIDE DEF out
        <4> QED OBVIOUS
      <3> HIDE DEF others, own, x, y
      <3> QED BY <3>2, <3>3, <3>4, <3>5, ListedJoined
    <2>5. /\ x \in E /\ y \in E
          /\ \A s \in E : s \in {x, y} \/ (Quiet(s.pack) /\ s.to \subseteq Client)
      <3>1. ASSUME NEW r \in Ask!ToSet(all), NEW s, s = [to |-> Ask!Members(t), pack |-> r]
            PROVE  Quiet(s.pack) /\ s.to \subseteq Client
          BY <2>3, <3>1 DEF Ask!Members
      <3> HIDE DEF x, y, E
      <3> QED BY <2>4, <3>1
    <2>6. /\ x.to = {c} /\ Vouched(x.pack) /\ x.pack.type = "remove_room" /\ x.pack.id = q.id
          /\ x.pack.target = t /\ x.pack.resumed = FALSE
          /\ y.to = Ask!Members(t) /\ Vouched(y.pack) /\ y.pack.type = "leave" /\ y.pack.id = NoId
          /\ y.pack.target = t /\ y.pack.resumed = FALSE
        BY <2>2 DEF Is
    <2> HIDE DEF x, y, E
    <2>7. TruthfulAnyhow({x, y})
      <3>1. /\ \A d : \A s \in {x, y} : ~Ask!TellsAccount(s, d)
            /\ \A d, r : \A s \in {x, y} : ~Ask!TellsIn(s, d, r)
            /\ \A d, r : ~Ask!TellsOut(x, d, r)
            /\ \A d, r : Ask!TellsOut(y, d, r) <=> (d \in Ask!Members(t) /\ r = t)
          BY <2>6 DEF Ask!TellsAccount, Ask!TellsIn, Ask!TellsOut
      <3>2. \A d \in Client : \A r : r \in joined'[d] <=> r \in joined[d] /\ ~(d \in Ask!Members(t) /\ r = t)
          BY <1>1, <1>3 DEF WorldTypes, Ask!Members
      <3>3. \A z \in Ask!AnyTarget : roomOwner'[z] = IF z = t THEN NoRoom ELSE roomOwner[z]
          BY <1>1, <1>3 DEF WorldTypes
      <3>4. \A d \in Client :
               /\ \A s \in {x, y} : Ask!TellsAccount(s, d) => account'[d] = s.pack.user
               /\ (\A s \in {x, y} : ~Ask!TellsAccount(s, d)) => account'[d] = account[d]
          BY <1>3, <3>1
      <3>5. \A d \in Client, r \in AskRoom :
               /\ \A s \in {x, y}, z \in {x, y} : ~(Ask!TellsIn(s, d, r) /\ Ask!TellsOut(z, d, r))
               /\ r \in joined'[d] <=> \/ r \in joined[d] /\ \A s \in {x, y} : ~Ask!TellsOut(s, d, r)
                                       \/ \E s \in {x, y} : Ask!TellsIn(s, d, r)
          BY <3>1, <3>2
      <3> DEFINE Yes(z, type) == \E s \in {x, y} : s.to = {req'.by} /\ s.pack.type = type /\ s.pack.target = z
      <3>6. \A z : ~Yes(z, "create_room") /\ (Yes(z, "remove_room") <=> z = t)
          BY <1>1, <2>6
      <3>7. \A z \in Ask!AnyTarget : roomOwner'[z] = IF Yes(z, "create_room") THEN account[req'.by]
                                                    ELSE IF Yes(z, "remove_room") THEN NoRoom ELSE roomOwner[z]
        <4> HIDE DEF Yes
        <4> QED BY <3>3, <3>6
      <3> QED BY <3>4, <3>5, <3>7 DEF TruthfulAnyhow
    <2>8. Serves(c, q.id) /\ Truthful
      <3> DEFINE L == {x, y}
      <3>1. \A s \in L : /\ Vouched(s.pack) /\ s.to \subseteq Client
                         /\ s.pack.id = NoId \/ (s.pack.id = q.id /\ s.to = {c})
          BY <1>1, <2>6 DEF Ask!Members
      <3>2. L \subseteq E
          BY <2>5
      <3> HIDE DEF L
      <3>3. TruthfulAnyhow(L) /\ \A s \in E : s \in L \/ (Quiet(s.pack) /\ s.to \subseteq Client)
          BY <2>5, <2>7 DEF L
      <3> QED BY <1>1, <2>4, <3>1, <3>2, <3>3, QuietIdle DEF E
    <2>9. Gives(c, q)
        BY <1>1, <2>5, <2>6 DEF Gives, E
    <2> QED BY <2>1, <2>8, <2>9 DEF Answered
  <1> QED BY <1>1, <1>2, <1>3 DEF Ask!RemoveRoom

(* The lists of the rooms of a resumed session: one join for each.         *)
LEMMA ListsVouched ==
    ASSUME NEW rs \in Seq(AskRoom)
    PROVE  LET s == Ask!Lists(rs) IN
           /\ s \in Seq(Ask!ToSet(s))
           /\ \A i \in DOMAIN s : \E j \in DOMAIN rs :
                 Is(s[i], "join", NoId, rs[j]) \/ Is(s[i], "online_list", NoId, rs[j])
           /\ \A j \in DOMAIN rs : 2 * j - 1 \in DOMAIN s /\ Is(s[2 * j - 1], "join", NoId, rs[j])
  <1> DEFINE s == Ask!Lists(rs)
  <1>1. Len(rs) \in Nat /\ DOMAIN rs = 1..Len(rs)
      OBVIOUS
  <1>2. DOMAIN s = 1..(2 * Len(rs)) /\ 2 * Len(rs) \in Nat
      BY <1>1 DEF Ask!Lists
  <1>3. s \in [1..(2 * Len(rs)) -> Ask!ToSet(s)]
      BY <1>2 DEF Ask!ToSet, Ask!Lists
  <1>4. ASSUME NEW i \in 1..(2 * Len(rs))
        PROVE  \E j \in DOMAIN rs : Is(s[i], "join", NoId, rs[j]) \/ Is(s[i], "online_list", NoId, rs[j])
    <2>1. (i + 1) \div 2 \in 1..Len(rs) /\ 2 - (i % 2) \in {1, 2}
        BY <1>1, Z3
    <2>2. s[i] = Ask!Welcome(rs[(i + 1) \div 2], NoId)[2 - (i % 2)]
        BY DEF Ask!Lists
    <2>3. rs[(i + 1) \div 2] \in Ask!AnyTarget /\ (i + 1) \div 2 \in DOMAIN rs
        BY <1>1, <2>1 DEF Ask!AnyTarget
    <2> DEFINE t == rs[(i + 1) \div 2]
    <2>4. Is(Ask!Welcome(t, NoId)[1], "join", NoId, t) /\ Is(Ask!Welcome(t, NoId)[2], "online_list", NoId, t)
        BY <2>3, WelcomeVouched
    <2> QED BY <2>1, <2>2, <2>3, <2>4
  <1>5. ASSUME NEW j \in DOMAIN rs
        PROVE  2 * j - 1 \in DOMAIN s /\ Is(s[2 * j - 1], "join", NoId, rs[j])
    <2>1. /\ 2 * j - 1 \in 1..(2 * Len(rs))
          /\ ((2 * j - 1) + 1) \div 2 = j /\ 2 - ((2 * j - 1) % 2) = 1
        BY <1>1, Z3
    <2>2. s[2 * j - 1] = Ask!Welcome(rs[j], NoId)[1]
        BY <2>1 DEF Ask!Lists
    <2>3. rs[j] \in Ask!AnyTarget
        BY <1>1 DEF Ask!AnyTarget
    <2>4. Is(Ask!Welcome(rs[j], NoId)[1], "join", NoId, rs[j])
        BY <2>3, WelcomeVouched
    <2>5. 2 * j - 1 \in DOMAIN s
        BY <1>2, <2>1
    <2> QED BY <2>2, <2>4, <2>5
  <1>6. s \in Seq(Ask!ToSet(s))
      BY <1>2, <1>3
  <1>7. \A i \in DOMAIN s : \E j \in DOMAIN rs :
           Is(s[i], "join", NoId, rs[j]) \/ Is(s[i], "online_list", NoId, rs[j])
      BY <1>2, <1>4
  <1> QED BY <1>5, <1>6, <1>7

(* The answer of a resumption comes first, and the rooms of the session    *)
(* after it.                                                               *)
LEMMA ResumptionAnswers ==
    ASSUME NEW c, NEW q, Asks(c, q, "auth"), NEW u \in AskUid \cup {Guest},
           NEW S \in SUBSET {r \in AskRoom : roomOwner[r] # NoRoom},
           Ask!Sends(Ask!To({c}, <<Ask!AuthAnswer(q, u, TRUE)>> \o Ask!Lists(Ask!SetToSeq(S)))),
           account' = [account EXCEPT ![c] = u], joined' = [joined EXCEPT ![c] = S],
           UNCHANGED roomOwner
    PROVE  Answered(c, q)
  <1> DEFINE rs == Ask!SetToSeq(S)
             yes == TRUE
             p == Ask!AuthAnswer(q, u, yes)
             l == Ask!Lists(rs)
  <1>1. WorldTypes /\ c \in Client /\ q.target \in Ask!AnyTarget /\ q.type = "auth" /\ req'.by = c
      BY DEF Asks, Ask!Request
  <1>2. WorldTypes' /\ joined'[c] = S /\ account'[c] = u
      BY <1>1 DEF WorldTypes
  <1>3. /\ Vouched(p) /\ p.type = "auth" /\ p.id = q.id /\ p.target = q.target
        /\ p.user = u /\ p.resumed
    <2>1. p.resumed = yes
      <3> HIDE DEF yes
      <3> QED BY <1>1, AuthAnswerVouched
    <2> HIDE DEF yes
    <2>2. /\ Vouched(p) /\ p.type = "auth" /\ p.id = q.id /\ p.target = q.target
          /\ p.user = u
        BY <1>1, AuthAnswerVouched
    <2> QED BY <2>1, <2>2 DEF yes
  <1>4. /\ rs \in Seq(AskRoom) /\ \A j \in DOMAIN rs : rs[j] \in S
        /\ \A r \in S : \E j \in DOMAIN rs : rs[j] = r
    <2>1. IsFiniteSet(S)
        BY AskedAssumption, FS_Subset DEF Ask!RequestsAssumption, Ask!IsFiniteSet, IsFiniteSet
    <2>2. rs \in Seq(S) /\ \A x \in S : \E i \in DOMAIN rs : rs[i] = x
        BY <2>1, SetToSeqOf
    <2> HIDE DEF rs
    <2> QED BY <2>2
  <1>5. /\ l \in Seq(Ask!ToSet(l))
        /\ \A i \in DOMAIN l : \E j \in DOMAIN rs :
              Is(l[i], "join", NoId, rs[j]) \/ Is(l[i], "online_list", NoId, rs[j])
        /\ \A j \in DOMAIN rs : 2 * j - 1 \in DOMAIN l /\ Is(l[2 * j - 1], "join", NoId, rs[j])
    <2> HIDE DEF rs
    <2> QED BY <1>4, ListsVouched
  <1> HIDE DEF rs, p, l, yes
  <1>6. /\ Listed(sent') /\ DOMAIN sent' = 1..(Len(l) + 1) /\ Len(l) \in Nat /\ DOMAIN l = 1..Len(l)
        /\ sent'[1] = [to |-> {c}, pack |-> p]
        /\ \A i \in 1..Len(l) : sent'[i + 1] = [to |-> {c}, pack |-> l[i]]
    <2> DEFINE m == <<p>> \o l
    <2>1. Listed(m)
        BY <1>5, ListedShort, ListedJoined DEF Listed
    <2>2. /\ Len(l) \in Nat /\ DOMAIN l = 1..Len(l) /\ DOMAIN m = 1..(Len(l) + 1)
          /\ m[1] = p /\ \A i \in 1..Len(l) : m[i + 1] = l[i]
        BY <1>5
    <2> HIDE DEF m
    <2>3. sent' = Ask!To({c}, m)
        BY DEF Ask!Sends, m, p, l, rs, yes
    <2>4. Listed(sent')
        BY <2>1, <2>3, ListedTo
    <2>5. DOMAIN sent' = DOMAIN m /\ \A i \in DOMAIN m : sent'[i] = [to |-> {c}, pack |-> m[i]]
        BY <2>3 DEF Ask!To
    <2>6. 1 \in DOMAIN m /\ \A i \in 1..Len(l) : i + 1 \in DOMAIN m
        BY <2>2
    <2>7. /\ DOMAIN sent' = 1..(Len(l) + 1)
          /\ sent'[1] = [to |-> {c}, pack |-> p]
        BY <2>2, <2>5, <2>6
    <2>8. ASSUME NEW i \in 1..Len(l) PROVE sent'[i + 1] = [to |-> {c}, pack |-> l[i]]
        BY <2>2, <2>5, <2>6
    <2> QED BY <2>2, <2>4, <2>7, <2>8
  <1>7. \A k \in DOMAIN sent' :
           /\ sent'[k].to = {c}
           /\ \/ k = 1 /\ sent'[k].pack = p
              \/ k > 1 /\ \E j \in DOMAIN rs : \/ Is(sent'[k].pack, "join", NoId, rs[j])
                                              \/ Is(sent'[k].pack, "online_list", NoId, rs[j])
    <2> SUFFICES ASSUME NEW k \in 1..(Len(l) + 1)
                 PROVE  /\ sent'[k].to = {c}
                        /\ \/ k = 1 /\ sent'[k].pack = p
                           \/ k > 1 /\ \E j \in DOMAIN rs : \/ Is(sent'[k].pack, "join", NoId, rs[j])
                                                           \/ Is(sent'[k].pack, "online_list", NoId, rs[j])
        BY <1>6
    <2>1. CASE k = 1
        BY <1>6, <2>1
    <2>2. CASE k # 1
      <3>1. k - 1 \in 1..Len(l) /\ (k - 1) + 1 = k /\ k > 1
          BY <1>6, <2>2
      <3>2. sent'[k] = [to |-> {c}, pack |-> l[k - 1]]
          BY <1>6, <3>1
      <3>3. sent'[k].to = {c} /\ sent'[k].pack = l[k - 1]
          BY <3>2
      <3> QED BY <1>5, <1>6, <3>1, <3>3
    <2> QED BY <2>1, <2>2
  <1>8. 1 \in DOMAIN sent' /\ sent'[1].to = {c} /\ sent'[1].pack = p
      BY <1>6
  <1>9. Serves(c, q.id)
    <2>1. \A k \in DOMAIN sent' : /\ Vouched(sent'[k].pack) /\ sent'[k].to \subseteq Client
                                  /\ sent'[k].pack.id = NoId \/ (sent'[k].pack.id = q.id /\ sent'[k].to = {c})
        BY <1>1, <1>3, <1>7 DEF Is
    <2> QED BY <1>6, <2>1 DEF Serves, Ask!ToSet
  <1>10. Gives(c, q)
      BY <1>1, <1>3, <1>8 DEF Gives, Ask!ToSet
  <1>11. Ask!AccountsTold
    <2>1. \A d \in Client, k \in DOMAIN sent' : Ask!TellsAccount(sent'[k], d) <=> d = c /\ k = 1
        BY <1>3, <1>7 DEF Ask!TellsAccount, Is
    <2>2. \A d \in Client : account'[d] = IF d = c THEN u ELSE account[d]
        BY <1>1 DEF WorldTypes
    <2> QED BY <1>3, <1>8, <2>1, <2>2 DEF Ask!AccountsTold
  <1>12. Ask!RoomsTold
    <2>1. ASSUME NEW d \in Client, NEW r \in AskRoom, NEW k \in DOMAIN sent'
          PROVE  /\ Ask!TellsOut(sent'[k], d, r) <=> d = c /\ k = 1
                 /\ Ask!TellsIn(sent'[k], d, r) => d = c /\ r \in S /\ k # 1
        BY <1>3, <1>4, <1>7 DEF Ask!TellsOut, Ask!TellsIn, Is
    <2>2. ASSUME NEW r \in S
          PROVE  \E k \in DOMAIN sent' : Ask!TellsIn(sent'[k], c, r) /\ k >= 1
      <3>1. PICK j \in DOMAIN rs : rs[j] = r
          BY <1>4
      <3> DEFINE i == 2 * j - 1
      <3>2. i \in 1..Len(l) /\ Is(l[i], "join", NoId, r)
          BY <1>5, <1>6, <3>1
      <3> HIDE DEF i
      <3>3. i + 1 \in DOMAIN sent' /\ sent'[i + 1] = [to |-> {c}, pack |-> l[i]] /\ i + 1 >= 1
          BY <1>6, <3>2
      <3>4. Ask!TellsIn(sent'[i + 1], c, r)
          BY <3>2, <3>3 DEF Ask!TellsIn, Is
      <3> QED BY <3>3, <3>4
    <2>3. \A k \in DOMAIN sent' : k \in Nat /\ k >= 1
        BY <1>6
    <2>4. ASSUME NEW d \in Client, NEW r \in AskRoom
          PROVE  LET StaysFrom(k) == \A i \in DOMAIN sent' : i > k => ~Ask!TellsOut(sent'[i], d, r) IN
                 r \in joined'[d] <=> \/ r \in joined[d] /\ StaysFrom(0)
                                      \/ \E k \in DOMAIN sent' : Ask!TellsIn(sent'[k], d, r) /\ StaysFrom(k)
      <3> DEFINE StaysFrom(k) == \A i \in DOMAIN sent' : i > k => ~Ask!TellsOut(sent'[i], d, r)
      <3>1. StaysFrom(0) <=> d # c
          BY <1>8, <2>1
      <3>2. \A k \in DOMAIN sent' : StaysFrom(k)
          BY <2>1, <2>3
      <3>3. (\E k \in DOMAIN sent' : Ask!TellsIn(sent'[k], d, r)) <=> d = c /\ r \in S
          BY <2>1, <2>2
      <3>4. joined'[d] = IF d = c THEN S ELSE joined[d]
          BY <1>1 DEF WorldTypes
      <3> HIDE DEF StaysFrom
      <3>5. r \in joined'[d] <=> \/ r \in joined[d] /\ StaysFrom(0)
                                 \/ \E k \in DOMAIN sent' : Ask!TellsIn(sent'[k], d, r) /\ StaysFrom(k)
          BY <3>1, <3>2, <3>3, <3>4
      <3> QED BY <3>5 DEF StaysFrom
    <2> QED BY <2>4 DEF Ask!RoomsTold
  <1>13. Ask!OwnersTold
    <2>1. \A k \in DOMAIN sent' : sent'[k].pack.type \notin {"create_room", "remove_room"}
        BY <1>3, <1>7 DEF Is
    <2> QED BY <2>1 DEF Ask!OwnersTold
  <1> QED BY <1>2, <1>9, <1>10, <1>11, <1>12, <1>13 DEF Answered, Truthful

(* PacketAuth::process: refused, authorized, or resumed with the lists of  *)
(* the rooms.                                                              *)
LEMMA AuthAnswers ==
    ASSUME NEW c, NEW q, Asks(c, q, "auth"), Ask!Auth(c, q)
    PROVE  Answered(c, q)
  <1>1. /\ WorldTypes /\ c \in Client /\ q.target \in Ask!AnyTarget /\ q.type = "auth"
        /\ Asks(c, q, q.type)
      BY DEF Asks, Ask!Request
  <1>2. CASE \E code : Ask!Refuses(c, q, code)
      BY <1>1, <1>2, RefusesAnswers
  <1>3. ASSUME NEW u \in AskUid \cup {account[c]}, NEW no, no = FALSE,
               Ask!Sends(Ask!To({c}, <<Ask!AuthAnswer(q, u, no)>>)),
               account' = [account EXCEPT ![c] = u], UNCHANGED <<joined, roomOwner>>
        PROVE  Answered(c, q)
    <2> DEFINE p == Ask!AuthAnswer(q, u, no)
               x == [to |-> {c}, pack |-> p]
    <2>1. WorldTypes'
        BY <1>1, <1>3 DEF WorldTypes
    <2>2. Vouched(p) /\ p.type = "auth" /\ p.id = q.id /\ p.target = q.target /\ p.user = u
        BY <1>1, AuthAnswerVouched
    <2>3. p.resumed = no
        BY <1>1, AuthAnswerVouched
    <2>4. Listed(sent') /\ Ask!ToSet(sent') = {x}
        BY <1>3, ListedOne DEF Ask!Sends
    <2> HIDE DEF p
    <2>5. x.to = {c} /\ x.pack = p /\ ~p.resumed
        BY <1>3, <2>3
    <2> HIDE DEF x
    <2>6. TruthfulAnyhow({x})
      <3>1. /\ \A d : Ask!TellsAccount(x, d) <=> d = c
            /\ \A d, r : ~Ask!TellsIn(x, d, r) /\ ~Ask!TellsOut(x, d, r)
          BY <2>2, <2>5 DEF Ask!TellsAccount, Ask!TellsIn, Ask!TellsOut
      <3>2. \A d \in Client : account'[d] = IF d = c THEN u ELSE account[d]
          BY <1>1, <1>3 DEF WorldTypes
      <3> QED BY <1>3, <2>2, <2>5, <3>1, <3>2 DEF TruthfulAnyhow
    <2>7. Serves(c, q.id) /\ Truthful
        BY <1>1, <2>2, <2>4, <2>5, <2>6, QuietIdle
    <2>8. Gives(c, q)
        BY <1>1, <2>2, <2>4, <2>5 DEF Gives
    <2> QED BY <2>1, <2>7, <2>8 DEF Answered
  <1>4. ASSUME NEW u \in AskUid \cup {Guest},
               NEW S \in SUBSET {r \in AskRoom : roomOwner[r] # NoRoom},
               Ask!Sends(Ask!To({c}, <<Ask!AuthAnswer(q, u, TRUE)>> \o Ask!Lists(Ask!SetToSeq(S)))),
               account' = [account EXCEPT ![c] = u], joined' = [joined EXCEPT ![c] = S],
               UNCHANGED roomOwner
        PROVE  Answered(c, q)
      BY <1>4, ResumptionAnswers
  <1> QED BY <1>2, <1>3, <1>4 DEF Ask!Auth

(* PacketOnlineList::process, whose answer has no number.                  *)
LEMMA OnlineListAnswers ==
    ASSUME NEW c, NEW q, Asks(c, q, "online_list"), Ask!OnlineList(c, q)
    PROVE  Answered(c, q)
  <1> DEFINE p == Ask!Make("online_list", NoId, q.target, {"target", "list"})
             x == [to |-> {c}, pack |-> p]
  <1>1. /\ WorldTypes /\ c \in Client /\ q.target \in Ask!AnyTarget /\ q.type = "online_list"
        /\ Asks(c, q, q.type)
      BY DEF Asks, Ask!Request
  <1>2. CASE Ask!Refuses(c, q, "not_found")
      BY <1>1, <1>2, RefusesAnswers
  <1>3. ASSUME Ask!Sends(Ask!To({c}, <<p>>)), UNCHANGED Ask!world
        PROVE  Answered(c, q)
    <2>1. Is(p, "online_list", NoId, q.target)
        BY <1>1, MakeVouched, WireOfType
    <2>2. Listed(sent') /\ Ask!ToSet(sent') = {x}
        BY <1>3, ListedOne DEF Ask!Sends
    <2>3. Quiet(p) /\ x.to = {c} /\ x.pack = p
        BY <1>1, <2>1 DEF Quiet
    <2> HIDE DEF x, p
    <2>4. Serves(c, q.id) /\ Truthful
        BY <1>1, <1>3, <2>2, <2>3, QuietStep
    <2>5. Gives(c, q)
        BY <1>1, <2>1, <2>2, <2>3 DEF Gives, Is
    <2>6. WorldTypes'
        BY <1>1, <1>3 DEF Ask!world, WorldTypes
    <2> QED BY <2>4, <2>5, <2>6 DEF Answered
  <1> QED BY <1>1, <1>2, <1>3 DEF Ask!OnlineList

(* What is not answered by a packet to be found again.                     *)
LEMMA OthersServe ==
    ASSUME NEW c, NEW q, Asks(c, q, q.type),
           Ask!Message(c, q) \/ Ask!Status(c, q) \/ Ask!Ignored(c, q)
    PROVE  Serves(c, q.id) /\ WorldTypes' /\ Truthful
  <1> DEFINE t == q.target
             Out(S, out) ==
                /\ sent' = Ask!To(S, out)
                /\ \/ out = <<>> \/ out = <<Ask!System(t)>>
                   \/ out = <<[Ask!Make("message", NoId, t, Ask!MessageWire) EXCEPT !.from.message = "peer"]>>
                   \/ out = <<[Ask!Make("status", NoId, t, Ask!StatusWire) EXCEPT !.from.status = "peer"]>>
  <1>1. WorldTypes /\ c \in Client /\ t \in Ask!AnyTarget
      BY DEF Asks, Ask!Request
  <1>2. UNCHANGED Ask!world
      BY DEF Ask!Message, Ask!Status, Ask!Ignored
  <1>3. Ask!Members(t) \subseteq Client /\ {c} \subseteq Client
      BY <1>1 DEF Ask!Members
  <1>4. \E S \in SUBSET Client : \E out : Out(S, out)
    <2>1. CASE Ask!Message(c, q)
        BY <1>3, <2>1 DEF Ask!Message, Ask!Sends
    <2>2. Ask!To({}, <<>>) = <<>>
        BY DEF Ask!To
    <2>3. CASE Ask!Status(c, q) \/ Ask!Ignored(c, q)
        BY <1>3, <2>2, <2>3 DEF Ask!Status, Ask!Ignored, Ask!Sends
    <2> QED BY <2>1, <2>3
  <1> PICK S \in SUBSET Client : \E out : Out(S, out)
      BY <1>4
  <1> PICK out : Out(S, out)
      OBVIOUS
  <1>5. Listed(out) /\ \A p \in Ask!ToSet(out) : Quiet(p)
      BY <1>1, QuietPackets
  <1>6. Listed(sent') /\ \A s \in Ask!ToSet(sent') : Quiet(s.pack) /\ s.to \subseteq Client
    <2>1. Listed(sent') /\ Ask!ToSet(sent') = {[to |-> S, pack |-> p] : p \in Ask!ToSet(out)}
        BY <1>5, ListedTo
    <2> QED BY <1>5, <2>1
  <1>7. WorldTypes'
      BY <1>1, <1>2 DEF Ask!world, WorldTypes
  <1> QED BY <1>1, <1>2, <1>6, <1>7, QuietStep

(* Room::kickMember: who is kicked is told, without a number.              *)
LEMMA KickServes ==
    ASSUME WorldTypes, NEW c \in Client, NEW r \in AskRoom, Ask!Kick(c, r)
    PROVE  Serves(c, NoId) /\ WorldTypes' /\ Truthful
  <1> DEFINE p == Ask!Make("leave", NoId, r, {"target"})
  <1>1. r \in Ask!AnyTarget /\ r \in joined[c] /\ UNCHANGED <<account, roomOwner>>
      BY DEF Ask!Kick, Ask!AnyTarget
  <1>2. Is(p, "leave", NoId, r)
      BY <1>1, MakeVouched, WireOfType
  <1>3. PICK all \in Ask!Change(r) : Ask!Sends(Ask!To(Ask!Members(r), all) \o Ask!To({c}, <<p>>))
      BY DEF Ask!Kick
  <1>4. joined' = [joined EXCEPT ![c] = @ \ {r}]
      BY DEF Ask!Kick
  <1> HIDE DEF p
  <1> QED BY <1>1, <1>2, <1>3, <1>4, GoneTold

-----------------------------------------------------------------------------
(* The steps.                                                              *)

(* What the last step served.                                              *)
ReqTypes ==
    req \in [by: Client \cup {NoId}, type: DOMAIN Ask!Type \cup {"garbage", "none"},
             id: 1..MaxAsk \cup {NoId}, target: Ask!AnyTarget]

AskIInv ==
    /\ WorldTypes /\ SentTypes /\ ReqTypes /\ asked \in 0..MaxAsk
    /\ Ask!AnswersMatch /\ Ask!FieldsVouched

(* A request is served by its process method.                              *)
LEMMA OnPacketServes ==
    ASSUME WorldTypes, NEW c \in Client, NEW q \in Ask!Request, Ask!OnPacket(c, q)
    PROVE  /\ Serves(c, q.id) /\ WorldTypes' /\ Truthful
           /\ q.type \in Ask!Answered => Gives(c, q)
  <1>1. Asks(c, q, q.type)
      BY DEF Asks, Ask!OnPacket
  <1>2. CASE q.type = "join"
      BY <1>1, <1>2, JoinAnswers DEF Ask!OnPacket, Answered
  <1>3. CASE q.type = "leave"
      BY <1>1, <1>3, LeaveAnswers DEF Ask!OnPacket, Answered
  <1>4. CASE q.type = "create_room"
      BY <1>1, <1>4, CreateRoomAnswers DEF Ask!OnPacket, Answered
  <1>5. CASE q.type = "remove_room"
      BY <1>1, <1>5, RemoveRoomAnswers DEF Ask!OnPacket, Answered
  <1>6. CASE q.type = "auth"
      BY <1>1, <1>6, AuthAnswers DEF Ask!OnPacket, Answered
  <1>7. CASE q.type = "online_list"
      BY <1>1, <1>7, OnlineListAnswers DEF Ask!OnPacket, Answered
  <1>8. CASE q.type \notin Ask!Answered
    <2>1. Ask!Message(c, q) \/ Ask!Status(c, q) \/ Ask!Ignored(c, q)
        BY <1>8 DEF Ask!OnPacket, Ask!Answered
    <2> QED BY <1>1, <1>8, <2>1, OthersServe
  <1> QED BY <1>2, <1>3, <1>4, <1>5, <1>6, <1>7, <1>8 DEF Ask!Answered

(* What is sent in a step is numbered and vouched for as the invariant     *)
(* asks.                                                                   *)
LEMMA ServesKeeps ==
    ASSUME NEW c \in Client, Serves(c, req'.id),
           req'.by = c \/ req'.id = NoId,
           req'.type \in Ask!Answered => req'.by = c /\ Gives(c, req')
    PROVE  SentTypes' /\ Ask!AnswersMatch' /\ Ask!FieldsVouched'
  <1>1. \A i \in DOMAIN sent' :
           /\ Vouched(sent'[i].pack) /\ sent'[i].to \subseteq Client
           /\ sent'[i].pack.id = NoId \/ (sent'[i].pack.id = req'.id /\ sent'[i].to = {c})
      BY DEF Serves, Ask!ToSet
  <1>2. SentTypes' /\ Ask!FieldsVouched'
      BY <1>1 DEF SentTypes, Ask!FieldsVouched, Vouched
  <1>3. \A i \in DOMAIN sent' :
           sent'[i].pack.id # NoId => sent'[i].pack.id = req'.id /\ sent'[i].to = {req'.by}
      BY <1>1
  <1>4. ASSUME req'.type \in Ask!Answered
        PROVE  \E i \in DOMAIN sent' : (sent[i].to = {req.by} /\ Ask!Answers(sent[i].pack))'
    <2>1. PICK s \in Ask!ToSet(sent') :
              /\ s.to = {c} /\ s.pack.type \in {"error", req'.type} /\ s.pack.target = req'.target
              /\ s.pack.id = req'.id \/ (req'.type = "online_list" /\ s.pack.id = NoId)
        BY <1>4 DEF Gives
    <2>2. PICK i \in DOMAIN sent' : sent'[i] = s
        BY DEF Ask!ToSet
    <2>3. sent'[i].to = {req'.by}
        BY <1>4, <2>1, <2>2
    <2>4. Ask!Answers(sent[i].pack)'
        BY <2>1, <2>2 DEF Ask!Answers
    <2> QED BY <2>3, <2>4
  <1> QED BY <1>2, <1>3, <1>4 DEF Ask!AnswersMatch

(* A packet of a peer, or a kick, keeps the invariant, and everybody is    *)
(* told what happens to him.                                               *)
LEMMA AskStep ==
    ASSUME AskIInv, Ask!Next
    PROVE  AskIInv' /\ Truthful
  <1>1. PICK c \in Client : \/ \E q \in Ask!Request : Ask!OnPacket(c, q)
                            \/ \E r \in AskRoom : Ask!Kick(c, r)
      BY DEF Ask!Next
  <1>2. MaxAsk \in Nat /\ asked \in 0..MaxAsk /\ WorldTypes
      BY AskedAssumption DEF Ask!RequestsAssumption, AskIInv
  <1>3. ASSUME NEW q \in Ask!Request, Ask!OnPacket(c, q)
        PROVE  AskIInv' /\ Truthful
    <2>1. /\ Serves(c, q.id) /\ WorldTypes' /\ Truthful
          /\ q.type \in Ask!Answered => Gives(c, q)
        BY <1>2, <1>3, OnPacketServes
    <2>2. /\ asked < MaxAsk /\ asked' = asked + 1
          /\ req' = [by |-> c, type |-> q.type, id |-> q.id, target |-> q.target]
        BY <1>3, Zenon DEF Ask!OnPacket
    <2>3. /\ req'.by = c /\ req'.type = q.type /\ req'.id = q.id /\ req'.target = q.target
          /\ ReqTypes'
        BY <2>2 DEF Ask!Request, ReqTypes
    <2>4. q.type \in Ask!Answered => Gives(c, req')
        BY <2>1, <2>3 DEF Gives
    <2>5. SentTypes' /\ Ask!AnswersMatch' /\ Ask!FieldsVouched'
        BY <2>1, <2>3, <2>4, ServesKeeps
    <2>6. asked' \in 0..MaxAsk
        BY <1>2, <2>2
    <2> QED BY <2>1, <2>3, <2>5, <2>6 DEF AskIInv
  <1>4. ASSUME NEW r \in AskRoom, Ask!Kick(c, r)
        PROVE  AskIInv' /\ Truthful
    <2>1. Serves(c, NoId) /\ WorldTypes' /\ Truthful
        BY <1>2, <1>4, KickServes
    <2>2. /\ asked' = asked /\ req'.id = NoId /\ req'.type = "none"
          /\ ReqTypes'
        BY <1>4 DEF Ask!Kick, Ask!Nothing, ReqTypes, Ask!AnyTarget
    <2>3. SentTypes' /\ Ask!AnswersMatch' /\ Ask!FieldsVouched'
        BY <2>1, <2>2, ServesKeeps DEF Ask!Answered
    <2> QED BY <1>2, <2>1, <2>2, <2>3 DEF AskIInv
  <1> QED BY <1>1, <1>3, <1>4

(* At first nothing was asked or sent.                                     *)
LEMMA AskInitHolds == Ask!Init => AskIInv
  <1> SUFFICES ASSUME Ask!Init PROVE AskIInv
      OBVIOUS
  <1>1. WorldTypes
      BY DEF Ask!Init, WorldTypes, Ask!AnyTarget
  <1>2. ReqTypes /\ req.type = "none"
      BY DEF Ask!Init, Ask!Nothing, ReqTypes, Ask!AnyTarget
  <1>3. Ask!FieldsVouched /\ SentTypes /\ Ask!AnswersMatch
      BY <1>2 DEF Ask!Init, Ask!FieldsVouched, SentTypes, Ask!AnswersMatch, Ask!Answered
  <1>4. asked \in 0..MaxAsk
      BY AskedAssumption DEF Ask!Init, Ask!RequestsAssumption
  <1> QED BY <1>1, <1>2, <1>3, <1>4 DEF AskIInv

(* The invariant of the requests is inductive, and every step is told.     *)
LEMMA AskInductive ==
    AskIInv /\ [Ask!Next]_(Ask!vars) => AskIInv' /\ [Truthful]_(Ask!vars)
  <1>1. AskIInv /\ UNCHANGED Ask!vars => AskIInv'
      BY DEF Ask!vars, Ask!world, AskIInv, WorldTypes, SentTypes, ReqTypes,
             Ask!AnswersMatch, Ask!Answers, Ask!FieldsVouched
  <1> QED BY <1>1, AskStep

-----------------------------------------------------------------------------
(* Side by side.                                                           *)

(* A behaviour of the parts is, seen by each of them, one of its own.      *)
LEMMA PartsBehave ==
    SpecOfParts => Spec /\ Line!Spec /\ Flood!Spec /\ Ask!Spec
  <1>1. InitEach => Init /\ Line!Init /\ Flood!Init /\ Ask!Init
      BY DEF InitEach
  <1>2. [NextOfPart]_<<vars, line, floodVars, answerVars, part>> =>
            [Next]_vars /\ [Line!Next]_line /\ [Flood!Next]_(Flood!vars) /\ [Ask!Next]_(Ask!vars)
      BY DEF NextOfPart, floodVars, answerVars, Flood!vars, Flood!floodVars, Ask!vars, Ask!world
  <1> QED BY <1>1, <1>2, PTL DEF SpecOfParts, Spec, Line!Spec, Flood!Spec, Ask!Spec

(* FloodBounded holds: in FloodWindow + 2 successive seconds               *)
(* PacketMessage::process lets at most two allowances of messages pass.    *)
THEOREM FloodBoundedHolds == SpecOfParts => []FloodBounded
  <1>1. Flood!Spec => []FloodIInv
      BY FloodInitHolds, FloodInductive, PTL DEF Flood!Spec
  <1> QED BY <1>1, PartsBehave, AllowancesBound, PTL

(* The invariant of the requests holds in every reachable state.           *)
THEOREM AnswersInvariant == Ask!Spec => []AskIInv
  BY AskInitHolds, AskInductive, PTL DEF Ask!Spec

(* AnswersMatch holds: every process method answers a request in its own   *)
(* step, to the peer who asked and under its sequenceId, on every path, but*)
(* for the one of PacketOnlineList, whose answer may be without; nothing   *)
(* else is numbered.                                                       *)
THEOREM AnswersMatchHolds == SpecOfParts => []AnswersMatch
  <1>1. AskIInv => AnswersMatch
      BY DEF AskIInv, AnswersMatch
  <1> QED BY <1>1, AnswersInvariant, PartsBehave, PTL

(* FieldsVouched holds: no serialize sends a field that was never set, or  *)
(* a name, an id, a time or a right that deserialize took from the peer.   *)
THEOREM FieldsVouchedHolds == SpecOfParts => []FieldsVouched
  <1>1. AskIInv => FieldsVouched
      BY DEF AskIInv, FieldsVouched
  <1> QED BY <1>1, AnswersInvariant, PartsBehave, PTL

(* AnswersTrue holds: the account and the rooms of every client, and the   *)
(* rooms that there are, change as the packets of the step say, in their   *)
(* order, and not otherwise.                                               *)
THEOREM AnswersTrueHolds == SpecOfParts => AnswersTrue
  <1>1. Ask!Spec => [][Truthful]_(Ask!vars)
      BY AnswersInvariant, AskInductive, PTL DEF Ask!Spec
  <1> QED BY <1>1, PartsBehave, PTL DEF AnswersTrue, Ask!AnswersTrue, Truthful

(* TextClean holds: what PacketMessage::deserialize makes of any bytes of  *)
(* any length is readable, and processCommand says no command.             *)
THEOREM TextCleanHolds == SpecOfParts => []TextClean
  <1>1. Line!Spec => []Line!TextClean
      BY AskedAssumption, Line!TextCleanOfSpec
  <1> QED BY <1>1, PartsBehave, PTL DEF TextClean

(* ArgumentsExact holds: what regex_parser leaves a command of any line is *)
(* what was written there.                                                 *)
THEOREM ArgumentsExactHolds == SpecOfParts => []ArgumentsExact
  <1>1. Line!Spec => []Line!ArgumentsExact
      BY AskedAssumption, Line!ArgumentsExactOfSpec
  <1> QED BY <1>1, PartsBehave, PTL DEF ArgumentsExact

(* TypesOK holds: the components keep the types of their state, and what   *)
(* those say of it: members are of rooms that exist, a number that is read *)
(* has room, and the bounds of the model are kept.                         *)
THEOREM TypesOKHolds == SpecOfParts => []TypesOK
  <1>1. Line!Spec => []Line!TypeOK
      BY AskedAssumption, Line!TypeCorrect
  <1>2. Flood!Spec => []FloodIInv
      BY FloodInitHolds, FloodInductive, PTL DEF Flood!Spec
  <1>3. FloodIInv => Flood!TypeOK
      BY DEF FloodIInv, FloodTypes
  <1>4. AskIInv => Ask!TypeOK
      BY DEF AskIInv, WorldTypes, SentTypes, ReqTypes, Ask!TypeOK
  <1> QED BY <1>1, <1>2, <1>3, <1>4, TypesCorrect, AnswersInvariant, PartsBehave, PTL DEF TypesOK


=============================================================================
