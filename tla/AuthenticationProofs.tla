------------------------- MODULE AuthenticationProofs -------------------------
(***************************************************************************)
(* Proofs about Authentication: types, what the peer was told, and what a  *)
(* refused request leaves alone, for any clients, accounts, addresses and  *)
(* limits, with Postgres and with MySQL.                                   *)
(***************************************************************************)
EXTENDS Authentication, TLAPS

(* Every session that exists has an address, so Gate has a key for it. *)
Addressed == \A c \in Client : state[c] # "free" => from[c] \in Ip

(* Where the account may be new and not told yet. *)
Fresh == {"loginReset", "reply"}

(* A request in progress is not answered yet; the asking session has its   *)
(* connection, and its account until the last call that may refuse it.     *)
Asking ==
    pc # "idle" =>
        /\ answer = "none"
        /\ state[req.client] = "live"
        /\ pc \notin Fresh => identity[req.client] = req.was

(* ToldExact, for the steps of a request too. *)
ToldInv ==
    \A c \in Client :
        \/ told[c] \in {Untold, identity[c]}
        \/ pc \in Fresh /\ c = req.client

IInv == TypeOK /\ Addressed /\ Asking /\ ToldInv

-----------------------------------------------------------------------------

(* The initial state satisfies the invariant. *)
LEMMA InitHolds == Init => IInv
  <1> SUFFICES ASSUME Init PROVE IInv
      OBVIOUS
  <1>1. /\ gateCount \in [Ip -> 0..GateTries \cup {Absent}]
        /\ attempts \in [Ip -> 0..(GateTries + 1)]
      BY AuthAssumption DEF Init
  <1>2. TypeOK
      <2>1. /\ state \in [Client -> {"free", "live", "orphan"}]
            /\ from \in [Client -> Ip \cup {NoIp}]
            /\ identity \in [Client -> User \cup {Guest}]
            /\ told \in [Client -> User \cup {Guest, Untold}]
          BY DEF Init
      <2>2. pc = "idle" /\ req = NoRequest /\ pc \in Steps /\ redis \in Link /\ database \in Link
          BY DEF Init, Steps, Link
      <2>3. uid \in User \cup {Guest} /\ tries \in 0..MaxTries /\ answer \in Errors \cup {"none", "auth"}
          BY DEF Init, MaxTries
      <2>4. dbFailed \in BOOLEAN /\ dbConn \in BOOLEAN
          BY DEF Init
      <2> QED BY <1>1, <2>1, <2>2, <2>3, <2>4 DEF TypeOK
  <1>3. Addressed /\ Asking /\ ToldInv
      BY DEF Init, Addressed, Asking, ToldInv
  <1> QED BY <1>2, <1>3 DEF IInv

(* Connections, disconnections and ends of sessions between two requests. *)
LEMMA SessionsKeep == IInv /\ Sessions => IInv'
  <1> SUFFICES ASSUME IInv, NEW c \in Client,
                      Disconnect(c) \/ End(c) \/ \E a \in Ip : Connect(c, a)
               PROVE  IInv'
      BY DEF Sessions
  <1> USE DEF IInv, requestVars, redisVars, dbVars
  <1>1. CASE Disconnect(c)
      <2>1. TypeOK' BY <1>1 DEF Disconnect, TypeOK
      <2>2. (Addressed /\ Asking)' BY <1>1 DEF Disconnect, TypeOK, Addressed, Asking
      <2>3. ToldInv' BY <1>1 DEF Disconnect, TypeOK, ToldInv, Fresh
      <2> QED BY <2>1, <2>2, <2>3
  <1>2. CASE End(c)
      <2>1. TypeOK' BY <1>2 DEF End, TypeOK
      <2>2. (Addressed /\ Asking)' BY <1>2 DEF End, TypeOK, Addressed, Asking
      <2>3. ToldInv' BY <1>2 DEF End, TypeOK, ToldInv, Fresh
      <2> QED BY <2>1, <2>2, <2>3
  <1>3. CASE \E a \in Ip : Connect(c, a)
      <2> PICK a \in Ip : Connect(c, a) BY <1>3
      <2>1. TypeOK' BY DEF Connect, TypeOK
      <2>2. (Addressed /\ Asking)' BY DEF Connect, TypeOK, Addressed, Asking
      <2>3. ToldInv' BY DEF Connect, TypeOK, ToldInv, Fresh
      <2> QED BY <2>1, <2>2, <2>3
  <1> QED BY <1>1, <1>2, <1>3

(* The arrival of a request. *)
LEMMA RequestsKeep == IInv /\ Requests => IInv'
  <1> SUFFICES ASSUME IInv, NEW c \in Client, NEW by \in Sources,
                      NEW token \in Client \cup {NoToken}, NEW login \in BOOLEAN,
                      Begin(c, by, token, login)
               PROVE  IInv'
      BY DEF Requests
  <1> USE DEF IInv, Begin, sessionVars, dbVars
  <1>1. req' \in Request /\ pc' \in {"reply", "source"} /\ req'.client = c /\ req'.was = identity[c]
      BY DEF TypeOK, Request
  <1>2. TypeOK' BY <1>1 DEF TypeOK, Steps, Link
  <1>3. Addressed' BY DEF Addressed
  <1>4. Asking' BY <1>1 DEF Asking
  <1>5. ToldInv' BY DEF ToldInv, Fresh
  <1> QED BY <1>2, <1>3, <1>4, <1>5

(* The services and the clock. *)
LEMMA ServicesKeep == IInv /\ Services => IInv'
  <1> SUFFICES ASSUME IInv, Services PROVE IInv'
      OBVIOUS
  <1> USE DEF IInv, sessionVars, requestVars, dbVars
  <1>1. /\ UNCHANGED <<sessionVars, requestVars, dbConn>>
        /\ redis' \in Link /\ database' \in Link
        /\ gateCount' \in [Ip -> 0..GateTries \cup {Absent}]
        /\ attempts' \in [Ip -> 0..(GateTries + 1)]
      BY AuthAssumption
      DEF Services, RedisStops, RedisStarts, DatabaseStops, DatabaseStarts, Pause, TypeOK, Link,
          redisVars
  <1>2. TypeOK' BY <1>1 DEF TypeOK
  <1>3. Addressed' BY <1>1 DEF Addressed
  <1>4. Asking' BY <1>1 DEF Asking
  <1>5. ToldInv' BY <1>1 DEF ToldInv
  <1> QED BY <1>2, <1>3, <1>4, <1>5

-----------------------------------------------------------------------------
(* The request.  Most of its calls leave the sessions alone.               *)

(* Such a step goes on with the request, and not back before the last      *)
(* refusal; or it ends the request where no account is new.                *)
Quiet ==
    /\ UNCHANGED sessionVars
    /\ \/ /\ pc # "idle" /\ pc' # "idle"
          /\ UNCHANGED <<req, answer>>
          /\ pc \in Fresh => pc' \in Fresh
       \/ pc' = "idle" /\ pc \notin Fresh

(* A quiet step keeps the invariant if it keeps the types. *)
LEMMA QuietKeeps == IInv /\ TypeOK' /\ Quiet => IInv'
  <1> SUFFICES ASSUME IInv, TypeOK', Quiet PROVE IInv'
      OBVIOUS
  <1>1. UNCHANGED <<state, from, identity, told>>
      BY DEF Quiet, sessionVars
  <1>2. Addressed'
      BY <1>1 DEF IInv, Addressed
  <1>3. Asking'
      BY <1>1 DEF IInv, Quiet, Asking
  <1>4. ToldInv'
      BY <1>1 DEF IInv, Quiet, ToldInv
  <1> QED BY <1>2, <1>3, <1>4 DEF IInv

(* What Gate::auth(ip) does: it goes on, refuses, or Redis throws. *)
LEMMA GateAuthKeeps ==
    ASSUME TypeOK, Addressed, Asking, pc \in {"source", "account"},
           NEW next \in {"apiKey", "password"}, GateAuth(next),
           UNCHANGED <<sessionVars, dbFailed, redis, dbVars>>
    PROVE  TypeOK' /\ Quiet
  <1> DEFINE a == from[req.client]
             counted == redis = "linked" /\ TryPasses(a)
  <1>1. req \in Request /\ req.client \in Client /\ a \in Ip
      BY DEF TypeOK, Request, Addressed, Asking
  <1>2. counted => Count(a) + 1 \in 0..GateTries
      BY <1>1, AuthAssumption DEF TypeOK, TryPasses, Count
  <1>3. gateCount' \in [Ip -> 0..GateTries \cup {Absent}]
      BY <1>1, <1>2 DEF GateAuth, asker, TypeOK, RedisSet
  <1>4. attempts' \in [Ip -> 0..(GateTries + 1)]
      BY <1>1, AuthAssumption DEF GateAuth, asker, TypeOK
  <1>5. \/ /\ pc' = next \/ pc' = "reply"
           /\ tries' = 0
           /\ UNCHANGED <<req, answer, uid>>
        \/ pc' = "idle" /\ req' = NoRequest /\ uid' = Guest /\ tries' = 0
           /\ answer' = "access_denied"
      BY DEF GateAuth, Thrown, Continue, Finish
  <1>6. TypeOK'
      BY <1>1, <1>3, <1>4, <1>5
      DEF TypeOK, Steps, Queries, MaxTries, Errors, sessionVars, dbVars
  <1> QED BY <1>5, <1>6 DEF Quiet, Fresh

(* What Gate::auth(ip, true) does. *)
LEMMA GateResetKeeps ==
    ASSUME TypeOK, Addressed, Asking,
           NEW step, NEW next,
           <<step, next>> \in {<<"keyReset", "account">>, <<"loginReset", "reply">>},
           GateReset(step, next)
    PROVE  TypeOK' /\ Quiet
  <1>1. pc = step /\ req \in Request /\ req.client \in Client /\ from[req.client] \in Ip
      BY DEF TypeOK, Request, Addressed, Asking, GateReset
  <1>2. /\ gateCount' \in [Ip -> 0..GateTries \cup {Absent}]
        /\ attempts' \in [Ip -> 0..(GateTries + 1)]
      BY <1>1, AuthAssumption DEF GateReset, asker, TypeOK, RedisSet
  <1>3. pc' \in {next, "reply"} /\ tries' = 0 /\ UNCHANGED <<req, answer, uid>>
      BY DEF GateReset, Thrown, Continue
  <1>4. UNCHANGED <<sessionVars, dbFailed, redis, dbVars>>
      BY DEF GateReset
  <1>5. TypeOK'
      BY <1>1, <1>2, <1>3, <1>4 DEF TypeOK, Steps, MaxTries, sessionVars, dbVars
  <1> QED BY <1>1, <1>3, <1>4, <1>5 DEF Quiet, Fresh

(* The sources of the account, other than the token of another session. *)
LEMMA SourcesKeep ==
    ASSUME TypeOK, Addressed, Asking,
           ByNothing \/ ByRedis \/ CookieMalformed \/ ByApiKey \/ Account
    PROVE  TypeOK' /\ Quiet
  <1>1. CASE ByNothing
      BY <1>1 DEF ByNothing, Continue, TypeOK, Steps, MaxTries, Quiet, Fresh,
                  sessionVars, redisVars, dbVars
  <1>2. CASE ByRedis
      BY <1>2 DEF ByRedis, Thrown, Continue, TypeOK, Steps, MaxTries, Quiet, Fresh,
                  sessionVars, redisVars, dbVars
  <1>3. CASE CookieMalformed
      BY <1>3 DEF CookieMalformed, Thrown, Continue, TypeOK, Steps, MaxTries, Quiet, Fresh,
                  sessionVars, redisVars, dbVars
  <1>4. CASE ByApiKey
      BY <1>4, GateAuthKeeps DEF ByApiKey
  <1>5. CASE Account
      <2>1. CASE GateAuth("password")
          BY <1>5, <2>1, GateAuthKeeps DEF Account
      <2>2. CASE ~GateAuth("password")
          <3>1. pc = "account" /\ pc' \in {"user", "reply"} /\ tries' = 0
                /\ UNCHANGED <<req, answer, uid, gateCount, attempts>>
                /\ UNCHANGED <<sessionVars, dbFailed, redis, dbVars>>
              BY <1>5, <2>2 DEF Account, Continue
          <3> QED BY <3>1 DEF TypeOK, Steps, Queries, MaxTries, Quiet, Fresh,
                              sessionVars, dbVars
      <2> QED BY <2>1, <2>2
  <1> QED BY <1>1, <1>2, <1>3, <1>4, <1>5

(* Connections to the database, retries, exceptions and their handler. *)
LEMMA DatabaseKeeps ==
    ASSUME TypeOK,
           \/ DbConnect \/ Prepare \/ DbException \/ Retry \/ GiveUp \/ DbCatch
           \/ GetUserIdByApiKey
    PROVE  TypeOK' /\ Quiet
  <1> USE DEF TypeOK, Quiet, Fresh, Steps, Queries, Link, MaxTries, Unchanged,
              sessionVars, requestVars, redisVars, dbVars
  <1>1. CASE DbConnect
      <2>1. /\ pc \in Queries
            /\ pc' \in {pc, "reply"}
            /\ tries' \in {0, tries}
            /\ dbFailed' \in BOOLEAN
            /\ UNCHANGED <<req, uid, answer, sessionVars, redisVars>>
          BY <1>1 DEF DbConnect, Thrown, Continue
      <2>2. database' \in Link /\ dbConn' \in BOOLEAN
          BY <1>1 DEF DbConnect
      <2> QED BY <2>1, <2>2
  <1>2. CASE Prepare
      <2>1. pc \in Queries /\ database' = "linked" /\ tries' = 1
            /\ UNCHANGED <<pc, req, uid, answer, dbFailed, dbConn, sessionVars, redisVars>>
          BY <1>2 DEF Prepare
      <2> QED BY <2>1
  <1>3. CASE DbException BY <1>3, AuthAssumption DEF DbException, Continue
  <1>4. CASE Retry BY <1>4 DEF Retry, ExecutionFails
  <1>5. CASE GiveUp BY <1>5 DEF GiveUp, ExecutionFails, Thrown, Continue
  <1>6. CASE DbCatch
      <2>1. CASE database = "down" /\ UsePg
          BY <1>6, <2>1 DEF DbCatch, Thrown, Continue
      <2>2. CASE ~(database = "down" /\ UsePg)
          <3>1. /\ pc = "dbCatch" /\ pc' = "idle" /\ req' = NoRequest /\ uid' = Guest
                /\ tries' = 0 /\ answer' = "database_error"
                /\ database' \in Link /\ dbConn' \in BOOLEAN
                /\ UNCHANGED <<dbFailed, sessionVars, redisVars>>
              BY <1>6, <2>2 DEF DbCatch, Finish
          <3> QED BY <3>1 DEF Errors
      <2> QED BY <2>1, <2>2
  <1>7. CASE GetUserIdByApiKey BY <1>7 DEF GetUserIdByApiKey, Answers, Continue
  <1> QED BY <1>1, <1>2, <1>3, <1>4, <1>5, <1>6, <1>7

-----------------------------------------------------------------------------
(* The calls that change a session.                                        *)

(* The asking connection goes to the session whose token it showed. *)
LEMMA TokenKeeps == IInv /\ ByTokenOfAnother => IInv'
  <1> SUFFICES ASSUME IInv, ByTokenOfAnother PROVE IInv'
      OBVIOUS
  <1> USE DEF IInv, ByTokenOfAnother, Finish, asker, redisVars, dbVars
  <1>1. req \in Request /\ req.client \in Client /\ from[req.client] \in Ip
      BY DEF TypeOK, Request, Addressed, Asking
  <1>2. TypeOK'
      BY <1>1 DEF TypeOK, Steps, MaxTries
  <1>3. Addressed'
      BY <1>1 DEF TypeOK, Addressed
  <1>4. Asking'
      BY DEF Asking
  <1>5. ToldInv'
      BY <1>1 DEF TypeOK, ToldInv, Fresh
  <1> QED BY <1>2, <1>3, <1>4, <1>5

(* The account of a ukey, a cookie or a key: initUser, and then the answer. *)
LEMMA UserKeeps == IInv /\ GetUserByUid => IInv'
  <1> SUFFICES ASSUME IInv, GetUserByUid PROVE IInv'
      OBVIOUS
  <1> USE DEF IInv, GetUserByUid, Answers, Continue, asker, redisVars, dbVars
  <1>1. req \in Request /\ req.client \in Client
      BY DEF TypeOK, Request
  <1>2. /\ identity' \in [Client -> User \cup {Guest}]
        /\ \A c \in Client : c # req.client => identity'[c] = identity[c]
      BY <1>1 DEF TypeOK, InitUser, NoRow
  <1>3. TypeOK'
      BY <1>1, <1>2 DEF TypeOK, Steps, MaxTries
  <1>4. (Addressed /\ Asking)'
      BY DEF Addressed, Asking, Fresh
  <1>5. ToldInv'
      BY <1>2 DEF ToldInv, Fresh
  <1> QED BY <1>3, <1>4, <1>5

(* A login and a password: initUser and on, or an error and nothing else. *)
LEMMA PasswordKeeps == IInv /\ GetUserByLoginAndPassword => IInv'
  <1> SUFFICES ASSUME IInv, GetUserByLoginAndPassword PROVE IInv'
      OBVIOUS
  <1> USE DEF IInv
  <1>1. /\ pc = "password" /\ req \in Request /\ req.client \in Client
        /\ UNCHANGED <<state, from, told, dbFailed, redisVars, dbVars>>
      BY DEF TypeOK, Request, GetUserByLoginAndPassword, Answers
  <1>2. PICK row \in User \cup {NoRow} :
            /\ InitUser(row)
            /\ IF row = NoRow THEN Finish("incorrect_loginpass")
               ELSE Continue("loginReset") /\ UNCHANGED uid
      BY DEF GetUserByLoginAndPassword
  <1>3. CASE row = NoRow
      <2>1. /\ pc' = "idle" /\ req' = NoRequest /\ uid' = Guest /\ tries' = 0
            /\ answer' = "incorrect_loginpass" /\ identity' = identity
          BY <1>2, <1>3 DEF Finish, InitUser
      <2>2. TypeOK'
          BY <1>1, <2>1 DEF TypeOK, Steps, MaxTries, Errors, redisVars, dbVars
      <2>3. Quiet
          BY <1>1, <2>1 DEF Quiet, Fresh, sessionVars
      <2> QED BY <2>2, <2>3, QuietKeeps
  <1>4. CASE row # NoRow
      <2>1. pc' = "loginReset" /\ tries' = 0 /\ UNCHANGED <<req, answer, uid>>
          BY <1>2, <1>4 DEF Continue
      <2>2. identity' = [identity EXCEPT ![req.client] = row] /\ row \in User
          BY <1>2, <1>4 DEF InitUser, asker
      <2>3. TypeOK'
          BY <1>1, <2>1, <2>2 DEF TypeOK, Steps, MaxTries, redisVars, dbVars
      <2>4. (Addressed /\ Asking)'
          BY <1>1, <2>1 DEF Addressed, Asking, Fresh
      <2>5. ToldInv'
          BY <1>1, <2>1, <2>2 DEF TypeOK, ToldInv, Fresh
      <2> QED BY <2>3, <2>4, <2>5
  <1> QED BY <1>3, <1>4

(* The positive answer tells the account that the session has. *)
LEMMA ReplyKeeps == IInv /\ Reply => IInv'
  <1> SUFFICES ASSUME IInv, Reply PROVE IInv'
      OBVIOUS
  <1> USE DEF IInv, Reply, Finish, asker, redisVars, dbVars
  <1>1. req \in Request /\ req.client \in Client
      BY DEF TypeOK, Request
  <1>2. TypeOK'
      BY <1>1 DEF TypeOK, Steps, MaxTries
  <1>3. (Addressed /\ Asking)'
      BY DEF Addressed, Asking
  <1>4. ToldInv'
      BY <1>1 DEF TypeOK, ToldInv
  <1> QED BY <1>2, <1>3, <1>4

(* Every call of a request. *)
LEMMA HandlerKeeps == IInv /\ Handler => IInv'
  <1> SUFFICES ASSUME IInv, Handler PROVE IInv'
      OBVIOUS
  <1>1. CASE KeyReset \/ LoginReset
      BY <1>1, GateResetKeeps, QuietKeeps DEF IInv, KeyReset, LoginReset
  <1>2. CASE ByNothing \/ ByRedis \/ CookieMalformed \/ ByApiKey \/ Account
      BY <1>2, SourcesKeep, QuietKeeps DEF IInv
  <1>3. CASE \/ DbConnect \/ Prepare \/ DbException \/ Retry \/ GiveUp \/ DbCatch
             \/ GetUserIdByApiKey
      BY <1>3, DatabaseKeeps, QuietKeeps DEF IInv
  <1>4. CASE ByTokenOfAnother \/ GetUserByUid \/ GetUserByLoginAndPassword \/ Reply
      BY <1>4, TokenKeeps, UserKeeps, PasswordKeeps, ReplyKeeps
  <1> QED BY <1>1, <1>2, <1>3, <1>4 DEF Handler

(* The invariant is inductive. *)
THEOREM Inductive == Spec => []IInv
  <1>1. IInv /\ [Next]_vars => IInv'
      <2>1. IInv /\ Next => IInv'
          BY SessionsKeep, RequestsKeep, HandlerKeeps, ServicesKeep DEF Next
      <2>2. IInv /\ UNCHANGED vars => IInv'
          BY DEF vars, sessionVars, requestVars, redisVars, dbVars,
                 IInv, TypeOK, Addressed, Asking, ToldInv
      <2> QED BY <2>1, <2>2
  <1> QED BY <1>1, InitHolds, PTL DEF Spec

-----------------------------------------------------------------------------

(* Every variable keeps its type, for both databases. *)
THEOREM TypeCorrect == Spec => []TypeOK
  <1>1. IInv => TypeOK BY DEF IInv
  <1> QED BY <1>1, Inductive, PTL

(* What the last auth packet said of the account is what the session has. *)
THEOREM ToldIsExact == Spec => []ToldExact
  <1>1. IInv => ToldExact BY DEF IInv, ToldInv, ToldExact, Fresh
  <1> QED BY <1>1, Inductive, PTL

(* A request that is answered with an error leaves the account as it was.  *)
(* By Asking it has its old account at every step that can answer so.      *)
THEOREM RefusalsChangeNothing == Spec => RefusedUnchanged
  <1> DEFINE Kept == pc # "idle" /\ answer' \in Errors => identity'[asker] = req.was
  <1>1. IInv /\ [Next]_vars => [Kept]_vars
      <2> SUFFICES ASSUME IInv, Next, pc # "idle", answer' \in Errors
                   PROVE  identity'[asker] = req.was
          OBVIOUS
      <2>1. answer = "none" /\ (pc \notin Fresh => identity[asker] = req.was)
          BY DEF IInv, Asking, asker
      <2>2. CASE Sessions \/ Requests
          BY <2>2 DEF Sessions, Requests, Connect, Disconnect, End, Begin
      <2>3. CASE Services
          BY <2>1, <2>3 DEF Services, RedisStops, RedisStarts, DatabaseStops,
                            DatabaseStarts, Pause, requestVars, Errors
      <2>4. CASE Handler
          <3>1. CASE Quiet
              <4>1. identity' = identity
                  BY <3>1 DEF Quiet, sessionVars
              <4>2. answer' # answer
                  BY <2>1 DEF Errors
              <4>3. pc \notin Fresh
                  BY <3>1, <4>2 DEF Quiet
              <4> QED BY <2>1, <4>1, <4>3 DEF asker
          <3>2. CASE ~Quiet
              <4>1. ByTokenOfAnother \/ GetUserByUid \/ GetUserByLoginAndPassword \/ Reply
                  BY <2>4, <3>2, GateResetKeeps, SourcesKeep, DatabaseKeeps
                  DEF Handler, IInv, KeyReset, LoginReset
              <4>2. GetUserByLoginAndPassword
                  BY <2>1, <4>1 DEF ByTokenOfAnother, GetUserByUid, Reply, Finish, Continue, Errors
              <4>3. PICK row \in User \cup {NoRow} :
                        /\ InitUser(row)
                        /\ IF row = NoRow THEN Finish("incorrect_loginpass")
                           ELSE Continue("loginReset") /\ UNCHANGED uid
                  BY <4>2 DEF GetUserByLoginAndPassword
              <4>4. pc = "password" /\ identity' = identity
                  BY <2>1, <4>2, <4>3
                  DEF GetUserByLoginAndPassword, Answers, InitUser, Continue, Errors
              <4> QED BY <2>1, <4>4 DEF Fresh
          <3> QED BY <3>1, <3>2
      <2> QED BY <2>2, <2>3, <2>4 DEF Next
  <1> QED BY <1>1, Inductive, PTL DEF Spec, RefusedUnchanged

=============================================================================
