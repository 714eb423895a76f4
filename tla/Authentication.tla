---------------------------- MODULE Authentication ----------------------------
(***************************************************************************)
(* PacketAuth::process (src/packets.cpp), the counter of attempts in       *)
(* src/gate.hpp, and what they ask of Redis (src/redis.hpp) and of the     *)
(* database (src/db.hpp).  The server has one thread, so a request runs to *)
(* its end before anything else of the server happens; but Redis and the   *)
(* database are other processes that come and go between any two of its    *)
(* calls.  Hence a request is a sequence of steps here, one per call, and  *)
(* pc says which call is next.  A name, a password, a key or a cookie is   *)
(* known by what it leads to.                                              *)
(***************************************************************************)
EXTENDS Integers

CONSTANTS Client, Ip, NoIp,
          User,        \* the accounts: positive Client::uid
          UsePg,       \* config "useDatabase": Postgres or MySQL
          GateTries,   \* 4
          GateTimeout, \* 5 * 60 seconds
          NoToken, NoRequest, Absent, Untold

Guest == 0
NoRow == -1

(* SafeStatement: executions of one query. *)
MaxTries == 3

ASSUME AuthAssumption ==
    /\ User \subseteq Nat \ {Guest}
    /\ UsePg \in BOOLEAN
    /\ GateTries \in Nat \ {0}
    /\ GateTimeout \in Nat \ {0}
    /\ NoIp \notin Ip
    /\ NoToken \notin Client
    /\ Absent \notin Int
    /\ Untold \notin Int

VARIABLES
    state,     \* per client: "free", "live" or "orphan"
    from,      \* per client: lastClientIP
    identity,  \* per client: the account initUser has given it, or Guest
    told,      \* per live client: the account its connection was last told (history)
    pc,        \* the next call of the request, or "idle"
    req,       \* the request in progress
    uid,       \* the local variable uid of process
    tries,     \* the local variable tries of retryWithReconnect; 0: not prepared
    answer,    \* what the last request was answered (history)
    dbFailed,  \* the last request met a failure of the database (history)
    redis,     \* "down", "up" and not connected, or "linked"
    database,  \* likewise
    dbConn,    \* the connection object exists and says that it is open
    gateCount, \* in Redis: the value under "gate-auth-<ip>"
    attempts   \* per address: attempts let through since a success or a pause (history)

sessionVars == <<state, from, identity, told>>
requestVars == <<pc, req, uid, tries, answer, dbFailed>>
redisVars == <<redis, gateCount, attempts>>
dbVars == <<database, dbConn>>
vars == <<sessionVars, requestVars, redisVars, dbVars>>

Sources == {"token", "ukey", "api_key", "none"}
Queries == {"apiKey", "user", "password"}
Steps == Queries \cup {"idle", "source", "keyReset", "account", "loginReset", "dbCatch", "reply"}
Errors == {"access_denied", "incorrect_loginpass", "database_error"}
Link == {"down", "up", "linked"}

(* The first field that is not empty; whether a login and a password are   *)
(* there as well; the session whose token it is (an unknown token is like  *)
(* one's own); and the account before the request (history).               *)
Request ==
    [client : Client, by : Sources, token : Client \cup {NoToken}, login : BOOLEAN,
     was : User \cup {Guest}]

TypeOK ==
    /\ state \in [Client -> {"free", "live", "orphan"}]
    /\ from \in [Client -> Ip \cup {NoIp}]
    /\ identity \in [Client -> User \cup {Guest}]
    /\ told \in [Client -> User \cup {Guest, Untold}]
    /\ pc \in Steps
    /\ IF pc = "idle" THEN req = NoRequest ELSE req \in Request
    /\ uid \in User \cup {Guest}
    /\ tries \in 0..MaxTries
    /\ answer \in Errors \cup {"none", "auth"}
    /\ dbFailed \in BOOLEAN
    /\ redis \in Link
    /\ database \in Link
    /\ dbConn \in BOOLEAN
    /\ gateCount \in [Ip -> 0..GateTries \cup {Absent}]
    /\ attempts \in [Ip -> 0..(GateTries + 1)]

Init ==
    /\ state = [c \in Client |-> "free"]
    /\ from = [c \in Client |-> NoIp]
    /\ identity = [c \in Client |-> Guest]
    /\ told = [c \in Client |-> Untold]
    /\ pc = "idle"
    /\ req = NoRequest
    /\ uid = Guest
    /\ tries = 0
    /\ answer = "none"
    /\ dbFailed = FALSE
    /\ redis = "up"
    /\ database = "up"
    /\ dbConn = FALSE
    /\ gateCount = [a \in Ip |-> Absent]
    /\ attempts = [a \in Ip |-> 0]

-----------------------------------------------------------------------------
(* Sessions, as in Sessions, between two requests.                         *)

Connect(c, a) ==
    /\ pc = "idle"
    /\ state[c] = "free"
    /\ state' = [state EXCEPT ![c] = "live"]
    /\ from' = [from EXCEPT ![c] = a]
    /\ UNCHANGED <<identity, told, requestVars, redisVars, dbVars>>

Disconnect(c) ==
    /\ pc = "idle"
    /\ state[c] = "live"
    /\ state' = [state EXCEPT ![c] = "orphan"]
    /\ told' = [told EXCEPT ![c] = Untold]
    /\ UNCHANGED <<from, identity, requestVars, redisVars, dbVars>>

End(c) ==
    /\ pc = "idle"
    /\ state[c] # "free"
    /\ state' = [state EXCEPT ![c] = "free"]
    /\ from' = [from EXCEPT ![c] = NoIp]
    /\ identity' = [identity EXCEPT ![c] = Guest]
    /\ told' = [told EXCEPT ![c] = Untold]
    /\ UNCHANGED <<requestVars, redisVars, dbVars>>

-----------------------------------------------------------------------------
(* How a request ends, and how it goes on.                                 *)

asker == req.client

Finish(a) == pc' = "idle" /\ req' = NoRequest /\ uid' = Guest /\ tries' = 0 /\ answer' = a

Continue(step) == pc' = step /\ tries' = 0 /\ UNCHANGED <<req, answer>>

(* Mutant of Thrown: the outer handler logs and returns. *)
ThrownUnanswered == Finish("none")

(* An exception that is not a DbException is logged by the outer handler,  *)
(* and process goes on to the positive answer.                             *)
Thrown == Continue("reply") /\ UNCHANGED uid

(* The last four lines of process. *)
Reply ==
    /\ pc = "reply"
    /\ told' = [told EXCEPT ![asker] = identity[asker]]
    /\ Finish("auth")
    /\ UNCHANGED <<state, from, identity, dbFailed, redisVars, dbVars>>

(* A request arrives; the constructors of Gate and of Redis reconnect if   *)
(* they must, and throw if they cannot.                                    *)
Begin(c, by, token, login) ==
    /\ pc = "idle"
    /\ state[c] = "live"
    /\ (by = "token") <=> (token # NoToken)
    /\ req' = [client |-> c, by |-> by, token |-> token, login |-> login, was |-> identity[c]]
    /\ pc' = IF redis = "down" THEN "reply" ELSE "source"
    /\ redis' = IF redis = "down" THEN "down" ELSE "linked"
    /\ answer' = "none"
    /\ dbFailed' = FALSE
    /\ UNCHANGED <<sessionVars, uid, tries, gateCount, attempts, dbVars>>

-----------------------------------------------------------------------------
(* Gate and Redis.                                                         *)

(* Redis::set.  With an expiration it sends SETEX with the expiration and  *)
(* the value but without the key: an error reply, which stores nothing.    *)
RedisSet(store, key, value, expiration) ==
    IF expiration > 0 THEN store ELSE [store EXCEPT ![key] = value]

Count(a) == IF gateCount[a] = Absent THEN 0 ELSE gateCount[a]

(* Gate::_tries, when Redis answers. *)
TryPasses(a) == Count(a) + 1 <= GateTries

(* Gate::auth(ip): on to the step next, or refused, or Redis throws. *)
GateAuth(next) ==
    LET a == from[asker]
        counted == redis = "linked" /\ TryPasses(a)
    IN  /\ IF redis # "linked" THEN Thrown
           ELSE IF counted THEN Continue(next) /\ UNCHANGED uid
           ELSE Finish("access_denied")
        /\ gateCount' = IF counted THEN RedisSet(gateCount, a, Count(a) + 1, GateTimeout)
                        ELSE gateCount
        /\ attempts' = IF counted /\ attempts[a] <= GateTries
                       THEN [attempts EXCEPT ![a] = @ + 1] ELSE attempts

(* Gate::auth(ip, true) after a success. *)
GateReset(step, next) ==
    LET a == from[asker] IN
    /\ pc = step
    /\ IF redis = "linked" THEN Continue(next) /\ UNCHANGED uid ELSE Thrown
    /\ gateCount' = IF redis = "linked" /\ Count(a) > 0
                    THEN RedisSet(gateCount, a, 0, 1) ELSE gateCount
    /\ attempts' = [attempts EXCEPT ![a] = 0]
    /\ UNCHANGED <<sessionVars, dbFailed, redis, dbVars>>

KeyReset == GateReset("keyReset", "account")
LoginReset == GateReset("loginReset", "reply")

-----------------------------------------------------------------------------
(* Where the account comes from.                                           *)

(* The token of another session: its account is told on the asking         *)
(* connection, and then the session takes that connection over.            *)
ByTokenOfAnother ==
    LET t == req.token IN
    /\ pc = "source"
    /\ req.by = "token"
    /\ t # asker
    /\ state[t] # "free"
    /\ told' = [told EXCEPT ![t] = identity[t], ![asker] = Untold]
    /\ state' = [state EXCEPT ![t] = "live", ![asker] = "free"]
    /\ from' = [from EXCEPT ![t] = from[asker], ![asker] = NoIp]
    /\ identity' = [identity EXCEPT ![asker] = Guest]
    /\ Finish("auth")
    /\ UNCHANGED <<dbFailed, redisVars, dbVars>>

(* A token of nobody, one's own, or a login and a password: no account yet. *)
ByNothing ==
    /\ pc = "source"
    /\ \/ req.by = "token" /\ (req.token = asker \/ state[req.token] = "free")
       \/ req.by = "none"
    /\ Continue("account")
    /\ UNCHANGED <<sessionVars, uid, dbFailed, redisVars, dbVars>>

(* A ukey or the cookie of the site: what Redis holds, 0 for nothing. *)
ByRedis ==
    /\ pc = "source"
    /\ req.by = "ukey" \/ (req.by = "none" /\ ~req.login)
    /\ IF redis = "linked" THEN Continue("account") /\ uid' \in User \cup {Guest}
       ELSE Thrown
    /\ UNCHANGED <<sessionVars, dbFailed, redisVars, dbVars>>

(* The cookie leads to a session whose user_id is not a number. *)
CookieMalformed ==
    /\ pc = "source"
    /\ req.by = "none" /\ ~req.login
    /\ redis = "linked"
    /\ Thrown
    /\ UNCHANGED <<sessionVars, dbFailed, redisVars, dbVars>>

ByApiKey ==
    /\ pc = "source"
    /\ req.by = "api_key"
    /\ GateAuth("apiKey")
    /\ UNCHANGED <<sessionVars, dbFailed, redis, dbVars>>

(* With an account its row is read; without one the login and the password *)
(* are tried, whatever the first source was.                               *)
Account ==
    /\ pc = "account"
    /\ \/ /\ uid # Guest
          /\ Continue("user")
          /\ UNCHANGED <<uid, gateCount, attempts>>
       \/ /\ uid = Guest
          /\ req.login
          /\ GateAuth("password")
       \/ /\ uid = Guest
          /\ ~req.login
          /\ Continue("reply")
          /\ UNCHANGED <<uid, gateCount, attempts>>
    /\ UNCHANGED <<sessionVars, dbFailed, redis, dbVars>>

-----------------------------------------------------------------------------
(* Queries.  pc says which; each needs a connection, and MySQL prepares    *)
(* the statement first.                                                    *)

Unchanged == UNCHANGED <<sessionVars, redisVars>>

(* The constructor of DatabasePostgres or DatabaseMysql. *)
DbConnect ==
    /\ pc \in Queries
    /\ ~dbConn
    /\ IF database = "down"
       THEN Thrown /\ dbFailed' = TRUE /\ UNCHANGED dbVars
       ELSE /\ dbConn' = TRUE /\ database' = "linked"
            /\ UNCHANGED <<requestVars>>
    /\ Unchanged

(* DatabaseMysql::prepare; the client library may reconnect by itself. *)
Prepare ==
    /\ pc \in Queries /\ dbConn /\ ~UsePg /\ tries = 0
    /\ database # "down"
    /\ database' = "linked"
    /\ tries' = 1
    /\ UNCHANGED <<pc, req, uid, answer, dbFailed, dbConn>>
    /\ Unchanged

(* A failure that becomes a DbException: of prepare, or in Postgres of the *)
(* query (when the connection is seen to be lost) or of a second row.      *)
DbException ==
    /\ pc \in Queries /\ dbConn /\ tries = 0
    /\ UsePg \/ database # "linked"
    /\ dbConn' = (~UsePg \/ database = "linked")
    /\ dbFailed' = TRUE
    /\ Continue("dbCatch")
    /\ UNCHANGED <<uid, database>>
    /\ Unchanged

(* A prepared statement fails as well after a reconnection. *)
ExecutionFails == pc \in Queries /\ tries > 0 /\ (database # "linked" \/ tries > 1)

(* Mutant of Retry: the failures are not counted. *)
RetryUncounted ==
    /\ ExecutionFails
    /\ database' = IF database = "down" THEN "down" ELSE "linked"
    /\ UNCHANGED <<requestVars, dbConn>>
    /\ Unchanged

(* retryWithReconnect.  MySQL's reconnect reports its failure by a result  *)
(* that nobody reads.                                                      *)
Retry ==
    /\ ExecutionFails
    /\ tries < MaxTries
    /\ tries' = tries + 1
    /\ database' = IF database = "down" THEN "down" ELSE "linked"
    /\ UNCHANGED <<pc, req, uid, answer, dbFailed, dbConn>>
    /\ Unchanged

(* The third failure is thrown on: an SQLException, not a DbException. *)
GiveUp ==
    /\ ExecutionFails
    /\ tries = MaxTries
    /\ dbFailed' = TRUE
    /\ Thrown
    /\ UNCHANGED dbVars
    /\ Unchanged

(* The handler of DbException.  Without a server Postgres throws here too. *)
DbCatch ==
    /\ pc = "dbCatch"
    /\ IF database = "down" /\ UsePg
       THEN Thrown /\ UNCHANGED dbVars
       ELSE /\ Finish("database_error")
            /\ database' = IF database = "down" THEN "down" ELSE "linked"
            /\ dbConn' = TRUE
    /\ UNCHANGED dbFailed
    /\ Unchanged

Answers(query) ==
    /\ pc = query
    /\ dbConn
    /\ database = "linked"
    /\ UsePg \/ tries > 0
    /\ UNCHANGED <<state, from, told, dbFailed, redisVars, dbVars>>

(* Mutant of InitUser: the session is changed before the row is looked at. *)
InitUserUnchecked(row) == identity' = [identity EXCEPT ![asker] = row]

(* Mutant of InitUser: whoever is not found is logged out. *)
InitUserLogsOut(row) ==
    identity' = [identity EXCEPT ![asker] = IF row = NoRow THEN Guest ELSE row]

InitUser(row) == identity' = IF row = NoRow THEN identity ELSE [identity EXCEPT ![asker] = row]

(* db.getUserIdByApiKey *)
GetUserIdByApiKey ==
    /\ Answers("apiKey")
    /\ \/ Continue("keyReset") /\ uid' \in User
       \/ Continue("account") /\ UNCHANGED uid
    /\ UNCHANGED identity

(* db.getUserByUid; the account may be gone. *)
GetUserByUid ==
    /\ Answers("user")
    /\ \E row \in {uid, NoRow} : InitUser(row)
    /\ Continue("reply")
    /\ UNCHANGED uid

(* db.getUserByLoginAndPassword *)
GetUserByLoginAndPassword ==
    /\ Answers("password")
    /\ \E row \in User \cup {NoRow} :
         /\ InitUser(row)
         /\ IF row = NoRow THEN Finish("incorrect_loginpass")
            ELSE Continue("loginReset") /\ UNCHANGED uid

-----------------------------------------------------------------------------
(* Redis, the database and the clock, at any moment.                       *)

RedisStops ==
    /\ redis # "down"
    /\ redis' = "down"
    /\ UNCHANGED <<sessionVars, requestVars, gateCount, attempts, dbVars>>

RedisStarts ==
    /\ redis = "down"
    /\ redis' = "up"
    /\ UNCHANGED <<sessionVars, requestVars, gateCount, attempts, dbVars>>

DatabaseStops ==
    /\ database # "down"
    /\ database' = "down"
    /\ UNCHANGED <<sessionVars, requestVars, redisVars, dbConn>>

DatabaseStarts ==
    /\ database = "down"
    /\ database' = "up"
    /\ UNCHANGED <<sessionVars, requestVars, redisVars, dbConn>>

(* GateTimeout seconds without an attempt: a key with an expiration is gone. *)
Pause(a) ==
    /\ pc = "idle"
    /\ gateCount' = [gateCount EXCEPT ![a] = Absent]
    /\ attempts' = [attempts EXCEPT ![a] = 0]
    /\ UNCHANGED <<sessionVars, requestVars, redis, dbVars>>

-----------------------------------------------------------------------------

Sessions ==
    \E c \in Client : Disconnect(c) \/ End(c) \/ \E a \in Ip : Connect(c, a)

Requests ==
    \E c \in Client, by \in Sources, token \in Client \cup {NoToken}, login \in BOOLEAN :
        Begin(c, by, token, login)

Handler ==
    \/ ByTokenOfAnother \/ ByNothing \/ ByRedis \/ CookieMalformed \/ ByApiKey
    \/ KeyReset \/ Account \/ LoginReset
    \/ DbConnect \/ Prepare \/ DbException \/ Retry \/ GiveUp \/ DbCatch
    \/ GetUserIdByApiKey \/ GetUserByUid \/ GetUserByLoginAndPassword
    \/ Reply

Services ==
    \/ RedisStops \/ RedisStarts \/ DatabaseStops \/ DatabaseStarts
    \/ \E a \in Ip : Pause(a)

Next == Sessions \/ Requests \/ Handler \/ Services

Spec == Init /\ [][Next]_vars

(* The thread goes on with the request it has begun: no call blocks for    *)
(* ever.  Nothing is assumed of Redis and the database, which may come and *)
(* go for ever.                                                            *)
FairSpec == Spec /\ WF_vars(Handler)

-----------------------------------------------------------------------------
(* Properties.                                                             *)

(* What the last auth packet on a live connection said of the account is   *)
(* what the session of that connection has: through failures at any call,  *)
(* refusals, and resumptions of a session that has another account.        *)
ToldExact ==
    pc = "idle" => \A c \in Client : told[c] \in {Untold, identity[c]}

(* A request that is answered with an error has left the account as it     *)
(* was: no path sets it before the last thing that may be refused.         *)
RefusedUnchanged ==
    [][pc # "idle" /\ answer' \in Errors => identity'[asker] = req.was]_vars

(* Every request comes to its end, however Redis and the database come and *)
(* go meanwhile: in particular the loop of retryWithReconnect does.        *)
Answered == pc # "idle" ~> pc = "idle"

(* "Connection to the database failed during authorization", the text of   *)
(* packets.cpp:408, is what a request that met such a failure is answered. *)
DatabaseErrorTold == pc = "idle" /\ dbFailed => answer = "database_error"

(* _tries("auth", ip, 4, 5*60) of gate.hpp:49: at most GateTries attempts  *)
(* are let through to the accounts without a success or a pause between.   *)
AttemptsCounted == \A a \in Ip : attempts[a] <= GateTries

=============================================================================
