# Verification of wschatserver

TLA+ specifications of the WebSocket chat server in this repository, the TLC
runs that check them on small instances, and TLAPS proofs about them for every
value of the constants.

## 1. Inventory: the system

One process, one `io_service`, `thread_pool_size = 1` (`server.cpp:16`): every
callback of the WebSocket library and every run of the periodic job is executed
to its end before the next. What makes the program hard is therefore not
preemption but the *order* of callbacks that nobody controls: peers that vanish,
come back on another connection and another address, while the callbacks of
their old connections are still to come.

| component | code | state | operations | hard because |
|---|---|---|---|---|
| callbacks and periodic job | `server.cpp`, `server_ws_ex.hpp` | the timer, the list `toKick` | `on_open`, `on_message`, `on_close`, `on_error`, the job | late callbacks of replaced connections; three timeouts and a timer that lags; a list filled by one loop and used by another |
| client registry | `src/clients_manager.hpp`, `utils.hpp` | vector of clients, map by connection, map by token, counters per address | `connect`, `makeOrphan`, `remove`, `reviveClient` | four containers kept in step by hand; sessions that move between addresses |
| session (`Client`) | `client.cpp`, `client.hpp` | connection, last address, token, account, rooms, flood counter | `onPacket`, `onRevive`, `onDisconnect`, `onRemove`, `onKick`, `joinRoom`, `leaveRoom` | the relation to rooms is stored on both sides and dereferenced unchecked |
| rooms and members | `rooms.cpp`, `rooms.hpp` | members, ids, nicks, statuses, owner, moderators, bans, remembered nicks, history | `addMember`, `removeMember`, `kickMember`, `setNick`, `onDestroy`, `addToHistory`, ... | ids that wrap, nicks from three sources, bans that come after the fact; what others are told of a change depends on who has a nick and who a connection |
| packet handlers | `packets.cpp`, `packet.cpp` | none of their own | one `process` per packet type | partial effects on error paths; answers that are the request sent back |
| chat commands | `commands/` | none of their own | `/nick`, `/kick`, `/ban*`, `/unban*`, `/addmoder`, `/delmoder`, messages, reports, `/help` | rights looked up by an account that may change in between; arguments torn off a line by one expression after the other |
| authentication | `PacketAuth`, `gate.hpp`, `redis.hpp`, `db.hpp` | counters of attempts in Redis | cookie, key, password, token | external services that fail |
| persistence | `wsserver.cpp`, `config.cpp`, `serialize`/`deserialize` | `rooms.dat` | load, save on a signal, save at exit | signals in the middle of a callback, of the loading or of another save; a file written in place |
| flood control | `PacketMessage::process` | two fields of `Client` | count, reset | reset lazily, in whole seconds |
| text | `algo.*`, `regex/` | none | `replaceInvalidUtf8`, `regex_parser` | a limit in bytes on letters of two; a parser that keeps or forgets its last match |
| logging | `logger.hpp` | none | output | not modelled |

The WebSocket library and the Redis client are git submodules that are empty
here; they are modelled from how the code uses them. `mysql_cppconn/` and
`pqxx/` are vendored headers, and the `*_test/` directories hold stand-alone
experiments.

How they interact: a library callback enters the registry, which calls the hooks
of a `Client` (`onDisconnect`, `onRevive`, `onRemove`), which change the rooms
that client is in, which broadcast to the other members. A packet goes the other
way: `on_message` looks the client up by connection, the packet's `process` acts
on the client and its rooms, and one packet (`PacketAuth` with a token) goes back
into the registry.

What makes each part correct, in short: the four containers of the registry say
the same; no address exceeds its limits; no connection that was closed or
replaced can speak, and none that is open is deaf; a silent client is pinged,
then loses its connection, then its session, within known times; clients and
rooms agree on who is where; nicks, ids and room names are unique; a resumed
session finds its places as it left them; who joins passes the bans; the history is exact and
reaches the peer that missed it, and a private message reaches nobody else; the
list of members that a peer puts together is the room's; a request is answered
truly and under its own number; rights come from an owner; a line is taken apart
without loss; and a restart brings back what the last complete save promised.
`PROJECT.json` lists the hazards line by line
with the properties that cover each.

## 2. Modules

    Sessions            what the connection layer promises (abstract)
      ^ implemented by         ^ used as the connection layer
    Server                   Rooms <- MCRooms      MCSent  = Messages | Roster
      ^ extends                ^                   MCAsked = Commands | CommandLine
      |  MCServer            RoomsProofs                     | FloodControl | Requests
      ^  ServerProofs                              Persistence <- MCPersistence
    ClientsManager                                    ^
                                                   PersistenceProofs
    Roster <- RosterProofs <- MCSent <- MessagesProofs
    CommandLine <- CommandLineProofs <- MCAsked <- AskedProofs
    AuthenticationProofs -> Authentication <- MCAuthentication

**ClientsManager** has no variables. The state of the class, with the three
fields of each `Client` it reads, is a record, and every method is an operator
from record to record, in the code's order of steps; a handler that calls several
methods is their composition. `Client` is a set of objects that may be allocated;
one that is not in the vector does not exist. `RealClientIp` gives each
connection its address (`getRealClientIp`); `Keygen` is a choice among the tokens
not in use, which is what its loop ensures.

**Server** is `server.cpp`'s constructor. One action per callback: `OnOpenRefused`
and `OnOpen` (with the eviction of the oldest orphan), `OnCloseNormal` (status
1000, 1001), `OnConnectionLost` (any other status, and `on_error`), `OnMessage`,
`OnAuthToken` (`PacketAuth` with another session's token, through
`Server::reviveClient`). The periodic job is one action per iteration
(`ScanOutdated`, `ScanSilent`, `ScanPing`, `ScanSkip`, `KickOutdated`) between
`JobStart` and `JobEnd`; no callback is enabled in between, as in the program.
`link` is the library's side of a connection: after `send_close` it is
"closing", and its messages and its final callback may still come. `idle` is
`time(nullptr) - lastPacketTime`, `pinged` a history variable.

**Sessions** is the abstract specification: sessions are admitted, lose their
peer, are resumed by another session, and end; per address two limits hold. It
has no connections, maps, counters or time. `Server!ImplementsSessions` is the
refinement, with `state` computed from the registry and `from` its
`lastClientIP`.

**Rooms** is the room side: `rooms.cpp`, the hooks of `Client`, the packets join,
leave, create_room, remove_room, status and auth, and the commands nick, kick,
bannick, banuid, banip, unban*, addmoder, delmoder. A step of a session is a step
of `Sessions`, which `Server` implements, conjoined with what the hook does to the
rooms in the same callback (`ConnectEvicting`, `Disconnect`, `Remove`, `Revive`).
A `Room` is a Room object with the name it was created with, so two objects of
one name model a room that is removed and created again. `members` is a set of
records, so that a client could be in it twice; ids count modulo `IdWidth`.
`membersInfo` keeps the nick only. `Auth` is a successful `PacketAuth`: the
account changes while the session stays in its rooms. Handlers that only answer
with an error change nothing and are no actions.

**Messages** is the stream of one room: `Say` is `PacketMessage::process` past the
flood control and the styled commands, `AddToHistory` the bounded history, `Join`
and `Revive` its replay, `Whisper` the commands `/msg` and `/umsg`. `received`
(history variable) is what the peer that is attached now has been sent; it is reset
when the peer changes.

**Roster** is what the peers of a room learn of each other. `view` is the list that
a peer can put together from its packets (`Read`, `Hear`), in the order the handlers
send them: to whom a `PacketStatus` goes, and whether any goes, depends on nicks and
connections as they are at that line of the handler, which is why `Disconnect` and
`Revive` follow the code's order step by step. What a peer makes of a packet is not
in the repository: a name and a look are taken from every status, a state only from
those that tell one. The abstract specification of the component is the member list
itself: `RosterExact`.

**Commands** is the dispatch: the processors of `processCommand` with the rights that
each asks for, the reports with those that `/help` is made of, and of the commands
that act what rights depend on. `did` holds the last command, who gave it and what
was reported. **CommandLine** is what becomes of a line of bytes: the text of a
message and, with `regex_parser` as a record (`Parser`, `TakeNext`), what each command
takes of the rest. A byte is one of eight kinds, among them the two halves of a
Russian letter. What the code computes byte by byte (`regex_replace`, the number that
`operator >>` reads) is a function of how far the line is read (`Along`). The properties
say what should come out without a parser (`Splits`).

**Requests** has every packet type with the fields that its constructor leaves,
`deserialize` reads and `serialize` sends, and every `process` with all its refusals.
For each field of a packet that is sent the model keeps who set it: `"server"`,
`"peer"`, the constructor (`"default"`) or `"none"`. `This` is the request sent back
as an answer. `sent` is what the step sends, in the order of the code, each packet with
the clients it goes to: the answer, and what members are told of a join, a leave, a kick
or a removal. `uid`, `joined` and `owner` are what the packets speak of. `req` (history
variable) is the request that the step serves, or `Nothing`; `asked` numbers the requests
of all peers, of which each may carry its number or none. `SequenceId` drops that of
`online_list`, as its `deserialize` does.

**Persistence** is `main`, the two signal handlers and `rooms.dat`. The thread is a
stack: a phase of `main` or a callback below, `handlers` on top, of which only the
last goes on. A callback has two steps where a signal in between matters:
`CreateRoom` and `Say` leave `busy`, `SetOwner` and `SendPacketToAll` are the rest. A save
is opened (truncated), written room by room and ended, and may fail. A handler that
interrupted the code of the program, and not a thread that waits in `io_service` (`idle`),
may hang at any point (`Hang`): it logs, stops the server, allocates and writes a stream,
each of which takes locks that what it interrupted may hold. Another signal may still come
on top of one that hangs. A file without its end is
read as the parser reads it: `Torn` cuts the text of a room at any key of the text's
order, inside a list or a number. `promised` (what the last complete save has written),
`told` (ids that peers have seen) and `torn` are history variables.

**FloodControl** is the counter of `PacketMessage::process` with its lazy reset.
`passed` (history variable) counts what passed in this second and the `s - 1` before it.

**Authentication** is `PacketAuth::process` with `Gate`, `Redis` and `Database`
under it. One request runs at a time, but it is cut into one step per call to
Redis or to the database, because those are other processes that stop and start
between any two calls; `pc` is the next call, `uid` and `tries` are local variables
of the code. `Thrown` is the outer `catch`, which falls through to the positive
answer; `DbCatch` is the inner one. `UsePg` chooses the driver: Postgres throws
`DbException` from the query and a `pqxx` exception from connecting; MySQL throws
`DbException` from `prepare` and, after three executions, a raw `SQLException`.
`RedisSet` sends what the code sends, so a value with an expiration is not stored
and `Gate` never refuses. `told`, `answer`, `dbFailed`, `attempts` and the field
`was` of a request are history variables. A ukey, a cookie, a key or a password is
represented by the account it leads to, chosen when it is looked up.

*Side by side.* `MCSent` and `MCAsked` check several components in one run. Their
modules abstract sessions and rooms to what each needs, and share no state then: the
variable `part` names the component that a behaviour is one of, and the others stay
as they begin. A product would only multiply the states. `MCSent` takes `Roster` through
`RosterProofs`, and `MCAsked` takes `CommandLine` through `CommandLineProofs`, so that what
is proved of them can be cited. `MCAuthentication` has the
two drivers in the same way: `driver` is what the configuration says.

Definitions named in a comment as *mutants* are no part of the model: each is a
plausible mistake in the definition that follows it, kept to show that the
property named with it in `PROJECT.json` fails when the code is wrong that way.

## 3. Runs

| run | instance | question |
|---|---|---|
| `server` (`MCServer.cfg`) | 3 client objects, 4 connections from 2 addresses, limits 2 and 2, timeouts 0, 1, 2, period 1 | registry, counters, limits, job, refinement of `Sessions` |
| `server_time` (`MCServerTime.cfg`) | 2 clients, one connection per address, period 2, lag 1, timeouts 2, 5, 7 | retention, ping before drop, and that every silent client is settled |
| `rooms` (`MCRooms.cfg`) | 2 sessions, 2 addresses with a limit of 1, 3 Room objects of which 2 have one name, guests and a user, ids 1..2 | membership, places, statuses and names across loss, resumption, eviction, removal and creation |
| `rooms_bans` (`MCRoomsBans.cfg`) | 2 sessions, 1 room, guests and 2 users, 1 nick, ids 1..2 | distinct nicks and ids, and bans |
| `auth` (`MCAuthentication.cfg`) | 2 sessions, 2 accounts, either driver, 1 attempt | the account the peer was told; refusals change nothing; every request ends |
| `restart` (`MCPersistence.cfg`) | 2 names, 3 changes, 3 signals of which 2 shut down, 1 crash or failing disk | what a restart brings back; ids; a signal to shut down ends the process unless a handler hangs |
| `sent` (`MCSent.cfg`) | 3 sessions, history of 2, 4 messages, 2 private ones; 2 nicks, 2 looks, 5 ids | history, replay, private messages, lists of members |
| `asked` (`MCAsked.cfg`) | 2 clients; guests, an administrator, 2 users and 2 rooms; lines of 6 bytes; the program's own flood limits; 4 requests | reports and rights; text and arguments; bursts; answers |
| `auth_db_error` (`MCAuthDbError.cfg`) | 1 session, Postgres | expects a violation: a failure of the database is not told |
| `auth_attempts` (`MCAuthAttempts.cfg`) | 1 session, 4 attempts (the program's own) | expects a violation: attempts are not counted |
| `restart_loaded` (`MCPersistenceLoaded.cfg`) | 1 name, 2 changes, 1 crash | expects a violation: a torn file is loaded and called loaded |
| `lines_ban` (`MCCommandLineBan.cfg`) | lines of 6 bytes, nicks of 3 letters | expects a violation: a correct nick cannot be banned |

Four runs show disagreements between the code and its own messages. In
`auth_attempts` a fifth attempt is let through: `Redis::set` sends `SETEX` without
the key (`redis.hpp:90`), Redis answers with an error, and nobody reads it. In
`auth_db_error` a request during an outage is answered positively instead of with
`database_error`: connecting throws an exception that is not a `DbException`, in the
query and again in the handler (`packets.cpp:407`). Because of the first, the answer
`access_denied` of `GateAuth` is unreachable. In `restart_loaded` the process dies
while it writes `rooms.dat`; the parser's verdict on what is left is ignored
(`config.cpp:11`), and "Last server state loaded" is logged over the rooms, and parts
of a room, that were read before the error. In `lines_ban` a nick is taken by
`/nick`, whose limit counts letters, and called incorrect by `/bannick`, whose limit
counts bytes, of which a Russian letter has two (`command_ban.hpp:61`).

Four more were met and have no run. A request for the list of a room is answered without
its number: `PacketOnlineList::deserialize` (`packets.cpp:258`) does not read the
`sequenceId`, although the error at `packets.cpp:273` is given it and the constructor at
`packets.cpp:241` takes one, which the call at `packets.cpp:277` leaves out. Every other
answer carries the number, but nothing in the repository says that this one should, so
there is no text for a run to refute; `AnswersMatch` lets the answer to `online_list`, and
no other, come without. The handlers of signals call what a signal handler may not
(`Logger`, `server->stop()`, the allocator, streams; `wsserver.cpp:20-26`), so a shutdown
may hang on a lock that the interrupted code holds: `ShutdownEnds` promises an end only
where no handler hangs, or where the thread was waiting. `Config::writeToFile` never asks its stream whether
it wrote (`config.cpp:16`), so "Server state saved" (`wsserver.cpp:14`) is logged after a
save that failed; `WriteFails` is in the model and `RestartKeepsRooms` promises nothing
then. And `/msg` takes one word as the addressee (`command_private_message.hpp:14`), while
a nick may have spaces: such a member can be addressed by `/umsg` only.

Why the bounds are enough to see the interesting cases. Three client objects and
limits of two make an address reach both limits, evict an orphan, and have a
resumption from the other address while it does; three connections of one address
leave one that is refused and may report its close at any time. The timeouts of
`server` are the least the assumption admits and keep their order (ping 60 s,
connect 150 s, orphan 300 s, period 30 s in the code); `server_time` gives the
period, the lag and the gaps different lengths. In `rooms` a limit of one makes every
newcomer of an address evict the orphan there, two of the rooms are successive rooms
of one name, and the third is one to be in at the same time; two usable ids for two
members make every draw wrap and skip. All users have the same login in
`MCRooms`, so nicks collide. The lists of a room are bounded by the code's own
limits (`BanLimit`, `ModerLimit`), which are tested with `>` before the insertion, so that
one entry more than the number fits (`command_ban.hpp:58`); the runs set them so that lists hold at most
one entry, or, with `Closed`, none. `Rooms` is run without administrators (accounts 1
and 2), whose lists are unlimited; `Commands` has one. `MaxMessage`, `MaxPrivate`,
`MaxId` bound the messages of a room and the ids it draws; with a history of two, four
messages overflow it twice. `MaxSince` saturates a clock of which only "more than the
window" is asked. Six bytes hold a command with two arguments, a letter cut in two by
the limit of five, runs of spaces and of four newlines, and a color of three digits; six
digits after a mark do not fit. Requests are independent but for the rooms they change,
so four of all peers are enough to log in, create a room, enter it and remove it; two rooms
tell the room that was asked about from another.
Three signals nest both ways and leave one for the time after; three changes are
a room with an owner and two that disturb what was saved. The account of `MCPersistence`
has two digits, so that a torn number is another account; a history is not cut in it
(`Messages` has that).

Client objects and tokens are interchangeable, and so are addresses, the Room objects
of one name, nicks and looks where nothing tells them apart: the safety runs use
symmetry. Runs with a liveness property (`server_time`, `auth`, `restart`) do not.

*Fairness.* `FairSpec` of `Server` assumes weak fairness of `Elapse` (the clock
advances) and of `Job` (the timer of the `io_service` fires when it is due, and a
loop that has started goes on to its end). Nothing is assumed of the peers:
they may never send a packet or a close. `SilentIsSettled` follows from the job
alone. `FairSpec` of `Authentication` assumes that the thread goes on with a request
it has begun (weak fairness of `Handler`: a call to a service returns or throws) and
nothing of the services; `FairSpecOfDriver` is the same for the driver that is
configured. `FairSpec` of `Persistence` assumes that the processor goes on with the
signal handler on top (weak fairness of `Handler`), and nothing of callbacks, of
further signals or of the disk; a handler that goes on may be one that hangs (`Hang` is one
of its steps), so that it does not is nowhere assumed.

Deadlock is checked wherever the model can always go on, which the server does.
`restart`, `restart_loaded` and `asked` say `CHECK_DEADLOCK FALSE`: there the bounds on
changes, crashes and requests end the behaviours.

## 4. Proofs

Every invariant and every action property that a passing run checks is stated by a
theorem, and so is the refinement; liveness is not.

The first half of `ServerProofs` shows what each method of the registry does to the four
containers: field by field for the private methods, then that `connect`,
`makeOrphan`, `remove` and `reviveClient` each keep `RegistryOK` (the vector, both
maps and the counters agree, and the counts per address are exact).
The second half builds on these and proves, for all constants that satisfy the
assumptions (finitely many clients; limits with `MaxClientsFromIp >=
MaxConnectionsFromIp >= 1`; timeouts in order, with room for one period and the
lag between ping and drop):

| theorem | statement |
|---|---|
| `TypeCorrect` | `Spec => []TypeOK` |
| `RegistryIsExact` (`CountersAreExact`, `ConnectionsAreExact`, `TokensAreExact`) | the registry agrees with itself |
| `LimitsHold`, `EvictionSucceeds` | the limits per address; there is an orphan to evict |
| `NoZombies` | mapped connections are exactly the open ones |
| `JobIsExact`, `RetentionIsBounded` | the periodic job |
| `LiveLeaves`, `DroppedAfterPing` | action properties |
| `Refinement` | `Spec => Abstract!Spec` |

*The argument.* The inductive invariant `IInv` is `TypeOK`, `RegistryOK(manager)`,
`NoZombie`, `WithinLimits`, `JobExact` and `Aging`. None of the parts is inductive
alone: the counters are exact only because a connection that is erased was mapped
to the client whose address is decremented (`ConnectionsExact`); the limits hold
after a resumption because the counters are exact; the eviction finds an orphan
because fewer live clients than clients are counted; the second loop of the job
removes only registered clients because the first one has listed each of them once
(`JobExact`); and the retention is bounded because between two runs of the job the
clients age with `sinceTick` (`Aging`): whoever the last run passed over was within
its timeouts then. `IInv` is proved in `Inductive` from one lemma per group of
steps; each theorem above is a consequence of it. `DroppedAfterPing` needs the
assumption on the timeouts: a connection dropped in one run was, in the run before,
already past the ping timeout.

The other proofs have one lemma per action (`...Keeps`, `...Serves`), which shows what the
handler does to each part of the invariant that it touches, and lemmas about the operators
that the actions are made of.

| module | theorem | statement |
|---|---|---|
| `RoomsProofs` | `TypesCorrect` | `Spec => []TypeOK` |
| | `MembershipExactHolds`, `NamesUniqueHolds`, `MembersDistinctHolds`, `OrphansShownHolds` | the invariants of `Rooms` |
| | `PlacesKeptHolds`, `BansHoldHolds` | its action properties |
| `MessagesProofs` | `HistoryExactHolds`, `HistoryDeliveredHolds`, `PrivateConfinedHolds` | the invariants of `Messages` |
| | `TypesOKHolds`, `RosterExactHolds` | `SpecOfParts => []TypesOK`, `[]RosterExact` of `MCSent` |
| `RosterProofs` | `TypesCorrect`, `RosterExactHolds` | the same of `Roster` by itself |
| `AskedProofs` | `ReportsExactHolds`, `AuthorityHeldHolds` | the invariant and the action property of `Commands` |
| | `FloodBoundedHolds` | `SpecOfParts => []FloodBounded` of `MCAsked` |
| | `AnswersMatchHolds`, `FieldsVouchedHolds`, `AnswersTrueHolds` | the two invariants and the action property of `Requests`, in `MCAsked` |
| | `TextCleanHolds`, `ArgumentsExactHolds`, `TypesOKHolds` | the invariants of `CommandLine`, and the types of all components, in `MCAsked` |
| `CommandLineProofs` | `TypeCorrect`, `TextCleanOfSpec`, `ArgumentsExactOfSpec` | the same of `CommandLine` by itself |
| `PersistenceProofs` | `TypesCorrect`, `RestartKeepsRoomsHolds`, `IdsFreshHolds` | the invariants of `Persistence` |
| `AuthenticationProofs` | `TypeCorrect`, `ToldIsExact`, `RefusalsChangeNothing` | the safety of `Authentication` |

*Rooms.* `IInv` is the conjunction of the invariants, with `MembershipExact` without its
cardinality (`Membership`). They need each other: the unchecked `findMemberByClient` returns
the member only because membership is exact (`FindMember`); statuses are exact after a
revival because every room of the session is visited, which is the same relation; and the
rooms that a client may join have different names because the server's have. That an id
drawn by `genNextMemberId` is free (`FreshId`) is a pigeonhole: the numbers from the counter
on, modulo `IdWidth`, are more than the clients, so the assumption `IdWidth >
Cardinality(Client)` is what the 32 bits stand for. `Carried` says of one step
what all but a few handlers do, that whoever was a member and stays has id and nick, and
`PlacesKept` is a consequence of it for the steps that change sessions.

*Messages.* The history is exact by itself. That it is delivered needs that a message in it has
an id below `nextMessageId` and that members exist; a private message stays confined because
it was recorded with its two parties when it was sent (`Recorded`), and a peer that takes over
a session starts with nothing received.

*Roster.* `RosterExact` speaks of connected peers, and is not inductive: what a peer believes
after the next packet depends on all it believes now. The invariant says of *every* peer that
its view is what the members and the sessions determine (`view = Seen(member)`), that ids are
distinct and at most `nextMemberId`, and that a session that does not exist is no member. Each
handler is then a composition of `Send`s, and the lemmas (`BroadcastSeen`, `FarewellSeen`,
`AnswerSeen`, `RevivedSeen`, `OnRemoveSeen`) carry the equality through one after the other, in
the code's order; between them it is that of a room half-way through the change. It needs
`NoMember` to be no member and ids to be numbers (`RosterAssumption`).

*Commands.* `HelpShowsWhatRuns`: the texts of `/help`, chosen by one set of conditions, are the
commands that the dispatch runs by another. `Authority` says of one room what `AuthorityHeld`
says of all; it follows from the rights that a processor asks for (`ReportsAsk`) and that a
command changes the lists of one room only (`ActsOnOneRoom`).

*Lines.* What `CommandLine` says of a line is a function of it, so its properties hold in
every state because they hold of every sequence of bytes; the proof is about those, of any
length. What is computed byte by byte needs an induction over the line. The library's
induction theorems cannot be used here, but a nonempty set of numbers has a least element
(`WFMin`, whose parameters are sets): `Steps` derives from it that a set with 0 in it and
with `i` also `i + 1` has every number up to the end, `Unrolled` that a function defined step
by step exists, and `AlongSteps` that what one step keeps holds of the whole (`CollapseLeavesNoPage`,
`LongSpacesClean`, `ReadUintRange`, ...). The rest is about where runs of bytes end: `SpanEnds`
says that there is exactly one such place, and every expression of the parser that matches the
beginning of what is left is told by it (`TakesRun`), so that two expressions, one after the
other, leave what is left behind two runs (`RestOfRest`, `AfterWordIs`). `TextClean` is about
the order in which a text is treated: newlines are removed before the text is cut, and halves
of letters after it, and each step keeps what the one before achieved (`TextFine`). `ExactPrivate`
is where a match that fails matters: `TakeNext` forgets the last match unless the input has
ended, and both cases yield the same text. `NormalNick` needs that a nick with its spaces
trimmed and joined is a fixed point of doing so again (`LongSpacesKeeps`).

*Flood control.* `FloodBounded` is not inductive. `Allowances` says what the counter knows:
what passed since the second of the last reset is in it; what passed before, in the seconds
that are counted, is one allowance at most; and in a second in which a reset is due nothing has
passed yet. The last is what makes the reset by a message safe: the message that resets is the
first of its second.

*Requests.* `Serves(c, id)` says of a step that all its packets are vouched for, that those
with a number have `id`, and that these go to `c` alone; `Gives(c, q)` that one of them
answers `q`; `Truthful` is what `AnswersTrue` says of the step. One lemma per `process` method
shows the three; `ServesKeeps` turns the first two into the invariant, and `Truthful` is the
action property. That the world is what the packets say depends on their order only where
the answer of a resumption takes the old rooms away before the new ones are told
(`ResumptionAnswers`); elsewhere nobody is told both that he came and that he left
(`TruthfulAnyhow`, `OrderIdle`), and what is neither an answer nor a departure moves nobody
(`QuietStep`).

*Persistence.* What the file promises relates it to rooms that are elsewhere at every moment:
`Saves` says that a promise is the text of a complete file, that any handler with the file open
has the text of the rooms as they are (so it does not matter which of two nested saves is the
last), and that while a promise is loaded, the rooms made and the values unread together are
it. `Named` keeps rooms and values of one name apart, without which the union would not be
exact. `IdsFresh` needs in addition `Numbers`: ids taken and not yet kept (`busy`) are the next
of their room, and histories are in order in rooms, file and what is unread, but the ids that
peers have seen are below the file's only while no process runs. `RoundTrip` is `deserialize`
after `serialize`; `TornTyped` and `CutTyped` say that a torn file still reads as values.

*Authentication.* The invariant
adds to the types that every session has an address (so `Gate` has a key
for it), that a request in progress has not been answered and its session has its
connection, and that the account is the one before the request except at the two
steps after `initUser`, `loginReset` and `reply` (`Fresh`): there it may be new and
not told, and from there no error is answered. Most calls leave the sessions alone
(`Quiet`), and `QuietKeeps` settles them together. `Absent`, `Untold` and `NoToken`
are assumed to be different from what they stand beside.

*Assumed* is what the modules' ASSUMEs say, which TLC evaluates in every run: that
accounts are numbers, that the values which stand for none (`NoNick`, `NoOwner`, `Nameless`,
...) are different from those they stand beside, that the clients of `Rooms` and the rooms of `Requests`
are finitely many, `IdWidth > Cardinality(Client)`, and that limits and bounds are numbers. The
bounds of the models (`MaxMessage`, `MaxChange`, `MaxSignal`, ...) are any number in the
proofs, and nothing is proved from their being reached.

*Only model-checked.* Liveness under fairness (`SilentIsSettled`, `Answered`, `ShutdownEnds`)
is beyond the prover. The four expected violations are runs of TLC.

## 5. Not modelled

Last-seen times of members, and the gender and color that `membersInfo` remembers:
they are shown and nothing depends on them. `regex_split`, which nothing calls, and the
formatting of dates. The JSON text (packets are the fields that are read and sent;
`rooms.dat` is the values in the order of its keys), the wording of answers and reports,
the logger. Of the configuration the reading itself; its values are constants.

`RosterExact` leaves out the account and the rights in a status packet: nothing is sent
when an account changes in a room or a moderator is added or removed, so the lists of
the others show the old ones until the next packet about that member, and nothing in the
repository says otherwise. Neither does it say that a private message arrives: one to an
orphan is lost.

A signal handler may find an object half-way through an assignment. What it does then is
undefined; the model has the process die (`Crash`) or the handler run between the
steps of a callback, hang (`Hang`), and no torn object in memory. `exit` is one step. Nested
writers of `rooms.dat` each have an offset of their own, so that one which goes on after the
write of an inner one failed may leave a hole; the model has them write one text.

That a ukey, a cookie or a key leads to the right account is up to the site and the
tables. A session that Redis or the database keeps waiting blocks the whole thread; time
inside a handler is not modelled, the job's lag is. The limits' constants are those of
`server.hpp` at one moment; they do not change at run time.

`Server` and `Rooms` are composed by refinement and not directly: `Server` implements
`Sessions`, and a step of `Rooms` conjoins a step of `Sessions` with the hooks of
`Client`. The vendored headers (`mysql_cppconn/`, `pqxx/`) and the stand-alone
experiments (`*_test/`) are no part of the server.

## 6. Plan

1. *Done*: `Sessions`, `ClientsManager`, `Server` and their proofs; `Rooms`, `Messages`,
   `FloodControl`; `Authentication` and its proofs.
2. *Done*: `Persistence`, `Roster`, `Commands`, `CommandLine`, `Requests`.
3. *Done*: `RoomsProofs`, `RosterProofs`, `MessagesProofs`, `PersistenceProofs`,
   `AskedProofs`.
4. *Done*: `CommandLine` without folds, `CommandLineProofs`; with it, every invariant and
   action property that a passing run checks is proved.
5. *Open*: `ChatServer`: `Server` and `Rooms` composed without the abstraction between them.
