# Formal model of wow-portal

wow-portal is an Express server (`src/src`) and a React client (`src/client/src`) around an
AzerothCore game server: players log in with their game account, look at statistics, and
order *boosts* for their characters. The server talks to the databases of the game through
a MySQL pool and to the game itself through SOAP commands.

This directory holds TLA+ modules of the portal, TLC configurations that check them on
small instances, and proofs, checked by TLAPS, for every instance. Definitions carry the
names of the source; `PROJECT.json` maps each one to the lines it stands for.

## Inventory

| Component | State | Operations | Hard parts |
|---|---|---|---|
| Free Money boost (`player-boosts.ts`, `money-boost-repository.ts`, `boost-config.ts`) | table `money_boost_requests`; two MySQL named locks per call | `requestMoney`, `getOverview` (settles stale rows) | duplicate submissions, daily limits under concurrency and midnight, commands executed after their timeout, crashes between commit, command and mark |
| Portable Holes, Arcane Tome, Item Delivery | one table each; one named lock per call | `request…`, `getMetadata` (settles stale rows) | the same protocol; evidence is a set of mail stacks, partly emptied by the player |
| Character level boost | table `character_level_boost_requests`; character lock held around the whole call | `requestCharacterLevel`, `getMetadata` | a connection is held while others are requested (pool of four); the level read is stale when the absolute command runs |
| Flight path boost | table `flight_path_boost_requests`, `characters.taximask` | `apply` | conditional UPDATE against a character who may log in; ambiguous commit |
| Boosts overview and routes | none | `GET/POST /api/boosts…` | order of the guards; six overviews at once |
| Sessions and login | in-memory map of sessions | create, resolve, rotate CSRF, invalidate | expiry, eviction at capacity, CSRF rotation across tabs |
| Password change | `account.salt`, `account.verifier` | `change` | compare-and-set, ambiguous update, logins across the change |
| Limiters (boost mutations, item lookups, logins, passwords) | in-memory windows | `consume`, `isAccountBlocked`, `recordAccountFailure` | eviction at capacity, check before and charge after an await |
| Account visibility | cached policy, one flight, back-off time | `getPolicy` | single flight, failure back-off |
| Online roster, leaderboards (19 services) | cache and flights for each scope | `get…` | single flight, expiry, isolation of scopes, cut-over and day rules |
| Browser client | submission state of the boosts page, session of the tab | submit, retry, refresh | when a request ID is reused or renewed |
| Account roster, armory, registration, status, SOAP client, SRP6, data catalogues | none | projections, parsing, wiring | – |

`PROJECT.json` says of each component how much of it is modelled; the last section of this
file says what is left out and why.

What makes each correct:

- **Delivery boosts**: one delivery at most for a request ID; a status that never lies and,
  once `sent` or `failed`, never changes; no caller told something another caller is
  denied; limits that hold for every interleaving; nothing pending for ever.
- **Level boost**: one command at most for a request ID; a status that never lies; no
  portal command that lowers a level; no call that waits for ever for a connection.
- **Flight paths**: the audit row and the mask change together or not at all; nothing the
  game server wrote is lost.
- **Sessions and passwords**: no session outlives its timeouts, its capacity or the
  password that opened it.
- **Limiters**: never more than the limit in a window without an eviction; bounded maps.
- **Caches**: a reader gets a value of its own scope, not older than its lifetime, and at
  most one refresh of a scope runs at a time.

## Interaction

A route checks origin, session, CSRF token and limiter, then calls a boost service. The
service reads the character from the game's database, reserves a row in the portal's
table under named locks, posts the command, and marks the row with what the reply or,
without one, the mail table says. `GET /api/boosts` calls every service; each settles its
stale pending rows on the way. The named locks belong to a *connection*, the rows survive
everything, and the game server executes a posted command whether or not the portal still
waits for its reply.

## Modules

| Module | What it is |
|---|---|
| `BoostLedger` | the promise of a delivery boost: a ledger entry before any delivery, one delivery at most, `sent` only after it, `failed` only without it, both final |
| `PlayerBoost` | the Free Money boost: calls, overviews, table, locks, game server, faults; implements `BoostLedger` |
| `MailItemBoost` | the three boosts that mail items: the same protocol with evidence that the player takes piece by piece, and characters that change their names; implements `BoostLedger` |
| `CharacterLevelBoost` | the level boost and the connection pool: calls, settlements, table, locks, pool and queue, game server, players, faults |
| `FlightPathBoost` | the flight path boost: one transaction with InnoDB's locks against a game server that keeps its own copy of the character |
| `PortalAccess` | sessions, login, logout, session refresh, password change, the middleware in front of every protected route, and the browser tabs |
| `FixedWindows` | the promise of a limiter: exact fixed windows |
| `RequestLimits` | the four limiters with their bounded Maps, and the logins that wait between the check and the charge; implements `FixedWindows` while the Map has room |
| `StatsPages` | leaderboards, online roster and account visibility: caches, single flights, back-off |
| `MC…` | constants, symmetry and uses for TLC; `MCBoosts` puts `MailItemBoost` and `FlightPathBoost` side by side |
| `…_proof` | the theorems, one module for each of `PlayerBoost`, `CharacterLevelBoost`, `MailItemBoost`, `FlightPathBoost`, `PortalAccess`, `RequestLimits` and `StatsPages`; `MCBoosts_proof` carries those of the flight paths over to `MCBoosts` |

In every module a definition `X_Y` is a mutated form of `X`, a plausible bug, which one of
the properties must notice; `PROJECT.json` lists which.

### PlayerBoost

One action is the code between two awaits of one call; `pc[h]` names the await.

| pc | suspended in | next |
|---|---|---|
| `requestLock`, `accountLock` | `GET_LOCK` of `reserve` | `AcquireRequestLock`, `AcquireAccountLock`, `LockTimeout` |
| `find`, `daily`, `insert` | the statements of the transaction | `FindExisting`, `ReadDailyTotals`, `InsertPending` |
| `release` | the `finally` block | `ReleaseLocks`, `ReleaseFails` |
| `reserved` | – | `HandleReservation`, `ExecuteCommand` |
| `awaiting` | the SOAP call | `ReceiveReply`, `ReplyUnusable` |
| `count` | `countMatchingMail` | `CountMatchingMail` |
| `mark` | the UPDATE | `Mark` |

An overview is `FindStalePending`, then `CountStaleMail` and `MarkStale` for each row.
`status`, `row` and `stale` are the table; `stale` holds the requests older than
`PENDING_STALE_MS`, on the one clock that server and database are assumed to share.
`requestLock` and `accountLock` hold, for each name, the connections that own it: a call's
own, or `IdleConnection`, a pooled one whose `RELEASE_LOCK` failed. Such a name stays
taken until the process ends, except for a call that is handed that very connection.

The environment: `WorldDelivers` and `WorldRejects` execute a posted command at any later
time, and their reply reaches the call that still waits; `ReplyUnusable` may happen
before, after or without it. `PlayerEmptiesMail` removes the evidence. `Midnight` moves
`UTC_DATE()`. Faults are a failing statement (`DatabaseError`), a commit or an UPDATE whose
acknowledgement is lost (`CommitUnacknowledged`, `MarkUnacknowledged`), a failing release
(`ReleaseFails`), a failing overview and the end of the process (`Crash`).

`issued`, `delivered` and `answered` are history for the properties.

Left out: the ownership query and the parsing that come before the reservation (a call of
the model is one that passed them; the account of a call is the owner of its character),
renames between that query and the command (see `MailItemBoost`), the exact amount of the mail (one request has
one amount), texts, categories and timestamps other than the UTC day and staleness, the
number of connections in the pool (see `CharacterLevelBoost`), and InnoDB's own deadlocks
(see `FlightPathBoost`), whose effect is `DatabaseError`.

### CharacterLevelBoost

The protocol differs from the money boost in three ways: the character lock is held around
the whole call, on a connection that stays idle meanwhile; the evidence is the level in the
`characters` table, which the command, an earlier command or a player may set; and the
status is decided by a series of reads.

| pc | connections held | suspended in | next |
|---|---|---|---|
| `stale` | 0, asks for 1 | `findStalePending` | `FindStalePending` |
| `connect` | 0, asks for 1 | `pool.getConnection` of `withCharacterLock` | `Connect` |
| `characterLock` | 1 | `GET_LOCK` | `AcquireCharacterLock`, `LockTimeout` |
| `character` | 1, asks for 1 | `readOwnedCharacter` | `ReadCharacter`, `ReadStaleLevel` |
| `find` | 1, asks for 1 | `find` | `Find` |
| `reserve` | 1, asks for 1 | `pool.getConnection` of `reserve` | `Reserve` |
| `requestLock`, `insert` | 2 | `GET_LOCK`, the transaction | `AcquireRequestLock`, `InsertPending`, `FindsRow` |
| `command`, `awaiting` | 1 | the SOAP call | `ExecuteCommand`, `ReceiveReply`, `ReplyUnusable` |
| `confirm` | 1, asks for 1 | the deciding read of `readLevelAfterCommand` | `ConfirmLevel` |
| `mark` | 1, asks for 1 | the UPDATE | `Mark` |
| `unlock` | 1 | the `finally` block | `Unlock`, `UnlockFails` |

A call that asks for a connection gets one when `InUse` is below `ConnectionLimit` and
nobody is before it in `queue`; otherwise it joins the queue (`QueueForConnection`), which
is first in, first out and has no timeout, or is refused when the queue is full
(`PoolRefuses`). `pool.execute` takes effect at the instant it has its connection, which it
gives back at once. A settlement of `getMetadata` is a call with input of kind `settle`;
`Proceed` goes on to the next stale row when one is done. The reads of
`readLevelAfterCommand` that do not show the target change nothing and are not steps: the
step is the read that shows it, the last one, or the one that fails.

The game server executes a posted command at any time (`WorldAccepts`, `WorldRejects`),
answers, and writes the level later (`WorldWrites`). `PlayerGainsLevel` is gameplay. Three
constants choose the environment: `PlayersLevel`; `PromptServer`, in which the portal never
stops waiting for a reply or reads for the last time before the command is carried out and
written; `LocksCanBeLost`, in which the idle connection with the character lock may be cut
(`LockConnectionLost`).

`issued`, `reached`, `changed` and `answered` are history for the properties: commands
posted, requests whose target the table has shown since their reservation, requests whose
command changed a level, and outcomes reported to callers. `cut` holds the characters whose
lock was lost under a call.

Left out: ownership, names and accounts (the calls of the model come from one account that
owns the characters; nothing but the pool and the space of request IDs is shared between
accounts), `result_category` and `resulting_level`, the order of `findStalePending` (any
`StaleBatchSize` of the rows), the release of the request lock when it fails or its
session is lost (the row's primary key and the character lock protect the reservation;
`PlayerBoost` has the failing release), and other users of the pool.

### MailItemBoost

| pc | suspended in | next |
|---|---|---|
| `requestLock` | `GET_LOCK` of `reserve` | `AcquireLock`, `LockTimeout` |
| `find`, `insert` | the statements of the transaction | `FindExisting`, `InsertPending` |
| `release` | the `finally` block | `ReleaseLocks`, `ReleaseFails` |
| `reserved` | – | `HandleReservation`, `ExecuteCommand` |
| `awaiting` | the SOAP call | `ReceiveReply`, `ReplyUnusable` |
| `inspect` | `inspectMatchingMail` | `InspectMatchingMail` |
| `mark` | the UPDATE | `Mark` |

`RequestItem` is a call that passed the item lookup and the ownership query; it remembers
the character's *name*, while the row remembers the GUID. `stacks` is the number of
attachments the request needs, `ceil(quantity / stackSize)`; it stands for the item and the
quantity. A mail in `mails[r]` has a receiver and the attachments still in it;
`PlayerTakesItem` takes one, so the mail stops being `exact` evidence at once and vanishes
from the query at the last. `Rename` gives a character a name nobody has. `WorldDelivers`
resolves the name of the command when it executes it.

Portable Holes and Arcane Tome are the instances with four stacks and one. They answer an
overview that fails with an error, Item Delivery answers that it is disabled: in all three
the batch is dropped (`OverviewError`).

### FlightPathBoost

| pc | locks held | statement |
|---|---|---|
| `find` | – | `SELECT … FOR UPDATE` of the request |
| `character` | gap of the missing request ID | `SELECT … FOR UPDATE` of the character |
| `insert` | and the character | INSERT of the pending row |
| `update` | and the row | conditional UPDATE of the mask |
| `complete` | the same | UPDATE of the row |
| `commit` | the same | COMMIT |
| `reconcile` | none, or those of the doubtful transaction | SELECT from another connection |

Locks follow from `pc`. `Blocked` says what a statement waits for; two transactions can
hold the same gap and then wait for each other with their INSERTs. `WaitEnds` is the
deadlock detection and the statement's timeout, both of which abort the call. A COMMIT whose
connection breaks leaves the transaction in `doubtful`, from where the server commits it or
rolls it back at any later time; until then it keeps its locks, also after `Crash`.

The game server is external: `Load` reads the character without a lock, `SetOnline` sets
the flag later, `Discover` adds a node to the copy in memory, `Save` and `Logout` write it,
`WorldRestarts` clears the flags. A mask is a set of nodes and `Grant[c]` the nodes of the
character's faction (and, for a Death Knight, the class's own).

Two branches of the code are unreachable in the model: an existing row that is `pending`
(one transaction inserts and completes it, and nobody reads uncommitted rows), and the
conflict of the conditional UPDATE (the row lock of the SELECT already excludes it).

### PortalAccess

A request is sent (`Send`), served in one or more steps and answered (`Receive`,
`LoseReply`); requests of all tabs overtake each other. Serving is one step where the route
does not await (`ServeSession`, `Serve`, `ServeLogout`); a login is `ReadVerifier`, then
`OpenSession` or `LoginFails`; a password change is `StartChange`, `ReadMaterial`,
`StartUpdate`, `Update` and one of `ChangeSucceeds`, `ChangeConflicts`, `ChangeUnconfirmed`.
`sessions` is the Map with its order (`older`); `jar` the cookie each browser holds, shared
by its tabs; `tab` the account and token each tab shows. Session IDs and tokens are random
in the code, and here any value nobody remembers. `Restart` empties the Map. `OrphanUpdate`
is an UPDATE the database executes after the connection of its caller broke. `quiet`,
`opened` and `overtaken` are history.

### RequestLimits

Each limiter is a sequence of windows in the Map's insertion order. `BoostCall` is
`consume` of the boost and the item-lookup limiter (the same code with another limit),
`PasswordCall` that of the password limiter; a login is `LoginArrives`, which checks both
keys and charges the address, and later `LoginFails`, which charges the account, or
`LoginSucceeds`, which does not. `spent` and `answer` are history and the state of
`FixedWindows`. `Place` and `Selected` write out which entries a prune keeps and where they
move, because a filter of a sequence is recursive in the library.

### StatsPages

A request resolves the policy (`Arrive`, then `Load`), is answered from the cache, joins the
running query of its topic, or starts one (`Start`, `Connect`, `Read`, `Complete` or
`Resolve`, `Fail`). A topic is a board in one of the two scopes, the roster, or the policy.
`Snapshots` carry the world they were read from and the time as history. A query of the
policy or of a board first waits for a connection of its pool (`Connect`), for any time. It
is read at one moment and ends at a later one; in between accounts come and go.

A query of the model is the portal's promise. One that failed by its timeout is gone, though
the abandoned statement may still run at the database server; `OneQueryPerTopic` counts the
promises, not what the server does. The pools themselves, four connections and a queue of
eight, are left to `CharacterLevelBoost`: what other users of a pool do is any delay of
`Connect`. A query refused because the queue is full is a `Fail` without a connection.

## Runs

A run is one question, and most of them contain several *uses*: a variable that no step
changes (`use`, `boost`) picks, in `Init`, which tabs, limiters or boosts a behaviour
exercises, so one run covers disjoint instances that would be too large as one.

| Configuration | Instance | Checks |
|---|---|---|
| `PlayerBoost_duplicates` | 2 calls, 2 request IDs, 2 characters of one account, one fault or one midnight, 1 gold a day | `TypeOK`, `AtMostOneCommand`, `LedgerTruthful`, `AnswersMatchLedger`, `DailyLimits`, `LedgerSpec` |
| `PlayerBoost_settle` | 1 call at a time, 1 overview, 2 request IDs, amounts 1 and 2 with 2 gold a day, one fault | `DailyLimits`, `PendingIsSettled`, `EveryCallReturns` |
| `PlayerBoost_lock_leak` | 2 calls, 1 fault | finds `LocksEndWithTheCall` violated |
| `CharacterLevelBoost_retries` | 2 calls, 1 request ID, 2 targets, players, 3 connections and a queue of 1, locks that can be lost, 2 faults | `TypeOK`, `AtMostOneCommand`, `LedgerTruthful`, `AnswersMatchLedger` |
| `CharacterLevelBoost_raise_only` | 2 calls, 2 requests for one character, a queue of 2, prompt server, nobody plays | `RaiseOnly`, `EveryCallReturns` |
| `CharacterLevelBoost_pool` | 4 calls, 4 characters, 4 connections, a queue of 8 | finds `PoolMovesOn` violated |
| `MailItemBoost_boosts` | items: 2 calls, 1 overview, 1 request ID, 2 characters, 3 names, 2 attachments, one fault or one rename; flight paths: 2 calls, 2 request IDs in one gap, 2 characters, 2 nodes, one fault | `BothTypeOK`, `AtMostOneCommand`, `AnswersMatchLedger`, `LedgerSpec`, `AppliedIsLearned`, `AnswersAreCommitted`, `NeverForgets` |
| `MailItemBoost_renamed` | items with two renames, no fault | finds `NeverRedirected` violated |
| `PortalAccess_safety` | two tabs of one browser in three uses (as two accounts; past every timeout; with password changes), 2 requests at once, 2 sessions | `TypeOK`, `NoCrossAccountMutation`, `SessionsBounded`, `PasswordEndsSessions`, `NoExpiredService` |
| `PortalAccess_late_login` | a login and a password change of one account, in two browsers | finds `NewPasswordRequired` violated |
| `RequestLimits_all` | each limiter with Maps smaller than its keys and with Maps that hold all, windows of 2 ticks, limits of 2 | `TypeOK`, `MapsBounded`, `FailuresBounded`, `NoEarlyForgiveness`, `Exact` |
| `StatsPages_all` | a privileged and an anonymous visitor, a board and the roster, a hidden and a visible player, until two cache entries and a back-off have expired | `TypeOK`, `AnswersFitTheVisitor`, `OneQueryPerTopic`, `NobodyWaitsForTheDead`, `AnswersAreFresh`, `NeverBackInTime`, `FailuresBackOff`, `EveryRequestEnds` |

Why these bounds are enough to see the hazards:

- *Delivery boosts.* A duplicate needs two calls, and a third slot for one ID only repeats
  the second, because the lock and the row make every later call look like the second one;
  the daily limits need one request more than they admit and one midnight; a false `failed`
  or a second command needs one lost reply and one late execution, which the environment
  does without a bound. `OneEvent` keeps a fault and a midnight, or a fault and a rename,
  out of the same behaviour, where they would only multiply the states.
  `PlayerBoost_duplicates` has no overview and `PlayerBoost_settle` one call at a time, for
  lack of room: an overview that settles the row of a call still at work is checked in
  `MailItemBoost_boosts`, whose boosts share the protocol, and covered for the money boost by
  the theorems; two calls that contend for both locks are in `PlayerBoost_duplicates`, for
  safety, and `EveryCallReturns` of the money boost knows contention only with a lock that an
  idle connection keeps.
- *Level boost.* Two targets tell a refused duplicate from an accepted one, and let a player
  pass the target of the command; two faults let a crash follow a lost lock or
  acknowledgement; the pool of the portal has four connections and a queue of eight, which
  `CharacterLevelBoost_pool` takes as they are.
- *Items.* Two attachments make a mail that is full, half empty and empty; three names let
  one be free for a rename.
- *Flight paths.* Two requests in one gap make the deadlock; two nodes are one to be granted
  and one to be discovered; one fault is a commit left in doubt or a crash.
- *Access.* Two tabs that share a cookie are all it takes to act for the wrong account; two
  sessions fill a Map of two so that a third login evicts; three ticks pass the idle timeout
  of two with a refresh in between and reach the absolute one.
- *Limiters.* Three keys overflow a Map of two, in every order of age; two limits of two let
  a window fill, expire and open again.
- *Stats pages.* Two requests at once are one that starts a query and one that joins it;
  the clock runs one tick past a cache's lifetime and past the back-off.

Handlers, calls and request IDs are interchangeable and used as symmetry sets in the runs
without liveness properties. `PortalAccess` has a VIEW, `Observed`: identifiers of sessions
that ended and superseded tokens are never accepted again, so which of them a tab holds
makes no difference, and a live session is known by its place in the Map.

What the violations show:

- `PlayerBoost_lock_leak`: a failed `RELEASE_LOCK` is swallowed because "releasing the
  connection also releases its named locks", but `connection.release()` gives the connection
  back to the pool with its session, and so the lock, alive. The consequence is bounded:
  later calls on other connections get an error after two seconds (`EveryCallReturns` still
  holds, as do all safety properties), but the account or request stays refused as long as
  that connection lives. The other boosts have the same helper.
- `CharacterLevelBoost_pool`: four level requests for different characters can take all
  connections for their locks and then queue for the ones their statements need: none is
  ever released, because `getConnection` has no timeout, and no other user of the pool is
  served from then on. It takes as many different characters as there are connections,
  says the theorem `StandstillTakesCharacters`: calls for one character wait for its lock,
  which has a timeout. `EveryCallReturns` is what holds with fewer.
- `MailItemBoost_renamed`: the command carries the name read before the reservation. If the
  character is renamed before the command is executed and another character takes the name,
  that one gets the mail, the server answers that it was sent, and the row says `sent` for
  the GUID that got nothing. The feature's document says this never happens.
- `PortalAccess_late_login`: a login that verified the old password before the UPDATE
  creates its session after the change has ended all sessions of the account, and keeps it.
  `PasswordEndsSessions` is what does hold: only such an overlap, or an UPDATE executed
  after the portal had given it up, leaves a session of an older password.

Limits of what holds, found while the runs were built:

- `AnswersMatchLedger` of the level boost excludes characters whose lock was cut under a
  call (`cut`). Then a settlement may mark a row `applied` after the server's rejection was
  received and before it is marked; the call reports `failed`, because `mark` does not look
  at `affectedRows = 0`. The row itself stays true (`LedgerTruthful`).
- `RaiseOnly` needs `PromptServer = TRUE` and `PlayersLevel = FALSE`. A command executed
  after the character gained levels does lower the level; the specification of the feature
  (`raise-only-character-level-boost.md`, "Accepted Residual Risk") says so and accepts it.
  So does a command executed after its call gave up, when a later call has raised the level
  in between, and a command that survives a fault. What the run shows is that the portal
  alone, with calls that overlap, never does. The theorem adds that the queue has room for
  every call: a call refused a connection while it settles could leave its command behind.
- `AppliedIsLearned` excludes a character whose login had begun, with the online flag not yet
  set, when the transaction committed: the server's copy then overwrites the mask. The
  feature's document accepts that race; the run shows that it is the only one, ambiguous
  commits that the server executes late included.
- `FailuresBounded`: logins check the account before the database is asked and are charged
  after it, so the limit may be passed by the number of logins in flight, less one.
- `MapsBounded`: the password limiter makes room for one key and then adds up to two, so its
  Map may hold one window more than `MAX_KEYS`, and may give a live window up for nothing.

## Fairness

`Progress` is weak fairness of each call's and each overview's own steps: Node runs the
continuation of every settled promise, and every promise of a call settles, because
`GET_LOCK` waits 2 s, a statement 8 s and the SOAP call 8 s, once they have a connection;
that the pool gives them one is the assumption of a module that leaves the pool out. Nothing
is assumed of the game server, the player, the faults or new calls. `EveryCallReturns` needs
no more.

`PendingIsSettled` speaks of a player who keeps opening the boosts page: `PolledSpec` adds
weak fairness of a pending row growing stale (time passes) and strong fairness of an
overview of each account starting (strong, because the model's slots for overviews are
busy now and then). A row that nobody ever asks for again does stay pending, in the code
as in the model.

`FairSpec` of `CharacterLevelBoost` is weak fairness of each call's own steps: a reply may
never come, `ReplyUnusable` is the 8 s timeout. With `PromptServer`, which means that the
game server does everything before the portal stops waiting for it, the server's own steps
are fair as well; without it nothing is assumed of the server. A wait in the pool's queue
is no step, so a call in the queue returns only if a connection does become free.

`FairSpec` of `StatsPages` is weak fairness of a waiting request's next step (the
continuation of a promise) and of the end of every query *that has its connection*, because
mysql2's `timeout` starts with the statement; the roster needs no connection, its SOAP
command ends by an `AbortSignal`. Which end it is, rows or an error, is the other side's
choice. `Connect` is not fair: a query of the policy or of a board waits in the queue of a
pool, which has no timeout, and the policy shares its pool with the boosts, which
`CharacterLevelBoost_pool` shows standing still for ever. So `EveryRequestEnds` says that a
request ends unless the query it waits for is left without a connection for ever, and
promises nothing about that wait.

## Proofs

`PlayerBoost_proof` proves for every set of calls, overviews, requests, accounts and
characters, every limit and every number of faults and days:

| Theorem | Statement |
|---|---|
| `TypeCorrect` | `Spec => []TypeOK` |
| `AtMostOneCommandCorrect` | `Spec => []AtMostOneCommand` |
| `LedgerTruthfulCorrect` | `Spec => []LedgerTruthful` |
| `AnswersCorrect` | `Spec => []AnswersMatchLedger` |
| `LedgerRefined` | `Spec => LedgerSpec`, the refinement of `BoostLedger` |
| `DailyLimitsCorrect` | with finitely many request IDs: `Spec => []DailyLimits` |

They assume `OwnerAssumption`, `LimitAssumption`, `BoundAssumption` and `NullAssumption`
of `PlayerBoost`, nothing else. `TypeOK` is not inductive (a call that marks must have a
verdict, a row that exists must be one), so `TypeInv` adds that. The argument for the rest
is the invariant `Inv`: from its first lock to its release a call holds the lock of its
request (`LocksHeld`) and no other call does (`OneHolder`), so the row it found missing is
still missing when it inserts it (`StillAbsent`); the insertion gives that call, and only
it, the ticket for the one command (`Tickets`, `OneTicket`); commands in the queue and
mails sent never exceed the commands posted (`Counts`); so a reply, a counted mail and the
verdict drawn from either are true (`EvidenceTrue`), and so is the status marked with it
(`StatusTrue`). `AnswersMatchLedger` is part of `Inv`: answers need the row's finality.

`DailyLimitsCorrect` has an invariant of its own beside `Inv`. From `find` to `release` a
call holds the lock of its account (`AccountHeld`), and no other call does
(`OneAccountHolder`), a lock that an idle connection keeps included. So what the statement
of the totals admitted is still admitted at the INSERT (`Checked`): other calls insert for
other accounts, a settled row counts no more than before, and a midnight in between starts a
day that has no rows yet (`DaysPast`). The rows that count are then within the limits on
every day (`LimitsKept`), and they are the rows that are spent, because a failed row has no
mail. The gold is a fold over a set of rows. The lemmas about it (`AdditiveExists`,
`GoldAdditive`) show that a function with `g[{}] = 0` and `g[S] = g[S \ {x}] + gold of x`
exists and is what the fold returns, by induction over the number of rows. The library's
induction theorem cannot be used, so `NumbersInduction` takes the least counterexample from
the well-foundedness of the natural numbers instead.

`CharacterLevelBoost_proof` proves, for every set of calls, requests and characters, every
level, pool and batch size, every environment and number of faults:

| Theorem | Statement |
|---|---|
| `TypeCorrect` | `Spec => []TypeOK` |
| `AtMostOneCommandCorrect` | `Spec => []AtMostOneCommand` |
| `LedgerTruthfulCorrect` | `Spec => []LedgerTruthful` |
| `AnswersCorrect` | `Spec => []AnswersMatchLedger` |
| `RaiseOnlyCorrect` | with `Calm`: `Spec => RaiseOnly` |
| `StandstillTakesCharacters` | with finitely many calls: `Spec => [](~PoolMovesOn /\ cut = {} => Cardinality(CharactersInHand) = ConnectionLimit)` |

They assume `LimitAssumption`, `ModeAssumption` and `NullAssumption`. `Inv`, for the first
three, does not mention the locks: the argument must survive their loss. The call that inserts the row finds it
missing in the same transaction and alone gets the right to post (`Tickets`); commands
posted, executed and written are counted (`Counts`), so a rejection of the only command
means that nothing will ever change (`Undeliverable`); `reached` misses no level the table
showed (`ReachedComplete`), so a verdict drawn from a read is true when it is marked,
however late (`CallTrue`, `StatusTrue`).

`AnswersCorrect` does need the lock of the character, and so speaks of the characters whose
lock was never lost (`AnswersMatchLedger` excludes `cut`): a call that works on a character
holds its lock (`LockHeld`), alone (`OneHolder`), so nobody settles the row it is about to
settle (`RowOpen`). `StandstillTakesCharacters` rests on the same two: when the pool stands
still, every connection is that of a call which asks for a second one, under the lock of its
character; no two hold the lock of the same, so the calls, as many as there are connections,
are matched one to one with the characters in hand. Without `cut = {}` it is false: a call
whose lock was lost and its successor hold two connections for one character.

`RaiseOnlyCorrect` assumes `Calm`: the game server answers before the portal gives up,
nobody gains a level otherwise, nothing fails, and the queue has room for every call. These
are the settings of the run, for any number of calls, requests, characters and levels.
Without one of the first three a level can be lowered, as said above. With them, a command
is on its way only while a call that holds the lock waits for it (`Awaited`), the level stays
what that call read (`SeenTrue`), and the target is above it (`Below`): the write raises.

`MailItemBoost_proof` proves, for every set of calls, overviews, requests, characters and
names, every size of a mail and every number of renames and faults:

| Theorem | Statement |
|---|---|
| `TypeCorrect` | `Spec => []TypeOK` |
| `AtMostOneCommandCorrect` | `Spec => []AtMostOneCommand` |
| `AnswersCorrect` | `Spec => []AnswersMatchLedger` |
| `LedgerRefined` | `Spec => LedgerSpec`, the refinement of `BoostLedger` with the number of mails as deliveries |
| `OnlyRenamesRedirect` | `Spec => [](renames = 0 => NeverRedirected)` |

They assume `OwnerAssumption`, `SizeAssumption` and `NullAssumption`. The argument is the
one of `PlayerBoost`, with two differences. Types need `Counts`: a command in the queue
implies its row, from which the mail takes its size. And the evidence is a mail with all of
its attachments, so what the player takes can only destroy evidence (`TakeEffect`,
`FindingSound`), never make up a delivery. `OnlyRenamesRedirect` adds `NamesTrue`: until
somebody is renamed, names are distinct and the name in a call and in its command is the
name of the row's character.

`FlightPathBoost_proof` proves, for every set of calls, requests, gaps of the index,
characters and nodes, every grant and every number of faults:

| Theorem | Statement |
|---|---|
| `TypeCorrect` | `Spec => []TypeOK` |
| `ReadsHold` | `Spec => [](CharacterHeld /\ RequestHeld)`, what the row locks give |
| `CommittedIsLearned` | `Spec => []AppliedIsLearned` |
| `SuccessIsCommitted` | `Spec => []AnswersAreCommitted` |
| `BoostNeverForgets` | `Spec => NeverForgets`, an action property |

They assume `ConstantsFit`: the grant is a mask for each character and the special values are
no masks and no rows. It is a hypothesis and no ASSUME because the runs reach the module by
INSTANCE, where TLC evaluates no ASSUME. The argument is InnoDB's. From SELECT ... FOR UPDATE
to the end of its transaction, answered or in doubt, a call is the only one with the
character, which stays offline with the mask that was read (`CharacterHeld`); from the INSERT
on it is the only one with the request ID (`RequestHeld`). The shared gap locks are not
needed for that, which is why they can deadlock and still do no harm.

`MCBoosts_proof` shows that the two boosts of `MCBoosts` keep both invariants, since a step
of one leaves the variables of the other alone (`BothNextInv`), and states the theorems
about the properties that run checks: `BothTypesCorrect`, `CommittedIsLearned`,
`SuccessIsCommitted`, `BoostsNeverForget`. `MCBoosts` instances `FlightPathBoost_proof` for
that purpose, as `Flight`.

`PortalAccess_proof` proves, for every set of accounts, browsers, tabs, requests, sessions
and tokens and every limit:

| Theorem | Statement |
|---|---|
| `TypeCorrect` | `Spec => []TypeOK` |
| `OwnAccountOnly` | `Spec => []NoCrossAccountMutation` |
| `Bounded` | `Spec => []SessionsBounded` |
| `ChangeEndsSessions` | `Spec => []PasswordEndsSessions` |
| `ExpiredIsRefused` | `Spec => NoExpiredService`, an action property |

They assume the ASSUMEs of `PortalAccess`, among them `NewValues` (the special values are no
account, session or token) and `SaltsSuffice` (there are verifiers for all accounts to start
with; the database has a salt for each). A token of the CSRF check names one account wherever
it is remembered, in a session, a tab, a request or a reply on its way (`TokensAgree`), so a
cookie of another account never comes with a token that fits. Eviction takes the oldest
session: `older` is a total order of the live ones (`AgesAreOrdered`), so that those with few
newer ones are few (`FirstElement` and the lemmas after it). `PasswordEndsSessions` is part
of the invariant. `NoExpiredService` needs that the time since the last request and the idle
time of a session agree, however often it is refreshed passively (`QuietIsIdle`).

`RequestLimits_proof` proves, for every finite set of accounts, addresses and logins, every
limit, window and room of the Maps:

| Theorem | Statement |
|---|---|
| `TypeCorrect` | `Spec => []TypeOK` |
| `Bounded` | `Spec => []MapsBounded` |
| `OverrunBounded` | `Spec => []FailuresBounded` |
| `NoneForgivenEarly` | `Spec => NoEarlyForgiveness`, an action property |
| `ExactWithRoom` | `Spec => Exact`, the refinement of `FixedWindows` |

They assume `LimitsType`, `KeysDiffer`, `UsesType` and `FinitelyMany`. A Map holds a key once
and within its bound (`MapsFit`), and while there is room for all keys it says of each key
what the promise counts (`Mirror`), which makes a step of the limiter a step of
`FixedWindows`. For the overrun, every login that waits for its row is counted as a failure
to come (`FewFailures`): the check lets nobody in at the limit, so at most the others that
wait are above it.

`StatsPages_proof` proves, for every set of accounts, boards, requests and queries and every
lifetime of the caches:

| Theorem | Statement |
|---|---|
| `TypeCorrect` | `Spec => []TypeOK` |
| `AnswersFit` | `Spec => []AnswersFitTheVisitor` |
| `QueriedOnce` | `Spec => []OneQueryPerTopic` |
| `NobodyWaits` | `Spec => []NobodyWaitsForTheDead` |
| `FreshAnswers`, `NeverBack`, `RestAfterFailures` | the action properties `AnswersAreFresh`, `NeverBackInTime`, `FailuresBackOff` |

They assume the ASSUMEs of `StatsPages`. A topic and the query it has in flight name each
other (`QueriesInFlight`); a query leaves out what the scopes of its topic may not see and
found something no older than itself (`QueriesFit`); the cache holds what a query of its
topic found (`CacheFits`), and no answer is newer than the cache (`RequestsFit`). Two visitors
share a topic only if they leave out the same accounts (`KeyDetermines`).

With TLC only: the liveness properties `EveryCallReturns`, `PendingIsSettled` and
`EveryRequestEnds` (liveness under fairness and ENABLED are beyond the proof system). Every
other property of a passing run is stated by a theorem.

## Not modelled

- *Data.* About 32 000 of the repository's 56 000 lines are tables of talents, items and
  scaling values (`src/src/data`), and much of the rest is SQL, parsing, formatting and page
  layout. They keep no state and have no steps, so a model of them would be a copy.
- *Leaderboard queries.* Each of the 17 boards is a mapping of rows; what they share, the
  cache and the single flight, is `StatsPages`, which translates the quest-completion board.
  Thirteen boards send one statement. `quest-binge.ts`, `violence-speedrun.ts`,
  `ding-dong-dash.ts` and `professional-procrastinator.ts` send two, under one promise,
  whose results may be of two instants; the first two of them count the lifetime of an
  entry from the time before the query instead of the time after it, so that their entries
  expire sooner than in the model.
- *Account roster, armory, registration, server status, SRP6.* Projections of rows, a
  validated command line, and arithmetic on 256-bit numbers.
- *Routes.* Parsing, Origin checks, raw JSON bodies and HTTP status codes. The session, the
  token and the limiter in front of each route are in `PortalAccess` and `RequestLimits`.
- *Pages of the client.* The tab's session and token are in `PortalAccess`; a page that
  keeps its request ID for a retry is, for the server, a duplicate call with the same ID, and
  one that renews it a new request: both are inputs of the boost modules.

## Plan

1. The submission states of the boosts page (`client/src/pages/BoostsPage.tsx`), composed
   with `BoostLedger`. The case to look at: when `mark` throws after the command was
   executed, the route answers 503 without a `status` (`routes/boosts.ts:217`), which the
   page does not take for an ambiguous outcome, so that a second try may carry a new ID.
2. Theorems about what a lost lock can still do: `AnswersMatchLedger` of the level boost
   says nothing of a character whose lock was cut, although its row stays true.
3. `MapsBounded` and `Exact` of the limiters when the Map is full of live windows, as a
   bound on what is forgotten instead of the condition `HasRoom`.
