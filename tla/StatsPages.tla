------------------------------ MODULE StatsPages ------------------------------
(***************************************************************************)
(* The public pages that show game data: the leaderboards and the online   *)
(* roster.  Each answer comes from a cache that is filled by at most one   *)
(* query to the game's databases at a time, and may show only what the     *)
(* account-visibility policy lets the visitor see (services/               *)
(* account-visibility.ts, the cache that the leaderboard services share,   *)
(* here quest-completion-leaderboard.ts, and online-roster.ts).            *)
(*                                                                         *)
(* A leaderboard query leaves the hidden accounts out, so every scope has  *)
(* a cache of its own; the online roster is one snapshot for everybody,    *)
(* from which each answer leaves them out.                                 *)
(*                                                                         *)
(* A query of the policy or of a leaderboard first waits for a connection  *)
(* of its mysql2 pool, which the boosts (portal pool) or other pages       *)
(* (statistics pool) may hold; that wait has no timeout.  The roster is a  *)
(* SOAP command, which needs no pool.                                      *)
(*                                                                         *)
(* A definition X_Y is a mutated form of the definition X below it: a bug  *)
(* that a property must catch.  No other definition uses it.               *)
(***************************************************************************)
EXTENDS Naturals, FiniteSets

CONSTANTS
    Accounts,
    Hidden,         \* accounts that the configuration hides
    Viewers,        \* accounts that see the hidden ones too
    Boards,         \* a leaderboard with its population
    Roster,         \* the online roster page
    Policy,         \* the topic of the query that resolves the policy
    Requests, Queries,
    CacheTime, QueryTime, Backoff,
    Uses,           \* who visits which pages, who plays, and until when
    MaxTime,        \* bound of the clock
    None

Visitors == Accounts \cup {None}    \* None: a visitor without a session

ASSUME VisibilityType == Hidden \subseteq Accounts /\ Viewers \subseteq Accounts
ASSUME UsesType == Uses \subseteq [visitors : SUBSET Visitors, pages : SUBSET (Boards \cup {Roster}),
                                   players : SUBSET Accounts, until : 0..MaxTime]
ASSUME TimesType == /\ CacheTime \in Nat \ {0} /\ QueryTime \in Nat
                    /\ Backoff \in Nat \ {0} /\ MaxTime \in Nat
ASSUME NewValues == /\ None \notin Accounts \cup Queries
                    /\ Roster # Policy
                    /\ {Roster, Policy} \cap Boards = {}
                    /\ {Roster, Policy} \cap (Boards \X {"full", "standard"}) = {}

VARIABLES
    now,
    policy,     \* the policy is resolved
    retryAfter, \* no attempt to resolve it before
    queries,    \* the queries that are running
    inFlight,   \* inFlight[k]: the query that requests for topic k wait for, or None
    cache,      \* cache[k]: the cached snapshot of topic k, or Empty
    request,    \* request[r]: a request and its answer, or NoRequest
    failedAt,   \* history: the last failure to resolve the policy, or None
    use         \* the use of this behaviour, which no step changes

vars == <<now, policy, retryAfter, queries, inFlight, cache, request, failedAt, use>>

Pages == Boards \cup {Roster}
Keys == (Boards \X {"full", "standard"}) \cup {Roster}
Topics == Keys \cup {Policy}

Times == 0..MaxTime
Snapshots == [rows : SUBSET Accounts, world : SUBSET Accounts, at : Times]
Empty == [expiresAt |-> 0]
Entries == [snapshot : Snapshots, expiresAt : 0..(MaxTime + CacheTime)]

(* excluded: what the SQL leaves out; connected: it no longer waits for a  *)
(* connection; found: the rows, once read, with the world they were read   *)
(* from and the time as history.                                           *)
RunningQueries == [id : Queries, topic : Topics, excluded : SUBSET Accounts,
                   connected : BOOLEAN, found : Snapshots \cup {None}, since : Times]

NoRequest == [stage |-> "none"]
Waiting == [stage : {"policy", "allowed"}, who : Visitors, page : Pages]
Loading == [stage : {"loading"}, who : Visitors, page : Pages, query : Queries]
Failed == [stage : {"failed"}, who : Visitors, page : Pages]
Answered == [stage : {"answered"}, who : Visitors, page : Pages, shown : Snapshots]

Init == /\ now = 0
        /\ policy = FALSE
        /\ retryAfter = 0
        /\ queries = {}
        /\ inFlight = [k \in Topics |-> None]
        /\ cache = [k \in Keys |-> Empty]
        /\ request = [r \in Requests |-> NoRequest]
        /\ failedAt = None
        /\ use \in Uses

-----------------------------------------------------------------------------
(* Scopes *)

Scope(who) == IF who \in Viewers THEN [cacheKey |-> "full", excluded |-> {}]
                                 ELSE [cacheKey |-> "standard", excluded |-> Hidden]

Key_WithoutScope(page, scope) == IF page = Roster THEN Roster ELSE <<page, "standard">>
Key(page, scope) == IF page = Roster THEN Roster ELSE <<page, scope.cacheKey>>

\* The roster command names every account; the SQL of a leaderboard does not.
Excluded(page, scope) == IF page = Roster THEN {} ELSE scope.excluded

\* projectOnlineRoster: what of a snapshot the answer shows.
Project(page, scope, snapshot) ==
    IF page = Roster THEN [snapshot EXCEPT !.rows = @ \ scope.excluded] ELSE snapshot

-----------------------------------------------------------------------------
(* The queries *)

Running(id) == \E q \in queries : q.id = id
Free == {id \in Queries : /\ ~Running(id)
                          /\ \A k \in Topics : inFlight[k] # id
                          /\ \A r \in Requests : request[r].stage = "loading" => request[r].query # id}
NextQuery == CHOOSE id \in Free : TRUE

Start(k, excluded) ==
    /\ Free # {}
    /\ queries' = queries \cup {[id |-> NextQuery, topic |-> k, excluded |-> excluded,
                                 connected |-> k = Roster, found |-> None, since |-> now]}
    /\ inFlight' = [inFlight EXCEPT ![k] = NextQuery]

\* pool.execute gets its connection, if and when the pool has one to spare.
Connect(q) ==
    /\ q \in queries /\ ~q.connected
    /\ queries' = (queries \ {q}) \cup {[q EXCEPT !.connected = TRUE]}
    /\ UNCHANGED <<now, policy, retryAfter, inFlight, cache, request, failedAt, use>>

\* The game's database executes a query, whatever the accounts are that have
\* rows to show at that moment.
Read(q, world) ==
    /\ q \in queries /\ q.connected /\ q.found = None
    /\ world \subseteq use.players
    /\ q.topic = Policy => world = {}
    /\ queries' = (queries \ {q}) \cup
          {[q EXCEPT !.found = [rows |-> world \ q.excluded, world |-> world, at |-> now]]}
    /\ UNCHANGED <<now, policy, retryAfter, inFlight, cache, request, failedAt, use>>

\* finally: whatever became of the query, nobody else waits for it.
Released_OnSuccess(q, ok) ==
    IF ok /\ inFlight[q.topic] = q.id THEN [inFlight EXCEPT ![q.topic] = None] ELSE inFlight
Released(q, ok) ==
    IF inFlight[q.topic] = q.id THEN [inFlight EXCEPT ![q.topic] = None] ELSE inFlight

Awaits(r, q) == IF q.topic = Policy THEN request[r].stage = "policy"
                ELSE request[r].stage = "loading" /\ request[r].query = q.id

Fresh_Inclusive(k) == cache[k] # Empty /\ now <= cache[k].expiresAt
Fresh(k) == cache[k] # Empty /\ now < cache[k].expiresAt

ToFailure(r) == [stage |-> "failed", who |-> request[r].who, page |-> request[r].page]
ToAnswer(r, snapshot) ==
    [stage |-> "answered", who |-> request[r].who, page |-> request[r].page,
     shown |-> Project(request[r].page, Scope(request[r].who), snapshot)]

\* refresh(): the result is cached, and answers everybody who waits for it.
Complete(q) ==
    /\ q \in queries /\ q.topic # Policy /\ q.found # None
    /\ queries' = queries \ {q}
    /\ cache' = [cache EXCEPT ![q.topic] = [snapshot |-> q.found, expiresAt |-> now + CacheTime]]
    /\ inFlight' = Released(q, TRUE)
    /\ request' = [r \in Requests |-> IF Awaits(r, q) THEN ToAnswer(r, q.found) ELSE request[r]]
    /\ UNCHANGED <<now, policy, retryAfter, failedAt, use>>

\* resolvePolicy(): a resolved policy is never asked for again.
Resolve(q) ==
    /\ q \in queries /\ q.topic = Policy /\ q.found # None
    /\ queries' = queries \ {q}
    /\ policy' = TRUE
    /\ retryAfter' = 0
    /\ inFlight' = Released(q, TRUE)
    /\ request' = [r \in Requests |-> IF Awaits(r, q) THEN [request[r] EXCEPT !.stage = "allowed"]
                                      ELSE request[r]]
    /\ UNCHANGED <<now, cache, failedAt, use>>

\* Seconds where the clock counts milliseconds, or the other way around.
RetryAfter_OtherUnit(q) == now + 1000 * Backoff
RetryAfter_FromStart(q) == q.since + Backoff
RetryAfter(q) == now + Backoff

\* A database that hangs is abandoned after QUERY_TIMEOUT_MS; the queue of a pool
\* may be full.
MayFail_WithoutTimeout(q) == q.found # None
MayFail(q) == TRUE

\* An error, a result that does not validate, or the timeout.  The database may
\* go on with the statement, but nobody reads what it finds.
Fail(q) ==
    /\ q \in queries /\ MayFail(q)
    /\ queries' = queries \ {q}
    /\ inFlight' = Released(q, FALSE)
    /\ request' = [r \in Requests |-> IF Awaits(r, q) THEN ToFailure(r) ELSE request[r]]
    /\ IF q.topic = Policy
       THEN retryAfter' = RetryAfter(q) /\ failedAt' = now
       ELSE UNCHANGED <<retryAfter, failedAt>>
    /\ UNCHANGED <<now, policy, cache, use>>

-----------------------------------------------------------------------------
(* The requests *)

\* The middleware of every page: the visitor is known, the policy is needed.
Arrive(r, who, page) ==
    /\ request[r] = NoRequest
    /\ who \in use.visitors /\ page \in use.pages
    /\ UNCHANGED <<now, policy, retryAfter, cache, failedAt, use>>
    /\ LET is(stage) == request' = [request EXCEPT ![r] = [stage |-> stage, who |-> who, page |-> page]]
       IN \/ /\ policy
             /\ is("allowed")
             /\ UNCHANGED <<queries, inFlight>>
          \/ /\ ~policy /\ inFlight[Policy] # None
             /\ is(IF Running(inFlight[Policy]) THEN "policy" ELSE "failed")
             /\ UNCHANGED <<queries, inFlight>>
          \/ /\ ~policy /\ inFlight[Policy] = None /\ now < retryAfter
             /\ is("failed")
             /\ UNCHANGED <<queries, inFlight>>
          \/ /\ ~policy /\ inFlight[Policy] = None /\ now >= retryAfter
             /\ Start(Policy, {})
             /\ is("policy")

Joins_Never(k) == FALSE
Joins(k) == inFlight[k] # None

\* getLeaderboard and getSnapshot: the cache, the running query or a new one.
Load(r) ==
    /\ request[r].stage = "allowed"
    /\ UNCHANGED <<now, policy, retryAfter, cache, failedAt, use>>
    /\ LET page == request[r].page
           scope == Scope(request[r].who)
           k == Key(page, scope)
           waits(id) == request' = [request EXCEPT ![r] =
               [stage |-> "loading", who |-> request[r].who, page |-> page, query |-> id]]
       IN \/ /\ Fresh(k)
             /\ request' = [request EXCEPT ![r] = ToAnswer(r, cache[k].snapshot)]
             /\ UNCHANGED <<queries, inFlight>>
          \/ /\ ~Fresh(k) /\ Joins(k)
             /\ IF Running(inFlight[k]) THEN waits(inFlight[k])
                ELSE request' = [request EXCEPT ![r] = ToFailure(r)]
             /\ UNCHANGED <<queries, inFlight>>
          \/ /\ ~Fresh(k) /\ ~Joins(k)
             /\ Start(k, Excluded(page, scope))
             /\ waits(NextQuery)

Done(r) == /\ request[r].stage \in {"answered", "failed"}
           /\ request' = [request EXCEPT ![r] = NoRequest]
           /\ UNCHANGED <<now, policy, retryAfter, queries, inFlight, cache, failedAt, use>>

\* No query outlives its timeout once it reached the database.
Tick == /\ now < use.until
        /\ \A q \in queries : q.found # None => now < q.found.at + QueryTime
        /\ now' = now + 1
        /\ UNCHANGED <<policy, retryAfter, queries, inFlight, cache, request, failedAt, use>>

Settle == \E q \in queries : Complete(q) \/ Resolve(q) \/ Fail(q)

Next == \/ \E r \in Requests : \/ \E who \in Visitors, page \in Pages : Arrive(r, who, page)
                               \/ Load(r)
                               \/ Done(r)
        \/ \E q \in queries : Connect(q)
        \/ \E q \in queries, world \in SUBSET Accounts : Read(q, world)
        \/ Settle
        \/ Tick

Spec == Init /\ [][Next]_vars

(* Every request is processed, and every query that has its connection     *)
(* ends, by its timeout (the roster: its abort signal) at the latest.  The *)
(* pools, the databases and the visitors owe nothing: no step is fair that *)
(* gives a query its connection.                                           *)
Fairness == /\ \A r \in Requests : WF_vars(Load(r))
            /\ \A id \in Queries :
                  WF_vars(\E q \in queries : q.id = id /\ q.connected
                                              /\ (Complete(q) \/ Resolve(q) \/ Fail(q)))
FairSpec == Spec /\ Fairness

-----------------------------------------------------------------------------
(* Properties *)

\* Every variable has its type.
TypeOK ==
    /\ now \in Times
    /\ policy \in BOOLEAN
    /\ retryAfter \in 0..(MaxTime + Backoff)
    /\ queries \subseteq RunningQueries
    /\ inFlight \in [Topics -> Queries \cup {None}]
    /\ cache \in [Keys -> Entries \cup {Empty}]
    /\ request \in [Requests -> Waiting \cup Loading \cup Failed \cup Answered \cup {NoRequest}]
    /\ failedAt \in Times \cup {None}
    /\ use \in Uses

\* What a visitor is shown, from a cache, a query somebody else started or one
\* of his own, is all that his scope lets him see of the world at one moment.
AnswersFitTheVisitor ==
    \A r \in Requests : request[r].stage = "answered" =>
        request[r].shown.rows = request[r].shown.world \ Scope(request[r].who).excluded

\* However many requests arrive, the portal never waits for two queries of a
\* topic at the same time (a statement it gave up may still run).
OneQueryPerTopic ==
    \A p, q \in queries : p.topic = q.topic => p = q

\* A query that ended is not waited for: its failure is not the answer to later
\* requests.
NobodyWaitsForTheDead ==
    \A k \in Topics : inFlight[k] # None => Running(inFlight[k])

Answers(r) == request[r].stage # "answered" /\ request'[r].stage = "answered"

\* No answer is older than the cache's lifetime and one query.
AnswersAreFresh ==
    [][\A r \in Requests : Answers(r) => now < request'[r].shown.at + QueryTime + CacheTime]_vars

\* Whoever reloads a page is never shown an older state of it than he, or
\* anybody with the same scope, was shown before.
NeverBackInTime ==
    [][\A r, s \in Requests :
          (/\ Answers(r) /\ request[s].stage = "answered"
           /\ Key(request[r].page, Scope(request[r].who)) = Key(request[s].page, Scope(request[s].who)))
          => request'[r].shown.at >= request[s].shown.at]_vars

\* After a failure to resolve the policy the database has Backoff of rest.
FailuresBackOff ==
    [][\A q \in queries' \ queries :
          (q.topic = Policy /\ ~q.connected /\ failedAt # None) => now >= failedAt + Backoff]_vars

\* Every request is answered or refused, unless the query it waits for is left
\* without a connection for ever: nothing but the pool can keep a visitor
\* waiting.
AwaitsPool(r) == \E q \in queries : Awaits(r, q) /\ ~q.connected
EveryRequestEnds ==
    \A r \in Requests : (request[r].stage \notin {"none", "answered", "failed"})
                           ~> (request[r].stage \in {"answered", "failed"} \/ []AwaitsPool(r))

=============================================================================
