-------------------------- MODULE StatsPages_proof --------------------------
(***************************************************************************)
(* Proofs about StatsPages, for every number of accounts, boards, requests *)
(* and queries and every lifetime: a visitor is shown all that his scope   *)
(* lets him see and nothing else, no topic is queried twice at the same    *)
(* time, nobody waits for a query that ended, no answer is older than the  *)
(* cache allows or than an earlier answer, and a failure to resolve the    *)
(* policy is followed by a rest.                                           *)
(*                                                                         *)
(* The properties of the answers follow from one invariant about the way   *)
(* of a snapshot: the query of a topic leaves out what the scopes of that  *)
(* topic may not see, what it found is as old as the query at most, the    *)
(* cache holds what a query of its topic found, and nothing that was shown *)
(* is newer than the cache.  That there is one query per topic, the one    *)
(* that inFlight names, is the part that makes it inductive.               *)
(***************************************************************************)
EXTENDS StatsPages, TLAPS

KeyOf(r) == Key(request[r].page, Scope(request[r].who))

\* A query is the one that its topic has in flight, and the other way around.
QueriesInFlight ==
    /\ \A p, q \in queries : p.id = q.id => p = q
    /\ \A q \in queries : inFlight[q.topic] = q.id
    /\ \A k \in Topics : inFlight[k] # None => \E q \in queries : q.id = inFlight[k] /\ q.topic = k

\* What a query of topic k has to leave out, whoever it is loaded for.
LeavesOut(k, excluded) ==
    \A page \in Pages, who \in Visitors :
        k = Key(page, Scope(who)) => excluded = Excluded(page, Scope(who))

FoundInTime(q) ==
    q.found # None =>
        /\ q.found.rows = q.found.world \ q.excluded
        /\ q.found.at <= now /\ now <= q.found.at + QueryTime
        /\ (q.topic \in Keys /\ cache[q.topic] # Empty) => cache[q.topic].snapshot.at <= q.found.at

QueriesFit == \A q \in queries : LeavesOut(q.topic, q.excluded) /\ FoundInTime(q)

EntryFits(k) ==
    cache[k] # Empty =>
        /\ \A page \in Pages, who \in Visitors : k = Key(page, Scope(who)) =>
              cache[k].snapshot.rows = cache[k].snapshot.world \ Excluded(page, Scope(who))
        /\ cache[k].snapshot.at <= now
        /\ cache[k].expiresAt <= cache[k].snapshot.at + QueryTime + CacheTime

CacheFits == \A k \in Keys : EntryFits(k)

LoadsItsKey(r) ==
    request[r].stage = "loading" =>
        \A q \in queries : q.id = request[r].query => q.topic = KeyOf(r)

ShownFits(r) ==
    request[r].stage = "answered" =>
        /\ request[r].shown.rows = request[r].shown.world \ Scope(request[r].who).excluded
        /\ cache[KeyOf(r)] # Empty
        /\ request[r].shown.at <= cache[KeyOf(r)].snapshot.at

RequestsFit == \A r \in Requests : LoadsItsKey(r) /\ ShownFits(r)

RestAfterFailure == failedAt # None /\ ~policy => failedAt + Backoff <= retryAfter

IInv == TypeOK /\ QueriesInFlight /\ QueriesFit /\ CacheFits /\ RequestsFit /\ RestAfterFailure

-----------------------------------------------------------------------------
(* Scopes, keys and projections                                            *)

\* Two requests that share a key show the same page and leave out the same
\* accounts when they load it.
LEMMA KeyDetermines ==
    ASSUME NEW p1 \in Pages, NEW p2 \in Pages, NEW w1 \in Visitors, NEW w2 \in Visitors,
           Key(p1, Scope(w1)) = Key(p2, Scope(w2))
    PROVE  p1 = p2 /\ Excluded(p1, Scope(w1)) = Excluded(p2, Scope(w2))
<1> USE NewValues DEF Key, Scope, Excluded, Pages
<1>1. CASE p1 = Roster /\ p2 = Roster
  BY <1>1
<1>2. CASE p1 = Roster /\ p2 # Roster
  <2>1. <<p2, Scope(w2).cacheKey>> \in Boards \X {"full", "standard"}
    BY <1>2
  <2> QED BY <1>2, <2>1
<1>3. CASE p1 # Roster /\ p2 = Roster
  <2>1. <<p1, Scope(w1).cacheKey>> \in Boards \X {"full", "standard"}
    BY <1>3
  <2> QED BY <1>3, <2>1
<1>4. CASE p1 # Roster /\ p2 # Roster
  <2>1. <<p1, Scope(w1).cacheKey>> = <<p2, Scope(w2).cacheKey>>
    BY <1>4
  <2>2. p1 = p2 /\ Scope(w1).cacheKey = Scope(w2).cacheKey
    BY <2>1
  <2> QED BY <1>4, <2>2
<1> QED BY <1>1, <1>2, <1>3, <1>4

LEMMA KeyIsKey ==
    ASSUME NEW page \in Pages, NEW who \in Visitors
    PROVE  /\ Key(page, Scope(who)) \in Keys
           /\ Key(page, Scope(who)) \in Topics
           /\ Key(page, Scope(who)) # Policy
           /\ Excluded(page, Scope(who)) \in SUBSET Accounts
BY NewValues, VisibilityType DEF Key, Scope, Excluded, Pages, Keys, Topics

\* A load leaves out exactly what every load of the same key has to.
LEMMA KeyLeavesOut ==
    ASSUME NEW page \in Pages, NEW who \in Visitors
    PROVE  LeavesOut(Key(page, Scope(who)), Excluded(page, Scope(who)))
BY KeyDetermines DEF LeavesOut

\* No page is loaded by the query of the policy.
LEMMA PolicyLeavesOut == LeavesOut(Policy, {})
BY KeyIsKey DEF LeavesOut

\* What is left of a snapshot by the query and by the projection is what the
\* scope lets its visitor see.
LEMMA Projected ==
    ASSUME NEW page \in Pages, NEW who \in Visitors, NEW snapshot \in Snapshots,
           snapshot.rows = snapshot.world \ Excluded(page, Scope(who))
    PROVE  /\ Project(page, Scope(who), snapshot) \in Snapshots
           /\ Project(page, Scope(who), snapshot).at = snapshot.at
           /\ Project(page, Scope(who), snapshot).rows =
                  Project(page, Scope(who), snapshot).world \ Scope(who).excluded
<1>1. CASE page = Roster
  BY <1>1 DEF Project, Excluded, Snapshots
<1>2. CASE page # Roster
  BY <1>2 DEF Project, Excluded, Snapshots
<1> QED BY <1>1, <1>2

LEMMA ProjectedType ==
    ASSUME NEW page \in Pages, NEW who \in Visitors, NEW snapshot \in Snapshots
    PROVE  Project(page, Scope(who), snapshot) \in Snapshots
BY DEF Project, Snapshots

-----------------------------------------------------------------------------
(* What a step does to the queries                                         *)

\* A started query has an id that nothing in the state still names.
LEMMA NextQueryIsFree ==
    ASSUME Free # {}
    PROVE  /\ NextQuery \in Queries
           /\ \A q \in queries : q.id # NextQuery
           /\ \A k \in Topics : inFlight[k] # NextQuery
           /\ \A r \in Requests : request[r].stage = "loading" => request[r].query # NextQuery
<1>1. NextQuery \in Free
  BY DEF NextQuery
<1> QED BY <1>1 DEF Free, Running

Started(k, excluded) == [id |-> NextQuery, topic |-> k, excluded |-> excluded,
                         connected |-> k = Roster, found |-> None, since |-> now]

LEMMA StartEffect ==
    ASSUME TypeOK, NEW k \in Topics, NEW excluded \in SUBSET Accounts, Start(k, excluded)
    PROVE  /\ Started(k, excluded) \in RunningQueries
           /\ Started(k, excluded).id = NextQuery
           /\ Started(k, excluded).topic = k
           /\ Started(k, excluded).excluded = excluded
           /\ Started(k, excluded).found = None
           /\ queries' = queries \cup {Started(k, excluded)}
           /\ queries' \subseteq RunningQueries
           /\ inFlight' \in [Topics -> Queries \cup {None}]
           /\ inFlight'[k] = NextQuery
           /\ \A t \in Topics : t # k => inFlight'[t] = inFlight[t]
           /\ NextQuery \in Queries
           /\ NextQuery # None
<1>1. NextQuery \in Queries
  BY NextQueryIsFree DEF Start
<1>2. Started(k, excluded) \in RunningQueries
  <2>1. (k = Roster) \in BOOLEAN
    OBVIOUS
  <2> QED BY <1>1, <2>1 DEF Started, RunningQueries, TypeOK
<1>3. queries' = queries \cup {Started(k, excluded)}
  BY DEF Start, Started
<1>4. /\ Started(k, excluded).id = NextQuery
      /\ Started(k, excluded).topic = k
      /\ Started(k, excluded).excluded = excluded
      /\ Started(k, excluded).found = None
  BY DEF Started
<1>5. /\ inFlight' \in [Topics -> Queries \cup {None}]
      /\ inFlight'[k] = NextQuery
      /\ \A t \in Topics : t # k => inFlight'[t] = inFlight[t]
  BY <1>1 DEF Start, TypeOK
<1>6. queries' \subseteq RunningQueries
  BY <1>2, <1>3 DEF TypeOK
<1> QED BY <1>1, <1>2, <1>3, <1>4, <1>5, <1>6, NewValues

LEMMA StartInFlight ==
    ASSUME TypeOK, QueriesInFlight, NEW k \in Topics, NEW excluded \in SUBSET Accounts,
           Start(k, excluded), inFlight[k] = None
    PROVE  QueriesInFlight'
<1> DEFINE new == Started(k, excluded)
<1>1. /\ queries' = queries \cup {new} /\ new.id = NextQuery /\ new.topic = k
      /\ inFlight'[k] = NextQuery /\ NextQuery # None
      /\ \A t \in Topics : t # k => inFlight'[t] = inFlight[t]
  BY StartEffect
<1>2. \A q \in queries : q.id # NextQuery
  BY NextQueryIsFree DEF Start
<1>3. \A q \in queries : q.topic \in Topics /\ q.id \in Queries /\ q.id # None
  BY NewValues DEF TypeOK, RunningQueries
<1>4. \A q \in queries : q.topic # k
  BY <1>3 DEF QueriesInFlight
<1> HIDE DEF new
<1>5. \A p, q \in queries' : p.id = q.id => p = q
  BY <1>1, <1>2 DEF QueriesInFlight
<1>6. \A q \in queries' : inFlight'[q.topic] = q.id
  BY <1>1, <1>3, <1>4 DEF QueriesInFlight
<1>7. ASSUME NEW t \in Topics, inFlight'[t] # None
      PROVE  \E q \in queries' : q.id = inFlight'[t] /\ q.topic = t
  BY <1>1, <1>7 DEF QueriesInFlight
<1> QED BY <1>5, <1>6, <1>7 DEF QueriesInFlight

\* The end of a query, with or without success.
Ends(q) == q \in queries /\ queries' = queries \ {q} /\ inFlight' = Released(q, TRUE)

LEMMA EndInFlight ==
    ASSUME TypeOK, QueriesInFlight, NEW q, Ends(q)
    PROVE  /\ QueriesInFlight'
           /\ queries' \subseteq RunningQueries
           /\ inFlight' \in [Topics -> Queries \cup {None}]
           /\ \A p \in queries' : p \in queries /\ p.topic # q.topic
<1>1. q.topic \in Topics /\ queries' = queries \ {q} /\ q \in queries
  BY DEF Ends, TypeOK, RunningQueries
<1>2. inFlight' = [inFlight EXCEPT ![q.topic] = None]
  BY <1>1 DEF Ends, Released, QueriesInFlight
<1>3. /\ inFlight' \in [Topics -> Queries \cup {None}]
      /\ inFlight'[q.topic] = None
      /\ \A t \in Topics : t # q.topic => inFlight'[t] = inFlight[t]
  BY <1>1, <1>2 DEF TypeOK
<1>4. \A p \in queries' : p \in queries /\ p.topic \in Topics /\ p.topic # q.topic
  BY <1>1 DEF QueriesInFlight, TypeOK, RunningQueries
<1>5. QueriesInFlight'
  BY <1>1, <1>3, <1>4 DEF QueriesInFlight
<1>6. queries' \subseteq RunningQueries
  BY <1>1 DEF TypeOK
<1> QED BY <1>3, <1>4, <1>5, <1>6

Found(q, world) == [rows |-> world \ q.excluded, world |-> world, at |-> now]

LEMMA ReadEffect ==
    ASSUME TypeOK, NEW q, NEW world \in SUBSET Accounts, Read(q, world)
    PROVE  LET read == [q EXCEPT !.found = Found(q, world)]
           IN  /\ queries' = (queries \ {q}) \cup {read}
               /\ read \in RunningQueries
               /\ read.id = q.id /\ read.topic = q.topic /\ read.excluded = q.excluded
               /\ read.found = Found(q, world)
               /\ Found(q, world) \in Snapshots
<1>1. q \in queries /\ q \in RunningQueries
  BY DEF Read, TypeOK
<1>2. Found(q, world) \in Snapshots
  BY <1>1 DEF Found, Snapshots, RunningQueries, TypeOK
<1>3. queries' = (queries \ {q}) \cup {[q EXCEPT !.found = Found(q, world)]}
  BY DEF Read, Found
<1>4. [q EXCEPT !.found = Found(q, world)] \in RunningQueries
  BY <1>1, <1>2 DEF RunningQueries
<1>5. LET read == [q EXCEPT !.found = Found(q, world)]
      IN  /\ read.id = q.id /\ read.topic = q.topic /\ read.excluded = q.excluded
          /\ read.found = Found(q, world)
  BY <1>1 DEF RunningQueries
<1> QED BY <1>2, <1>3, <1>4, <1>5

LEMMA ReadInFlight ==
    ASSUME TypeOK, QueriesInFlight, NEW q, NEW world \in SUBSET Accounts, Read(q, world)
    PROVE  QueriesInFlight' /\ queries' \subseteq RunningQueries
<1> DEFINE read == [q EXCEPT !.found = Found(q, world)]
<1>1. /\ queries' = (queries \ {q}) \cup {read} /\ read \in RunningQueries
      /\ read.id = q.id /\ read.topic = q.topic
  BY ReadEffect
<1>2. q \in queries /\ inFlight' = inFlight
  BY DEF Read
<1> HIDE DEF read
<1>3. queries' \subseteq RunningQueries
  BY <1>1 DEF TypeOK
<1>4. QueriesInFlight'
  BY <1>1, <1>2 DEF QueriesInFlight
<1> QED BY <1>3, <1>4

\* A connection makes no difference to what the query is for.
LEMMA ConnectEffect ==
    ASSUME TypeOK, NEW q, Connect(q)
    PROVE  LET connected == [q EXCEPT !.connected = TRUE]
           IN  /\ queries' = (queries \ {q}) \cup {connected}
               /\ connected \in RunningQueries
               /\ connected.id = q.id /\ connected.topic = q.topic
               /\ connected.excluded = q.excluded /\ connected.found = q.found
               /\ connected.connected
<1>1. q \in queries /\ q \in RunningQueries
  BY DEF Connect, TypeOK
<1> QED BY <1>1 DEF Connect, RunningQueries

-----------------------------------------------------------------------------
(* What a step keeps of the queries, the cache and the requests            *)

LEMMA StartFits ==
    ASSUME TypeOK, QueriesFit, NEW k \in Topics, NEW excluded \in SUBSET Accounts,
           Start(k, excluded), LeavesOut(k, excluded), UNCHANGED <<now, cache>>
    PROVE  QueriesFit'
<1> DEFINE new == Started(k, excluded)
<1>1. /\ queries' = queries \cup {new}
      /\ new.topic = k /\ new.excluded = excluded /\ new.found = None
  BY StartEffect
<1> HIDE DEF new
<1>2. ASSUME NEW q \in queries'
      PROVE  LeavesOut(q.topic, q.excluded)' /\ FoundInTime(q)'
  <2>1. CASE q \in queries
    BY <2>1 DEF QueriesFit, LeavesOut, FoundInTime
  <2>2. CASE q = new
    BY <1>1, <2>2 DEF LeavesOut, FoundInTime
  <2> QED BY <1>1, <2>1, <2>2
<1> QED BY <1>2 DEF QueriesFit

\* What a query just read is as new as the state, and so not older than the
\* cache.
LEMMA ReadFits ==
    ASSUME TypeOK, QueriesFit, CacheFits, NEW q, NEW world \in SUBSET Accounts, Read(q, world)
    PROVE  QueriesFit'
<1> DEFINE read == [q EXCEPT !.found = Found(q, world)]
<1>1. /\ queries' = (queries \ {q}) \cup {read}
      /\ read.topic = q.topic /\ read.excluded = q.excluded
      /\ read.found = Found(q, world)
  BY ReadEffect
<1>2. q \in queries /\ now' = now /\ cache' = cache
  BY DEF Read
<1>3. /\ read.found.rows = read.found.world \ q.excluded
      /\ read.found.at = now
  BY <1>1 DEF Found
<1>4. now \in Nat /\ QueryTime \in Nat
  BY TimesType DEF TypeOK, Times
<1> HIDE DEF read
<1>5. ASSUME NEW p \in queries'
      PROVE  LeavesOut(p.topic, p.excluded)' /\ FoundInTime(p)'
  <2>1. CASE p \in queries
    BY <1>2, <2>1 DEF QueriesFit, LeavesOut, FoundInTime
  <2>2. CASE p = read
    <3>1. LeavesOut(p.topic, p.excluded)'
      BY <1>1, <1>2, <2>2 DEF QueriesFit, LeavesOut
    <3>2. q.topic \in Keys /\ cache[q.topic] # Empty => cache[q.topic].snapshot.at <= now
      BY DEF CacheFits, EntryFits
    <3>3. FoundInTime(p)'
      BY <1>1, <1>2, <1>3, <1>4, <2>2, <3>2 DEF FoundInTime
    <3> QED BY <3>1, <3>3
  <2> QED BY <1>1, <2>1, <2>2
<1> QED BY <1>5 DEF QueriesFit

LEMMA EndFits ==
    ASSUME TypeOK, QueriesInFlight, QueriesFit, NEW q, Ends(q), now' = now,
           \A k \in Keys : k # q.topic => cache'[k] = cache[k]
    PROVE  QueriesFit'
<1>1. \A p \in queries' : p \in queries /\ p.topic # q.topic
  BY EndInFlight
<1>2. ASSUME NEW p \in queries'
      PROVE  LeavesOut(p.topic, p.excluded)' /\ FoundInTime(p)'
  BY <1>1 DEF QueriesFit, LeavesOut, FoundInTime
<1> QED BY <1>2 DEF QueriesFit

LEMMA CacheStays ==
    ASSUME CacheFits, UNCHANGED <<now, cache>>
    PROVE  CacheFits'
BY DEF CacheFits, EntryFits

\* A request that the step leaves alone still waits for a query of its key.
LEMMA WaitStays ==
    ASSUME NEW r \in Requests, LoadsItsKey(r), request'[r] = request[r],
           \A q \in queries' : \/ \E p \in queries : p.id = q.id /\ p.topic = q.topic
                               \/ request[r].stage = "loading" => request[r].query # q.id
    PROVE  LoadsItsKey(r)'
BY DEF LoadsItsKey, KeyOf

LEMMA ShownStays ==
    ASSUME NEW r \in Requests, ShownFits(r), request'[r] = request[r], cache' = cache
    PROVE  ShownFits(r)'
BY DEF ShownFits, KeyOf

LEMMA StartWaits ==
    ASSUME TypeOK, NEW k \in Topics, NEW excluded \in SUBSET Accounts, Start(k, excluded),
           NEW r \in Requests, LoadsItsKey(r), request'[r] = request[r]
    PROVE  LoadsItsKey(r)'
<1>1. /\ queries' = queries \cup {Started(k, excluded)}
      /\ Started(k, excluded).id = NextQuery
  BY StartEffect
<1>2. request[r].stage = "loading" => request[r].query # NextQuery
  BY NextQueryIsFree DEF Start
<1> QED BY <1>1, <1>2, WaitStays

LEMMA ReadWaits ==
    ASSUME TypeOK, NEW q, NEW world \in SUBSET Accounts, Read(q, world),
           NEW r \in Requests, LoadsItsKey(r), request'[r] = request[r]
    PROVE  LoadsItsKey(r)'
<1> DEFINE read == [q EXCEPT !.found = Found(q, world)]
<1>1. queries' = (queries \ {q}) \cup {read} /\ read.id = q.id /\ read.topic = q.topic
  BY ReadEffect
<1>2. q \in queries
  BY DEF Read
<1> HIDE DEF read
<1> QED BY <1>1, <1>2, WaitStays

LEMMA EndWaits ==
    ASSUME NEW q, Ends(q), NEW r \in Requests, LoadsItsKey(r), request'[r] = request[r]
    PROVE  LoadsItsKey(r)'
BY WaitStays DEF Ends

-----------------------------------------------------------------------------
(* The steps                                                               *)

LEMMA ArriveStep ==
    ASSUME IInv, NEW r \in Requests, NEW who \in Visitors, NEW page \in Pages, Arrive(r, who, page)
    PROVE  IInv'
<1> DEFINE is(stage) == request' = [request EXCEPT ![r] = [stage |-> stage, who |-> who, page |-> page]]
<1>1. UNCHANGED <<now, policy, retryAfter, cache, failedAt, use>> /\ request[r] = NoRequest
  BY DEF Arrive
<1>2. \/ UNCHANGED <<queries, inFlight>>
      \/ Start(Policy, {}) /\ inFlight[Policy] = None
  BY DEF Arrive
<1>3. PICK stage \in {"allowed", "policy", "failed"} : is(stage)
  BY DEF Arrive
<1>4. /\ request' \in [Requests -> Waiting \cup Loading \cup Failed \cup Answered \cup {NoRequest}]
      /\ request'[r].stage = stage
      /\ \A s \in Requests : s # r => request'[s] = request[s]
  <2>1. [stage |-> stage, who |-> who, page |-> page] \in Waiting \cup Failed
    BY DEF Waiting, Failed
  <2> QED BY <1>3, <2>1 DEF IInv, TypeOK
<1>5. Policy \in Topics /\ {} \in SUBSET Accounts
  BY DEF Topics
<1>6. /\ QueriesInFlight' /\ QueriesFit'
      /\ queries' \subseteq RunningQueries
      /\ inFlight' \in [Topics -> Queries \cup {None}]
  <2>1. CASE UNCHANGED <<queries, inFlight>>
    BY <1>1, <2>1 DEF IInv, TypeOK, QueriesInFlight, QueriesFit, LeavesOut, FoundInTime
  <2>2. CASE Start(Policy, {}) /\ inFlight[Policy] = None
    BY <1>1, <1>5, <2>2, StartEffect, StartInFlight, StartFits, PolicyLeavesOut DEF IInv
  <2> QED BY <1>2, <2>1, <2>2
<1>7. TypeOK'
  BY <1>1, <1>4, <1>6 DEF IInv, TypeOK
<1>8. CacheFits'
  BY <1>1, CacheStays DEF IInv
<1>9. ASSUME NEW s \in Requests
      PROVE  LoadsItsKey(s)' /\ ShownFits(s)'
  <2>1. CASE s = r
    BY <1>4, <2>1 DEF LoadsItsKey, ShownFits
  <2>2. CASE s # r
    <3>1. request'[s] = request[s] /\ LoadsItsKey(s) /\ ShownFits(s) /\ cache' = cache
      BY <1>1, <1>4, <2>2 DEF IInv, RequestsFit
    <3>2. ShownFits(s)'
      BY <3>1, ShownStays
    <3>3. CASE UNCHANGED <<queries, inFlight>>
      BY <3>1, <3>2, <3>3, WaitStays
    <3>4. CASE Start(Policy, {})
      BY <1>5, <3>1, <3>2, <3>4, StartWaits DEF IInv
    <3> QED BY <1>2, <3>3, <3>4
  <2> QED BY <2>1, <2>2
<1>10. RequestsFit'
  BY <1>9 DEF RequestsFit
<1>11. RestAfterFailure'
  BY <1>1 DEF IInv, RestAfterFailure
<1> QED BY <1>6, <1>7, <1>8, <1>10, <1>11 DEF IInv

\* What any step needs that answers request r with a snapshot of its key.
LEMMA AnswerFits ==
    ASSUME NEW r \in Requests, NEW snapshot \in Snapshots,
           request[r].page \in Pages, request[r].who \in Visitors,
           snapshot.rows = snapshot.world \ Excluded(request[r].page, Scope(request[r].who))
    PROVE  /\ ToAnswer(r, snapshot) \in Answered
           /\ ToAnswer(r, snapshot).stage = "answered"
           /\ ToAnswer(r, snapshot).who = request[r].who
           /\ ToAnswer(r, snapshot).page = request[r].page
           /\ ToAnswer(r, snapshot).shown.at = snapshot.at
           /\ ToAnswer(r, snapshot).shown.rows =
                 ToAnswer(r, snapshot).shown.world \ Scope(request[r].who).excluded
<1> DEFINE shown == Project(request[r].page, Scope(request[r].who), snapshot)
<1>1. /\ shown \in Snapshots /\ shown.at = snapshot.at
      /\ shown.rows = shown.world \ Scope(request[r].who).excluded
  BY Projected
<1> HIDE DEF shown
<1>2. ToAnswer(r, snapshot) =
          [stage |-> "answered", who |-> request[r].who, page |-> request[r].page, shown |-> shown]
  BY DEF ToAnswer, shown
<1> QED BY <1>1, <1>2 DEF Answered

LEMMA FailureType ==
    ASSUME NEW r \in Requests, request[r].page \in Pages, request[r].who \in Visitors
    PROVE  /\ ToFailure(r) \in Failed
           /\ ToFailure(r).stage = "failed"
BY DEF ToFailure, Failed

\* A request that is on its way has a visitor and a page.
LEMMA RequestShape ==
    ASSUME TypeOK, NEW r \in Requests, request[r].stage \in {"policy", "allowed", "loading", "answered"}
    PROVE  /\ request[r].page \in Pages /\ request[r].who \in Visitors
           /\ request[r].stage = "loading" => request[r].query \in Queries
           /\ request[r].stage = "answered" => request[r].shown \in Snapshots
           /\ request[r].stage \in {"policy", "allowed"} => request[r] \in Waiting
           /\ KeyOf(r) \in Keys /\ KeyOf(r) \in Topics /\ KeyOf(r) # Policy
<1>1. request[r] \in Waiting \cup Loading \cup Failed \cup Answered \cup {NoRequest}
  BY DEF TypeOK
<1>2. /\ request[r].page \in Pages /\ request[r].who \in Visitors
      /\ request[r].stage = "loading" => request[r].query \in Queries
      /\ request[r].stage = "answered" => request[r].shown \in Snapshots
      /\ request[r].stage \in {"policy", "allowed"} => request[r] \in Waiting
  BY <1>1 DEF Waiting, Loading, Failed, Answered, NoRequest
<1> QED BY <1>2, KeyIsKey DEF KeyOf

LEMMA EntryType ==
    ASSUME TypeOK, NEW k \in Keys, cache[k] # Empty
    PROVE  /\ cache[k].snapshot \in Snapshots
           /\ cache[k].snapshot.at \in Nat
           /\ cache[k].expiresAt \in Nat
BY TimesType DEF TypeOK, Entries, Snapshots, Times

\* The three ways to load a page: from the cache, from the query that runs
\* already, and from one of its own.
LEMMA LoadCases ==
    ASSUME IInv, NEW r \in Requests, Load(r)
    PROVE  /\ request[r].stage = "allowed"
           /\ UNCHANGED <<now, policy, retryAfter, cache, failedAt, use>>
           /\ \/ /\ Fresh(KeyOf(r))
                 /\ request' = [request EXCEPT ![r] = ToAnswer(r, cache[KeyOf(r)].snapshot)]
                 /\ UNCHANGED <<queries, inFlight>>
              \/ /\ inFlight[KeyOf(r)] # None
                 /\ request' = [request EXCEPT ![r] =
                       [stage |-> "loading", who |-> request[r].who, page |-> request[r].page,
                        query |-> inFlight[KeyOf(r)]]]
                 /\ UNCHANGED <<queries, inFlight>>
              \/ /\ inFlight[KeyOf(r)] = None
                 /\ Start(KeyOf(r), Excluded(request[r].page, Scope(request[r].who)))
                 /\ request' = [request EXCEPT ![r] =
                       [stage |-> "loading", who |-> request[r].who, page |-> request[r].page,
                        query |-> NextQuery]]
<1>1. request[r].stage = "allowed" /\ UNCHANGED <<now, policy, retryAfter, cache, failedAt, use>>
  BY DEF Load
<1>2. KeyOf(r) \in Topics
  BY <1>1, RequestShape DEF IInv
<1>3. inFlight[KeyOf(r)] # None => Running(inFlight[KeyOf(r)])
  BY <1>2 DEF IInv, QueriesInFlight, Running
<1> QED BY <1>1, <1>3 DEF Load, Joins, KeyOf

LEMMA LoadStep ==
    ASSUME IInv, NEW r \in Requests, Load(r)
    PROVE  IInv'
<1> DEFINE k == KeyOf(r)
           excluded == Excluded(request[r].page, Scope(request[r].who))
           loading(id) == [stage |-> "loading", who |-> request[r].who, page |-> request[r].page,
                           query |-> id]
<1>1. /\ request[r].stage = "allowed"
      /\ UNCHANGED <<now, policy, retryAfter, cache, failedAt, use>>
  BY LoadCases
<1>2. /\ request[r].page \in Pages /\ request[r].who \in Visitors
      /\ k \in Keys /\ k \in Topics
      /\ excluded \in SUBSET Accounts /\ LeavesOut(k, excluded)
  BY <1>1, RequestShape, KeyIsKey, KeyLeavesOut DEF IInv, KeyOf
<1>3. k = Key(request[r].page, Scope(request[r].who))
  BY DEF KeyOf
<1>4. CacheFits' /\ RestAfterFailure'
  BY <1>1, CacheStays DEF IInv, RestAfterFailure
<1>5. CASE /\ Fresh(k)
           /\ request' = [request EXCEPT ![r] = ToAnswer(r, cache[k].snapshot)]
           /\ UNCHANGED <<queries, inFlight>>
  <2> DEFINE answer == ToAnswer(r, cache[k].snapshot)
  <2>1. cache[k] # Empty /\ cache[k].snapshot \in Snapshots /\ cache[k].snapshot.at \in Nat
    BY <1>2, <1>5, EntryType DEF IInv, Fresh
  <2>2. cache[k].snapshot.rows = cache[k].snapshot.world \ excluded
    BY <1>2, <1>3, <2>1 DEF IInv, CacheFits, EntryFits
  <2>3. /\ answer \in Answered /\ answer.stage = "answered"
        /\ answer.who = request[r].who /\ answer.page = request[r].page
        /\ answer.shown.at = cache[k].snapshot.at
        /\ answer.shown.rows = answer.shown.world \ Scope(request[r].who).excluded
    BY <1>2, <2>1, <2>2, AnswerFits
  <2> HIDE DEF answer
  <2>4. /\ request' \in [Requests -> Waiting \cup Loading \cup Failed \cup Answered \cup {NoRequest}]
        /\ request'[r] = answer
        /\ \A s \in Requests : s # r => request'[s] = request[s]
    BY <1>5, <2>3 DEF IInv, TypeOK, answer
  <2>5. TypeOK'
    BY <1>1, <1>5, <2>4 DEF IInv, TypeOK
  <2>6. QueriesInFlight' /\ QueriesFit'
    BY <1>1, <1>5 DEF IInv, QueriesInFlight, QueriesFit, LeavesOut, FoundInTime
  <2>7. LoadsItsKey(r)' /\ ShownFits(r)'
    <3>1. KeyOf(r)' = k
      BY <1>3, <2>3, <2>4 DEF KeyOf
    <3> HIDE DEF k
    <3>2. cache'[k] = cache[k]
      BY <1>1
    <3> QED BY <2>1, <2>3, <2>4, <3>1, <3>2 DEF LoadsItsKey, ShownFits
  <2>8. ASSUME NEW s \in Requests, s # r
        PROVE  LoadsItsKey(s)' /\ ShownFits(s)'
    BY <1>1, <1>5, <2>4, <2>8, WaitStays, ShownStays DEF IInv, RequestsFit
  <2> QED BY <1>4, <2>5, <2>6, <2>7, <2>8 DEF IInv, RequestsFit
<1>6. CASE /\ inFlight[k] # None
           /\ request' = [request EXCEPT ![r] = loading(inFlight[k])]
           /\ UNCHANGED <<queries, inFlight>>
  <2>1. inFlight[k] \in Queries
    BY <1>2, <1>6 DEF IInv, TypeOK
  <2>2. loading(inFlight[k]) \in Loading
    BY <1>2, <2>1 DEF Loading
  <2>3. /\ request' \in [Requests -> Waiting \cup Loading \cup Failed \cup Answered \cup {NoRequest}]
        /\ request'[r] = loading(inFlight[k])
        /\ \A s \in Requests : s # r => request'[s] = request[s]
    BY <1>6, <2>2 DEF IInv, TypeOK
  <2>4. TypeOK'
    BY <1>1, <1>6, <2>3 DEF IInv, TypeOK
  <2>5. QueriesInFlight' /\ QueriesFit'
    BY <1>1, <1>6 DEF IInv, QueriesInFlight, QueriesFit, LeavesOut, FoundInTime
  <2>6. LoadsItsKey(r)' /\ ShownFits(r)'
    <3>1. KeyOf(r)' = k /\ request'[r].query = inFlight[k] /\ request'[r].stage = "loading"
      BY <1>3, <2>3 DEF KeyOf
    <3>2. \A q \in queries : q.id = inFlight[k] => q.topic = k
      BY <1>2, <1>6 DEF IInv, QueriesInFlight
    <3> HIDE DEF k
    <3> QED BY <1>6, <3>1, <3>2 DEF LoadsItsKey, ShownFits
  <2>7. ASSUME NEW s \in Requests, s # r
        PROVE  LoadsItsKey(s)' /\ ShownFits(s)'
    BY <1>1, <1>6, <2>3, <2>7, WaitStays, ShownStays DEF IInv, RequestsFit
  <2> QED BY <1>4, <2>4, <2>5, <2>6, <2>7 DEF IInv, RequestsFit
<1>7. CASE /\ inFlight[k] = None
           /\ Start(k, excluded)
           /\ request' = [request EXCEPT ![r] = loading(NextQuery)]
  <2>1. /\ NextQuery \in Queries
        /\ queries' = queries \cup {Started(k, excluded)}
        /\ queries' \subseteq RunningQueries
        /\ inFlight' \in [Topics -> Queries \cup {None}]
        /\ Started(k, excluded).topic = k
    BY <1>2, <1>7, StartEffect DEF IInv
  <2>2. loading(NextQuery) \in Loading
    BY <1>2, <2>1 DEF Loading
  <2>3. /\ request' \in [Requests -> Waiting \cup Loading \cup Failed \cup Answered \cup {NoRequest}]
        /\ request'[r] = loading(NextQuery)
        /\ \A s \in Requests : s # r => request'[s] = request[s]
    BY <1>7, <2>2 DEF IInv, TypeOK
  <2>4. TypeOK'
    BY <1>1, <2>1, <2>3 DEF IInv, TypeOK
  <2>5. QueriesInFlight' /\ QueriesFit'
    BY <1>1, <1>2, <1>7, StartInFlight, StartFits DEF IInv
  <2>6. LoadsItsKey(r)' /\ ShownFits(r)'
    <3>1. KeyOf(r)' = k /\ request'[r].query = NextQuery /\ request'[r].stage = "loading"
      BY <1>3, <2>3 DEF KeyOf
    <3>2. \A q \in queries : q.id # NextQuery
      BY <1>7, NextQueryIsFree DEF Start
    <3> HIDE DEF k
    <3> QED BY <2>1, <3>1, <3>2 DEF LoadsItsKey, ShownFits
  <2>7. ASSUME NEW s \in Requests, s # r
        PROVE  LoadsItsKey(s)' /\ ShownFits(s)'
    <3>1. request'[s] = request[s] /\ LoadsItsKey(s) /\ ShownFits(s) /\ cache' = cache
      BY <1>1, <2>3, <2>7 DEF IInv, RequestsFit
    <3> QED BY <1>2, <1>7, <3>1, StartWaits, ShownStays DEF IInv
  <2> QED BY <1>4, <2>4, <2>5, <2>6, <2>7 DEF IInv, RequestsFit
<1> QED BY <1>5, <1>6, <1>7, LoadCases

LEMMA DoneStep ==
    ASSUME IInv, NEW r \in Requests, Done(r)
    PROVE  IInv'
<1>1. /\ UNCHANGED <<now, policy, retryAfter, queries, inFlight, cache, failedAt, use>>
      /\ request' = [request EXCEPT ![r] = NoRequest]
  BY DEF Done
<1>2. /\ request' \in [Requests -> Waiting \cup Loading \cup Failed \cup Answered \cup {NoRequest}]
      /\ request'[r] = NoRequest
      /\ \A s \in Requests : s # r => request'[s] = request[s]
  BY <1>1 DEF IInv, TypeOK
<1>3. TypeOK'
  BY <1>1, <1>2 DEF IInv, TypeOK
<1>4. QueriesInFlight' /\ QueriesFit' /\ CacheFits' /\ RestAfterFailure'
  BY <1>1, CacheStays DEF IInv, QueriesInFlight, QueriesFit, LeavesOut, FoundInTime, RestAfterFailure
<1>5. LoadsItsKey(r)' /\ ShownFits(r)'
  BY <1>2 DEF LoadsItsKey, ShownFits, NoRequest
<1>6. ASSUME NEW s \in Requests, s # r
      PROVE  LoadsItsKey(s)' /\ ShownFits(s)'
  BY <1>1, <1>2, <1>6, WaitStays, ShownStays DEF IInv, RequestsFit
<1> QED BY <1>3, <1>4, <1>5, <1>6 DEF IInv, RequestsFit

LEMMA ReadStep ==
    ASSUME IInv, NEW q, NEW world \in SUBSET Accounts, Read(q, world)
    PROVE  IInv'
<1>1. UNCHANGED <<now, policy, retryAfter, inFlight, cache, request, failedAt, use>>
  BY DEF Read
<1>2. QueriesInFlight' /\ QueriesFit' /\ queries' \subseteq RunningQueries
  BY ReadInFlight, ReadFits DEF IInv
<1>3. TypeOK'
  BY <1>1, <1>2 DEF IInv, TypeOK
<1>4. CacheFits' /\ RestAfterFailure'
  BY <1>1, CacheStays DEF IInv, RestAfterFailure
<1>5. ASSUME NEW s \in Requests
      PROVE  LoadsItsKey(s)' /\ ShownFits(s)'
  <2>1. request'[s] = request[s] /\ cache' = cache /\ LoadsItsKey(s) /\ ShownFits(s)
    BY <1>1 DEF IInv, RequestsFit
  <2> QED BY <2>1, ReadWaits, ShownStays DEF IInv
<1> QED BY <1>2, <1>3, <1>4, <1>5 DEF IInv, RequestsFit

LEMMA ConnectStep ==
    ASSUME IInv, NEW q, Connect(q)
    PROVE  IInv'
<1> DEFINE connected == [q EXCEPT !.connected = TRUE]
<1>1. /\ queries' = (queries \ {q}) \cup {connected} /\ connected \in RunningQueries
      /\ connected.id = q.id /\ connected.topic = q.topic
      /\ connected.excluded = q.excluded /\ connected.found = q.found
  BY ConnectEffect DEF IInv
<1>2. q \in queries /\ UNCHANGED <<now, policy, retryAfter, inFlight, cache, request, failedAt, use>>
  BY DEF Connect
<1> HIDE DEF connected
<1>3. TypeOK'
  BY <1>1, <1>2 DEF IInv, TypeOK
<1>4. QueriesInFlight'
  BY <1>1, <1>2 DEF IInv, QueriesInFlight
<1>5. QueriesFit'
  <2> SUFFICES ASSUME NEW p \in queries' PROVE LeavesOut(p.topic, p.excluded)' /\ FoundInTime(p)'
    BY DEF QueriesFit
  <2>1. CASE p \in queries
    BY <1>2, <2>1 DEF IInv, QueriesFit, LeavesOut, FoundInTime
  <2>2. CASE p = connected
    BY <1>1, <1>2, <2>2 DEF IInv, QueriesFit, LeavesOut, FoundInTime
  <2> QED BY <1>1, <2>1, <2>2
<1>6. CacheFits' /\ RestAfterFailure'
  BY <1>2, CacheStays DEF IInv, RestAfterFailure
<1>7. ASSUME NEW s \in Requests
      PROVE  LoadsItsKey(s)' /\ ShownFits(s)'
  <2>1. request'[s] = request[s] /\ cache' = cache /\ LoadsItsKey(s) /\ ShownFits(s)
    BY <1>2 DEF IInv, RequestsFit
  <2> QED BY <1>1, <1>2, <2>1, WaitStays, ShownStays
<1> QED BY <1>3, <1>4, <1>5, <1>6, <1>7 DEF IInv, RequestsFit

\* Whom a query of a page answers: requests for its key.
LEMMA WaitersOfKey ==
    ASSUME TypeOK, RequestsFit, NEW q \in queries, q.topic # Policy, NEW r \in Requests, Awaits(r, q)
    PROVE  /\ request[r].stage = "loading" /\ q.topic = KeyOf(r)
           /\ request[r].page \in Pages /\ request[r].who \in Visitors
<1>1. request[r].stage = "loading" /\ request[r].query = q.id
  BY DEF Awaits
<1> QED BY <1>1, RequestShape DEF RequestsFit, LoadsItsKey

\* What a query of a key found is what its requests may be answered with.
LEMMA FoundForKey ==
    ASSUME TypeOK, QueriesFit, NEW q \in queries, q.found # None,
           NEW page \in Pages, NEW who \in Visitors, q.topic = Key(page, Scope(who))
    PROVE  /\ q.found \in Snapshots
           /\ q.found.rows = q.found.world \ Excluded(page, Scope(who))
BY DEF TypeOK, RunningQueries, QueriesFit, LeavesOut, FoundInTime

LEMMA CompleteStep ==
    ASSUME IInv, NEW q, Complete(q)
    PROVE  IInv'
<1>1. /\ q \in queries /\ q.topic # Policy /\ q.found # None
      /\ UNCHANGED <<now, policy, retryAfter, failedAt, use>>
      /\ Ends(q)
  BY DEF Complete, Ends
<1>2. /\ q.topic \in Keys /\ q.found \in Snapshots /\ q.found.at \in Nat /\ now \in Nat
      /\ CacheTime \in Nat /\ QueryTime \in Nat
  BY <1>1, TimesType DEF IInv, TypeOK, RunningQueries, Topics, Snapshots, Times
<1> DEFINE entry == [snapshot |-> q.found, expiresAt |-> now + CacheTime]
<1>3. entry \in Entries /\ entry.snapshot = q.found /\ entry.expiresAt = now + CacheTime
  BY <1>1, <1>2, TimesType DEF IInv, TypeOK, Entries, Times
<1>4. entry # Empty
  BY <1>3 DEF Entries, Empty
<1>5. cache' = [cache EXCEPT ![q.topic] = entry]
  BY DEF Complete
<1> HIDE DEF entry
<1>6. /\ cache' \in [Keys -> Entries \cup {Empty}]
      /\ cache'[q.topic] = entry
      /\ \A k \in Keys : k # q.topic => cache'[k] = cache[k]
  BY <1>2, <1>3, <1>5 DEF IInv, TypeOK
<1>7. /\ QueriesInFlight' /\ QueriesFit'
      /\ queries' \subseteq RunningQueries
      /\ inFlight' \in [Topics -> Queries \cup {None}]
  BY <1>1, <1>6, EndInFlight, EndFits DEF IInv
<1>8. FoundInTime(q)
  BY <1>1 DEF IInv, QueriesFit
<1>9. ASSUME NEW k \in Keys
      PROVE  EntryFits(k)'
  <2>1. CASE k # q.topic
    <3>1. cache'[k] = cache[k] /\ now' = now /\ EntryFits(k)
      BY <1>1, <1>6, <2>1 DEF IInv, CacheFits
    <3> QED BY <3>1 DEF EntryFits
  <2>2. CASE k = q.topic
    <3>1. \A page \in Pages, who \in Visitors : k = Key(page, Scope(who)) =>
              entry.snapshot.rows = entry.snapshot.world \ Excluded(page, Scope(who))
      BY <1>1, <1>3, <2>2, FoundForKey DEF IInv
    <3>2. entry.snapshot.at <= now
      BY <1>1, <1>3, <1>8 DEF FoundInTime
    <3>3. entry.expiresAt <= entry.snapshot.at + QueryTime + CacheTime
      BY <1>1, <1>2, <1>3, <1>8 DEF FoundInTime
    <3> QED BY <1>1, <1>6, <2>2, <3>1, <3>2, <3>3 DEF EntryFits
  <2> QED BY <2>1, <2>2
<1>10. ASSUME NEW r \in Requests
       PROVE  /\ request'[r] \in Waiting \cup Loading \cup Failed \cup Answered \cup {NoRequest}
              /\ LoadsItsKey(r)' /\ ShownFits(r)'
  <2>1. CASE Awaits(r, q)
    <3>1. request'[r] = ToAnswer(r, q.found)
      BY <2>1 DEF Complete
    <3>2. /\ q.topic = KeyOf(r)
          /\ request[r].page \in Pages /\ request[r].who \in Visitors
      BY <1>1, <2>1, WaitersOfKey DEF IInv
    <3>3. /\ request'[r] \in Answered /\ request'[r].stage = "answered"
          /\ request'[r].who = request[r].who /\ request'[r].page = request[r].page
          /\ request'[r].shown.at = q.found.at
          /\ request'[r].shown.rows = request'[r].shown.world \ Scope(request[r].who).excluded
      BY <1>1, <1>2, <3>1, <3>2, FoundForKey, AnswerFits DEF IInv, KeyOf
    <3>4. KeyOf(r)' = q.topic
      BY <3>2, <3>3 DEF KeyOf
    <3>5. ShownFits(r)'
      BY <1>2, <1>3, <1>4, <1>6, <3>3, <3>4 DEF ShownFits
    <3> QED BY <3>3, <3>5 DEF LoadsItsKey
  <2>2. CASE ~Awaits(r, q)
    <3>1. request'[r] = request[r] /\ LoadsItsKey(r) /\ ShownFits(r)
      BY <2>2 DEF Complete, IInv, RequestsFit
    <3>2. LoadsItsKey(r)'
      BY <1>1, <3>1, EndWaits
    <3>3. ASSUME request[r].stage = "answered"
          PROVE  /\ cache'[KeyOf(r)] # Empty
                 /\ request[r].shown.at <= cache'[KeyOf(r)].snapshot.at
      <4>1. /\ KeyOf(r) \in Keys /\ cache[KeyOf(r)] # Empty
            /\ request[r].shown.at <= cache[KeyOf(r)].snapshot.at
            /\ request[r].shown.at \in Nat
        BY <3>1, <3>3, RequestShape DEF IInv, ShownFits, Snapshots, Times
      <4>2. cache[KeyOf(r)].snapshot.at \in Nat
        BY <4>1, EntryType DEF IInv
      <4>3. CASE KeyOf(r) = q.topic
        <5>1. cache[q.topic].snapshot.at <= q.found.at
          BY <1>1, <1>2, <1>8, <4>1, <4>3 DEF FoundInTime
        <5> QED BY <1>2, <1>3, <1>4, <1>6, <4>1, <4>2, <4>3, <5>1
      <4>4. CASE KeyOf(r) # q.topic
        BY <1>6, <4>1, <4>4
      <4> QED BY <4>3, <4>4
    <3>4. ShownFits(r)'
      BY <3>1, <3>3 DEF ShownFits, KeyOf
    <3> QED BY <3>1, <3>2, <3>4 DEF IInv, TypeOK
  <2> QED BY <2>1, <2>2
<1>11. request' \in [Requests -> Waiting \cup Loading \cup Failed \cup Answered \cup {NoRequest}]
  <2>1. request' = [r \in Requests |-> request'[r]]
    BY DEF Complete
  <2> QED BY <1>10, <2>1
<1>12. TypeOK'
  BY <1>1, <1>6, <1>7, <1>11 DEF IInv, TypeOK
<1>13. RestAfterFailure'
  BY <1>1 DEF IInv, RestAfterFailure
<1> QED BY <1>7, <1>9, <1>10, <1>12, <1>13 DEF IInv, CacheFits, RequestsFit

\* A query that ends without a snapshot moves its requests, and shows nothing.
LEMMA MovedRequests ==
    ASSUME IInv, NEW q, Ends(q), UNCHANGED <<now, cache>>, request' = [r \in Requests |-> request'[r]],
           \A r \in Requests : \/ request'[r] = request[r]
                               \/ request'[r] \in Waiting \cup Failed
    PROVE  /\ request' \in [Requests -> Waiting \cup Loading \cup Failed \cup Answered \cup {NoRequest}]
           /\ RequestsFit'
<1>1. ASSUME NEW r \in Requests
      PROVE  LoadsItsKey(r)' /\ ShownFits(r)'
  <2>1. CASE request'[r] = request[r]
    BY <2>1, EndWaits, ShownStays DEF IInv, RequestsFit
  <2>2. CASE request'[r] \in Waiting \cup Failed
    BY <2>2 DEF LoadsItsKey, ShownFits, Waiting, Failed
  <2> QED BY <2>1, <2>2
<1>2. \A r \in Requests :
          request'[r] \in Waiting \cup Loading \cup Failed \cup Answered \cup {NoRequest}
  BY DEF IInv, TypeOK
<1> QED BY <1>1, <1>2 DEF RequestsFit

LEMMA ResolveStep ==
    ASSUME IInv, NEW q, Resolve(q)
    PROVE  IInv'
<1>1. /\ q \in queries /\ policy' = TRUE /\ retryAfter' = 0
      /\ UNCHANGED <<now, cache, failedAt, use>> /\ Ends(q)
  BY DEF Resolve, Ends
<1>2. /\ QueriesInFlight' /\ QueriesFit'
      /\ queries' \subseteq RunningQueries
      /\ inFlight' \in [Topics -> Queries \cup {None}]
  BY <1>1, EndInFlight, EndFits DEF IInv
<1>3. ASSUME NEW r \in Requests
      PROVE  request'[r] = request[r] \/ request'[r] \in Waiting \cup Failed
  <2>1. CASE Awaits(r, q)
    <3>1. request'[r] = [request[r] EXCEPT !.stage = "allowed"]
      BY <2>1 DEF Resolve
    <3>2. request[r].stage = "policy"
      BY <2>1 DEF Resolve, Awaits
    <3>3. request[r] \in Waiting
      BY <3>2, RequestShape DEF IInv
    <3> QED BY <3>1, <3>3 DEF Waiting
  <2>2. CASE ~Awaits(r, q)
    BY <2>2 DEF Resolve
  <2> QED BY <2>1, <2>2
<1>4. request' = [r \in Requests |-> request'[r]]
  BY DEF Resolve
<1>5. /\ request' \in [Requests -> Waiting \cup Loading \cup Failed \cup Answered \cup {NoRequest}]
      /\ RequestsFit'
  BY <1>1, <1>3, <1>4, MovedRequests
<1>6. TypeOK'
  BY <1>1, <1>2, <1>5, TimesType DEF IInv, TypeOK
<1>7. CacheFits' /\ RestAfterFailure'
  BY <1>1, CacheStays DEF IInv, RestAfterFailure
<1> QED BY <1>2, <1>5, <1>6, <1>7 DEF IInv

LEMMA FailStep ==
    ASSUME IInv, NEW q, Fail(q)
    PROVE  IInv'
<1>1. /\ q \in queries /\ UNCHANGED <<now, policy, cache, use>> /\ Ends(q)
      /\ \/ retryAfter' = now + Backoff /\ failedAt' = now
         \/ UNCHANGED <<retryAfter, failedAt>>
  <2>1. Released(q, FALSE) = Released(q, TRUE)
    BY DEF Released
  <2> QED BY <2>1 DEF Fail, Ends, RetryAfter
<1>2. /\ QueriesInFlight' /\ QueriesFit'
      /\ queries' \subseteq RunningQueries
      /\ inFlight' \in [Topics -> Queries \cup {None}]
  BY <1>1, EndInFlight, EndFits DEF IInv
<1>3. ASSUME NEW r \in Requests
      PROVE  request'[r] = request[r] \/ request'[r] \in Waiting \cup Failed
  <2>1. CASE Awaits(r, q)
    <3>1. request'[r] = ToFailure(r)
      BY <2>1 DEF Fail
    <3>2. request[r].stage \in {"policy", "loading"}
      BY <2>1 DEF Awaits
    <3> QED BY <3>1, <3>2, RequestShape, FailureType DEF IInv
  <2>2. CASE ~Awaits(r, q)
    BY <2>2 DEF Fail
  <2> QED BY <2>1, <2>2
<1>4. request' = [r \in Requests |-> request'[r]]
  BY DEF Fail
<1>5. /\ request' \in [Requests -> Waiting \cup Loading \cup Failed \cup Answered \cup {NoRequest}]
      /\ RequestsFit'
  BY <1>1, <1>3, <1>4, MovedRequests
<1>6. retryAfter' \in 0..(MaxTime + Backoff) /\ failedAt' \in Times \cup {None}
  BY <1>1, TimesType DEF IInv, TypeOK, Times
<1>7. TypeOK'
  BY <1>1, <1>2, <1>5, <1>6 DEF IInv, TypeOK
<1>8. CacheFits'
  BY <1>1, CacheStays DEF IInv
<1>9. RestAfterFailure'
  BY <1>1, TimesType DEF IInv, RestAfterFailure, TypeOK, Times
<1> QED BY <1>2, <1>5, <1>7, <1>8, <1>9 DEF IInv

LEMMA TickStep ==
    ASSUME IInv, Tick
    PROVE  IInv'
<1>1. /\ now' = now + 1 /\ now < use.until
      /\ UNCHANGED <<policy, retryAfter, queries, inFlight, cache, request, failedAt, use>>
      /\ \A q \in queries : q.found # None => now < q.found.at + QueryTime
  BY DEF Tick
<1>2. now \in Nat /\ now' \in Times /\ use.until \in 0..MaxTime
  BY <1>1, UsesType, TimesType DEF IInv, TypeOK, Times
<1>3. TypeOK'
  BY <1>1, <1>2 DEF IInv, TypeOK
<1>4. ASSUME NEW q \in queries
      PROVE  FoundInTime(q)'
  <2>1. CASE q.found # None
    <3>1. q.found.at \in Nat /\ FoundInTime(q) /\ now < q.found.at + QueryTime
      BY <1>1, <2>1 DEF IInv, TypeOK, RunningQueries, Snapshots, Times, QueriesFit
    <3> QED BY <1>1, <1>2, <3>1, TimesType DEF FoundInTime
  <2>2. CASE q.found = None
    BY <2>2 DEF FoundInTime
  <2> QED BY <2>1, <2>2
<1>5. QueriesInFlight' /\ QueriesFit'
  BY <1>1, <1>4 DEF IInv, QueriesInFlight, QueriesFit, LeavesOut
<1>6. ASSUME NEW k \in Keys
      PROVE  EntryFits(k)'
  <2>1. CASE cache[k] # Empty
    <3>1. cache[k].snapshot.at \in Nat /\ EntryFits(k)
      BY <2>1, EntryType DEF IInv, CacheFits
    <3>2. cache[k].snapshot.at <= now'
      BY <1>1, <1>2, <2>1, <3>1 DEF EntryFits
    <3> QED BY <1>1, <2>1, <3>1, <3>2 DEF EntryFits
  <2>2. CASE cache[k] = Empty
    BY <1>1, <2>2 DEF EntryFits
  <2> QED BY <2>1, <2>2
<1>7. ASSUME NEW r \in Requests
      PROVE  LoadsItsKey(r)' /\ ShownFits(r)'
  BY <1>1, WaitStays, ShownStays DEF IInv, RequestsFit
<1>8. RestAfterFailure'
  BY <1>1 DEF IInv, RestAfterFailure
<1> QED BY <1>3, <1>5, <1>6, <1>7, <1>8 DEF IInv, CacheFits, RequestsFit

LEMMA StutterStep ==
    ASSUME IInv, UNCHANGED vars
    PROVE  IInv'
BY DEF vars, IInv, TypeOK, QueriesInFlight, QueriesFit, LeavesOut, FoundInTime, CacheFits, EntryFits,
       RequestsFit, LoadsItsKey, ShownFits, KeyOf, RestAfterFailure

-----------------------------------------------------------------------------
(* The theorems                                                            *)

LEMMA InitIInv == Init => IInv
<1> SUFFICES ASSUME Init PROVE IInv
  OBVIOUS
<1>1. TypeOK
  <2>1. now \in Times /\ retryAfter \in 0..(MaxTime + Backoff)
    BY TimesType DEF Init, Times
  <2>2. policy \in BOOLEAN /\ queries \subseteq RunningQueries /\ failedAt \in Times \cup {None}
        /\ use \in Uses
    BY DEF Init
  <2>3. /\ inFlight \in [Topics -> Queries \cup {None}]
        /\ cache \in [Keys -> Entries \cup {Empty}]
        /\ request \in [Requests -> Waiting \cup Loading \cup Failed \cup Answered \cup {NoRequest}]
    BY DEF Init
  <2> QED BY <2>1, <2>2, <2>3 DEF TypeOK
<1>2. QueriesInFlight /\ QueriesFit /\ CacheFits /\ RequestsFit /\ RestAfterFailure
  BY DEF Init, QueriesInFlight, QueriesFit, CacheFits, EntryFits, RequestsFit, LoadsItsKey, ShownFits,
         NoRequest, RestAfterFailure
<1> QED BY <1>1, <1>2 DEF IInv

LEMMA NextIInv == IInv /\ [Next]_vars => IInv'
<1> SUFFICES ASSUME IInv, [Next]_vars PROVE IInv'
  OBVIOUS
<1>1. ASSUME NEW r \in Requests, NEW who \in Visitors, NEW page \in Pages, Arrive(r, who, page)
      PROVE  IInv'
  BY <1>1, ArriveStep
<1>2. ASSUME NEW r \in Requests, Load(r) \/ Done(r)
      PROVE  IInv'
  BY <1>2, LoadStep, DoneStep
<1>3. ASSUME NEW q \in queries, NEW world \in SUBSET Accounts, Read(q, world)
      PROVE  IInv'
  BY <1>3, ReadStep
<1>4. ASSUME NEW q \in queries, Complete(q) \/ Resolve(q) \/ Fail(q)
      PROVE  IInv'
  BY <1>4, CompleteStep, ResolveStep, FailStep
<1>5. CASE Tick
  BY <1>5, TickStep
<1>6. CASE UNCHANGED vars
  BY <1>6, StutterStep
<1>7. ASSUME NEW q \in queries, Connect(q)
      PROVE  IInv'
  BY <1>7, ConnectStep
<1> QED BY <1>1, <1>2, <1>3, <1>4, <1>5, <1>6, <1>7 DEF Next, Settle

LEMMA Invariance == Spec => []IInv
BY InitIInv, NextIInv, PTL DEF Spec

\* Every variable keeps its type: every answer is a snapshot, and every clock
\* stays within its bound.
THEOREM TypeCorrect == Spec => []TypeOK
<1>1. IInv => TypeOK
  BY DEF IInv
<1> QED BY <1>1, Invariance, PTL

\* A visitor is shown all that his scope lets him see of the world at one
\* moment, and nothing else, whoever started the query that he is answered
\* from.
THEOREM AnswersFit == Spec => []AnswersFitTheVisitor
<1>1. IInv => AnswersFitTheVisitor
  BY DEF IInv, RequestsFit, ShownFits, AnswersFitTheVisitor
<1> QED BY <1>1, Invariance, PTL

\* The database is never asked the same thing twice at the same time.
THEOREM QueriedOnce == Spec => []OneQueryPerTopic
<1>1. IInv => OneQueryPerTopic
  BY DEF IInv, QueriesInFlight, OneQueryPerTopic
<1> QED BY <1>1, Invariance, PTL

\* A query that ended is not waited for.
THEOREM NobodyWaits == Spec => []NobodyWaitsForTheDead
<1>1. IInv => NobodyWaitsForTheDead
  BY DEF IInv, QueriesInFlight, NobodyWaitsForTheDead, Running
<1> QED BY <1>1, Invariance, PTL

-----------------------------------------------------------------------------
(* What a step may show                                                    *)

\* A request is answered from a fresh cache entry of its key or from what a
\* query of its key found.
LEMMA AnswerSource ==
    ASSUME IInv, Next, NEW r \in Requests, Answers(r)
    PROVE  /\ request[r].page \in Pages /\ request[r].who \in Visitors
           /\ UNCHANGED now
           /\ \/ /\ KeyOf(r) \in Keys /\ Fresh(KeyOf(r))
                 /\ request'[r].shown.at = cache[KeyOf(r)].snapshot.at
              \/ \E q \in queries : /\ q.topic = KeyOf(r) /\ q.topic \in Keys /\ q.found # None
                                    /\ request'[r].shown.at = q.found.at
<1>1. request[r].stage # "answered" /\ request'[r].stage = "answered" /\ request'[r] # request[r]
  BY DEF Answers
<1>2. request \in [Requests -> Waiting \cup Loading \cup Failed \cup Answered \cup {NoRequest}]
  BY DEF IInv, TypeOK
<1>3. ASSUME NEW s \in Requests, NEW who \in Visitors, NEW page \in Pages, Arrive(s, who, page)
      PROVE  FALSE
  <2>1. PICK stage \in {"allowed", "policy", "failed"} :
            request' = [request EXCEPT ![s] = [stage |-> stage, who |-> who, page |-> page]]
    BY <1>3 DEF Arrive
  <2> QED BY <1>1, <1>2, <2>1
<1>4. ASSUME NEW s \in Requests, Done(s)
      PROVE  FALSE
  BY <1>1, <1>2, <1>4 DEF Done, NoRequest
<1>5. ASSUME NEW q \in queries, NEW world \in SUBSET Accounts, Read(q, world)
      PROVE  FALSE
  BY <1>1, <1>5 DEF Read
<1>6. ASSUME NEW q \in queries, Resolve(q)
      PROVE  FALSE
  <2>1. Awaits(r, q) /\ request'[r] = [request[r] EXCEPT !.stage = "allowed"]
    BY <1>1, <1>6 DEF Resolve
  <2>2. request[r] \in Waiting
    BY <1>6, <2>1, RequestShape DEF IInv, Awaits, Resolve
  <2> QED BY <1>1, <2>1, <2>2 DEF Waiting
<1>7. ASSUME NEW q \in queries, Fail(q)
      PROVE  FALSE
  <2>1. request'[r] = ToFailure(r)
    BY <1>1, <1>7 DEF Fail
  <2> QED BY <1>1, <2>1 DEF ToFailure
<1>8. ~Tick
  BY <1>1 DEF Tick
<1>9. ASSUME NEW s \in Requests, Load(s)
      PROVE  /\ r = s /\ request[r].stage = "allowed" /\ UNCHANGED now /\ Fresh(KeyOf(r))
             /\ request'[r] = ToAnswer(r, cache[KeyOf(r)].snapshot)
  <2>1. r = s
    BY <1>1, <1>2, <1>9, LoadCases
  <2> QED BY <1>1, <1>2, <1>9, <2>1, LoadCases
<1>10. ASSUME NEW q \in queries, Complete(q)
       PROVE  /\ q.topic # Policy /\ q.found # None /\ Awaits(r, q) /\ UNCHANGED now
              /\ request'[r] = ToAnswer(r, q.found)
  BY <1>1, <1>10 DEF Complete
<1>11. CASE \E s \in Requests : Load(s)
  <2>1. /\ request[r].stage = "allowed" /\ UNCHANGED now /\ Fresh(KeyOf(r))
        /\ request'[r] = ToAnswer(r, cache[KeyOf(r)].snapshot)
    BY <1>9, <1>11
  <2>2. request[r].page \in Pages /\ request[r].who \in Visitors /\ KeyOf(r) \in Keys
    BY <2>1, RequestShape DEF IInv
  <2>3. cache[KeyOf(r)] # Empty /\ cache[KeyOf(r)].snapshot \in Snapshots
    BY <2>1, <2>2, EntryType DEF IInv, Fresh
  <2>4. cache[KeyOf(r)].snapshot.rows =
            cache[KeyOf(r)].snapshot.world \ Excluded(request[r].page, Scope(request[r].who))
    BY <2>2, <2>3 DEF IInv, CacheFits, EntryFits, KeyOf
  <2>5. request'[r].shown.at = cache[KeyOf(r)].snapshot.at
    BY <2>1, <2>2, <2>3, <2>4, AnswerFits
  <2> QED BY <2>1, <2>2, <2>5
<1>12. CASE \E q \in queries : Complete(q)
  <2>1. PICK q \in queries : Complete(q)
    BY <1>12
  <2>2. /\ q.topic # Policy /\ q.found # None /\ Awaits(r, q) /\ UNCHANGED now
        /\ request'[r] = ToAnswer(r, q.found)
    BY <1>10, <2>1
  <2>3. /\ q.topic = KeyOf(r) /\ request[r].stage = "loading"
        /\ request[r].page \in Pages /\ request[r].who \in Visitors
    BY <2>2, WaitersOfKey DEF IInv
  <2>4. KeyOf(r) \in Keys
    BY <2>3, RequestShape DEF IInv
  <2>5. request'[r].shown.at = q.found.at
    BY <2>2, <2>3, FoundForKey, AnswerFits DEF IInv, KeyOf
  <2> QED BY <2>2, <2>3, <2>4, <2>5
<1>13. ASSUME NEW q \in queries, Connect(q)
       PROVE  FALSE
  BY <1>1, <1>13 DEF Connect
<1> QED BY <1>3, <1>4, <1>5, <1>6, <1>7, <1>8, <1>11, <1>12, <1>13 DEF Next, Settle

\* No answer is older than the cache's lifetime and one query.
THEOREM FreshAnswers == Spec => AnswersAreFresh
<1>1. IInv /\ [Next]_vars =>
          [\A r \in Requests : Answers(r) => now < request'[r].shown.at + QueryTime + CacheTime]_vars
  <2> SUFFICES ASSUME IInv, Next, NEW r \in Requests, Answers(r)
               PROVE  now < request'[r].shown.at + QueryTime + CacheTime
    BY DEF vars
  <2>1. now \in Nat /\ QueryTime \in Nat /\ CacheTime \in Nat \ {0}
    BY TimesType DEF IInv, TypeOK, Times
  <2>2. CASE /\ KeyOf(r) \in Keys /\ Fresh(KeyOf(r))
             /\ request'[r].shown.at = cache[KeyOf(r)].snapshot.at
    <3>1. /\ now < cache[KeyOf(r)].expiresAt
          /\ cache[KeyOf(r)].expiresAt <= cache[KeyOf(r)].snapshot.at + QueryTime + CacheTime
      BY <2>2 DEF Fresh, IInv, CacheFits, EntryFits
    <3>2. cache[KeyOf(r)].snapshot.at \in Nat /\ cache[KeyOf(r)].expiresAt \in Nat
      BY <2>2, EntryType DEF Fresh, IInv
    <3> QED BY <2>1, <2>2, <3>1, <3>2
  <2>3. ASSUME NEW q \in queries, q.found # None, request'[r].shown.at = q.found.at
        PROVE  now < request'[r].shown.at + QueryTime + CacheTime
    <3>1. q.found.at \in Nat /\ now <= q.found.at + QueryTime
      BY <2>3 DEF IInv, QueriesFit, FoundInTime, TypeOK, RunningQueries, Snapshots, Times
    <3> QED BY <2>1, <2>3, <3>1
  <2> QED BY <2>2, <2>3, AnswerSource
<1> QED BY <1>1, Invariance, PTL DEF Spec, AnswersAreFresh

\* Nobody is shown an older state of a page than he, or anybody with the same
\* scope, was shown before.
THEOREM NeverBack == Spec => NeverBackInTime
<1>1. IInv /\ [Next]_vars =>
          [\A r, s \in Requests :
              (/\ Answers(r) /\ request[s].stage = "answered"
               /\ Key(request[r].page, Scope(request[r].who)) = Key(request[s].page, Scope(request[s].who)))
              => request'[r].shown.at >= request[s].shown.at]_vars
  <2> SUFFICES ASSUME IInv, Next, NEW r \in Requests, NEW s \in Requests, Answers(r),
                      request[s].stage = "answered", KeyOf(r) = KeyOf(s)
               PROVE  request'[r].shown.at >= request[s].shown.at
    BY DEF vars, KeyOf
  <2>1. /\ cache[KeyOf(r)] # Empty
        /\ request[s].shown.at <= cache[KeyOf(r)].snapshot.at
    BY DEF IInv, RequestsFit, ShownFits
  <2>2. request[s].shown.at \in Nat /\ KeyOf(r) \in Keys
    BY RequestShape DEF IInv, Snapshots, Times
  <2>3. cache[KeyOf(r)].snapshot.at \in Nat
    BY <2>1, <2>2, EntryType DEF IInv
  <2>4. CASE request'[r].shown.at = cache[KeyOf(r)].snapshot.at
    BY <2>1, <2>2, <2>3, <2>4
  <2>5. ASSUME NEW q \in queries, q.topic = KeyOf(r), q.found # None,
               request'[r].shown.at = q.found.at
        PROVE  request'[r].shown.at >= request[s].shown.at
    <3>1. cache[KeyOf(r)].snapshot.at <= q.found.at
      BY <2>1, <2>2, <2>5 DEF IInv, QueriesFit, FoundInTime
    <3>2. q.found.at \in Nat
      BY <2>5 DEF IInv, TypeOK, RunningQueries, Snapshots, Times
    <3> QED BY <2>1, <2>2, <2>3, <2>5, <3>1, <3>2
  <2> QED BY <2>4, <2>5, AnswerSource
<1> QED BY <1>1, Invariance, PTL DEF Spec, NeverBackInTime

\* The query of the policy is not repeated until Backoff after it failed.
THEOREM RestAfterFailures == Spec => FailuresBackOff
<1>1. IInv /\ [Next]_vars =>
          [\A q \in queries' \ queries :
              (q.topic = Policy /\ ~q.connected /\ failedAt # None) => now >= failedAt + Backoff]_vars
  <2> SUFFICES ASSUME IInv, Next, NEW q \in queries', q \notin queries,
                      q.topic = Policy, ~q.connected, failedAt # None
               PROVE  now >= failedAt + Backoff
    BY DEF vars
  <2>1. /\ now \in Nat /\ retryAfter \in Nat /\ failedAt \in Nat
        /\ Backoff \in Nat
    BY TimesType DEF IInv, TypeOK, Times
  <2>2. ASSUME NEW r \in Requests, NEW who \in Visitors, NEW page \in Pages, Arrive(r, who, page)
        PROVE  now >= failedAt + Backoff
    <3>1. ~policy /\ now >= retryAfter
      BY <2>2 DEF Arrive
    <3>2. failedAt + Backoff <= retryAfter
      BY <3>1 DEF IInv, RestAfterFailure
    <3> QED BY <2>1, <3>1, <3>2
  <2>3. ASSUME NEW r \in Requests, Load(r)
        PROVE  FALSE
    <3> DEFINE excluded == Excluded(request[r].page, Scope(request[r].who))
    <3>1. Start(KeyOf(r), excluded)
      BY <2>3, LoadCases
    <3>2. KeyOf(r) \in Topics /\ KeyOf(r) # Policy /\ excluded \in SUBSET Accounts
      BY <2>3, LoadCases, RequestShape, KeyIsKey DEF IInv
    <3>3. q = Started(KeyOf(r), excluded)
      BY <3>1, <3>2, StartEffect DEF IInv
    <3> QED BY <3>2, <3>3 DEF Started
  <2>4. ASSUME NEW p \in queries, NEW world \in SUBSET Accounts, Read(p, world)
        PROVE  FALSE
    <3>1. p.connected /\ p \in RunningQueries
      BY <2>4 DEF Read, IInv, TypeOK
    <3>2. q = [p EXCEPT !.found = Found(p, world)]
      <4>1. queries' = (queries \ {p}) \cup {[p EXCEPT !.found = Found(p, world)]}
        BY <2>4, ReadEffect DEF IInv
      <4> QED BY <4>1
    <3>3. q.connected
      BY <3>1, <3>2 DEF RunningQueries
    <3> QED BY <3>3
  <2>5. ASSUME NEW p \in queries, Complete(p) \/ Resolve(p) \/ Fail(p)
        PROVE  FALSE
    BY <2>5 DEF Complete, Resolve, Fail
  <2>6. ~Tick /\ \A r \in Requests : ~Done(r)
    BY DEF Tick, Done
  <2>7. ASSUME NEW p \in queries, Connect(p)
        PROVE  FALSE
    BY <2>7, ConnectEffect DEF IInv
  <2> QED BY <2>2, <2>3, <2>4, <2>5, <2>6, <2>7 DEF Next, Settle
<1> QED BY <1>1, Invariance, PTL DEF Spec, FailuresBackOff

=============================================================================
