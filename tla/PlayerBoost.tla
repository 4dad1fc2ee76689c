---------------------------- MODULE PlayerBoost ----------------------------
(***************************************************************************)
(* The Free Money boost: concurrent requestMoney calls, concurrent boost   *)
(* overviews, the money_boost_requests table with the two MySQL named      *)
(* locks that guard it, and the game server that executes "send money".    *)
(*                                                                         *)
(* An action is the code between two awaits of one asynchronous call.  A   *)
(* definition X_Y is a mutated form of the definition X below it: a bug    *)
(* that the properties must notice; nothing else uses it.                  *)
(*                                                                         *)
(* The game server (world) and the player are the environment: a command   *)
(* that was posted may be executed long after the portal gave up on its    *)
(* reply, and a delivered mail may be emptied before the portal looks for  *)
(* it.                                                                     *)
(***************************************************************************)
EXTENDS Naturals, FiniteSets, FiniteSetsExt

CONSTANTS
    Handlers,            \* slots for concurrent requestMoney calls
    Overviews,           \* slots for concurrent getOverview calls
    RequestIds,          \* UUIDs chosen by the browsers
    Accounts,
    Characters,          \* characters whose name the command parser accepts
    Owner,               \* Owner[c]: the account of character c
    MaximumGoldPerRequest,
    DailyGoldLimit,
    DailyRequestLimit,
    StaleBatchSize,      \* STALE_BATCH_SIZE of findStalePending
    MaxDay,              \* bound: UTC days 0..MaxDay
    MaxFaults,           \* bound: database errors and process crashes
    IdleConnection,      \* holder of a lock no call will release
    NoRow,               \* no row with this request ID
    NoCall,              \* input of an idle slot
    NoRequest            \* an overview is looking at no row

ASSUME OwnerAssumption == Owner \in [Characters -> Accounts]
ASSUME LimitAssumption ==
    /\ MaximumGoldPerRequest \in Nat \ {0}
    /\ DailyGoldLimit \in Nat \ {0}
    /\ DailyRequestLimit \in Nat \ {0}
    /\ StaleBatchSize \in Nat \ {0}
ASSUME BoundAssumption == MaxDay \in Nat /\ MaxFaults \in Nat

MinimumGold == 1
Amounts == MinimumGold .. MaximumGoldPerRequest
Days == 0 .. MaxDay

\* The input of a call once the ownership query has succeeded; the account
\* is the owner of the character.
Calls == [request : RequestIds, character : Characters, gold : Amounts]
Rows == [character : Characters, gold : Amounts, day : Days]
Statuses == {"absent", "pending", "sent", "failed", "unknown"}

\* reserve's result: kind "existing" is split by the status of the record it
\* returns.
Reservations == {"none", "inserted", "conflict", "limit",
                 "pending", "sent", "failed", "unknown"}
Holders == Handlers \cup {IdleConnection}
Verdicts == {"none", "sent", "failed", "unknown"}
Answers == [character : Characters, gold : Amounts,
            outcome : {"sent", "failed", "unknown"}]

ASSUME NullAssumption ==
    /\ IdleConnection \notin Handlers
    /\ NoRow \notin Rows
    /\ NoCall \notin Calls
    /\ NoRequest \notin RequestIds

VARIABLES
    (* money_boost_requests *)
    status,        \* status[r]: the status column, "absent" without a row
    row,           \* row[r]: the other columns
    stale,         \* requests whose row is older than PENDING_STALE_MS
    today,         \* UTC_DATE() of the database
    (* named locks of the database server: the connections that hold them, *)
    (* named after the call that uses the connection                       *)
    requestLock,   \* holders of wow_portal_request_<uuid>
    accountLock,   \* holders of wow_portal_money_<account>
    (* requestMoney calls *)
    pc,            \* where the call is suspended
    call,          \* its input
    reservation,   \* what reserve found
    verdict,       \* the status it is about to mark
    reply,         \* classified SOAP output, "none" until it arrives
    (* getOverview calls *)
    batch,         \* stale rows still to be reconciled
    current,       \* the row whose mail has been counted
    finding,       \* the status that row is about to be marked with
    (* game server *)
    queued,        \* queued[r]: commands for r posted and not yet executed
    mailbox,       \* mailbox[r]: matching mails the receiver still has
    (* history, for the properties *)
    issued,        \* issued[r]: commands ever posted for r
    delivered,     \* delivered[r]: mails ever sent for r
    answered,      \* answered[r]: outcomes reported to callers of r
    faults         \* database errors and crashes so far

table == <<status, row, stale>>
locks == <<requestLock, accountLock>>
calls == <<pc, call, reservation, verdict, reply>>
views == <<batch, current, finding>>
world == <<queued, mailbox, delivered>>
vars == <<table, today, locks, calls, views, world, issued, answered, faults>>

PCs == {"idle", "requestLock", "accountLock", "find", "daily", "insert",
        "release", "reserved", "awaiting", "count", "mark"}

TypeOK ==
    /\ status \in [RequestIds -> Statuses]
    /\ row \in [RequestIds -> Rows \cup {NoRow}]
    /\ stale \in SUBSET RequestIds
    /\ today \in Days
    /\ requestLock \in [RequestIds -> SUBSET Holders]
    /\ accountLock \in [Accounts -> SUBSET Holders]
    /\ pc \in [Handlers -> PCs]
    /\ call \in [Handlers -> Calls \cup {NoCall}]
    /\ reservation \in [Handlers -> Reservations]
    /\ verdict \in [Handlers -> Verdicts]
    /\ reply \in [Handlers -> {"none", "sent", "failed"}]
    /\ batch \in [Overviews -> SUBSET RequestIds]
    /\ current \in [Overviews -> RequestIds \cup {NoRequest}]
    /\ finding \in [Overviews -> Verdicts]
    /\ queued \in [RequestIds -> Nat]
    /\ mailbox \in [RequestIds -> Nat]
    /\ issued \in [RequestIds -> Nat]
    /\ delivered \in [RequestIds -> Nat]
    /\ answered \in [RequestIds -> SUBSET Answers]
    /\ faults \in 0 .. MaxFaults

Init ==
    /\ status = [r \in RequestIds |-> "absent"]
    /\ row = [r \in RequestIds |-> NoRow]
    /\ stale = {}
    /\ today = 0
    /\ requestLock = [r \in RequestIds |-> {}]
    /\ accountLock = [a \in Accounts |-> {}]
    /\ pc = [h \in Handlers |-> "idle"]
    /\ call = [h \in Handlers |-> NoCall]
    /\ reservation = [h \in Handlers |-> "none"]
    /\ verdict = [h \in Handlers |-> "none"]
    /\ reply = [h \in Handlers |-> "none"]
    /\ batch = [o \in Overviews |-> {}]
    /\ current = [o \in Overviews |-> NoRequest]
    /\ finding = [o \in Overviews |-> "none"]
    /\ queued = [r \in RequestIds |-> 0]
    /\ mailbox = [r \in RequestIds |-> 0]
    /\ issued = [r \in RequestIds |-> 0]
    /\ delivered = [r \in RequestIds |-> 0]
    /\ answered = [r \in RequestIds |-> {}]
    /\ faults = 0

-----------------------------------------------------------------------------
(* Helpers.                                                                *)

\* The account a call or a row belongs to.
AccountOf(c) == Owner[c.character]

Goto(h, label) == pc' = [pc EXCEPT ![h] = label]

\* The call returns or throws: its slot is free again.
Return(h) ==
    /\ Goto(h, "idle")
    /\ call' = [call EXCEPT ![h] = NoCall]
    /\ reservation' = [reservation EXCEPT ![h] = "none"]
    /\ verdict' = [verdict EXCEPT ![h] = "none"]
    /\ reply' = [reply EXCEPT ![h] = "none"]

\* The caller with input c is told an outcome.
Answer(c, outcome) ==
    answered' = [answered EXCEPT ![c.request] = @ \cup
        {[character |-> c.character, gold |-> c.gold, outcome |-> outcome]}]

\* GET_LOCK succeeds on a free name, and again on a name that the connection
\* itself holds: a call may be given the idle connection that kept it.
Available(holders) == holders \subseteq {IdleConnection}

\* RELEASE_LOCK on both names: a name the connection does not hold is left
\* alone.
ReleaseBothLocks(h) ==
    /\ requestLock' = [r \in RequestIds |-> requestLock[r] \ {h}]
    /\ accountLock' = [a \in Accounts |-> accountLock[a] \ {h}]

\* A RELEASE_LOCK that fails is ignored, and the connection goes back to the
\* pool with its session, and the name, alive.
Kept(holders, h) == IF h \in holders THEN (holders \ {h}) \cup {IdleConnection}
                                     ELSE holders
KeepALock(h) ==
    \/ /\ requestLock' = [r \in RequestIds |-> Kept(requestLock[r], h)]
       /\ accountLock' = [a \in Accounts |-> accountLock[a] \ {h}]
    \/ /\ requestLock' = [r \in RequestIds |-> requestLock[r] \ {h}]
       /\ accountLock' = [a \in Accounts |-> Kept(accountLock[a], h)]

\* The rows the daily limits count.
CountedStatuses == {"pending", "sent", "unknown"}

CreatedOn(a, d) == {r \in RequestIds : /\ status[r] # "absent"
                                       /\ AccountOf(row[r]) = a
                                       /\ row[r].day = d}
DailyRows(a) == {r \in CreatedOn(a, today) : status[r] \in CountedStatuses}
GoldOf(R) == MapThenSumSet(LAMBDA r : row[r].gold, R)

WithinLimits_ForgetsThisRequest(a, gold) ==
    /\ Cardinality(DailyRows(a)) < DailyRequestLimit
    /\ GoldOf(DailyRows(a)) < DailyGoldLimit

WithinLimits(a, gold) ==
    /\ Cardinality(DailyRows(a)) < DailyRequestLimit
    /\ GoldOf(DailyRows(a)) + gold <= DailyGoldLimit

\* mark: the UPDATE matches a row only while its status is one of these.
Markable_AnyRow == {"pending", "unknown", "sent", "failed"}
Markable == {"pending", "unknown"}

SetStatus(r, outcome) ==
    status' = [status EXCEPT ![r] = IF @ \in Markable THEN outcome ELSE @]

\* What the number of matching mails proves (LIMIT 2).
FindingOf_Optimistic(matches) == IF matches <= 1 THEN "sent" ELSE "unknown"
FindingOf_Category(matches) == IF matches = 1 THEN "sent" ELSE "missing"
FindingOf_KeepsPending(matches) == IF matches = 1 THEN "sent" ELSE "pending"
FindingOf(matches) == IF matches = 1 THEN "sent" ELSE "unknown"

-----------------------------------------------------------------------------
(* requestMoney: reserving the request.                                    *)

RequestMoney(h, c) ==
    /\ pc[h] = "idle"
    /\ Goto(h, "requestLock")
    /\ call' = [call EXCEPT ![h] = c]
    /\ UNCHANGED <<table, today, locks, reservation, verdict, reply, views,
                   world, issued, answered, faults>>

AcquireRequestLock(h) ==
    /\ pc[h] = "requestLock"
    /\ Available(requestLock[call[h].request])
    /\ requestLock' = [requestLock EXCEPT ![call[h].request] = @ \cup {h}]
    /\ Goto(h, "accountLock")
    /\ UNCHANGED <<table, today, accountLock, call, reservation, verdict,
                   reply, views, world, issued, answered, faults>>

AcquireAccountLock_Skipped(h) ==
    /\ pc[h] = "accountLock"
    /\ Goto(h, "find")
    /\ UNCHANGED <<table, today, locks, call, reservation, verdict,
                   reply, views, world, issued, answered, faults>>

AcquireAccountLock(h) ==
    LET a == AccountOf(call[h]) IN
    /\ pc[h] = "accountLock"
    /\ Available(accountLock[a])
    /\ accountLock' = [accountLock EXCEPT ![a] = @ \cup {h}]
    /\ Goto(h, "find")
    /\ UNCHANGED <<table, today, requestLock, call, reservation, verdict,
                   reply, views, world, issued, answered, faults>>

\* A name another connection holds; GET_LOCK gives up after 2 s.
LockIsHeld(h) ==
    \/ /\ pc[h] = "requestLock"
       /\ requestLock[call[h].request] # {}
    \/ /\ pc[h] = "accountLock"
       /\ accountLock[AccountOf(call[h])] # {}

LockTimeout(h) ==
    /\ LockIsHeld(h)
    /\ ReleaseBothLocks(h)
    /\ Return(h)
    /\ UNCHANGED <<table, today, views, world, issued, answered, faults>>

SameDetails(c, r) == c.character = row[r].character /\ c.gold = row[r].gold

\* SELECT ... FOR UPDATE by request ID: an existing row decides the result.
FindExisting(h) ==
    LET r == call[h].request IN
    /\ pc[h] = "find"
    /\ IF status[r] = "absent"
       THEN Goto(h, "daily") /\ UNCHANGED reservation
       ELSE /\ Goto(h, "release")
            /\ reservation' = [reservation EXCEPT ![h] =
                   IF SameDetails(call[h], r) THEN status[r] ELSE "conflict"]
    /\ UNCHANGED <<table, today, locks, call, verdict, reply, views, world,
                   issued, answered, faults>>

ReadDailyTotals(h) ==
    /\ pc[h] = "daily"
    /\ IF WithinLimits(AccountOf(call[h]), call[h].gold)
       THEN Goto(h, "insert") /\ UNCHANGED reservation
       ELSE /\ Goto(h, "release")
            /\ reservation' = [reservation EXCEPT ![h] = "limit"]
    /\ UNCHANGED <<table, today, locks, call, verdict, reply, views, world,
                   issued, answered, faults>>

\* INSERT and COMMIT; the primary key admits one row for each request ID.
InsertRow(h) ==
    LET r == call[h].request IN
    /\ pc[h] = "insert"
    /\ status[r] = "absent"
    /\ status' = [status EXCEPT ![r] = "pending"]
    /\ row' = [row EXCEPT ![r] = [character |-> call[h].character,
                                  gold |-> call[h].gold, day |-> today]]

InsertPending(h) ==
    /\ InsertRow(h)
    /\ Goto(h, "release")
    /\ reservation' = [reservation EXCEPT ![h] = "inserted"]
    /\ UNCHANGED <<stale, today, locks, call, verdict, reply, views, world,
                   issued, answered, faults>>

\* The row is committed but the acknowledgement is lost: reserve throws.
CommitUnacknowledged(h) ==
    /\ faults < MaxFaults
    /\ faults' = faults + 1
    /\ InsertRow(h)
    /\ ReleaseBothLocks(h)
    /\ Return(h)
    /\ UNCHANGED <<stale, today, views, world, issued, answered>>

\* The finally block of reserve.
ReleaseLocks(h) ==
    /\ pc[h] = "release"
    /\ ReleaseBothLocks(h)
    /\ Goto(h, "reserved")
    /\ UNCHANGED <<table, today, call, reservation, verdict, reply, views,
                   world, issued, answered, faults>>

ReleaseFails(h) ==
    /\ faults < MaxFaults
    /\ faults' = faults + 1
    /\ pc[h] = "release"
    /\ KeepALock(h)
    /\ Goto(h, "reserved")
    /\ UNCHANGED <<table, today, call, reservation, verdict, reply, views,
                   world, issued, answered>>

-----------------------------------------------------------------------------
(* requestMoney: handleReservation, reconcileOrUnknown and mark.           *)

SendsCommand_RetriesDoubt(kind) == kind \in {"inserted", "unknown"}
SendsCommand(kind) == kind = "inserted"

\* Rejected without looking at the mail: conflict, limit, or a request that
\* another call is still working on.
Refused(h) ==
    /\ reservation[h] \in {"conflict", "limit", "pending"}
    /\ reservation[h] = "pending" => call[h].request \notin stale
    /\ Return(h)
    /\ UNCHANGED answered

ReplayFinal(h) ==
    /\ reservation[h] \in {"sent", "failed"}
    /\ Answer(call[h], reservation[h])
    /\ Return(h)

ReconcileExisting(h) ==
    /\ \/ reservation[h] = "unknown"
       \/ reservation[h] = "pending" /\ call[h].request \in stale
    /\ ~SendsCommand(reservation[h])
    /\ Goto(h, "count")
    /\ UNCHANGED <<call, reservation, verdict, reply, answered>>

HandleReservation(h) ==
    /\ pc[h] = "reserved"
    /\ Refused(h) \/ ReplayFinal(h) \/ ReconcileExisting(h)
    /\ UNCHANGED <<table, today, locks, views, world, issued, faults>>

ExecuteCommand(h) ==
    LET r == call[h].request IN
    /\ pc[h] = "reserved"
    /\ SendsCommand(reservation[h])
    /\ queued' = [queued EXCEPT ![r] = @ + 1]
    /\ issued' = [issued EXCEPT ![r] = @ + 1]
    /\ Goto(h, "awaiting")
    /\ UNCHANGED <<table, today, locks, call, reservation, verdict, reply,
                   views, mailbox, delivered, answered, faults>>

\* The exact success or rejection text of the core.
ReceiveReply(h) ==
    /\ pc[h] = "awaiting"
    /\ reply[h] # "none"
    /\ verdict' = [verdict EXCEPT ![h] = reply[h]]
    /\ Goto(h, "mark")
    /\ UNCHANGED <<table, today, locks, call, reservation, reply, views,
                   world, issued, answered, faults>>

ReplyUnusable_MeansFailed(h) ==
    /\ pc[h] = "awaiting"
    /\ verdict' = [verdict EXCEPT ![h] = "failed"]
    /\ Goto(h, "mark")
    /\ UNCHANGED <<table, today, locks, call, reservation, reply,
                   views, world, issued, answered, faults>>

ReplyUnusable_WithoutTimeout(h) ==
    /\ pc[h] = "awaiting"
    /\ reply[h] # "none"
    /\ Goto(h, "count")
    /\ UNCHANGED <<table, today, locks, call, reservation, verdict, reply,
                   views, world, issued, answered, faults>>

\* Timeout, transport error, SOAP fault or any other text: the outcome is
\* unknown and the mail decides.
ReplyUnusable(h) ==
    /\ pc[h] = "awaiting"
    /\ Goto(h, "count")
    /\ UNCHANGED <<table, today, locks, call, reservation, verdict, reply,
                   views, world, issued, answered, faults>>

CountMatchingMail(h) ==
    /\ pc[h] = "count"
    /\ verdict' = [verdict EXCEPT ![h] = FindingOf(mailbox[call[h].request])]
    /\ Goto(h, "mark")
    /\ UNCHANGED <<table, today, locks, call, reservation, reply, views,
                   world, issued, answered, faults>>

Mark(h) ==
    LET r == call[h].request IN
    /\ pc[h] = "mark"
    /\ SetStatus(r, verdict[h])
    /\ Answer(call[h], verdict[h])
    /\ Return(h)
    /\ UNCHANGED <<row, stale, today, locks, views, world, issued, faults>>

-----------------------------------------------------------------------------
(* getOverview: reconcileStaleRequests.                                    *)

IsStalePending(a, r) ==
    /\ status[r] = "pending"
    /\ r \in stale
    /\ AccountOf(row[r]) = a

\* The result keeps no more than STALE_BATCH_SIZE rows.
FindStalePending(o, a) ==
    LET found == {r \in RequestIds : IsStalePending(a, r)} IN
    /\ batch[o] = {}
    /\ \E rows \in SUBSET found :
           /\ rows # {}
           /\ \/ rows = found /\ Cardinality(found) <= StaleBatchSize
              \/ Cardinality(rows) = StaleBatchSize
           /\ batch' = [batch EXCEPT ![o] = rows]
    /\ UNCHANGED <<table, today, locks, calls, current, finding, world,
                   issued, answered, faults>>

CountStaleMail(o, r) ==
    /\ r \in batch[o]
    /\ current[o] = NoRequest
    /\ current' = [current EXCEPT ![o] = r]
    /\ finding' = [finding EXCEPT ![o] = FindingOf(mailbox[r])]
    /\ UNCHANGED <<table, today, locks, calls, batch, world, issued,
                   answered, faults>>

MarkStale(o) ==
    /\ current[o] # NoRequest
    /\ SetStatus(current[o], finding[o])
    /\ batch' = [batch EXCEPT ![o] = @ \ {current[o]}]
    /\ current' = [current EXCEPT ![o] = NoRequest]
    /\ finding' = [finding EXCEPT ![o] = "none"]
    /\ UNCHANGED <<row, stale, today, locks, calls, world, issued, answered,
                   faults>>

-----------------------------------------------------------------------------
(* Faults.                                                                 *)

Fault == faults < MaxFaults /\ faults' = faults + 1

\* A statement fails or its connection drops: the transaction rolls back,
\* the connection's locks are gone, the caller is told "unavailable".
DatabaseError(h) ==
    /\ Fault
    /\ pc[h] \notin {"idle", "release", "reserved", "awaiting"}
    /\ ReleaseBothLocks(h)
    /\ Return(h)
    /\ UNCHANGED <<table, today, views, world, issued, answered>>

\* The UPDATE of mark was applied, its acknowledgement is lost.
MarkUnacknowledged(h) ==
    /\ Fault
    /\ pc[h] = "mark"
    /\ SetStatus(call[h].request, verdict[h])
    /\ Return(h)
    /\ UNCHANGED <<row, stale, today, locks, views, world, issued, answered>>

OverviewError(o) ==
    /\ Fault
    /\ batch[o] # {}
    /\ batch' = [batch EXCEPT ![o] = {}]
    /\ current' = [current EXCEPT ![o] = NoRequest]
    /\ finding' = [finding EXCEPT ![o] = "none"]
    /\ UNCHANGED <<table, today, locks, calls, world, issued, answered>>

\* The process dies: every call is lost, the database drops the locks of its
\* connections; rows and the commands already posted survive.
Crash ==
    /\ Fault
    /\ pc' = [h \in Handlers |-> "idle"]
    /\ call' = [h \in Handlers |-> NoCall]
    /\ reservation' = [h \in Handlers |-> "none"]
    /\ verdict' = [h \in Handlers |-> "none"]
    /\ reply' = [h \in Handlers |-> "none"]
    /\ batch' = [o \in Overviews |-> {}]
    /\ current' = [o \in Overviews |-> NoRequest]
    /\ finding' = [o \in Overviews |-> "none"]
    /\ requestLock' = [r \in RequestIds |-> {}]
    /\ accountLock' = [a \in Accounts |-> {}]
    /\ UNCHANGED <<table, today, world, issued, answered>>

-----------------------------------------------------------------------------
(* The game server, the player and the clock.                              *)

\* The reply reaches the call that still waits for it, if there is one.
ReplyToWaiting(r, text) ==
    reply' = [h \in Handlers |->
                 IF pc[h] = "awaiting" /\ call[h].request = r /\ reply[h] = "none"
                 THEN text ELSE reply[h]]

WorldDelivers(r) ==
    /\ queued[r] > 0
    /\ queued' = [queued EXCEPT ![r] = @ - 1]
    /\ mailbox' = [mailbox EXCEPT ![r] = @ + 1]
    /\ delivered' = [delivered EXCEPT ![r] = @ + 1]
    /\ ReplyToWaiting(r, "sent")
    /\ UNCHANGED <<table, today, locks, pc, call, reservation, verdict,
                   views, issued, answered, faults>>

WorldRejects(r) ==
    /\ queued[r] > 0
    /\ queued' = [queued EXCEPT ![r] = @ - 1]
    /\ ReplyToWaiting(r, "failed")
    /\ UNCHANGED <<table, today, locks, pc, call, reservation, verdict,
                   views, mailbox, delivered, issued, answered, faults>>

\* The player takes the money or deletes the mail: it matches no longer.
PlayerEmptiesMail(r) ==
    /\ mailbox[r] > 0
    /\ mailbox' = [mailbox EXCEPT ![r] = @ - 1]
    /\ UNCHANGED <<table, today, locks, calls, views, queued, delivered,
                   issued, answered, faults>>

RequestGoesStale(r) ==
    /\ status[r] = "pending"
    /\ r \notin stale
    /\ stale' = stale \cup {r}
    /\ UNCHANGED <<status, row, today, locks, calls, views, world, issued,
                   answered, faults>>

Midnight ==
    /\ today < MaxDay
    /\ today' = today + 1
    /\ UNCHANGED <<table, locks, calls, views, world, issued, answered, faults>>

-----------------------------------------------------------------------------

\* What the event loop does for a call without the outside world's help.
HandlerStep(h) ==
    \/ AcquireRequestLock(h)
    \/ AcquireAccountLock(h)
    \/ LockTimeout(h)
    \/ FindExisting(h)
    \/ ReadDailyTotals(h)
    \/ InsertPending(h)
    \/ ReleaseLocks(h)
    \/ HandleReservation(h)
    \/ ExecuteCommand(h)
    \/ ReceiveReply(h)
    \/ ReplyUnusable(h)
    \/ CountMatchingMail(h)
    \/ Mark(h)

OverviewStep(o) == MarkStale(o) \/ \E r \in RequestIds : CountStaleMail(o, r)

Next ==
    \/ \E h \in Handlers :
          \/ \E c \in Calls : RequestMoney(h, c)
          \/ HandlerStep(h)
          \/ CommitUnacknowledged(h)
          \/ ReleaseFails(h)
          \/ DatabaseError(h)
          \/ MarkUnacknowledged(h)
    \/ \E o \in Overviews :
          \/ \E a \in Accounts : FindStalePending(o, a)
          \/ OverviewStep(o)
          \/ OverviewError(o)
    \/ \E r \in RequestIds :
          \/ WorldDelivers(r)
          \/ WorldRejects(r)
          \/ PlayerEmptiesMail(r)
          \/ RequestGoesStale(r)
    \/ Crash
    \/ Midnight

Spec == Init /\ [][Next]_vars

\* Node runs the continuation of every settled promise; GET_LOCK, the SOAP
\* abort signal and the query timeouts settle every promise of a call.
Progress == /\ \A h \in Handlers : WF_vars(HandlerStep(h))
            /\ \A o \in Overviews : WF_vars(OverviewStep(o))

FairSpec == Spec /\ Progress

\* A player who keeps opening the boosts page while time passes.
PolledSpec ==
    /\ FairSpec
    /\ \A r \in RequestIds : WF_vars(RequestGoesStale(r))
    /\ \A a \in Accounts : SF_vars(\E o \in Overviews : FindStalePending(o, a))

-----------------------------------------------------------------------------
(* Properties.                                                             *)

\* Whatever the retries, duplicates, crashes and lost acknowledgements, at
\* most one "send money" command is ever posted for a request ID.
AtMostOneCommand == \A r \in RequestIds : issued[r] <= 1

\* The ledger never lies: a row is "sent" only if its mail was delivered, and
\* a "failed" row had no mail and has no command left that could send one.
LedgerTruthful ==
    \A r \in RequestIds :
        /\ status[r] = "sent" => delivered[r] = 1
        /\ status[r] = "failed" => delivered[r] = 0 /\ queued[r] = 0

\* Every outcome a caller was told is about the money it asked for and agrees
\* with the row from then on: "sent" and "failed" answers are never
\* contradicted by any other call, and "unknown" is told only once the row is
\* no longer pending.
AnswersMatchLedger ==
    \A r \in RequestIds : \A t \in answered[r] :
        /\ status[r] # "absent"
        /\ t.character = row[r].character /\ t.gold = row[r].gold
        /\ t.outcome \in {"sent", "failed"} => status[r] = t.outcome
        /\ t.outcome = "unknown" => status[r] # "pending"

\* An account never has more requests, or more gold, reserved or delivered on
\* one UTC day than its limits, even if midnight falls between the count and
\* the insert or calls of the account overlap.
DailyLimits ==
    \A a \in Accounts, d \in Days :
        LET spent == {r \in CreatedOn(a, d) :
                         status[r] # "failed" \/ delivered[r] > 0}
        IN  /\ Cardinality(spent) <= DailyRequestLimit
            /\ GoldOf(spent) <= DailyGoldLimit

\* A named lock does not outlive the call that took it: money-boost-repository
\* says that releasing the connection releases its locks.
LocksEndWithTheCall ==
    /\ \A r \in RequestIds : requestLock[r] # {} =>
           \E h \in Handlers : pc[h] # "idle" /\ call[h].request = r
    /\ \A a \in Accounts : accountLock[a] # {} =>
           \E h \in Handlers : pc[h] # "idle" /\ AccountOf(call[h]) = a

\* The two tables a caller can see behave as the abstract ledger promises.
Ledger == INSTANCE BoostLedger WITH ledger <- status
LedgerSpec == Ledger!Spec

\* Every call comes back: no lock wait, lost reply or crash leaves it hanging.
EveryCallReturns == \A h \in Handlers : pc[h] # "idle" ~> pc[h] = "idle"

\* A player who keeps opening the boosts page sees every pending request
\* settled, whichever call of it died where.
PendingIsSettled ==
    \A r \in RequestIds : status[r] = "pending" ~> status[r] # "pending"

=============================================================================
