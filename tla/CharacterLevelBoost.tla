------------------------- MODULE CharacterLevelBoost -------------------------
(***************************************************************************)
(* The character level boost and the MySQL connection pool it shares with  *)
(* the rest of the portal: requestCharacterLevel and getMetadata calls,    *)
(* the character_level_boost_requests table, the named locks and the game  *)
(* server that executes "character level <name> <target>".                 *)
(*                                                                         *)
(* A call keeps the connection that holds its character lock from its      *)
(* first step to its last, and asks the pool for another one for every     *)
(* statement in between.  An action is the code between two awaits; a      *)
(* statement takes effect at an instant at which the pool has a connection *)
(* for it.  The getMetadata calls are those of one account: nothing but    *)
(* the pool and the request IDs is shared between accounts.                *)
(*                                                                         *)
(* A definition X_Y is a mutated form of the definition X below it: a bug  *)
(* that the properties must notice; nothing else uses it.                  *)
(***************************************************************************)
EXTENDS Naturals, Sequences, FiniteSets

CONSTANTS
    Handlers,            \* slots for concurrent calls
    RequestIds,
    Characters,
    MaximumLevel,        \* CHARACTER_LEVEL_MAXIMUM
    StaleBatchSize,      \* STALE_BATCH_SIZE
    ConnectionLimit,     \* connectionLimit of the pool
    QueueLimit,          \* queueLimit of the pool
    PlayersLevel,        \* do characters gain levels by playing?
    PromptServer,        \* is a command executed and written before the
                         \* portal stops waiting for it?
    LocksCanBeLost,      \* can the connection that holds a lock be cut?
    MaxFaults,           \* bound: database errors and process crashes
    IdleConnection,      \* holder of a lock no call will release
    NoRow,
    NoCall

ASSUME LimitAssumption ==
    /\ MaximumLevel \in Nat \ {0, 1}
    /\ StaleBatchSize \in Nat \ {0}
    /\ ConnectionLimit \in Nat \ {0}
    /\ QueueLimit \in Nat \ {0}
ASSUME ModeAssumption ==
    /\ PlayersLevel \in BOOLEAN
    /\ PromptServer \in BOOLEAN
    /\ LocksCanBeLost \in BOOLEAN
    /\ MaxFaults \in Nat

Levels == 1 .. MaximumLevel
Targets == 2 .. MaximumLevel

\* What requestCharacterLevel was asked for, or the row getMetadata settles.
Requests == [kind : {"request"}, request : RequestIds,
             character : Characters, target : Targets]
Settlements == [kind : {"settle"}, request : RequestIds,
                character : Characters, target : Targets]
Calls == Requests \cup Settlements
Rows == [character : Characters, target : Targets]
Statuses == {"absent", "pending", "applied", "failed", "unknown"}
Verdicts == {"none", "applied", "failed", "unknown"}
Answers == [character : Characters, target : Targets,
            outcome : {"applied", "failed", "unknown"}]
Holders == Handlers \cup {IdleConnection}

ASSUME NullAssumption ==
    /\ IdleConnection \notin Handlers
    /\ NoRow \notin Rows
    /\ NoCall \notin Calls

VARIABLES
    (* character_level_boost_requests *)
    status,         \* status[r]: the status column, "absent" without a row
    row,            \* row[r]: the other columns
    stale,          \* requests whose row is older than PENDING_STALE_MS
    (* the database server and the pool *)
    characterLock,  \* holders of wow_portal_level_char_<guid>
    requestLock,    \* holders of wow_portal_level_req_<uuid>
    queue,          \* calls the pool keeps waiting for a connection
    (* calls *)
    pc,             \* where the call is suspended
    call,           \* its input
    batch,          \* stale rows still to be settled
    seen,           \* the level it read before the reservation
    verdict,        \* the status it is about to mark
    reply,          \* classified SOAP output, "none" until it arrives
    (* game server *)
    level,          \* level[c] in the characters table
    posted,         \* posted[r]: commands not yet executed
    unsaved,        \* unsaved[r]: executed commands not yet in the table
    (* history, for the properties *)
    issued,         \* issued[r]: commands ever posted for r
    reached,        \* requests whose target the table showed since reserved
    changed,        \* requests for which the server changed a level
    answered,       \* answered[r]: outcomes reported to callers of r
    cut,            \* characters whose lock was lost under a call
    faults          \* database errors and crashes so far

table == <<status, row, stale>>
locks == <<characterLock, requestLock>>
calls == <<pc, call, batch, seen, verdict, reply>>
world == <<level, posted, unsaved, reached, changed>>
history == <<issued, answered, cut>>
vars == <<table, locks, queue, calls, world, history, faults>>

\* Where a call waits for the pool, with how many connections in hand.
AsksWithNone == {"connect", "stale"}
AsksWithOne == {"character", "find", "reserve", "confirm", "mark"}
HoldsOne == AsksWithOne \cup {"characterLock", "command", "awaiting", "unlock"}
HoldsTwo == {"requestLock", "insert"}
PCs == {"idle"} \cup AsksWithNone \cup HoldsOne \cup HoldsTwo

TypeOK ==
    /\ status \in [RequestIds -> Statuses]
    /\ row \in [RequestIds -> Rows \cup {NoRow}]
    /\ stale \in SUBSET RequestIds
    /\ characterLock \in [Characters -> SUBSET Holders]
    /\ requestLock \in [RequestIds -> SUBSET Holders]
    /\ queue \in Seq(Handlers) /\ Len(queue) <= QueueLimit
    /\ pc \in [Handlers -> PCs]
    /\ call \in [Handlers -> Calls \cup {NoCall}]
    /\ batch \in [Handlers -> SUBSET RequestIds]
    /\ seen \in [Handlers -> Levels \cup {0}]
    /\ verdict \in [Handlers -> Verdicts]
    /\ reply \in [Handlers -> {"none", "accepted", "failed"}]
    /\ level \in [Characters -> Levels]
    /\ posted \in [RequestIds -> Nat]
    /\ unsaved \in [RequestIds -> Nat]
    /\ issued \in [RequestIds -> Nat]
    /\ reached \in SUBSET RequestIds
    /\ changed \in SUBSET RequestIds
    /\ answered \in [RequestIds -> SUBSET Answers]
    /\ cut \in SUBSET Characters
    /\ faults \in 0 .. MaxFaults

Init ==
    /\ status = [r \in RequestIds |-> "absent"]
    /\ row = [r \in RequestIds |-> NoRow]
    /\ stale = {}
    /\ characterLock = [c \in Characters |-> {}]
    /\ requestLock = [r \in RequestIds |-> {}]
    /\ queue = <<>>
    /\ pc = [h \in Handlers |-> "idle"]
    /\ call = [h \in Handlers |-> NoCall]
    /\ batch = [h \in Handlers |-> {}]
    /\ seen = [h \in Handlers |-> 0]
    /\ verdict = [h \in Handlers |-> "none"]
    /\ reply = [h \in Handlers |-> "none"]
    /\ level = [c \in Characters |-> 1]
    /\ posted = [r \in RequestIds |-> 0]
    /\ unsaved = [r \in RequestIds |-> 0]
    /\ issued = [r \in RequestIds |-> 0]
    /\ reached = {}
    /\ changed = {}
    /\ answered = [r \in RequestIds |-> {}]
    /\ cut = {}
    /\ faults = 0

-----------------------------------------------------------------------------
(* The connection pool.                                                    *)

InUse == Cardinality({h \in Handlers : pc[h] \in HoldsOne \cup HoldsTwo})
         + Cardinality({h \in Handlers : pc[h] \in HoldsTwo})

IsQueued(h) == \E i \in 1 .. Len(queue) : queue[i] = h

\* A connection that becomes free goes to the call that has waited longest.
CanConnect(h) ==
    /\ InUse < ConnectionLimit
    /\ queue # <<>> => Head(queue) = h

\* pool.getConnection() or pool.execute() gets its connection.
Connects(h) ==
    /\ CanConnect(h)
    /\ queue' = IF queue = <<>> THEN queue ELSE Tail(queue)

\* Without one it waits, and for as long as it takes.
QueueForConnection(h) ==
    /\ pc[h] \in AsksWithNone \cup AsksWithOne
    /\ ~CanConnect(h)
    /\ ~IsQueued(h)
    /\ Len(queue) < QueueLimit
    /\ queue' = Append(queue, h)
    /\ UNCHANGED <<table, locks, calls, world, history, faults>>

-----------------------------------------------------------------------------
(* Helpers.                                                                *)

Goto(h, label) == pc' = [pc EXCEPT ![h] = label]

\* The call returns or throws: its slot is free again.
Return(h) ==
    /\ Goto(h, "idle")
    /\ call' = [call EXCEPT ![h] = NoCall]
    /\ batch' = [batch EXCEPT ![h] = {}]
    /\ seen' = [seen EXCEPT ![h] = 0]
    /\ verdict' = [verdict EXCEPT ![h] = "none"]
    /\ reply' = [reply EXCEPT ![h] = "none"]

\* The operation inside withCharacterLock returns or throws; its finally
\* block is next.  An error also ends the loop over the stale rows.
Leave(h) == Goto(h, "unlock") /\ UNCHANGED <<call, batch, seen, verdict, reply>>
Throw(h) ==
    IF pc[h] \in AsksWithNone
    THEN Return(h)
    ELSE /\ Goto(h, "unlock")
         /\ batch' = [batch EXCEPT ![h] = {}]
         /\ UNCHANGED <<call, seen, verdict, reply>>

\* The caller with input c is told an outcome.
Answer(c, outcome) ==
    answered' = [answered EXCEPT ![c.request] = @ \cup
        {[character |-> c.character, target |-> c.target, outcome |-> outcome]}]

\* GET_LOCK succeeds on a free name, and on one the connection itself kept.
Available(holders) == holders \subseteq {IdleConnection}

\* RELEASE_LOCK, and a RELEASE_LOCK whose failure is ignored: the pooled
\* connection keeps its session and the name.
Released(lock, name, h) == [lock EXCEPT ![name] = @ \ {h}]
Kept(lock, name, h) ==
    [lock EXCEPT ![name] = IF h \in @ THEN (@ \ {h}) \cup {IdleConnection} ELSE @]

\* mark: the UPDATE matches a row only while its status is one of these.
Markable_AnyRow == {"pending", "unknown", "applied", "failed"}
Markable == {"pending", "unknown"}

SetStatus(r, outcome) ==
    status' = [status EXCEPT ![r] = IF @ \in Markable THEN outcome ELSE @]

\* What the level in the characters table proves.
VerdictOf_AtLeast(c) == IF level[c.character] >= c.target THEN "applied"
                                                          ELSE "unknown"
VerdictOf_Category(c) == IF level[c.character] = c.target THEN "applied"
                                                          ELSE "level_mismatch"
VerdictOf(c) == IF level[c.character] = c.target THEN "applied" ELSE "unknown"

SameDetails(c, r) == c.character = row[r].character /\ c.target = row[r].target

\* The next row of the loop in reconcileStaleRequests, or its end.
Proceed_KeepsRow(h, rows) ==
    \/ rows = {} /\ Return(h)
    \/ \E r \in rows :
          /\ batch' = [batch EXCEPT ![h] = rows]
          /\ call' = [call EXCEPT ![h] = [kind |-> "settle", request |-> r,
                          character |-> row[r].character,
                          target |-> row[r].target]]
          /\ Goto(h, "connect")
          /\ seen' = [seen EXCEPT ![h] = 0]
          /\ verdict' = [verdict EXCEPT ![h] = "none"]
          /\ reply' = [reply EXCEPT ![h] = "none"]
Proceed(h, rows) ==
    \/ rows = {} /\ Return(h)
    \/ \E r \in rows :
          /\ batch' = [batch EXCEPT ![h] = rows \ {r}]
          /\ call' = [call EXCEPT ![h] = [kind |-> "settle", request |-> r,
                          character |-> row[r].character,
                          target |-> row[r].target]]
          /\ Goto(h, "connect")
          /\ seen' = [seen EXCEPT ![h] = 0]
          /\ verdict' = [verdict EXCEPT ![h] = "none"]
          /\ reply' = [reply EXCEPT ![h] = "none"]

-----------------------------------------------------------------------------
(* The start of a call and withCharacterLock.                              *)

RequestCharacterLevel(h, c) ==
    /\ pc[h] = "idle"
    /\ Goto(h, "connect")
    /\ call' = [call EXCEPT ![h] = c]
    /\ UNCHANGED <<table, locks, queue, batch, seen, verdict, reply, world,
                   history, faults>>

GetMetadata(h) ==
    /\ pc[h] = "idle"
    /\ Goto(h, "stale")
    /\ UNCHANGED <<table, locks, queue, call, batch, seen, verdict, reply,
                   world, history, faults>>

IsStalePending(r) == status[r] = "pending" /\ r \in stale

\* The result keeps no more than STALE_BATCH_SIZE rows.
FindStalePending(h) ==
    LET found == {r \in RequestIds : IsStalePending(r)} IN
    /\ pc[h] = "stale"
    /\ Connects(h)
    /\ \E rows \in SUBSET found :
          /\ \/ rows = found /\ Cardinality(found) <= StaleBatchSize
             \/ Cardinality(rows) = StaleBatchSize
          /\ Proceed(h, rows)
    /\ UNCHANGED <<table, locks, world, history, faults>>

Connect(h) ==
    /\ pc[h] = "connect"
    /\ Connects(h)
    /\ Goto(h, "characterLock")
    /\ UNCHANGED <<table, locks, call, batch, seen, verdict, reply, world,
                   history, faults>>

AcquireCharacterLock_Skipped(h) ==
    /\ pc[h] = "characterLock"
    /\ Goto(h, "character")
    /\ UNCHANGED <<table, locks, queue, call, batch, seen, verdict, reply,
                   world, history, faults>>
AcquireCharacterLock(h) ==
    LET c == call[h].character IN
    /\ pc[h] = "characterLock"
    /\ Available(characterLock[c])
    /\ characterLock' = [characterLock EXCEPT ![c] = @ \cup {h}]
    /\ Goto(h, "character")
    /\ UNCHANGED <<table, requestLock, queue, call, batch, seen, verdict,
                   reply, world, history, faults>>

\* GET_LOCK gives up after 2 s on a name another connection holds.
LockTimeout(h) ==
    /\ \/ pc[h] = "characterLock" /\ characterLock[call[h].character] # {}
       \/ pc[h] = "requestLock" /\ requestLock[call[h].request] # {}
    /\ Throw(h)
    /\ UNCHANGED <<table, locks, queue, world, history, faults>>

\* The finally block: the name, then the connection.
Unlock(h) ==
    /\ pc[h] = "unlock"
    /\ characterLock' = Released(characterLock, call[h].character, h)
    /\ Proceed(h, batch[h])
    /\ UNCHANGED <<table, requestLock, queue, world, history, faults>>

-----------------------------------------------------------------------------
(* requestCharacterLevel up to the reservation.                            *)

\* handleExisting: a request that is refused, a final answer, or a row whose
\* outcome the level must decide.
ResumesAt_Resending == "command"
ResumesAt == "confirm"

IsRefused(c, r) ==
    \/ ~SameDetails(c, r)
    \/ status[r] = "pending" /\ r \notin stale

HandleExisting(h) ==
    LET r == call[h].request IN
    \/ /\ IsRefused(call[h], r)
       /\ Leave(h)
       /\ UNCHANGED answered
    \/ /\ ~IsRefused(call[h], r)
       /\ status[r] \in {"applied", "failed"}
       /\ Answer(call[h], status[r])
       /\ Leave(h)
    \/ /\ ~IsRefused(call[h], r)
       /\ status[r] \in {"pending", "unknown"}
       /\ Goto(h, ResumesAt)
       /\ UNCHANGED <<call, batch, seen, verdict, reply, answered>>

\* readOwnedCharacter.
ReadCharacter(h) ==
    /\ pc[h] = "character"
    /\ call[h].kind = "request"
    /\ Connects(h)
    /\ seen' = [seen EXCEPT ![h] = level[call[h].character]]
    /\ Goto(h, "find")
    /\ UNCHANGED <<table, locks, call, batch, verdict, reply, world, history,
                   faults>>

\* A target that is not above the level read before is refused.
MayRaise(h) == call[h].target > seen[h]

Find(h) ==
    LET r == call[h].request IN
    /\ pc[h] = "find"
    /\ Connects(h)
    /\ \/ status[r] # "absent" /\ HandleExisting(h)
       \/ /\ status[r] = "absent"
          /\ Goto(h, IF MayRaise(h) THEN "reserve" ELSE "unlock")
          /\ UNCHANGED <<call, batch, seen, verdict, reply, answered>>
    /\ UNCHANGED <<table, locks, world, issued, cut, faults>>

\* reserve: a second connection, its lock, and the transaction.
Reserve(h) ==
    /\ pc[h] = "reserve"
    /\ Connects(h)
    /\ Goto(h, "requestLock")
    /\ UNCHANGED <<table, locks, call, batch, seen, verdict, reply, world,
                   history, faults>>

AcquireRequestLock(h) ==
    LET r == call[h].request IN
    /\ pc[h] = "requestLock"
    /\ Available(requestLock[r])
    /\ requestLock' = [requestLock EXCEPT ![r] = @ \cup {h}]
    /\ Goto(h, "insert")
    /\ UNCHANGED <<table, characterLock, queue, call, batch, seen, verdict,
                   reply, world, history, faults>>

InsertRow(h) ==
    LET r == call[h].request IN
    /\ pc[h] = "insert"
    /\ status[r] = "absent"
    /\ status' = [status EXCEPT ![r] = "pending"]
    /\ row' = [row EXCEPT ![r] = [character |-> call[h].character,
                                  target |-> call[h].target]]
    /\ reached' = IF level[call[h].character] = call[h].target
                  THEN reached \cup {r} ELSE reached
    /\ UNCHANGED <<stale, level, posted, unsaved, changed>>

\* The transaction and reserve's finally block.
InsertPending(h) ==
    /\ InsertRow(h)
    /\ requestLock' = Released(requestLock, call[h].request, h)
    /\ Goto(h, "command")
    /\ UNCHANGED <<characterLock, queue, call, batch, seen, verdict, reply,
                   history, faults>>

FindsRow(h) ==
    /\ pc[h] = "insert"
    /\ status[call[h].request] # "absent"
    /\ requestLock' = Released(requestLock, call[h].request, h)
    /\ HandleExisting(h)
    /\ UNCHANGED <<table, characterLock, queue, world, issued, cut, faults>>

-----------------------------------------------------------------------------
(* The command, its confirmation and the final mark.                       *)

ExecuteCommand(h) ==
    LET r == call[h].request IN
    /\ pc[h] = "command"
    /\ posted' = [posted EXCEPT ![r] = @ + 1]
    /\ issued' = [issued EXCEPT ![r] = @ + 1]
    /\ Goto(h, "awaiting")
    /\ UNCHANGED <<table, locks, queue, call, batch, seen, verdict, reply,
                   level, unsaved, reached, changed, answered, cut, faults>>

\* "failed" is final; "accepted" still has to show in the table.
ReceiveReply(h) ==
    /\ pc[h] = "awaiting"
    /\ \/ /\ reply[h] = "failed"
          /\ verdict' = [verdict EXCEPT ![h] = "failed"]
          /\ Goto(h, "mark")
       \/ /\ reply[h] = "accepted"
          /\ Goto(h, "confirm")
          /\ UNCHANGED verdict
    /\ UNCHANGED <<table, locks, queue, call, batch, seen, reply, world,
                   history, faults>>

\* Timeout, transport error, SOAP fault or any other text.
ReplyUnusable(h) ==
    /\ pc[h] = "awaiting"
    /\ PromptServer => posted[call[h].request] = 0
    /\ Goto(h, "confirm")
    /\ UNCHANGED <<table, locks, queue, call, batch, seen, verdict, reply,
                   world, history, faults>>

\* The read that decides: the first that shows the target, or the last one.
ConfirmLevel(h) ==
    LET r == call[h].request IN
    /\ pc[h] = "confirm"
    /\ Connects(h)
    /\ verdict' = [verdict EXCEPT ![h] = VerdictOf(call[h])]
    /\ (PromptServer /\ verdict'[h] = "unknown") =>
           posted[r] = 0 /\ unsaved[r] = 0
    /\ Goto(h, "mark")
    /\ UNCHANGED <<table, locks, call, batch, seen, reply, world, history,
                   faults>>

\* reconcileStaleRequests reads the level once.
ReadStaleLevel(h) ==
    /\ pc[h] = "character"
    /\ call[h].kind = "settle"
    /\ Connects(h)
    /\ verdict' = [verdict EXCEPT ![h] = VerdictOf(call[h])]
    /\ Goto(h, "mark")
    /\ UNCHANGED <<table, locks, call, batch, seen, reply, world, history,
                   faults>>

Mark(h) ==
    /\ pc[h] = "mark"
    /\ Connects(h)
    /\ SetStatus(call[h].request, verdict[h])
    /\ IF call[h].kind = "request" THEN Answer(call[h], verdict[h])
                                   ELSE UNCHANGED answered
    /\ Leave(h)
    /\ UNCHANGED <<row, stale, locks, world, issued, cut, faults>>

-----------------------------------------------------------------------------
(* Faults.                                                                 *)

Fault == faults < MaxFaults /\ faults' = faults + 1

\* A full queue refuses at once; a statement, a lock or a commit may fail.
PoolRefuses(h) ==
    /\ pc[h] \in AsksWithNone \cup AsksWithOne
    /\ ~CanConnect(h)
    /\ ~IsQueued(h)
    /\ Len(queue) >= QueueLimit
    /\ UNCHANGED <<queue, faults>>

DatabaseError(h) ==
    /\ Fault
    /\ \/ pc[h] \in AsksWithNone \cup AsksWithOne /\ Connects(h)
       \/ pc[h] \in HoldsTwo \cup {"characterLock"} /\ UNCHANGED queue

\* Both reads of the level after the reservation catch their errors.
ReadIsCaught(h) ==
    \/ pc[h] = "confirm"
    \/ pc[h] = "character" /\ call[h].kind = "settle"

StatementFails(h) ==
    /\ PoolRefuses(h) \/ DatabaseError(h)
    /\ requestLock' = IF pc[h] = "insert"
                      THEN Released(requestLock, call[h].request, h)
                      ELSE requestLock
    /\ IF ReadIsCaught(h)
       THEN /\ verdict' = [verdict EXCEPT ![h] = "unknown"]
            /\ Goto(h, "mark")
            /\ UNCHANGED <<call, batch, seen, reply>>
       ELSE Throw(h)
    /\ UNCHANGED <<table, characterLock, world, history>>

\* The transaction is committed but the acknowledgement is lost.
CommitUnacknowledged(h) ==
    /\ Fault
    /\ InsertRow(h)
    /\ requestLock' = Released(requestLock, call[h].request, h)
    /\ Throw(h)
    /\ UNCHANGED <<characterLock, queue, history>>

\* The UPDATE of mark was applied, its acknowledgement is lost.
MarkUnacknowledged(h) ==
    /\ Fault
    /\ pc[h] = "mark"
    /\ Connects(h)
    /\ SetStatus(call[h].request, verdict[h])
    /\ Throw(h)
    /\ UNCHANGED <<row, stale, locks, world, history>>

UnlockFails(h) ==
    /\ Fault
    /\ pc[h] = "unlock"
    /\ characterLock' = Kept(characterLock, call[h].character, h)
    /\ Proceed(h, batch[h])
    /\ UNCHANGED <<table, requestLock, queue, world, history>>

\* The connection that holds the lock is idle until the call ends: the call
\* does not notice that it was cut, and with it the lock lost.
LockConnectionLost(h) ==
    /\ LocksCanBeLost
    /\ Fault
    /\ pc[h] \in HoldsOne \cup HoldsTwo
    /\ h \in characterLock[call[h].character]
    /\ characterLock' = Released(characterLock, call[h].character, h)
    /\ cut' = cut \cup {call[h].character}
    /\ UNCHANGED <<table, requestLock, queue, calls, world, issued, answered>>

\* The process dies: calls, pool and locks are lost, rows and the commands
\* already posted survive.
Crash ==
    /\ Fault
    /\ pc' = [h \in Handlers |-> "idle"]
    /\ call' = [h \in Handlers |-> NoCall]
    /\ batch' = [h \in Handlers |-> {}]
    /\ seen' = [h \in Handlers |-> 0]
    /\ verdict' = [h \in Handlers |-> "none"]
    /\ reply' = [h \in Handlers |-> "none"]
    /\ queue' = <<>>
    /\ characterLock' = [c \in Characters |-> {}]
    /\ requestLock' = [r \in RequestIds |-> {}]
    /\ UNCHANGED <<table, world, history>>

-----------------------------------------------------------------------------
(* The game server, the players and the clock.                             *)

\* The reply reaches the call that still waits for it, if there is one.
ReplyToWaiting(r, text) ==
    reply' = [h \in Handlers |->
                 IF pc[h] = "awaiting" /\ call[h].request = r /\ reply[h] = "none"
                 THEN text ELSE reply[h]]

\* The core answers before its level update has reached the table.
WorldAccepts(r) ==
    /\ posted[r] > 0
    /\ posted' = [posted EXCEPT ![r] = @ - 1]
    /\ unsaved' = [unsaved EXCEPT ![r] = @ + 1]
    /\ ReplyToWaiting(r, "accepted")
    /\ UNCHANGED <<table, locks, queue, pc, call, batch, seen, verdict, level,
                   reached, changed, history, faults>>

WorldRejects(r) ==
    /\ posted[r] > 0
    /\ posted' = [posted EXCEPT ![r] = @ - 1]
    /\ ReplyToWaiting(r, "failed")
    /\ UNCHANGED <<table, locks, queue, pc, call, batch, seen, verdict, level,
                   unsaved, reached, changed, history, faults>>

SetLevel(c, l) ==
    /\ level' = [level EXCEPT ![c] = l]
    /\ reached' = reached \cup
           {r \in RequestIds : row[r] = [character |-> c, target |-> l]}

\* The command is absolute: it sets the target whatever the level is now.
WorldWrites(r) ==
    /\ unsaved[r] > 0
    /\ unsaved' = [unsaved EXCEPT ![r] = @ - 1]
    /\ SetLevel(row[r].character, row[r].target)
    /\ changed' = changed \cup {r}
    /\ UNCHANGED <<table, locks, queue, calls, posted, history, faults>>

PlayerGainsLevel(c) ==
    /\ PlayersLevel
    /\ level[c] < MaximumLevel
    /\ SetLevel(c, level[c] + 1)
    /\ UNCHANGED <<table, locks, queue, calls, posted, unsaved, changed,
                   history, faults>>

RequestGoesStale(r) ==
    /\ status[r] = "pending"
    /\ r \notin stale
    /\ stale' = stale \cup {r}
    /\ UNCHANGED <<status, row, locks, queue, calls, world, history, faults>>

-----------------------------------------------------------------------------

\* What the event loop, the pool and the database do for a call.
HandlerStep(h) ==
    \/ QueueForConnection(h)
    \/ FindStalePending(h)
    \/ Connect(h)
    \/ AcquireCharacterLock(h)
    \/ LockTimeout(h)
    \/ Unlock(h)
    \/ ReadCharacter(h)
    \/ Find(h)
    \/ Reserve(h)
    \/ AcquireRequestLock(h)
    \/ InsertPending(h)
    \/ FindsRow(h)
    \/ ExecuteCommand(h)
    \/ ReceiveReply(h)
    \/ ReplyUnusable(h)
    \/ ConfirmLevel(h)
    \/ ReadStaleLevel(h)
    \/ Mark(h)

\* What a server that is prompt is sure to do.
ServerStep(r) == WorldAccepts(r) \/ WorldRejects(r) \/ WorldWrites(r)

Next ==
    \/ \E h \in Handlers :
          \/ \E c \in Requests : RequestCharacterLevel(h, c)
          \/ GetMetadata(h)
          \/ HandlerStep(h)
          \/ StatementFails(h)
          \/ CommitUnacknowledged(h)
          \/ MarkUnacknowledged(h)
          \/ UnlockFails(h)
          \/ LockConnectionLost(h)
    \/ \E r \in RequestIds :
          \/ WorldAccepts(r)
          \/ WorldRejects(r)
          \/ WorldWrites(r)
          \/ RequestGoesStale(r)
    \/ \E c \in Characters : PlayerGainsLevel(c)
    \/ Crash

Spec == Init /\ [][Next]_vars

\* Node runs the continuation of every settled promise; every statement, lock
\* and SOAP call settles within its timeout.  The pool's queue has none.
FairSpec == /\ Spec
            /\ \A h \in Handlers : WF_vars(HandlerStep(h))
            /\ PromptServer => \A r \in RequestIds : WF_vars(ServerStep(r))

-----------------------------------------------------------------------------
(* Properties.                                                             *)

\* Whatever the retries, duplicates, crashes and lost acknowledgements, at
\* most one "character level" command is ever posted for a request ID.
AtMostOneCommand == \A r \in RequestIds : issued[r] <= 1

\* An "applied" row names a level the characters table showed after the
\* reservation; for a "failed" row the server never changed a level and has no
\* command left that could.
LedgerTruthful ==
    \A r \in RequestIds :
        /\ status[r] = "applied" => r \in reached
        /\ status[r] = "failed" => r \notin changed /\ posted[r] + unsaved[r] = 0

\* As long as no lock of the character is lost under a call, every outcome a
\* caller was told is about the level it asked for and agrees with the row from
\* then on, whichever calls settle the row meanwhile (withCharacterLock() keeps
\* them apart).
AnswersMatchLedger ==
    \A r \in RequestIds : \A t \in answered[r] :
        t.character \notin cut =>
            /\ status[r] # "absent"
            /\ t.character = row[r].character /\ t.target = row[r].target
            /\ t.outcome \in {"applied", "failed"} => status[r] = t.outcome
            /\ t.outcome = "unknown" => status[r] # "pending"

\* The boost is raise-only: as long as the game server keeps up and nobody
\* plays the character, no command of the portal ever lowers its level,
\* although each one is absolute and calls overlap.
RaiseOnly == [][\A c \in Characters : level'[c] >= level[c]]_vars

\* The pool never stands still: of the calls that hold its connections one can
\* always go on.  The level boost specification asks for "short, bounded
\* processing with no queue".
PoolMovesOn ==
    InUse = ConnectionLimit =>
        \E h \in Handlers : pc[h] \in (HoldsOne \ AsksWithOne) \cup HoldsTwo

\* Every call comes back, as long as fewer calls than the pool has connections
\* run at a time: neither the nested use of the pool, nor a lock, nor a lost
\* reply leaves one hanging.
EveryCallReturns == \A h \in Handlers : pc[h] # "idle" ~> pc[h] = "idle"

=============================================================================
