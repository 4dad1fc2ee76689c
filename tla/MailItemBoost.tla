--------------------------- MODULE MailItemBoost ---------------------------
(***************************************************************************)
(* The three boosts that mail items: Item Delivery, Portable Holes and     *)
(* Arcane Tome.  They are one protocol with a table, a lock name and a     *)
(* mail of their own; an action is the code between two awaits of one      *)
(* asynchronous call.                                                      *)
(*                                                                         *)
(* Unlike money, items arrive as several attachments that the player takes *)
(* one at a time, so a mail is evidence of a delivery only while it is     *)
(* complete.  The command names its receiver, and the name was read before *)
(* the request was reserved: characters may be renamed at any time.        *)
(*                                                                         *)
(* A definition X_Y is a mutated form of the definition X below it: a bug  *)
(* that the properties must notice; nothing else uses it.                  *)
(***************************************************************************)
EXTENDS Naturals, Sequences, FiniteSets

CONSTANTS
    Handlers,        \* slots for concurrent calls of requestItem
    Overviews,       \* slots for concurrent calls of getMetadata
    RequestIds,      \* UUIDs chosen by the browsers
    Accounts,
    Characters,
    Owner,           \* Owner[c]: the account of character c
    Names,           \* character names the command parser accepts
    MaximumStacks,   \* attachments of the largest request (12 in a mail)
    StaleBatchSize,  \* STALE_BATCH_SIZE of findStalePending
    MaxFaults,       \* bound: database errors and process crashes
    MaxRenames,      \* bound: characters renamed
    IdleConnection,  \* holder of a lock no call will release
    NoRow,           \* no row with this request ID
    NoCall,          \* input of an idle slot
    NoRequest        \* an overview is looking at no row

ASSUME OwnerAssumption == Owner \in [Characters -> Accounts]
ASSUME SizeAssumption ==
    /\ MaximumStacks \in Nat \ {0}
    /\ StaleBatchSize \in Nat \ {0}
    /\ MaxFaults \in Nat
    /\ MaxRenames \in Nat

\* ceil(quantity / stackSize): 4 for Portable Holes, 1 for the Arcane Tome.
StackCounts == 1 .. MaximumStacks

\* The input of a call after the item and the character have been looked up.
Inputs == [request : RequestIds, character : Characters,
           stacks : StackCounts, name : Names]
Rows == [character : Characters, stacks : StackCounts]
Statuses == {"absent", "pending", "sent", "failed", "unknown"}
Reservations == {"none", "inserted", "conflict",
                 "pending", "sent", "failed", "unknown"}
Holders == Handlers \cup {IdleConnection}
Verdicts == {"none", "sent", "failed", "unknown"}
Mails == [to : Characters, left : 0 .. MaximumStacks]
Answers == [character : Characters, stacks : StackCounts,
            outcome : {"sent", "failed", "unknown"}]

ASSUME NullAssumption ==
    /\ IdleConnection \notin Handlers
    /\ NoRow \notin Rows
    /\ NoCall \notin Inputs
    /\ NoRequest \notin RequestIds

VARIABLES
    (* item_delivery_requests, or the table of one of the other two boosts *)
    status,        \* status[r]: the status column, "absent" without a row
    row,           \* row[r]: the other columns
    stale,         \* requests whose row is older than PENDING_STALE_MS
    requestLock,   \* requestLock[r]: connections that hold wow_portal_item_<r>
    (* requestItem calls *)
    pc,            \* where the call is suspended
    call,          \* its input
    reservation,   \* what reserve found
    verdict,       \* the status it is about to mark
    reply,         \* classified SOAP output, "none" until it arrives
    (* getMetadata calls *)
    batch,         \* stale rows still to be reconciled
    current,       \* the row whose mail has been inspected
    finding,       \* the status that row is about to be marked with
    (* game server *)
    name,          \* name[c]: the present name of a character
    renames,       \* renames so far
    queued,        \* queued[r]: names of the commands for r not yet executed
    mails,         \* mails[r]: every mail sent for r, with what is left in it
    (* history, for the properties *)
    issued,        \* issued[r]: commands ever posted for r
    answered,      \* answered[r]: outcomes reported to callers of r
    faults         \* database errors and crashes so far

table == <<status, row, stale>>
calls == <<pc, call, reservation, verdict, reply>>
views == <<batch, current, finding>>
world == <<name, renames, queued, mails>>
vars == <<table, requestLock, calls, views, world, issued, answered, faults>>

PCs == {"idle", "requestLock", "find", "insert", "release", "reserved",
        "awaiting", "inspect", "mark"}

TypeOK ==
    /\ status \in [RequestIds -> Statuses]
    /\ row \in [RequestIds -> Rows \cup {NoRow}]
    /\ stale \in SUBSET RequestIds
    /\ requestLock \in [RequestIds -> SUBSET Holders]
    /\ pc \in [Handlers -> PCs]
    /\ call \in [Handlers -> Inputs \cup {NoCall}]
    /\ reservation \in [Handlers -> Reservations]
    /\ verdict \in [Handlers -> Verdicts]
    /\ reply \in [Handlers -> {"none", "sent", "failed"}]
    /\ batch \in [Overviews -> SUBSET RequestIds]
    /\ current \in [Overviews -> RequestIds \cup {NoRequest}]
    /\ finding \in [Overviews -> Verdicts]
    /\ name \in [Characters -> Names]
    /\ renames \in 0 .. MaxRenames
    /\ queued \in [RequestIds -> SUBSET Names]
    /\ mails \in [RequestIds -> Seq(Mails)]
    /\ issued \in [RequestIds -> Nat]
    /\ answered \in [RequestIds -> SUBSET Answers]
    /\ faults \in 0 .. MaxFaults

Init ==
    /\ status = [r \in RequestIds |-> "absent"]
    /\ row = [r \in RequestIds |-> NoRow]
    /\ stale = {}
    /\ requestLock = [r \in RequestIds |-> {}]
    /\ pc = [h \in Handlers |-> "idle"]
    /\ call = [h \in Handlers |-> NoCall]
    /\ reservation = [h \in Handlers |-> "none"]
    /\ verdict = [h \in Handlers |-> "none"]
    /\ reply = [h \in Handlers |-> "none"]
    /\ batch = [o \in Overviews |-> {}]
    /\ current = [o \in Overviews |-> NoRequest]
    /\ finding = [o \in Overviews |-> "none"]
    /\ name \in {f \in [Characters -> Names] :
                    \A c, d \in Characters : f[c] = f[d] => c = d}
    /\ renames = 0
    /\ queued = [r \in RequestIds |-> {}]
    /\ mails = [r \in RequestIds |-> <<>>]
    /\ issued = [r \in RequestIds |-> 0]
    /\ answered = [r \in RequestIds |-> {}]
    /\ faults = 0

-----------------------------------------------------------------------------
(* Helpers.                                                                *)

Goto(h, label) == pc' = [pc EXCEPT ![h] = label]

\* The call returns or throws: its slot is free again.
Return(h) ==
    /\ Goto(h, "idle")
    /\ call' = [call EXCEPT ![h] = NoCall]
    /\ reservation' = [reservation EXCEPT ![h] = "none"]
    /\ verdict' = [verdict EXCEPT ![h] = "none"]
    /\ reply' = [reply EXCEPT ![h] = "none"]

Answer(c, outcome) ==
    answered' = [answered EXCEPT ![c.request] = @ \cup
        {[character |-> c.character, stacks |-> c.stacks, outcome |-> outcome]}]

\* GET_LOCK succeeds on a free name, and again on the connection that kept it.
Available(holders) == holders \subseteq {IdleConnection}

ReleaseLock(h) ==
    requestLock' = [r \in RequestIds |-> requestLock[r] \ {h}]

\* mark: the UPDATE matches a row only while its status is one of these.
Markable_AnyRow == {"pending", "unknown", "sent", "failed"}
Markable == {"pending", "unknown"}

SetStatus(r, outcome) ==
    status' = [status EXCEPT ![r] = IF @ \in Markable THEN outcome ELSE @]

\* The mails with this request's body that the receiver still has items in.
MatchingMails(r) == {i \in 1 .. Len(mails[r]) :
                        /\ mails[r][i].to = row[r].character
                        /\ mails[r][i].left > 0}

\* inspectMatchingMail: all attachments must still be there.
Match(r) ==
    CASE MatchingMails(r) = {} -> "absent"
      [] \E i \in MatchingMails(r) : /\ MatchingMails(r) = {i}
                                     /\ mails[r][i].left = row[r].stacks -> "exact"
      [] OTHER -> "ambiguous"

FindingOf_AbsentMeansFailed(match) ==
    CASE match = "exact" -> "sent"
      [] match = "absent" -> "failed"
      [] match = "ambiguous" -> "unknown"
FindingOf_KeepsMatch(match) == IF match = "exact" THEN "sent" ELSE match
FindingOf(match) == IF match = "exact" THEN "sent" ELSE "unknown"

-----------------------------------------------------------------------------
(* requestItem: reserving the request.                                     *)

\* The item template and the character are read first: the name is the one
\* the command will be addressed to.
RequestItem(h, r, c, stacks) ==
    /\ pc[h] = "idle"
    /\ Goto(h, "requestLock")
    /\ call' = [call EXCEPT ![h] = [request |-> r, character |-> c,
                                    stacks |-> stacks, name |-> name[c]]]
    /\ UNCHANGED <<table, requestLock, reservation, verdict, reply, views,
                   world, issued, answered, faults>>

AcquireLock(h) ==
    /\ pc[h] = "requestLock"
    /\ Available(requestLock[call[h].request])
    /\ requestLock' = [requestLock EXCEPT ![call[h].request] = @ \cup {h}]
    /\ Goto(h, "find")
    /\ UNCHANGED <<table, call, reservation, verdict, reply, views, world,
                   issued, answered, faults>>

\* GET_LOCK gives up after 2 s on a name another connection holds.
LockTimeout(h) ==
    /\ pc[h] = "requestLock"
    /\ requestLock[call[h].request] # {}
    /\ ReleaseLock(h)
    /\ Return(h)
    /\ UNCHANGED <<table, views, world, issued, answered, faults>>

SameDetails(c, r) == c.character = row[r].character /\ c.stacks = row[r].stacks

\* SELECT ... FOR UPDATE by request ID: an existing row decides the result.
FindExisting(h) ==
    LET r == call[h].request IN
    /\ pc[h] = "find"
    /\ IF status[r] = "absent"
       THEN Goto(h, "insert") /\ UNCHANGED reservation
       ELSE /\ Goto(h, "release")
            /\ reservation' = [reservation EXCEPT ![h] =
                   IF SameDetails(call[h], r) THEN status[r] ELSE "conflict"]
    /\ UNCHANGED <<table, requestLock, call, verdict, reply, views, world,
                   issued, answered, faults>>

\* INSERT and COMMIT; the primary key admits one row for each request ID.
InsertRow(h) ==
    LET r == call[h].request IN
    /\ pc[h] = "insert"
    /\ status[r] = "absent"
    /\ status' = [status EXCEPT ![r] = "pending"]
    /\ row' = [row EXCEPT ![r] = [character |-> call[h].character,
                                  stacks |-> call[h].stacks]]

InsertPending(h) ==
    /\ InsertRow(h)
    /\ Goto(h, "release")
    /\ reservation' = [reservation EXCEPT ![h] = "inserted"]
    /\ UNCHANGED <<stale, requestLock, call, verdict, reply, views, world,
                   issued, answered, faults>>

\* The finally block of reserve.
ReleaseLocks(h) ==
    /\ pc[h] = "release"
    /\ ReleaseLock(h)
    /\ Goto(h, "reserved")
    /\ UNCHANGED <<table, call, reservation, verdict, reply, views, world,
                   issued, answered, faults>>

-----------------------------------------------------------------------------
(* requestItem: handleReservation, reconcileOrUnknown and mark.            *)

SendsCommand_RetriesDoubt(kind) == kind \in {"inserted", "unknown"}
SendsCommand(kind) == kind = "inserted"

\* Rejected without looking at the mail: other details, or a request that
\* another call is still working on.
Refused(h) ==
    /\ reservation[h] \in {"conflict", "pending"}
    /\ reservation[h] = "pending" => call[h].request \notin stale
    /\ Return(h)
    /\ UNCHANGED answered

ReplayFinal(h) ==
    /\ reservation[h] \in {"sent", "failed"}
    /\ Answer(call[h], reservation[h])
    /\ Return(h)

ReconcileExisting(h) ==
    /\ \/ reservation[h] = "unknown"
       \/ reservation[h] = "pending" /\ call[h].request \in stale
    /\ ~SendsCommand(reservation[h])
    /\ Goto(h, "inspect")
    /\ UNCHANGED <<call, reservation, verdict, reply, answered>>

HandleReservation(h) ==
    /\ pc[h] = "reserved"
    /\ Refused(h) \/ ReplayFinal(h) \/ ReconcileExisting(h)
    /\ UNCHANGED <<table, requestLock, views, world, issued, faults>>

\* The command is addressed to the name that was read before the reservation.
ExecuteCommand(h) ==
    LET r == call[h].request IN
    /\ pc[h] = "reserved"
    /\ SendsCommand(reservation[h])
    /\ queued' = [queued EXCEPT ![r] = @ \cup {call[h].name}]
    /\ issued' = [issued EXCEPT ![r] = @ + 1]
    /\ Goto(h, "awaiting")
    /\ UNCHANGED <<table, requestLock, call, reservation, verdict, reply,
                   views, name, renames, mails, answered, faults>>

\* The exact success or rejection text of the core.
ReceiveReply(h) ==
    /\ pc[h] = "awaiting"
    /\ reply[h] # "none"
    /\ verdict' = [verdict EXCEPT ![h] = reply[h]]
    /\ Goto(h, "mark")
    /\ UNCHANGED <<table, requestLock, call, reservation, reply, views, world,
                   issued, answered, faults>>

\* Timeout, transport error, SOAP fault or any other text: the mail decides.
ReplyUnusable(h) ==
    /\ pc[h] = "awaiting"
    /\ Goto(h, "inspect")
    /\ UNCHANGED <<table, requestLock, call, reservation, verdict, reply,
                   views, world, issued, answered, faults>>

InspectMatchingMail(h) ==
    /\ pc[h] = "inspect"
    /\ verdict' = [verdict EXCEPT ![h] = FindingOf(Match(call[h].request))]
    /\ Goto(h, "mark")
    /\ UNCHANGED <<table, requestLock, call, reservation, reply, views, world,
                   issued, answered, faults>>

Mark(h) ==
    /\ pc[h] = "mark"
    /\ SetStatus(call[h].request, verdict[h])
    /\ Answer(call[h], verdict[h])
    /\ Return(h)
    /\ UNCHANGED <<row, stale, requestLock, views, world, issued, faults>>

-----------------------------------------------------------------------------
(* getMetadata: reconcileStaleRequests.                                    *)

IsStalePending(a, r) ==
    /\ status[r] = "pending"
    /\ r \in stale
    /\ Owner[row[r].character] = a

FindStalePending(o, a) ==
    LET found == {r \in RequestIds : IsStalePending(a, r)} IN
    /\ batch[o] = {}
    /\ \E rows \in SUBSET found :
           /\ rows # {}
           /\ \/ rows = found /\ Cardinality(found) <= StaleBatchSize
              \/ Cardinality(rows) = StaleBatchSize
           /\ batch' = [batch EXCEPT ![o] = rows]
    /\ UNCHANGED <<table, requestLock, calls, current, finding, world, issued,
                   answered, faults>>

InspectStaleMail(o, r) ==
    /\ r \in batch[o]
    /\ current[o] = NoRequest
    /\ current' = [current EXCEPT ![o] = r]
    /\ finding' = [finding EXCEPT ![o] = FindingOf(Match(r))]
    /\ UNCHANGED <<table, requestLock, calls, batch, world, issued, answered,
                   faults>>

MarkStale(o) ==
    /\ current[o] # NoRequest
    /\ SetStatus(current[o], finding[o])
    /\ batch' = [batch EXCEPT ![o] = @ \ {current[o]}]
    /\ current' = [current EXCEPT ![o] = NoRequest]
    /\ finding' = [finding EXCEPT ![o] = "none"]
    /\ UNCHANGED <<row, stale, requestLock, calls, world, issued, answered,
                   faults>>

-----------------------------------------------------------------------------
(* Faults.                                                                 *)

Fault == faults < MaxFaults /\ faults' = faults + 1

\* The row is committed but the acknowledgement is lost: reserve throws.
CommitUnacknowledged(h) ==
    /\ Fault
    /\ InsertRow(h)
    /\ ReleaseLock(h)
    /\ Return(h)
    /\ UNCHANGED <<stale, views, world, issued, answered>>

\* A RELEASE_LOCK that fails is ignored: the connection goes back to the pool
\* with its session, and the name, alive.
ReleaseFails(h) ==
    /\ Fault
    /\ pc[h] = "release"
    /\ requestLock' = [r \in RequestIds |->
           IF h \in requestLock[r] THEN (requestLock[r] \ {h}) \cup {IdleConnection}
                                   ELSE requestLock[r]]
    /\ Goto(h, "reserved")
    /\ UNCHANGED <<table, call, reservation, verdict, reply, views, world,
                   issued, answered>>

\* A statement fails or its connection drops: the transaction rolls back and
\* the caller is told "unavailable".
DatabaseError(h) ==
    /\ Fault
    /\ pc[h] \notin {"idle", "release", "reserved", "awaiting"}
    /\ ReleaseLock(h)
    /\ Return(h)
    /\ UNCHANGED <<table, views, world, issued, answered>>

\* The UPDATE of mark was applied, its acknowledgement is lost.
MarkUnacknowledged(h) ==
    /\ Fault
    /\ pc[h] = "mark"
    /\ SetStatus(call[h].request, verdict[h])
    /\ Return(h)
    /\ UNCHANGED <<row, stale, requestLock, views, world, issued, answered>>

\* getMetadata answers that the boost is disabled; the rows are left as they
\* are.
OverviewError(o) ==
    /\ Fault
    /\ batch[o] # {}
    /\ batch' = [batch EXCEPT ![o] = {}]
    /\ current' = [current EXCEPT ![o] = NoRequest]
    /\ finding' = [finding EXCEPT ![o] = "none"]
    /\ UNCHANGED <<table, requestLock, calls, world, issued, answered>>

\* The process dies: calls and locks are gone, rows and posted commands stay.
Crash ==
    /\ Fault
    /\ pc' = [h \in Handlers |-> "idle"]
    /\ call' = [h \in Handlers |-> NoCall]
    /\ reservation' = [h \in Handlers |-> "none"]
    /\ verdict' = [h \in Handlers |-> "none"]
    /\ reply' = [h \in Handlers |-> "none"]
    /\ batch' = [o \in Overviews |-> {}]
    /\ current' = [o \in Overviews |-> NoRequest]
    /\ finding' = [o \in Overviews |-> "none"]
    /\ requestLock' = [r \in RequestIds |-> {}]
    /\ UNCHANGED <<table, world, issued, answered>>

-----------------------------------------------------------------------------
(* The game server and the players.                                        *)

ReplyToWaiting(r, text) ==
    reply' = [h \in Handlers |->
                 IF pc[h] = "awaiting" /\ call[h].request = r /\ reply[h] = "none"
                 THEN text ELSE reply[h]]

\* "send items" resolves the name when it executes.
WorldDelivers(r, c) ==
    /\ name[c] \in queued[r]
    /\ queued' = [queued EXCEPT ![r] = @ \ {name[c]}]
    /\ mails' = [mails EXCEPT ![r] = Append(@, [to |-> c, left |-> row[r].stacks])]
    /\ ReplyToWaiting(r, "sent")
    /\ UNCHANGED <<table, requestLock, pc, call, reservation, verdict, views,
                   name, renames, issued, answered, faults>>

\* Nobody has the name, or the core refuses the item.
WorldRejects(r, n) ==
    /\ n \in queued[r]
    /\ queued' = [queued EXCEPT ![r] = @ \ {n}]
    /\ ReplyToWaiting(r, "failed")
    /\ UNCHANGED <<table, requestLock, pc, call, reservation, verdict, views,
                   name, renames, mails, issued, answered, faults>>

\* The player takes one attachment.
PlayerTakesItem(r, i) ==
    /\ mails[r][i].left > 0
    /\ mails' = [mails EXCEPT ![r][i].left = @ - 1]
    /\ UNCHANGED <<table, requestLock, calls, views, name, renames, queued,
                   issued, answered, faults>>

Rename(c, n) ==
    /\ renames < MaxRenames
    /\ \A d \in Characters : name[d] # n
    /\ name' = [name EXCEPT ![c] = n]
    /\ renames' = renames + 1
    /\ UNCHANGED <<table, requestLock, calls, views, queued, mails, issued,
                   answered, faults>>

RequestGoesStale(r) ==
    /\ status[r] = "pending"
    /\ r \notin stale
    /\ stale' = stale \cup {r}
    /\ UNCHANGED <<status, row, requestLock, calls, views, world, issued,
                   answered, faults>>

-----------------------------------------------------------------------------

HandlerStep(h) ==
    \/ AcquireLock(h)
    \/ LockTimeout(h)
    \/ FindExisting(h)
    \/ InsertPending(h)
    \/ ReleaseLocks(h)
    \/ HandleReservation(h)
    \/ ExecuteCommand(h)
    \/ ReceiveReply(h)
    \/ ReplyUnusable(h)
    \/ InspectMatchingMail(h)
    \/ Mark(h)

Next ==
    \/ \E h \in Handlers :
          \/ \E r \in RequestIds, c \in Characters, n \in StackCounts :
                RequestItem(h, r, c, n)
          \/ HandlerStep(h)
          \/ CommitUnacknowledged(h)
          \/ ReleaseFails(h)
          \/ DatabaseError(h)
          \/ MarkUnacknowledged(h)
    \/ \E o \in Overviews :
          \/ \E a \in Accounts : FindStalePending(o, a)
          \/ \E r \in RequestIds : InspectStaleMail(o, r)
          \/ MarkStale(o)
          \/ OverviewError(o)
    \/ \E r \in RequestIds :
          \/ \E c \in Characters : WorldDelivers(r, c)
          \/ \E n \in Names : WorldRejects(r, n)
          \/ \E i \in DOMAIN mails[r] : PlayerTakesItem(r, i)
          \/ RequestGoesStale(r)
    \/ \E c \in Characters, n \in Names : Rename(c, n)
    \/ Crash

Spec == Init /\ [][Next]_vars

-----------------------------------------------------------------------------
(* Properties.                                                             *)

\* Whatever the retries, duplicates, crashes, lost acknowledgements and mails
\* that are half emptied, at most one "send items" command is ever posted for
\* a request ID (handleReservation sends only for the row it inserted).
AtMostOneCommand == \A r \in RequestIds : issued[r] <= 1

\* Every outcome a caller was told is about the items it asked for and agrees
\* with the row from then on (mark leaves "sent" and "failed" rows alone).
AnswersMatchLedger ==
    \A r \in RequestIds : \A t \in answered[r] :
        /\ status[r] # "absent"
        /\ t.character = row[r].character /\ t.stacks = row[r].stacks
        /\ t.outcome \in {"sent", "failed"} => status[r] = t.outcome
        /\ t.outcome = "unknown" => status[r] # "pending"

\* The table and the mails sent behave as the abstract ledger promises: what
\* is "failed" is never delivered, what is "sent" was delivered once.
Ledger == INSTANCE BoostLedger
             WITH ledger <- status,
                  delivered <- [r \in RequestIds |-> Len(mails[r])]
LedgerSpec == Ledger!Spec

\* specs/implemented/item-delivery-service-boost.md: a character renamed after
\* the reservation never makes the delivery go to another character.
NeverRedirected ==
    \A r \in RequestIds : \A i \in 1 .. Len(mails[r]) :
        mails[r][i].to = row[r].character

=============================================================================
