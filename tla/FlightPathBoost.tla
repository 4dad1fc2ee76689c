-------------------------- MODULE FlightPathBoost --------------------------
(***************************************************************************)
(* The flight path boost: one transaction over the portal's request table  *)
(* and the characters table of the game, with InnoDB's locks, against a    *)
(* game server that keeps its own copy of the taxi mask of a character     *)
(* from login to logout and takes no part in the transaction.              *)
(*                                                                         *)
(* An action is the code between two awaits of requestFlightPaths.  The    *)
(* locks of a transaction follow from how far it has come and need no      *)
(* variable.  A definition X_Y is a mutated form of the definition X below *)
(* it: a bug that the properties must notice; nothing else uses it.        *)
(***************************************************************************)
EXTENDS Naturals

CONSTANTS
    Handlers,      \* slots for concurrent calls
    RequestIds,    \* UUIDs chosen by the browsers
    GapOf,         \* GapOf[r]: the index gap a missing request ID falls into
    Characters,
    Nodes,         \* taxi nodes: the bits of a mask
    Grant,         \* Grant[c]: the nodes of the character's faction and class
    MaxFaults,     \* bound: database errors and process crashes
    NotLoaded,     \* the game server has no copy of the character
    NoRow,         \* no row with this request ID
    NoCall         \* input of an idle slot

VARIABLES
    row,       \* row[r]: the committed row of flight_path_boost_requests
    mask,      \* mask[c]: the committed taximask column
    online,    \* online[c]: the committed online column
    memory,    \* memory[c]: the mask the game server holds, or NotLoaded
    pc,        \* where the call is suspended
    call,      \* its input
    seen,      \* the mask the call read with the character
    doubtful,  \* transactions whose COMMIT got no answer
    answered,  \* answered[r]: successes reported to callers of r
    raced,     \* characters whose login had begun before a commit (history)
    faults     \* database errors and crashes so far

calls == <<pc, call, seen>>
world == <<online, memory>>
vars == <<row, mask, world, calls, doubtful, answered, raced, faults>>

Masks == SUBSET Nodes
Results == {"learned", "already-known"}
Records == [character : Characters, result : Results]
Inputs == [request : RequestIds, character : Characters]
Transactions == [request : RequestIds, character : Characters, seen : Masks]
PCs == {"idle", "find", "character", "insert", "update", "complete",
        "commit", "reconcile"}

TypeOK ==
    /\ row \in [RequestIds -> Records \cup {NoRow}]
    /\ mask \in [Characters -> Masks]
    /\ online \in [Characters -> BOOLEAN]
    /\ memory \in [Characters -> Masks \cup {NotLoaded}]
    /\ pc \in [Handlers -> PCs]
    /\ call \in [Handlers -> Inputs \cup {NoCall}]
    /\ seen \in [Handlers -> Masks]
    /\ doubtful \in SUBSET Transactions
    /\ answered \in [RequestIds -> SUBSET Records]
    /\ raced \in SUBSET Characters
    /\ faults \in 0 .. MaxFaults

Init ==
    /\ row = [r \in RequestIds |-> NoRow]
    /\ mask \in [Characters -> Masks]
    /\ online = [c \in Characters |-> FALSE]
    /\ memory = [c \in Characters |-> NotLoaded]
    /\ pc = [h \in Handlers |-> "idle"]
    /\ call = [h \in Handlers |-> NoCall]
    /\ seen = [h \in Handlers |-> {}]
    /\ doubtful = {}
    /\ answered = [r \in RequestIds |-> {}]
    /\ raced = {}
    /\ faults = 0

-----------------------------------------------------------------------------
(* The transaction and its locks.                                          *)

Goto(h, label) == pc' = [pc EXCEPT ![h] = label]

Return(h) ==
    /\ Goto(h, "idle")
    /\ call' = [call EXCEPT ![h] = NoCall]
    /\ seen' = [seen EXCEPT ![h] = {}]

\* ROLLBACK: nothing a transaction wrote was visible to anybody.
Abort(h) == Return(h) /\ UNCHANGED <<row, mask, world, doubtful, answered, raced>>

\* SELECT ... FOR UPDATE of a missing request ID locks the gap it would be in,
\* and that of the character its row, until the transaction ends.
HoldsGap(h) == pc[h] \in {"character", "insert", "update", "complete", "commit"}
HoldsCharacter(h) == pc[h] \in {"insert", "update", "complete", "commit"}
HasInserted(h) == pc[h] \in {"update", "complete", "commit"}

RowLocked(c) ==
    \/ \E h \in Handlers : HoldsCharacter(h) /\ call[h].character = c
    \/ \E t \in doubtful : t.character = c

\* Another transaction holds what the statement of h asks for: a row inserted
\* and not committed, the character, the gap.
Blocked(h) ==
    LET r == call[h].request
        others == {g \in Handlers : g # h}
    IN  \/ /\ pc[h] = "find"
           /\ \/ \E g \in others : HasInserted(g) /\ call[g].request = r
              \/ \E t \in doubtful : t.request = r
        \/ pc[h] = "character" /\ RowLocked(call[h].character)
        \/ /\ pc[h] = "insert"
           /\ \/ \E g \in others : HoldsGap(g) /\ GapOf[call[g].request] = GapOf[r]
              \/ \E t \in doubtful : GapOf[t.request] = GapOf[r]

\* calculateFlightPathGrant.
LoggedOut_Unchecked(c) == TRUE
LoggedOut(c) == ~online[c]
NewMask_Replaces(c, old) == Grant[c]
NewMask(c, old) == old \cup Grant[c]
ResultOf(c, old) == IF Grant[c] \subseteq old THEN "already-known" ELSE "learned"

TransactionOf(h) == [request |-> call[h].request,
                     character |-> call[h].character, seen |-> seen[h]]
RecordOf(t) == [character |-> t.character, result |-> ResultOf(t.character, t.seen)]

Report(r, record) == answered' = [answered EXCEPT ![r] = @ \cup {record}]

\* COMMIT makes the row and the mask visible together.
Committed(t) ==
    /\ row' = [row EXCEPT ![t.request] = RecordOf(t)]
    /\ mask' = [mask EXCEPT ![t.character] =
           IF RecordOf(t).result = "learned" THEN NewMask(t.character, t.seen) ELSE @]
    /\ raced' = IF memory[t.character] # NotLoaded /\ ~online[t.character]
                THEN raced \cup {t.character} ELSE raced

-----------------------------------------------------------------------------
(* requestFlightPaths: apply.                                              *)

RequestFlightPaths(h, c) ==
    /\ pc[h] = "idle"
    /\ Goto(h, "find")
    /\ call' = [call EXCEPT ![h] = c]
    /\ UNCHANGED <<row, mask, world, seen, doubtful, answered, raced, faults>>

\* An existing row is answered: a conflict, or a replay of its result.  A
\* committed row is never "pending", because one transaction completes it.
FindRequest(h) ==
    LET r == call[h].request IN
    /\ pc[h] = "find"
    /\ ~Blocked(h)
    /\ \/ row[r] = NoRow /\ Goto(h, "character") /\ UNCHANGED <<call, seen, answered>>
       \/ /\ row[r] # NoRow
          /\ IF row[r].character = call[h].character
             THEN Report(r, row[r]) ELSE UNCHANGED answered
          /\ Return(h)
    /\ UNCHANGED <<row, mask, world, doubtful, raced, faults>>

\* The character is not this account's, or was deleted.
OwnershipFails(h) ==
    /\ pc[h] = "character"
    /\ ~Blocked(h)
    /\ Abort(h)
    /\ UNCHANGED faults

\* A character that is online is refused: nothing is written.
LockCharacter(h) ==
    LET c == call[h].character IN
    /\ pc[h] = "character"
    /\ ~Blocked(h)
    /\ \/ /\ LoggedOut(c)
          /\ Goto(h, "insert")
          /\ seen' = [seen EXCEPT ![h] = mask[c]]
          /\ UNCHANGED <<row, mask, world, call, doubtful, answered, raced>>
       \/ ~LoggedOut(c) /\ Abort(h)
    /\ UNCHANGED faults

\* A row that another call committed since: a duplicate key, and a rollback.
InsertRequest(h) ==
    /\ pc[h] = "insert"
    /\ ~Blocked(h)
    /\ IF row[call[h].request] # NoRow THEN Abort(h)
       ELSE /\ Goto(h, IF ResultOf(call[h].character, seen[h]) = "learned"
                       THEN "update" ELSE "complete")
            /\ UNCHANGED <<row, mask, world, call, seen, doubtful, answered, raced>>
    /\ UNCHANGED faults

\* The UPDATE asks again for what was read under the lock.
UpdateMask(h) ==
    LET c == call[h].character IN
    /\ pc[h] = "update"
    /\ IF LoggedOut(c) /\ mask[c] = seen[h]
       THEN /\ Goto(h, "complete")
            /\ UNCHANGED <<row, mask, world, call, seen, doubtful, answered, raced>>
       ELSE Abort(h)
    /\ UNCHANGED faults

CompleteRequest(h) ==
    /\ pc[h] = "complete"
    /\ Goto(h, "commit")
    /\ UNCHANGED <<row, mask, world, call, seen, doubtful, answered, raced, faults>>

Commit(h) ==
    LET t == TransactionOf(h) IN
    /\ pc[h] = "commit"
    /\ Committed(t)
    /\ Report(t.request, RecordOf(t))
    /\ Return(h)
    /\ UNCHANGED <<world, doubtful, faults>>

Reconcile_TrustsTheCommit(h) ==
    LET r == call[h].request IN
    /\ pc[h] = "reconcile"
    /\ Report(r, RecordOf(TransactionOf(h)))
    /\ Return(h)
    /\ UNCHANGED <<row, mask, world, doubtful, raced, faults>>

\* reconcileAfterAmbiguousCommit: the row, if another connection can see it,
\* proves that the transaction, or a duplicate of it, was committed.
Reconcile(h) ==
    LET r == call[h].request IN
    /\ pc[h] = "reconcile"
    /\ IF row[r] # NoRow /\ row[r].character = call[h].character
       THEN Report(r, row[r]) ELSE UNCHANGED answered
    /\ Return(h)
    /\ UNCHANGED <<row, mask, world, doubtful, raced, faults>>

-----------------------------------------------------------------------------
(* The database and faults.                                                *)

Fault == faults < MaxFaults /\ faults' = faults + 1

\* InnoDB breaks a cycle of waiting transactions; a statement that waits for
\* another reason is given up after 8 s.
WaitEnds(h) ==
    /\ Blocked(h)
    /\ Abort(h)
    /\ UNCHANGED faults

DatabaseError(h) ==
    /\ Fault
    /\ pc[h] # "idle"
    /\ Abort(h)

\* The connection breaks while it commits: the server has not heard of the
\* COMMIT, or executes it sooner or later.
CommitFails(h) ==
    /\ Fault
    /\ pc[h] = "commit"
    /\ doubtful' = doubtful \cup {TransactionOf(h)}
    /\ Goto(h, "reconcile")
    /\ UNCHANGED <<row, mask, world, call, seen, answered, raced>>

\* The portal dies: a commit on its way may still be executed.
Crash ==
    /\ Fault
    /\ doubtful' = doubtful \cup {TransactionOf(h) : h \in {g \in Handlers : pc[g] = "commit"}}
    /\ pc' = [h \in Handlers |-> "idle"]
    /\ call' = [h \in Handlers |-> NoCall]
    /\ seen' = [h \in Handlers |-> {}]
    /\ UNCHANGED <<row, mask, world, answered, raced>>

DoubtfulCommits(t) ==
    /\ Committed(t)
    /\ doubtful' = doubtful \ {t}
    /\ UNCHANGED <<world, calls, answered, faults>>

DoubtfulRollsBack(t) ==
    /\ doubtful' = doubtful \ {t}
    /\ UNCHANGED <<row, mask, world, calls, answered, raced, faults>>

-----------------------------------------------------------------------------
(* The game server: it reads a character without a lock when the player    *)
(* logs in, sets the online flag a little later, and writes from memory;   *)
(* its UPDATEs wait for the portal's row lock.                             *)

Load(c) ==
    /\ memory[c] = NotLoaded
    /\ memory' = [memory EXCEPT ![c] = mask[c]]
    /\ UNCHANGED <<row, mask, online, calls, doubtful, answered, raced, faults>>

SetOnline(c) ==
    /\ memory[c] # NotLoaded
    /\ ~online[c] /\ ~RowLocked(c)
    /\ online' = [online EXCEPT ![c] = TRUE]
    /\ UNCHANGED <<row, mask, memory, calls, doubtful, answered, raced, faults>>

Discover(c, n) ==
    /\ online[c]
    /\ n \notin memory[c]
    /\ memory' = [memory EXCEPT ![c] = @ \cup {n}]
    /\ UNCHANGED <<row, mask, online, calls, doubtful, answered, raced, faults>>

Save(c) ==
    /\ online[c] /\ ~RowLocked(c)
    /\ mask' = [mask EXCEPT ![c] = memory[c]]
    /\ UNCHANGED <<row, world, calls, doubtful, answered, raced, faults>>

Logout(c) ==
    /\ online[c] /\ ~RowLocked(c)
    /\ mask' = [mask EXCEPT ![c] = memory[c]]
    /\ memory' = [memory EXCEPT ![c] = NotLoaded]
    /\ online' = [online EXCEPT ![c] = FALSE]
    /\ UNCHANGED <<row, calls, doubtful, answered, raced, faults>>

\* A game server that restarts takes nobody for online.
WorldRestarts ==
    /\ \A c \in Characters : ~RowLocked(c)
    /\ memory' = [c \in Characters |-> NotLoaded]
    /\ online' = [c \in Characters |-> FALSE]
    /\ UNCHANGED <<row, mask, calls, doubtful, answered, raced, faults>>

-----------------------------------------------------------------------------

Next ==
    \/ \E h \in Handlers :
          \/ \E c \in Inputs : RequestFlightPaths(h, c)
          \/ FindRequest(h)
          \/ OwnershipFails(h)
          \/ LockCharacter(h)
          \/ InsertRequest(h)
          \/ UpdateMask(h)
          \/ CompleteRequest(h)
          \/ Commit(h)
          \/ Reconcile(h)
          \/ WaitEnds(h)
          \/ DatabaseError(h)
          \/ CommitFails(h)
    \/ \E t \in doubtful : DoubtfulCommits(t) \/ DoubtfulRollsBack(t)
    \/ \E c \in Characters :
          \/ Load(c)
          \/ SetOnline(c)
          \/ \E n \in Nodes : Discover(c, n)
          \/ Save(c)
          \/ Logout(c)
    \/ WorldRestarts
    \/ Crash

Spec == Init /\ [][Next]_vars

-----------------------------------------------------------------------------
(* Properties.                                                             *)

\* A character whose request was committed has its flight paths, in the table
\* and in the game, unless a login had begun, with the online flag not yet
\* set, when the transaction committed: specs/implemented/
\* flight-risk-flight-path-boost.md accepts that race and no other.
AppliedIsLearned ==
    \A r \in RequestIds :
        row[r] # NoRow /\ row[r].character \notin raced
        => LET c == row[r].character
           IN  /\ Grant[c] \subseteq mask[c]
               /\ memory[c] # NotLoaded => Grant[c] \subseteq memory[c]

\* Success is only reported of a committed row and is never contradicted: all
\* callers of a request hear of the same character and the same result,
\* though commits are left in doubt and decided later (apply() and
\* reconcileAfterAmbiguousCommit()).
AnswersAreCommitted ==
    \A r \in RequestIds : answered[r] \subseteq {row[r]} \ {NoRow}

\* The boost never takes a flight path away, whatever the player discovered
\* since the page was opened: only a save of the game server may.
NeverForgets ==
    [][\A c \in Characters :
          ~(mask[c] \subseteq mask'[c]) => online[c] /\ mask'[c] = memory[c]]_vars

=============================================================================
